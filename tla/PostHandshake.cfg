SPECIFICATION Spec
CONSTANTS
    HDR = 2
    Streams <- MCStreams
    MaxLen = 5
INVARIANTS
    CarriesExactly
    UpdatesInOrder
    RefusedForCause
