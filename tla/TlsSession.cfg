SPECIFICATION Spec
CONSTANTS
    DownData <- MCDown2
    UpData <- MCUp2
    ChunkLimit = 1
    FinRecords = {1}
    HsBodies <- MCHsBodies
    MaxControl = 3
    MaxCalls = 4
    MaxFails = 0
    MaxBad = 0
    MaxQueue = 2
INVARIANTS
    InSync
    HonestNeverRefused
    IdleIsFlushed
PROPERTIES
    NothingOverwritten
