SPECIFICATION Spec
CONSTANTS
    RECV = 7
    TLS_HEADER = 2
    AEAD_TAG = 1
    MIN_LIMIT = 1
    MAX_LIMIT = 3
    AuthFlightLen = 6
    BodyLens = {2, 4, 5, 6}
    MaxRecords = 4
INVARIANTS
    BufferHoldsStream
