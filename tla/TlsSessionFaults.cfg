SPECIFICATION FairSpec
CONSTANTS
    DownData <- MCDown2
    UpData <- MCUp2
    ChunkLimit = 1
    FinRecords = {1, 2}
    HsBodies <- MCHsSome
    MaxControl = 1
    MaxCalls = 2
    MaxFails = 1
    MaxBad = 1
    MaxQueue = 2
INVARIANTS
    ConnectedMeansFinished
PROPERTIES
    TornIsLast
    ImplementsChannel
    CallsReturn
