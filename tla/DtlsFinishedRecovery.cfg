SPECIFICATION FairSpec
CONSTANTS
    WINDOW = 1
    SEQ_MAX = 2
    STEP = 4
    MAX_FLIGHT_ATTEMPTS = 2
    Payloads = {1, 2}
    PEER_LIMIT = 2
    HelloFirst = {FALSE}
    HalfRtt = FALSE
    AckHonoured = FALSE
    Gaps = {0}
    MaxRecords = 2
    MaxDatagrams = 3
    MaxCoalesced = 2
    MaxSends = 2
    MaxCorrupt = 1
    MaxLost = 2
PROPERTIES FinishedRecovered
