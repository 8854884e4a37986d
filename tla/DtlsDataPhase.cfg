SPECIFICATION Spec
CONSTANTS
    WINDOW = 3
    SEQ_MAX = 9
    STEP = 8
    MAX_FLIGHT_ATTEMPTS = 1
    Payloads = {1}
    PEER_LIMIT = 1
    HelloFirst = {TRUE, FALSE}
    HalfRtt = FALSE
    AckHonoured = FALSE
    Gaps = {0, 2, 5}
    MaxRecords = 9
    MaxDatagrams = 3
    MaxCoalesced = 2
    MaxSends = 0
    MaxCorrupt = 0
    MaxLost = 0
INVARIANTS TypeOK AtMostOnce WindowExact CoalescedNotHidden
PROPERTIES ImplementsService
