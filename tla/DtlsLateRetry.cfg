SPECIFICATION Spec
CONSTANTS
    SEQ_MAX = 40
    STEP = 16
    MAX_FLIGHT_ATTEMPTS = 2
    MAX_FLIGHT_DATAGRAMS = 6
    MAX_ACK_RECORDS = 6
    MaxFlights = 3
    Layouts <- MCLayouts
INVARIANTS HandshakeMeansDeviation
