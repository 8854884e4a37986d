SPECIFICATION FlightSpec
CONSTANTS
    MAX_MSGS = 3
    MAX_FRAGS = 2
    ARENA = 8
    Flight <- MCFlight
    FINISHED = "fin"
    base_seq = 1
    SEQ_MAX = 65535
    FLIGHT_BUF = 20
    Payloads = {0, 63, 64, 1499, 1500}
    Rooms = {60, 2048}
    Sessions <- MCSessions
    Datagrams <- MCDatagrams
INVARIANTS
    ArenaHolds
    CompleteWhenAll
    SerializedInOrder
    HandshakeFits
PROPERTIES
    FlightFed
    ConformingTaken
