CONSTANTS
    FLIGHT = 330
    MAX_CHAIN = 4
    CAP = 3
    MaxCcs = 1
    Scenarios <- MCScenarios
    Pki <- MCPki
    Signed <- MCSigned
SPECIFICATION Spec
CHECK_DEADLOCK FALSE
INVARIANTS
    AcceptsExactly
    ChainJudgedRight
    HostJudgedRight
    ParsersAgree
    KeysAgree
    ClientFlightFits
    HelloAsSized
