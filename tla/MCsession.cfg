SPECIFICATION FairSpec
CONSTANTS
    Flights = 2
    MaxRequests = 1
INVARIANTS
    ServerFindsTransport
    BufferedIsUsed
PROPERTIES
    SetupSpec
    HandshakeCompletes
    RemovedIsReleased
CHECK_DEADLOCK FALSE
