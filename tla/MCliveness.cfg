SPECIFICATION FairSpec
CONSTANTS
    MaxStreams = 1
    MaxOffers = 1
    ManagerCount = 1
    StartCount = 1
    CreateInterval = 1
    CreateCount = 0
    MaxCount = 0
    Faults <- AllFaults
PROPERTIES
    FailedStreamIsCollected
    IdleStreamIsCollected
    LostSignallingEndsStream
    CollectedSessionCloses
