SPECIFICATION Spec
CONSTANTS
    MaxStreams = 3
    MaxOffers = 1
    ManagerCount = 2
    StartCount = 1
    CreateInterval = 1
    CreateCount = 2
    MaxCount = 2
    Faults <- NoFaults
INVARIANTS
    KeysReachTheRightSession
    CreatedWithinLimits
