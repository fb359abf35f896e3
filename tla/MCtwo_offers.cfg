SPECIFICATION Spec
CONSTANTS
    MaxStreams = 1
    MaxOffers = 2
    ManagerCount = 1
    StartCount = 1
    CreateInterval = 1
    CreateCount = 0
    MaxCount = 0
    Faults <- AllFaults
INVARIANTS
    AnnouncedSessionClosable
    ClosedIsUnregistered
PROPERTIES
    FirstErrorKept
    StreamingLostOnlyToSignalling
    RegistrySpec
