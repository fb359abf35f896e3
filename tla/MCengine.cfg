SPECIFICATION Spec
CONSTANTS
    PoolCount = 3
    Sockets = {s1, s2, s3, s4, s5}
    IndexKeyMaxSize = 3
SYMMETRY Symmetry
INVARIANTS
    SocketsOwnedOnce
    KeyFindsItsObject
    ServiceAlwaysThere
    ReleasedStaysReleased
CHECK_DEADLOCK FALSE
