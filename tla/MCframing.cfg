SPECIFICATION Spec
CONSTANTS
    Frames <- LongFrames
    HandshakeSize = 3
    Len16 = 3
    Len64 = 5
    Garbage = Garbage
    MaxFrames = 3
INVARIANTS
    NothingHeldBack
PROPERTIES
    FramesSpec
CHECK_DEADLOCK FALSE
