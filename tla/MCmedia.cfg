SPECIFICATION Spec
CONSTANTS
    Timestamps <- FewFrames
    FirstSeq <- Offsets
    FramesKeepOrder = TRUE
    SeqMod = 4
    NearWrap = 2
    FarFromWrap = 2
    MinStart = 1
    MinDuration = 1
    CollectInterval = 1
    DurationMod = 64
    Epoch = 4
    MaxTime = 3
    Window = 2
    MaxDuplicates = 1
INVARIANTS
    CountedWithinTruth
    StartAnnouncedOnce
CHECK_DEADLOCK FALSE
