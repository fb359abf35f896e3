SPECIFICATION Spec
CONSTANTS
    Timers <- MCTimers
    InitialTimers <- MCInitialTimers
    StartTimer = "start"
    CreateTimer = "create"
    Elapse <- MCElapse
    Resolution = 1
    TickModulus = 8
    StartTime = 0
    MaxTime = 17
INVARIANTS
    StartsOnce
    ScanLeavesNoneDue
PROPERTIES
    NeverEarly
CHECK_DEADLOCK FALSE
