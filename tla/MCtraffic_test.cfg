SPECIFICATION FairSpec
CONSTANTS
    StartCount = 2
    SenderCount = 1
    FirstNumber = 1
    MaxNumber = 4
INVARIANTS
    ReportWithinTruth

    
CHECK_DEADLOCK FALSE
