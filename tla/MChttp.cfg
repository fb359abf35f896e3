SPECIFICATION Spec
CONSTANTS
    Requests <- MCRequests
    CorsOriginList = {"listed"}
    NoOrigin = "none"
    MaxData = 5
    AnswerSizes = {0, 2}
    MaxRequests = 3
    Garbage = 0
INVARIANTS
    AnsweredBeforeClose
    CorsAsAsked
PROPERTIES
    ContentsInOrder
CHECK_DEADLOCK FALSE
