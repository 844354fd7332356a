CONSTANTS
    MaxRequests = 3
    MaxCreates = 2
    MaxLines = 1
    MaxTerminals = 1
    MaxTasks = 2
    Lively = {1}
    Written = {"out"}
SPECIFICATION FairSpec
INVARIANTS
    FinalOutput
    NoUnreachable
PROPERTIES
    RequestsAnswered
    StopReachesAll
CHECK_DEADLOCK FALSE
