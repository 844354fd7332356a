CONSTANTS
    MaxOps = 3
    MaxGen = 2
    MaxRestarts = 0
    MaxFaults = 0
    OtherSessions = FALSE
SPECIFICATION FairSpec
PROPERTIES
    RunningEnds
    InterruptedEnds
CHECK_DEADLOCK FALSE
