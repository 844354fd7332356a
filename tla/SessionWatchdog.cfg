CONSTANTS
    MaxOps = 2
    MaxGen = 2
    MaxRestarts = 0
    MaxFaults = 0
    OtherSessions = TRUE
SPECIFICATION FairSpec
PROPERTIES
    RunningEnds
CHECK_DEADLOCK FALSE
