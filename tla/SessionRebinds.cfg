CONSTANTS
    MaxOps = 4
    MaxGen = 3
    MaxRestarts = 0
    MaxFaults = 0
    OtherSessions = FALSE
SPECIFICATION RequestsSpec
INVARIANTS
    OneActor
CHECK_DEADLOCK FALSE
