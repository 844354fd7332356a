CONSTANTS
    MaxOps = 3
    MaxGen = 3
    MaxRestarts = 1
    MaxFaults = 1
    OtherSessions = TRUE
SPECIFICATION Spec
INVARIANTS
    AgentIsKnown
    AdmittedIsHeard
    RunningIsOwned
PROPERTIES
    ConversationSurvives
    CancelSticks
CHECK_DEADLOCK FALSE
