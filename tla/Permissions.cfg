CONSTANTS
    s1 = s1
    s2 = s2
    edit = edit
    f1 = f1
    c1 = c1
    MaxCalls = 2
    MaxInFlight = 2
    Session <- MCSession
    NoSession = NoSession
    Tool <- MCTool
    Item <- MCItem
    NoItem = NoItem
    ToolCall <- MCToolCall
    NoCall = NoCall
    Prompt <- MCPrompt
    MaxAudit = 2
SPECIFICATION FairSpec
INVARIANTS
    OneSenderPerWaiter
    CachedDecisionsWereGiven
    TimeoutMeansDenied
PROPERTIES
    EveryPromptResolves
    VerdictIsFinal
CHECK_DEADLOCK FALSE
