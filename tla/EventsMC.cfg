CONSTANTS
    Appender = {a, b}
    MaxEvents = 3
    SendCap = 1
    QueryLimit = 2
    MaxFaults = 1
    Session = {s1, s2}
    Watched = s1
    MaxRows = 3
    PageSize = 1
    Capacity = 1
    MaxUpdates = 4
    MaxUnstored = 1
    EventLimit = 3
    Budget = {0, 1, 3}
    DefaultBudget = 2
    NoteSize = 1
    Prompt = {p1, p2}
    Device = {d1}
    File = {"f", "g", "h", "x"}
    Report <- EditorReports
    Outside = {"x"}
    Limit = 2
    Embeds = TRUE
    MaxChanges = 1
SPECIFICATION MCSpec
INVARIANTS
    
    ReadersAreTold
    ExportIsFaithful
    PromptsTell

    
CHECK_DEADLOCK FALSE
