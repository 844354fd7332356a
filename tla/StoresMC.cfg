SPECIFICATION MCSpec
CONSTANTS
    MaxOps = 2
    MaxStarts = 2
    MaxFaults = 2
    MaxPairs = 2
    s1 = s1
    s2 = s2
    r1 = r1
    r2 = r2
    d1 = d1
    d2 = d2
    a = a
    b = b
    v1 = v1
    v2 = v2
    n1 = n1
    n2 = n2
    Device <- Devices
    MaxEdits = 1
    MaxFailures = 1
    Session <- Sessions
    Size = {1, 2}
    SessionQuota = 3
    Caller <- Callers
    MaxUploads = 3
    Path <- Files
    Content <- Contents
    History <- TwoCommits
    MaxCalls = 4
    Id = {"code", "review"}
    Builtin = {"code"}
    DefaultId = "code"
    Server = {"one", "two"}
    McpDocument <- McpDocuments
    ProfileDocument <- ProfileDocuments
    MaxChanges = 3
    Agent = {"A", "B"}
    Loads = {"A"}
    Name <- Names
    MaxRequests = 3
INVARIANTS
    
    UploadsAreKept
    
    
    RecordsAreKept
PROPERTIES
    ConfigIsDurable
    
    PreviewIsKept
CHECK_DEADLOCK FALSE
