SPECIFICATION Spec
CONSTANTS
    Value = {v1, v2}
    Default = v1
    Server = {s1}
    Configured <- OneRestricted
    Req = {r1, r2}
    MaxRequests = 3
    MaxChanges = 1
    MaxFaults = 1
INVARIANTS
    
    TranscriptWaits
SYMMETRY Symmetry
CHECK_DEADLOCK FALSE
