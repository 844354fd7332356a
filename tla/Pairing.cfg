SPECIFICATION Spec
CONSTANTS
    Peer = {p1}
    Path = {w1}
    MaxCodes = 2
    MaxDevices = 2
    MaxActions = 2
    MaxConns = 1
    MaxTime = 2
    MaxCalls = 4
    MaxFaults = 1
    MaxRestarts = 1
    SessionTTL = 2
    InactivityTTL = 1
    PersistThrottle = 1
    Window = 2
    BaseLockout = 1
    MaxLockout = 2
    Grace = 1
    MaxAttempts = 2
    Burst = 2
    Rate = 1
    IdleTTL = 2
    EvictThreshold = 0
INVARIANTS
    OneDevicePerCode
    RevokedHasNoAccess
CHECK_DEADLOCK FALSE
