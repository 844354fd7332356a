SPECIFICATION MCSpec
CONSTANTS
    Pid = {p1, p2}
    Ws = {w1}
    Command = {c1, c2}
    MaxCommands = 4
    MaxSaves = 1
    MaxFaults = 1
    Caller = {r1, r2}
    Talkative = {r1}
    Machine <- Hosts
    PathDirs <- Path
    Lines <- Printed
    Configs <- Options
    MaxProbeOutput = 1
    MaxSaid = 4
    MaxLost = 1
INVARIANTS
    
    PidNamesServer
    ProbesAreClean

    
CHECK_DEADLOCK FALSE
