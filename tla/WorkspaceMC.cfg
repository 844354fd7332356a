SPECIFICATION MCSpec
CONSTANTS
    root = root
    outer = outer
    inner = inner
    f = f
    g = g
    v1 = v1
    v2 = v2
    laptop = laptop
    Root = root
    Dir = {outer, inner}
    File = {f, g}
    Parent <- Tree
    Content = {v1, v2}
    Binary = {v2}
    Device = {laptop}
    Start <- FileSystems
    Requests <- Asked
    EmitCapacity = 1
    MaxOps = 2
    MaxExternal = 1
    MaxDrops = 1
    project = project
    crate = crate
    top = top
    sub = sub
    t1 = t1
    t2 = t2
    Ws = {project, crate}
    Covered = {top, sub}
    Covers <- Nested
    TabInputs <- Inputs
    TabId = {t1, t2}
    MaxTabs = 1
    MaxCalls = 3
    MaxBusy = 2
    MaxFaults = 1
INVARIANTS
    OnlyRacesClobber
    
    
CHECK_DEADLOCK FALSE
