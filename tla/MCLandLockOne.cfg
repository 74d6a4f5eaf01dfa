SPECIFICATION FairSpec
CONSTANTS
    None = None
    l1 = l1
    l2 = l2
    l3 = l3
    p1 = p1
    Procs = {p1}
    Lands = {l1, l2, l3}
    ProcOf <- MCProcOf
    Pids = {1, 2}
    MayCrash = {p1}
    MayStall = TRUE
    DiskFails = TRUE
    MayTimeOut = TRUE
INVARIANTS TypeOK HolderNamed
PROPERTIES SomeoneGets
