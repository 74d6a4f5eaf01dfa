SPECIFICATION FairSpec
CONSTANTS
    None = None
    l1 = l1
    l2 = l2
    l3 = l3
    dev = dev
    prod = prod
    Procs = {dev, prod}
    Lands = {l1, l2, l3}
    ProcOf <- MCProcOf
    Pids = {1, 2, 3}
    MayCrash = {dev}
    MayStall = FALSE
    DiskFails = FALSE
    MayTimeOut = FALSE
INVARIANTS Serialized
