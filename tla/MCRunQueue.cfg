SPECIFICATION Spec
CONSTANTS
    j1 = j1
    j2 = j2
    j3 = j3
    build = build
    db = db
    t1 = t1
    t2 = t2
    Jobs = {j1, j2, j3}
    Hive <- MCHive
    Keys = {build}
    Pools = {build}
    Cap <- MCCap
    Needs <- MCNeeds
    Share <- MCShare
    Copies = {db}
    Leases <- MCLeases
    Acts = {"stop"}
    Tickers = {t1, t2}
INVARIANTS
    TypeOK Possession Capacity Ticking
PROPERTIES
    HeldUntilFree HeldGoesFirst
CHECK_DEADLOCK FALSE
