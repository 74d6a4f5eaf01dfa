SPECIFICATION Spec
CONSTANTS
    Workers = {w1}
    Folders <- TwoRepos
    Of <- OneInAB
    Checked = {B}
    Config <- ConfigChange
    Orders <- BothOrders
    AsksFirst = TRUE
    Callers = {"queen"}
    Races = {"early end", "ends together", "quick human"}
    Trouble = TRUE
    MaxAttempts = 2
    MaxLands = 2
    MaxHuman = 2
    MaxWork = 1
    MaxCrashes = 1
    JobIds = {"j1", "j2", "j3", "j4"}
    CardIds = {"c1", "c2", "c3"}
    Human = Human
    w1 = w1
    w2 = w2
    A = A
    B = B
    None = None
INVARIANTS
    TypeOK LandsLogged
PROPERTIES
    LandedKept ConfigApproved
CHECK_DEADLOCK FALSE
