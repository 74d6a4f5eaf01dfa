SPECIFICATION FairSpec
CONSTANTS
    Workers = {w1}
    Folders <- TwoRepos
    Of <- OneInAB
    Checked = {A, B}
    Config <- ConfigChange
    Orders <- DefaultOrder
    AsksFirst = FALSE
    Callers = {"queen"}
    Races = {}
    Trouble = FALSE
    MaxAttempts = 2
    MaxLands = 2
    MaxHuman = 1
    MaxWork = 1
    MaxCrashes = 1
    JobIds = {"j1", "j2", "j3", "j4"}
    CardIds = {"c1", "c2", "c3"}
    Human = Human
    w1 = w1
    w2 = w2
    A = A
    B = B
    None = None
INVARIANTS
    AwaitingHasCard
PROPERTIES
    ChecksPass LandEnds
CHECK_DEADLOCK FALSE
