SPECIFICATION Spec
CONSTANTS
    Workers = {w1, w2}
    Folders <- OneRepo
    Of <- TwoInA
    Checked = {A}
    Config = {}
    Orders <- DefaultOrder
    AsksFirst = TRUE
    Callers = {"queen"}
    Races = {"early end", "ends together"}
    Trouble = FALSE
    MaxAttempts = 2
    MaxLands = 3
    MaxHuman = 0
    MaxWork = 2
    MaxCrashes = 0
    JobIds = {"j1", "j2", "j3", "j4"}
    CardIds = {"c1", "c2", "c3"}
    Human = Human
    w1 = w1
    w2 = w2
    A = A
    B = B
    None = None
INVARIANTS
    LockHeld LandedIsReviewed
CHECK_DEADLOCK FALSE
