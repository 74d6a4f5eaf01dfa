SPECIFICATION Spec
CONSTANTS
    Workers = {w1}
    Folders <- TwoRepos
    Of <- OneInAB
    Checked = {A, B}
    Config = {}
    Orders <- DefaultOrder
    AsksFirst = FALSE
    Callers = {"queen"}
    Races = {"ends together"}
    Trouble = FALSE
    MaxAttempts = 2
    MaxLands = 2
    MaxHuman = 1
    MaxWork = 1
    MaxCrashes = 0
    JobIds = {"j1", "j2", "j3", "j4"}
    CardIds = {"c1", "c2"}
    Human = Human
    w1 = w1
    w2 = w2
    A = A
    B = B
    None = None
PROPERTIES
    AllPassFirst
CHECK_DEADLOCK FALSE
