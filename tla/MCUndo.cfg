SPECIFICATION Spec
CONSTANTS
    Lands = {l1, l2}
    Adds <- MCAdds
    Drops <- MCDrops
    Root = {}
    Foreign = {hook}
    Bad = {slip}
    Config = {hook, slip}
    Races = {}
    MaxAttempts = 2
    MaxUndos = 2
    MaxMishaps = 2
    Human = Human
    None = None
    l1 = l1
    l2 = l2
    hook = hook
    slip = slip
    other = other
INVARIANTS
    TypeOK Settled OnceUndone
PROPERTIES
    RevertSeen RevertClean CulpritNamed
CHECK_DEADLOCK FALSE
