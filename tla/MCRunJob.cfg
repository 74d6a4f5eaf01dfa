SPECIFICATION FairSpec
CONSTANTS
    None = None
INVARIANTS
    TypeOK EndsOnce PassIsReal
PROPERTIES
    ExitCounts LifeSpec
CHECK_DEADLOCK FALSE
