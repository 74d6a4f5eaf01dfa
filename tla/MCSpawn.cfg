SPECIFICATION Spec
CONSTANTS
  a = a
  b = b
  c = c
  Workers = {a, b, c}
  Deps <- MCDeps
  Cap = 1
  Limit = 2
  Races = {}
  MaxTrouble = 2
  None = None
SYMMETRY Siblings
INVARIANTS TypeOK CapHeld NoneMissed MemoryTold
PROPERTIES StopStands
CHECK_DEADLOCK FALSE
