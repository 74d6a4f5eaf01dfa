SPECIFICATION Spec
CONSTANTS
  a = a
  b = b
  c = c
  Workers = {a, b, c}
  Deps <- MCDeps
  Cap = 1
  Limit = 2
  Races = {"refused stop", "late launch"}
  MaxTrouble = 1
  None = None
SYMMETRY Siblings
INVARIANTS CapHeld
CHECK_DEADLOCK FALSE
