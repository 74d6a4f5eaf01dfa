SPECIFICATION FairSpec
CONSTANTS
  w1 = w1
  w2 = w2
  w3 = w3
  f = f
  Workers = {w1, w2, w3}
  Foreign = {f}
  Breaks <- MCBreaks
  MaxAttempts = 2
  MaxLands = 3
  MaxOthers = 1
  MaxCrashes = 1
  Run = Run
  Other = Other
  None = None
INVARIANTS TypeOK OneDriver LogIsTrue Innocent
PROPERTIES Lands QueuedEnds
CHECK_DEADLOCK FALSE
