SPECIFICATION FairSpec
CONSTANTS
  None = None
  Procs = {p1, p2}
  Files = {f1}
  MaxEdits = 0
  MaxRefreshes = 3
PROPERTY Termination
CHECK_DEADLOCK FALSE
