SPECIFICATION FairSpec
CONSTANTS
  NoPath = NoPath
  Procs = {p1, p2}
  N = 1
  MaxEdits = 0
  MaxScans = 2
  MaxTouches = 1
PROPERTY Termination
