SPECIFICATION Spec
CONSTANTS
  None = None
  Empty = Empty
  Procs = {p1, p2}
  Files = {f1}
  Queries = {q1, q2}
  Stores = {"mem", "bolt"}
  Max = 2
  MaxCalls = 4
  MaxTime = 2
SYMMETRY Symmetry
INVARIANTS TypeOK NothingLost LastIsNewest
PROPERTIES TouchCounts Implements
CHECK_DEADLOCK FALSE
