SPECIFICATION Spec
CONSTANTS
  NoPath = NoPath
  Procs = {p1, p2}
  N = 2
  MaxEdits = 1
  MaxScans = 2
  MaxTouches = 2
SYMMETRY Symmetry
INVARIANTS TypeOK OneScan ResultsMatch NeverUnscanned
PROPERTY Steady
