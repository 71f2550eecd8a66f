SPECIFICATION Spec
CONSTANTS
  None = None
  Procs = {p1, p2}
  Files = {f1, f2}
  MaxEdits = 1
  MaxRefreshes = 3
SYMMETRY Symmetry
INVARIANTS TypeOK Freshness LateCallsFail NoSnapshotGap NoResurrection PickerLifecycle NoLeak
PROPERTY Implements
CHECK_DEADLOCK FALSE
