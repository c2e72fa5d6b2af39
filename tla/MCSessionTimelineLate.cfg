SPECIFICATION Spec
CONSTANTS
  p = p
  v = v
  r1 = r1
  r2 = r2
  Paths = {p}
  Versions = {v}
  Foreign = foreign
  Absent = absent
  Display = display
  Runtimes = {r1, r2}
  NoTask = NoTask
  NoHead = NoHead
  MaxEvents = 5
  MaxTroubles = 1
  LateWriters = TRUE
SYMMETRY MCSymmetry
CHECK_DEADLOCK FALSE
INVARIANT NothingLost
