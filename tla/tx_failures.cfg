SPECIFICATION Spec
CONSTANTS
  Conns = {c1, c2}
  Trans = {t1, t2, t3}
  Rows = {r1, r2}
  None = None
  Nested = FALSE
  MaxFaults = 2
  MaxMoves = 1
SYMMETRY Symmetry
INVARIANTS
  CommitIsWhole
  LeakReported
  OnlyFailuresTerminate
  WholeInv
CHECK_DEADLOCK FALSE
