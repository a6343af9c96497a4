SPECIFICATION Spec
CONSTANTS
  Conns = {c1, c2}
  Trans = {t1, t2}
  Rows = {r1, r2}
  None = None
  Nested = TRUE
  MaxFaults = 0
  MaxMoves = 0
SYMMETRY Symmetry
INVARIANTS
  ScopeExitEndsTransaction
CHECK_DEADLOCK FALSE
