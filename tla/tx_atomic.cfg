SPECIFICATION FairSpec
CONSTANTS
  Conns = {c1, c2}
  Trans = {t1, t2, t3}
  Rows = {r1, r2}
  None = None
  Nested = TRUE
  MaxFaults = 0
  MaxMoves = 0
INVARIANTS
  AllOrNothing
  IndInv
PROPERTIES
  ImplementsScopes
  LocksReleased
CHECK_DEADLOCK FALSE
