SPECIFICATION FairSpec
CONSTANTS
  Conns = {c1, c2}
  Stmts = {s1, s2}
  Handles <- MCHandles
  Compiled <- MCCompiled
  Maps <- MCMaps
  None = None
  Timeout = 1
  MaxMoves = 1
INVARIANTS
  IndInv
  OnlyMovesHurt
  LeaksAreKnown
  BelongsOrLost
PROPERTIES
  DestructorReturns
  ClosedInTime
CHECK_DEADLOCK FALSE
