SPECIFICATION Spec
CONSTANTS
  Procs = {p1}
  Files = {f1, f2}
  Handles = {h1, h2, h3}
  None = None
  NumSteps = 3
  Replayable = {2}
  Targets = {2, 3, 4}
  ReopenElsewhere = TRUE
  MaxOpens = 4
  MaxFaults = 0
  MaxCrashes = 0
SYMMETRY HandleSymmetry
INVARIANTS
  NeverSkips
CHECK_DEADLOCK FALSE
