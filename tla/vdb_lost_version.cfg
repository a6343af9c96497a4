SPECIFICATION Spec
CONSTANTS
  Procs = {p1}
  Files = {f1}
  Handles = {h1, h2, h3}
  None = None
  NumSteps = 3
  Replayable = {2}
  Targets = {2, 3, 4}
  ReopenElsewhere = FALSE
  MaxOpens = 4
  MaxFaults = 2
  MaxCrashes = 1
SYMMETRY HandleSymmetry
INVARIANTS
  SuccessStored
CHECK_DEADLOCK FALSE
