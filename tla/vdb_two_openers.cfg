SPECIFICATION Spec
CONSTANTS
  Procs = {p1, p2}
  Files = {f1}
  Handles = {h1, h2, h3, h4}
  None = None
  NumSteps = 3
  Replayable = {2}
  Targets = {2, 3, 4}
  ReopenElsewhere = FALSE
  MaxOpens = 2
  MaxFaults = 1
  MaxCrashes = 1
SYMMETRY Symmetry
INVARIANTS
  NeverSkips
  StepsInOrder
  IndInv
CHECK_DEADLOCK FALSE
