SPECIFICATION Spec
CONSTANTS
  Stmts = {s1}
  query = query
  insert = insert
  first = first
  second = second
  Texts <- MCTexts
  Selects <- MCSelects
  Names <- MCNames
  Params <- MCParams
  None = None
  Reprepare = TRUE
SYMMETRY Symmetry
INVARIANTS
  NamedBindsHit
CHECK_DEADLOCK FALSE
