SPECIFICATION Spec
CONSTANTS
  Stmts = {s1, s2}
  query = query
  insert = insert
  first = first
  second = second
  Texts <- MCTexts
  Selects <- MCSelects
  Names <- MCNames
  Params <- MCParams
  None = None
  Reprepare = FALSE
SYMMETRY Symmetry
INVARIANTS
  ZeroIsNoError
CHECK_DEADLOCK FALSE
