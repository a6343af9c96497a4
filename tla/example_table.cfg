SPECIFICATION FairTableSpec
CONSTANTS
  Stmts <- MCStmts
  Texts <- MCTexts
  Selects <- MCSelects
  Names <- MCNames
  Params <- MCParams
  Entries <- MCEntries
  None = None
  Reprepare = FALSE
  add_entry_ = add_entry_
  select_all_ = select_all_
  by_rowid_ = by_rowid_
  insert = insert
  list = list
  find = find
  pfirst = pfirst
  psecond = psecond
  pthird = pthird
  prowid = prowid
  Half8 = 1
  Half16 = 2
  Half32 = 4
  Half64 = 8
  MaxAdds = 3
  MaxFaults = 2
INVARIANTS
  TableInv
  EachFaultReported
  LostOrReported
  ListedOrPending
  FoundOrPending
  ResultInv
PROPERTIES
  MethodsReturn
CHECK_DEADLOCK FALSE
