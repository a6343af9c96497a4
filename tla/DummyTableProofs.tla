-------------------------- MODULE DummyTableProofs --------------------------
(***************************************************************************)
(* Proofs about DummyTable, on top of those about Statement and            *)
(* Conversions: every failure is reported, by its method at once or by the *)
(* next call of it, and the entries in the table are those whose add_entry *)
(* succeeded but for the losses that are reported later.                   *)
(***************************************************************************)
EXTENDS DummyTable, StatementProofs, ConversionProofs, SequenceTheorems

Accounts == HistoryType /\ PendingInv /\ MethodInv /\ EachFaultReported /\ LostOrReported

(* A method's calls are calls of Statement. *)
LEMMA TableSteps == ASSUME [TableNext]_tableVars PROVE [Next]_vars
<1>1. ASSUME NEW s \in Stmts, NEW t \in Texts, NEW next, Prepare(s, t, next) PROVE Next
  BY <1>1 DEF Prepare, Next
<1>2. ASSUME NEW s \in Stmts, NEW e, NEW r, NEW there, Begin(s, e, r, there) PROVE Next
  BY <1>2 DEF Begin, Next
<1>3. CASE AddEntry
  <2>1. ASSUME NEW n \in Names, BindName(add_entry_, n) PROVE Next
    BY <2>1, TableAssumption DEF Next
  <2>2. ASSUME BindIndex(add_entry_, 3) PROVE Next
    BY <2>2, TableAssumption DEF Next, Indices
  <2>3. ASSUME NEW a \in {"done", "error"}, Execute(add_entry_, a, "none") PROVE Next
    BY <2>3, TableAssumption DEF Next
  <2> QED
    BY <1>2, <1>3, <2>1, <2>2, <2>3, TableAssumption DEF AddEntry, Bind, Insert
<1>4. ASSUME NEW s \in Stmts, NEW there, Get(s, there) PROVE Next
  <2>1. CASE NextEntry(s)
    <3>1. \E a \in {"row", "done", "error"}, v \in Values \cup {"none"} : Step(s, a, v)
      BY <2>1 DEF NextEntry, Kind, Values
    <3> QED
      BY <3>1 DEF Next
  <2>2. CASE GetFirst(s)
    BY <2>2 DEF GetFirst, Next
  <2>3. ASSUME NEW here, NEW field, NEW after, GetString(s, here, field, after) PROVE Next
    <3>1. GetText(s, TRUE)
      BY <2>3 DEF GetString, GetText, Fillings
    <3> QED
      BY <3>1 DEF Next
  <2> QED
    BY <1>4, <2>1, <2>2, <2>3 DEF Get
<1>5. CASE PrepareStatements
  BY <1>1, <1>5, TableAssumption DEF PrepareStatements
<1>6. CASE SelectAll
  BY <1>2, <1>4, <1>6, TableAssumption DEF SelectAll
<1>7. CASE ByRowId
  <2>1. ASSUME BindName(by_rowid_, prowid) PROVE Next
    BY <2>1, TableAssumption DEF Next
  <2> QED
    BY <1>2, <1>4, <1>7, <2>1, TableAssumption DEF ByRowId, Bind
<1>8. CASE UNCHANGED tableVars
  BY <1>8 DEF tableVars
<1> QED
  BY <1>3, <1>5, <1>6, <1>7, <1>8 DEF TableNext

LEMMA InitTable == ASSUME TableInit PROVE TableInv
<1>1. IndInv
  BY InitIndInv DEF TableInit
<1> QED
  BY <1>1, TableAssumption DEF TableInit, Init, Call, TableInv, HistoryType, PendingInv, MethodInv,
     EachFaultReported, LostOrReported, Pending

(* The statements of the table. *)
LEMMA ThreeStmts ==
  /\ Stmts = {add_entry_, select_all_, by_rowid_}
  /\ add_entry_ # select_all_ /\ add_entry_ # by_rowid_ /\ select_all_ # by_rowid_
  BY TableAssumption

(* The histories are numbers. *)
LEMMA Numbers ==
  ASSUME HistoryType
  PROVE  /\ Len(rows) \in Nat /\ added \in Nat
         /\ \A s \in Stmts : /\ faults[s] \in Nat /\ unread[s] \in Nat /\ alarms[s] \in Nat
                            /\ Pending(s) \in {0, 1}
  BY LenProperties DEF HistoryType, Pending

LEMMA PrepareAccounts ==
  ASSUME TableInv, PrepareStatements PROVE Accounts'
<1> USE ThreeStmts DEF TableInv
<1>1. UNCHANGED <<rows, entry, rowid, result, added, faults, unread, alarms>> /\ at = "prepare"
  BY DEF PrepareStatements, Prepare
<1>2. HistoryType'
  BY <1>1 DEF HistoryType
<1>3. \A s \in Stmts : rc[s] = "ok" \/ cursor[s] # "ready"
  BY DEF PendingInv, IndInv, TypeOK
<1>4. \A s \in Stmts : cursor[s] = "ready" /\ rc[s] = "ok" /\ parameters[s] = None
  BY <1>1, <1>3 DEF MethodInv
<1>5. CASE PrepareNothing("error")
  <2>1. UNCHANGED <<stmt, cursor, rc, parameters>> /\ out'.ec = "error"
    BY <1>5 DEF PrepareNothing, Call, native, map
  <2>2. CASE at' = "unopened" /\ UNCHANGED running
    <3>1. PendingInv' /\ MethodInv'
      BY <1>1, <1>4, <2>1, <2>2 DEF PendingInv, MethodInv
    <3> QED
      BY <1>1, <1>2, <2>1, <3>1 DEF EachFaultReported, LostOrReported, Pending, Accounts
  <2> QED
    BY <2>2, <2>1, <1>5 DEF PrepareStatements, Prepare, PrepareText, Call
<1>6. ASSUME NEW s \in Stmts, NEW t, NEW next \in Stmts, PrepareText(s, t),
             running = s, running' = next, at' = IF next = s THEN "idle" ELSE "prepare",
             \/ s = add_entry_ /\ t = insert /\ next = select_all_
             \/ s = select_all_ /\ t = list /\ next = by_rowid_
             \/ s = by_rowid_ /\ t = find /\ next = by_rowid_
      PROVE  Accounts'
  <2>1. /\ stmt' = [stmt EXCEPT ![s] = t]
        /\ cursor' = [cursor EXCEPT ![s] = "ready"]
        /\ rc' = [rc EXCEPT ![s] = "ok"]
        /\ UNCHANGED parameters /\ out'.ec = "ok"
    BY <1>6 DEF PrepareText, Replace, Call
  <2>2. \A x \in Stmts : cursor'[x] = "ready" /\ rc'[x] = "ok" /\ parameters'[x] = None
    BY <1>4, <2>1 DEF IndInv, TypeOK
  <2>3. /\ stmt'[s] = t /\ \A x \in Stmts \ {s} : stmt'[x] = stmt[x]
    BY <2>1 DEF IndInv, TypeOK
  <2>4. PendingInv'
    BY <2>2 DEF PendingInv
  <2>5. MethodInv'
    BY <1>1, <1>6, <2>1, <2>2, <2>3 DEF MethodInv, TextOf
  <2>6. EachFaultReported' /\ LostOrReported'
    BY <1>1, <1>4, <2>2 DEF EachFaultReported, LostOrReported, Pending
  <2> QED
    BY <1>2, <2>4, <2>5, <2>6 DEF Accounts
<1> QED
  BY <1>5, <1>6 DEF PrepareStatements, Prepare

LEMMA BeginAccounts ==
  ASSUME TableInv, NEW s \in Stmts, NEW e, NEW r, NEW there, Begin(s, e, r, there),
         \/ s = add_entry_ /\ e \in Entries /\ there = "first"
         \/ s = select_all_ /\ there = "step"
         \/ s = by_rowid_ /\ there = "rowid"
  PROVE  Accounts'
<1> USE ThreeStmts DEF TableInv
<1>1. /\ rc' = [rc EXCEPT ![s] = "ok"] /\ cursor' = [cursor EXCEPT ![s] = "ready"]
      /\ UNCHANGED <<stmt, parameters, rows, added, faults, unread>> /\ entry' = e
      /\ out'.ec = rc[s] /\ rc[s] \in {"ok", "error"} /\ at = "idle"
  BY DEF Begin, Reset, ResetReport, Call, map, IndInv, TypeOK
<1>2. /\ rc'[s] = "ok" /\ cursor'[s] = "ready"
      /\ \A x \in Stmts \ {s} : rc'[x] = rc[x] /\ cursor'[x] = cursor[x]
  BY <1>1 DEF IndInv, TypeOK
<1>3. running' = s
  BY DEF Begin, ReturnOnEc, GoOn
<1>4. PendingInv'
  BY <1>2, <1>3 DEF PendingInv
<1>5. \/ rc[s] = "ok" /\ at' = there /\ UNCHANGED alarms
      \/ rc[s] = "error" /\ at' = "idle" /\ alarms' = [alarms EXCEPT ![s] = @ + 1]
  BY <1>1 DEF Begin, ReturnOnEc, GoOn
<1>6. MethodInv'
  BY <1>1, <1>2, <1>3, <1>5 DEF MethodInv, TextOf
<1>7. HistoryType'
  BY <1>1, <1>5 DEF HistoryType
<1>8. EachFaultReported' /\ LostOrReported'
  <2>1. CASE rc[s] = "ok"
    BY <1>1, <1>2, <1>5, <2>1 DEF EachFaultReported, LostOrReported, Pending, HistoryType
  <2>2. CASE rc[s] = "error"
    <3>1. alarms'[s] = alarms[s] + 1 /\ \A x \in Stmts \ {s} : alarms'[x] = alarms[x]
      BY <1>5, <2>2 DEF HistoryType
    <3>2. Pending(s) = 1 /\ Pending(s)' = 0 /\ \A x \in Stmts \ {s} : Pending(x)' = Pending(x)
      BY <1>2, <2>2 DEF Pending
    <3>3. EachFaultReported'
      BY <1>1, <3>1, <3>2 DEF EachFaultReported, HistoryType
    <3>4. alarms'[add_entry_] + Pending(add_entry_)' = alarms[add_entry_] + Pending(add_entry_)
      BY <3>1, <3>2, Numbers
    <3>5. LostOrReported'
      BY <1>1, <1>2, <3>1, <3>2, <3>4, Numbers DEF LostOrReported
    <3> QED
      BY <3>3, <3>5
  <2> QED
    BY <1>1, <2>1, <2>2
<1> QED
  BY <1>4, <1>6, <1>7, <1>8 DEF Accounts

(* A bind of add_entry or by_row_id finds its parameter.                   *)
LEMMA BindOk ==
  ASSUME TableInv, NEW s \in Stmts, cursor[s] = "ready", stmt[s] = TextOf(s), at # "prepare",
         \/ s = add_entry_ /\ (BindName(s, pfirst) \/ BindName(s, psecond) \/ BindIndex(s, 3))
         \/ s = by_rowid_ /\ BindName(s, prowid)
  PROVE  /\ out'.ec = "ok"
         /\ UNCHANGED <<stmt, cursor, rc>>
         /\ \A x \in Stmts : parameters'[x] \in {parameters[x], stmt[x]}
<1> USE TableAssumption, ConstAssumption DEF TableInv
<1>1. stmt[s] \in Texts /\ stmt[s] # None /\ stmt[s] # "unprepared"
  BY DEF TextOf
<1>2. FilledMap(s) = stmt[s] /\ ~dangling[s]
  BY <1>1 DEF FilledMap, MethodInv, IndInv, MapFits
<1>3. s = add_entry_ => DOMAIN Params[stmt[s]] = 1 .. 3
  BY DEF TextOf
<1>4. s = by_rowid_ => DOMAIN Params[stmt[s]] = 1 .. 1
  BY DEF TextOf
<1>5. ASSUME NEW i \in DOMAIN Params[stmt[s]], NEW n, SqliteBind(s, i, n)
      PROVE  out'.ec = "ok" /\ UNCHANGED <<stmt, cursor, rc>>
  <2>1. BindAnswer(s, i) = "ok"
    BY <1>1, <1>5 DEF BindAnswer, Positions
  <2> QED
    BY <1>5, <2>1 DEF SqliteBind, Call
<1>6. ASSUME NEW n, BindName(s, n), NEW j \in DOMAIN Params[stmt[s]], Params[stmt[s]][j] = n
      PROVE  /\ out'.ec = "ok"
             /\ UNCHANGED <<stmt, cursor, rc>>
             /\ \A x \in Stmts : parameters'[x] \in {parameters[x], stmt[x]}
  <2>1. Lookup(stmt[s], dangling[s], n) = {i \in DOMAIN Params[stmt[s]] : Params[stmt[s]][i] = n}
    BY <1>1, <1>2 DEF Lookup
  <2>2. \E i \in Lookup(stmt[s], dangling[s], n) : SqliteBind(s, i, n)
    BY <1>2, <1>6, <2>1 DEF BindName
  <2>3. parameters' = [parameters EXCEPT ![s] = stmt[s]]
    BY <1>2, <1>6 DEF BindName
  <2>4. \A x \in Stmts : parameters'[x] \in {parameters[x], stmt[x]}
    BY <2>3 DEF IndInv, TypeOK
  <2> QED
    BY <1>5, <2>1, <2>2, <2>4
<1>7. CASE s = add_entry_ /\ BindIndex(s, 3)
  <2>1. SqliteBind(s, 3, None) /\ UNCHANGED parameters /\ 3 \in DOMAIN Params[stmt[s]]
    BY <1>3, <1>7 DEF BindIndex, map
  <2> QED
    BY <1>5, <2>1
<1>8. CASE s = add_entry_ /\ BindName(s, pfirst)
  <2>1. Params[stmt[s]][1] = pfirst
    BY <1>8 DEF TextOf
  <2> QED
    BY <1>3, <1>6, <1>8, <2>1
<1>9. CASE s = add_entry_ /\ BindName(s, psecond)
  <2>1. Params[stmt[s]][2] = psecond
    BY <1>9 DEF TextOf
  <2> QED
    BY <1>3, <1>6, <1>9, <2>1
<1>10. CASE s = by_rowid_ /\ BindName(s, prowid)
  <2>1. Params[stmt[s]][1] = prowid
    BY <1>10 DEF TextOf
  <2> QED
    BY <1>4, <1>6, <1>10, <2>1
<1> QED
  BY <1>7, <1>8, <1>9, <1>10

LEMMA BindAccounts ==
  ASSUME TableInv, NEW s \in Stmts, NEW here, NEW there, running = s, at = here,
         \/ /\ s = add_entry_ /\ (BindName(s, pfirst) \/ BindName(s, psecond) \/ BindIndex(s, 3))
            /\ here \in {"first", "second", "third"} /\ there \in {"second", "third", "insert"}
         \/ s = by_rowid_ /\ BindName(s, prowid) /\ here = "rowid" /\ there = "step",
         ReturnOnEc(s, there), UNCHANGED <<rows, entry, rowid, result, added, faults, unread>>
  PROVE  Accounts'
<1> USE ThreeStmts DEF TableInv
<1>1. cursor[s] = "ready" /\ stmt[s] = TextOf(s)
  BY DEF MethodInv
<1>2. /\ out'.ec = "ok" /\ UNCHANGED <<stmt, cursor, rc>>
      /\ \A x \in Stmts : parameters'[x] \in {parameters[x], stmt[x]}
  BY <1>1, BindOk
<1>3. /\ running' = s /\ at' = there
      /\ UNCHANGED <<rows, entry, rowid, result, added, faults, unread, alarms>>
  BY <1>2 DEF ReturnOnEc, GoOn
<1>4. HistoryType' /\ EachFaultReported' /\ LostOrReported'
  BY <1>2, <1>3 DEF HistoryType, EachFaultReported, LostOrReported, Pending
<1>5. PendingInv'
  BY <1>1, <1>2, <1>3 DEF PendingInv
<1>6. MethodInv'
  BY <1>1, <1>2, <1>3 DEF MethodInv, TextOf
<1> QED
  BY <1>4, <1>5, <1>6 DEF Accounts

(* What a step of a prepared statement does. *)
LEMMA PreparedStep ==
  ASSUME TableInv, NEW s \in Stmts, at \notin {"prepare", "unopened"}, NEW a, NEW v,
         Step(s, a, v) \/ Execute(s, a, v)
  PROVE  /\ rc' = [rc EXCEPT ![s] = IF a = "error" THEN "error" ELSE "ok"]
         /\ cursor' = [cursor EXCEPT ![s] = IF a = "row" THEN "row" ELSE "halted"]
         /\ errcode' = a /\ out'.ec = "ok" /\ UNCHANGED <<stmt, parameters>>
<1>1. stmt[s] # None
  BY TableAssumption, ConstAssumption DEF TableInv, MethodInv, TextOf
<1>2. SqliteStep(s, a, v)
  BY <1>1 DEF Step, Execute, SqliteStepNull
<1> QED
  BY <1>2 DEF SqliteStep, Step, Execute, StepReport, Call, map

(* A step that fails is reported by the next call. *)
LEMMA FaultCounted ==
  ASSUME HistoryType, EachFaultReported, NEW s \in Stmts,
         UNCHANGED <<alarms, unread>>,
         faults'[s] = faults[s] + 1, \A x \in Stmts \ {s} : faults'[x] = faults[x],
         Pending(s) = 0, Pending(s)' = 1, \A x \in Stmts \ {s} : Pending(x)' = Pending(x)
  PROVE  EachFaultReported'
<1>1. ASSUME NEW x \in Stmts PROVE alarms'[x] + Pending(x)' = faults'[x] + unread'[x]
  <2>1. /\ alarms[x] + Pending(x) = faults[x] + unread[x]
        /\ alarms[x] \in Nat /\ faults[x] \in Nat /\ unread[x] \in Nat
    BY Numbers DEF EachFaultReported
  <2>2. CASE x = s
    BY <2>1, <2>2
  <2>3. CASE x # s
    BY <2>1, <2>3
  <2> QED
    BY <2>2, <2>3
<1> QED
  BY <1>1 DEF EachFaultReported

LEMMA InsertAccounts == ASSUME TableInv, Insert PROVE Accounts'
<1> USE ThreeStmts DEF TableInv
<1> DEFINE s == add_entry_
           row == [entry EXCEPT !.first = Stored(Int32, @)]
<1>1. PICK a \in {"done", "error"} :
        /\ Execute(s, a, "none") /\ Fault(s, a = "error")
        /\ rows' = IF a = "done" THEN Append(rows, row) ELSE rows
  BY DEF Insert
<1>2. /\ running = s /\ at = "insert" /\ entry \in Entries
      /\ rc[s] = "ok" /\ cursor[s] = "ready" /\ s \in Stmts
  BY DEF Insert, MethodInv, PendingInv, IndInv, TypeOK
<1>3. /\ rc' = [rc EXCEPT ![s] = IF a = "error" THEN "error" ELSE "ok"]
      /\ cursor' = [cursor EXCEPT ![s] = "halted"]
      /\ out'.ec = "ok" /\ UNCHANGED <<stmt, parameters>>
  <2>1. /\ rc' = [rc EXCEPT ![s] = IF a = "error" THEN "error" ELSE "ok"]
        /\ cursor' = [cursor EXCEPT ![s] = IF a = "row" THEN "row" ELSE "halted"]
        /\ out'.ec = "ok" /\ UNCHANGED <<stmt, parameters>>
    BY <1>1, <1>2, PreparedStep
  <2> QED
    BY <2>1
<1>4. added' = added + 1 /\ at' = "idle" /\ UNCHANGED <<running, alarms, unread, entry>>
  BY <1>3 DEF Insert, Return
<1>5. row \in Entries
  <2>1. entry.first \in -Half32 .. Half32 - 1 /\ entry = [entry EXCEPT !.first = entry.first]
    BY <1>2, TableAssumption DEF ValuesOf, Signed
  <2>2. Stored(Int32, entry.first) = entry.first
    <3>1. Half32 \in Nat \ {0} /\ Half64 \in Nat \ {0} /\ Half32 # Half64
      BY WidthAssumption
    <3> QED
      BY <2>1, <3>1, CastSigned DEF Stored, Int32, Signed
  <2> QED
    BY <1>2, <2>1, <2>2
<1>6. /\ rc'[s] = (IF a = "error" THEN "error" ELSE "ok") /\ cursor'[s] = "halted"
      /\ \A x \in Stmts \ {s} : rc'[x] = rc[x] /\ cursor'[x] = cursor[x]
  BY <1>2, <1>3 DEF IndInv, TypeOK
<1>7. PendingInv'
  BY <1>2, <1>4, <1>6 DEF PendingInv
<1>8. MethodInv'
  BY <1>2, <1>3, <1>4, <1>6 DEF MethodInv, TextOf
<1>9. CASE a = "done"
  <2>1. UNCHANGED faults /\ rows' = Append(rows, row)
    BY <1>1, <1>9 DEF Fault
  <2>2. HistoryType' /\ Len(rows') = Len(rows) + 1 /\ Len(rows) \in Nat
    BY <1>4, <1>5, <2>1 DEF HistoryType
  <2>3. \A x \in Stmts : Pending(x)' = Pending(x)
    BY <1>2, <1>6, <1>9 DEF Pending
  <2>4. EachFaultReported'
    BY <1>4, <2>1, <2>3 DEF EachFaultReported
  <2>5. LostOrReported'
    <3>1. /\ Pending(add_entry_)' = Pending(add_entry_) /\ alarms' = alarms
          /\ added' = added + 1 /\ Len(rows') = Len(rows) + 1
      BY <1>4, <2>2, <2>3
    <3>2. /\ added \in Nat /\ Len(rows) \in Nat /\ alarms[add_entry_] \in Nat
          /\ Pending(add_entry_) \in {0, 1}
      BY Numbers
    <3>3. added = Len(rows) + alarms[add_entry_] + Pending(add_entry_)
      BY DEF LostOrReported
    <3> HIDE DEF TableInv
    <3> QED
      BY <3>1, <3>2, <3>3 DEF LostOrReported
  <2> QED
    BY <1>7, <1>8, <2>2, <2>4, <2>5 DEF Accounts
<1>10. CASE a = "error"
  <2>1. faults' = [faults EXCEPT ![s] = @ + 1] /\ UNCHANGED rows
    BY <1>1, <1>10 DEF Fault
  <2>2. faults'[s] = faults[s] + 1 /\ \A x \in Stmts \ {s} : faults'[x] = faults[x]
    BY <2>1 DEF HistoryType
  <2>3. HistoryType'
    BY <1>4, <2>1 DEF HistoryType
  <2>4. Pending(s) = 0 /\ Pending(s)' = 1 /\ \A x \in Stmts \ {s} : Pending(x)' = Pending(x)
    BY <1>2, <1>6, <1>10 DEF Pending
  <2>5. EachFaultReported'
    BY <1>2, <1>4, <2>2, <2>4, FaultCounted
  <2>6. LostOrReported'
    BY <1>2, <1>4, <2>1, <2>4, Numbers DEF LostOrReported
  <2> QED
    BY <1>7, <1>8, <2>3, <2>5, <2>6 DEF Accounts
<1> QED
  BY <1>9, <1>10

LEMMA NextEntryAccounts ==
  ASSUME TableInv, NEW s \in {select_all_, by_rowid_}, NextEntry(s) PROVE Accounts'
<1> USE ThreeStmts DEF TableInv
<1>1. PICK a \in {"row", "done", "error"}, v \in Values \cup {"none"} : Step(s, a, v) /\ Fault(s, a = "error")
                  /\ IF a = "row" THEN ReturnOnEc(s, "get_first") ELSE NoMoreRows(s)
  BY DEF NextEntry, Kind, Values
<1>2. running = s /\ at = "step" /\ rc[s] = "ok" /\ UNCHANGED <<rows, entry, rowid, added, unread>>
  BY DEF NextEntry, PendingInv, IndInv, TypeOK
<1>3. /\ rc' = [rc EXCEPT ![s] = IF a = "error" THEN "error" ELSE "ok"]
      /\ cursor' = [cursor EXCEPT ![s] = IF a = "row" THEN "row" ELSE "halted"]
      /\ errcode' = a /\ out'.ec = "ok" /\ UNCHANGED <<stmt, parameters>>
  BY <1>1, <1>2, PreparedStep
<1>4. running' = s /\ at' = (IF a = "row" THEN "get_first" ELSE "idle") /\ UNCHANGED alarms
  BY <1>1, <1>2, <1>3 DEF ReturnOnEc, GoOn, NoMoreRows, Return
<1>5. /\ rc'[s] = (IF a = "error" THEN "error" ELSE "ok")
      /\ cursor'[s] = (IF a = "row" THEN "row" ELSE "halted")
      /\ \A x \in Stmts \ {s} : rc'[x] = rc[x] /\ cursor'[x] = cursor[x]
  BY <1>3 DEF IndInv, TypeOK
<1>6. PendingInv'
  BY <1>2, <1>4, <1>5 DEF PendingInv
<1>7. MethodInv'
  BY <1>2, <1>3, <1>4, <1>5 DEF MethodInv, TextOf
<1>8. /\ faults' \in [Stmts -> Nat]
      /\ faults'[s] = faults[s] + (IF a = "error" THEN 1 ELSE 0)
      /\ \A x \in Stmts \ {s} : faults'[x] = faults[x]
  BY <1>1 DEF Fault, HistoryType
<1>9. HistoryType'
  BY <1>2, <1>4, <1>8 DEF HistoryType
<1>10. /\ Pending(s) = 0 /\ Pending(s)' = (IF a = "error" THEN 1 ELSE 0)
       /\ \A x \in Stmts \ {s} : Pending(x)' = Pending(x)
  BY <1>2, <1>5 DEF Pending
<1>11. EachFaultReported'
  <2>1. CASE a = "error"
    BY <1>2, <1>4, <1>8, <1>10, <2>1, FaultCounted
  <2>2. CASE a # "error"
    <3>1. faults' = faults /\ \A x \in Stmts : Pending(x)' = Pending(x)
      BY <1>8, <1>10, <2>2, Numbers DEF HistoryType
    <3> QED
      BY <1>2, <1>4, <3>1 DEF EachFaultReported
  <2> QED
    BY <2>1, <2>2
<1>12. LostOrReported'
  BY <1>2, <1>4, <1>10 DEF LostOrReported
<1> QED
  BY <1>6, <1>7, <1>9, <1>11, <1>12 DEF Accounts

(* Reading an integer of a row never reports an error: nothing has used    *)
(* the connection since the step to the row.                               *)
LEMMA GetFirstAccounts ==
  ASSUME TableInv, NEW s \in {select_all_, by_rowid_}, GetFirst(s) PROVE Accounts'
<1> USE ThreeStmts DEF TableInv
<1>1. /\ running = s /\ at = "get_first" /\ cursor[s] = "row" /\ errcode = "row" /\ rc[s] = "ok"
      /\ UNCHANGED <<rows, entry, rowid, added, faults, unread>>
  BY DEF GetFirst, MethodInv, PendingInv, IndInv, TypeOK, Fault
<1>2. /\ UNCHANGED <<stmt, cursor, rc, parameters, errcode>>
  <2>1. stmt[s] # None
    BY <1>1, TableAssumption, ConstAssumption DEF MethodInv, TextOf
  <2> QED
    BY <1>1, <2>1 DEF GetFirst, GetNumber, ReadColumn, HasValue, native, map
<1>3. out'.ec = "ok"
  BY <1>1, <1>2 DEF GetFirst, GetNumber, ZeroReport, Got, Call
<1>4. running' = s /\ at' = "get_second" /\ UNCHANGED alarms
  BY <1>3 DEF GetFirst, ReturnOnEc, GoOn
<1> QED
  BY <1>1, <1>2, <1>3, <1>4 DEF Accounts, HistoryType, PendingInv, MethodInv, TextOf,
     EachFaultReported, LostOrReported, Pending

LEMMA GetStringAccounts ==
  ASSUME TableInv, NEW s \in {select_all_, by_rowid_}, NEW here, NEW field, NEW there,
         GetString(s, here, field, there),
         \/ here = "get_second" /\ there = "get_third"
         \/ here = "get_third" /\ there \in {"step", "return"}
  PROVE  Accounts'
<1> USE ThreeStmts DEF TableInv
<1>1. /\ running = s /\ at = here /\ cursor[s] = "row" /\ rc[s] = "ok"
      /\ UNCHANGED <<rows, entry, rowid, added>>
  BY DEF GetString, MethodInv, PendingInv, IndInv, TypeOK
<1>2. UNCHANGED <<stmt, cursor, parameters>>
  BY DEF GetString, ReadText, ReadColumn, NoMemory, native, map
<1>3. \/ out'.ec = "ok" /\ UNCHANGED <<rc, faults, unread>>
      \/ /\ out'.ec = "error" /\ faults' = [faults EXCEPT ![s] = @ + 1]
         /\ rc' = [rc EXCEPT ![s] = "error"] /\ unread' = [unread EXCEPT ![s] = @ + 1]
  BY DEF GetString, ReadText, ReadColumn, Got, Call, NoMemory, Fault, native
<1>4. CASE out'.ec = "ok"
  <2>1. running' = s /\ at' \in {"idle", "get_third", "step"} /\ UNCHANGED alarms
    BY <1>1, <1>4 DEF GetString, ReturnOnEc, GoOn, Return
  <2> QED
    BY <1>1, <1>2, <1>3, <1>4, <2>1 DEF Accounts, HistoryType, PendingInv, MethodInv, TextOf,
       EachFaultReported, LostOrReported, Pending
<1>5. CASE out'.ec = "error"
  <2>1. running' = s /\ at' = "idle" /\ alarms' = [alarms EXCEPT ![s] = @ + 1]
    BY <1>5 DEF GetString, ReturnOnEc, GoOn
  <2>2. /\ faults' = [faults EXCEPT ![s] = @ + 1] /\ unread' = [unread EXCEPT ![s] = @ + 1]
        /\ rc' = [rc EXCEPT ![s] = "error"]
    BY <1>3, <1>5
  <2>3. /\ faults'[s] = faults[s] + 1 /\ unread'[s] = unread[s] + 1 /\ alarms'[s] = alarms[s] + 1
        /\ \A x \in Stmts \ {s} :
             faults'[x] = faults[x] /\ unread'[x] = unread[x] /\ alarms'[x] = alarms[x]
        /\ faults' \in [Stmts -> Nat] /\ unread' \in [Stmts -> Nat] /\ alarms' \in [Stmts -> Nat]
    BY <2>1, <2>2 DEF HistoryType
  <2>4. HistoryType'
    BY <1>1, <2>3 DEF HistoryType
  <2>5. /\ rc'[s] = "error" /\ \A x \in Stmts \ {s} : rc'[x] = rc[x]
        /\ Pending(s) = 0 /\ Pending(s)' = 1 /\ \A x \in Stmts \ {s} : Pending(x)' = Pending(x)
    BY <1>1, <2>2 DEF Pending, IndInv, TypeOK
  <2>6. EachFaultReported'
    <3>1. ASSUME NEW x \in Stmts
          PROVE  alarms'[x] + Pending(x)' = faults'[x] + unread'[x]
      <4>1. /\ alarms[x] + Pending(x) = faults[x] + unread[x]
            /\ alarms[x] \in Nat /\ faults[x] \in Nat /\ unread[x] \in Nat
        BY Numbers DEF EachFaultReported
      <4>2. CASE x = s
        BY <2>3, <2>5, <4>1, <4>2
      <4>3. CASE x # s
        BY <2>3, <2>5, <4>1, <4>3
      <4> QED
        BY <4>2, <4>3
    <3> QED
      BY <3>1 DEF EachFaultReported
  <2>7. LostOrReported'
    BY <1>1, <2>3, <2>5 DEF LostOrReported
  <2>8. PendingInv' /\ MethodInv'
    BY <1>1, <1>2, <1>5, <2>1, <2>5 DEF PendingInv, MethodInv, TextOf
  <2> QED
    BY <2>4, <2>6, <2>7, <2>8 DEF Accounts
<1> QED
  BY <1>3, <1>4, <1>5

LEMMA TableNextInv == ASSUME TableInv, [TableNext]_tableVars PROVE TableInv'
<1>1. IndInv'
  BY TableSteps, NextIndInv, TableAssumption DEF TableInv
<1>2. ASSUME NEW s \in {select_all_, by_rowid_}, NEW there \in {"step", "return"}, Get(s, there)
      PROVE  Accounts'
  BY <1>2, NextEntryAccounts, GetFirstAccounts, GetStringAccounts DEF Get
<1>3. ASSUME AddEntry PROVE Accounts'
  BY <1>3, BeginAccounts, BindAccounts, InsertAccounts, ThreeStmts DEF AddEntry, Bind
<1>4. ASSUME SelectAll PROVE Accounts'
  BY <1>2, <1>4, BeginAccounts, ThreeStmts DEF SelectAll
<1>5. ASSUME ByRowId PROVE Accounts'
  BY <1>2, <1>5, BeginAccounts, BindAccounts, ThreeStmts DEF ByRowId, Bind
<1>6. ASSUME UNCHANGED tableVars PROVE Accounts'
  BY <1>6 DEF tableVars, table, vars, native, map, TableInv, Accounts, HistoryType, PendingInv,
     MethodInv, TextOf, EachFaultReported, LostOrReported, Pending
<1>7. Accounts'
  BY <1>3, <1>4, <1>5, <1>6, PrepareAccounts DEF TableNext
<1> QED
  BY <1>1, <1>7 DEF TableInv, Accounts

-----------------------------------------------------------------------------

(* The invariant of the table and its methods, that of the statements      *)
(* included, for any entries and any numbers of calls and failures.        *)
THEOREM TableInvariant == TableSpec => []TableInv
<1>1. TableInit => TableInv
  BY InitTable
<1>2. TableInv /\ [TableNext]_tableVars => TableInv'
  BY TableNextInv
<1> QED
  BY <1>1, <1>2, PTL DEF TableSpec

(* step and execute hide every failure, but the next call of the method    *)
(* reports it; a column that could not be read is reported twice; no zero  *)
(* and no failure of another method is reported.                           *)
THEOREM FaultsAreReported == TableSpec => []EachFaultReported
<1>1. TableInv => EachFaultReported
  BY DEF TableInv
<1> QED
  BY <1>1, TableInvariant, PTL

(* The rows are the entries whose add_entry succeeded, but for those whose *)
(* loss a later add_entry reported and one whose loss is still pending.    *)
THEOREM LossesAreReported == TableSpec => []LostOrReported
<1>1. TableInv => LostOrReported
  BY DEF TableInv
<1> QED
  BY <1>1, TableInvariant, PTL

-----------------------------------------------------------------------------
(* What the methods return *)

(* Filling one field of the entry that was added last leaves the others.   *)
LEMMA PutEntry ==
  ASSUME result \in Seq(ReadEntry), result # <<>>, NEW field, NEW v, Put(field, v),
         \/ field = "first" /\ v \in ValuesOf(Int32)
         \/ field = "second" /\ v \in {"null", "text", "blank"}
         \/ field = "third" /\ v \in {"empty", "text", "blank"}
  PROVE  LET n == Len(result) IN
         /\ result' \in Seq(ReadEntry) /\ Len(result') = n /\ n \in Nat \ {0}
         /\ \A i \in 1 .. n - 1 : result'[i] = result[i]
         /\ result'[n].first = IF field = "first" THEN v ELSE result[n].first
         /\ result'[n].second = IF field = "second" THEN v ELSE result[n].second
         /\ result'[n].third = IF field = "third" THEN v ELSE result[n].third
<1> DEFINE n == Len(result)
           e == [result[n] EXCEPT ![field] = v]
<1>1. n \in 1 .. n /\ n \in Nat \ {0} /\ result[n] \in ReadEntry
  BY EmptySeq, ElementOfSeq
<1>2. e \in ReadEntry
  BY <1>1 DEF ReadEntry
<1>3. result' = [result EXCEPT ![n] = e]
  BY DEF Put
<1>4. /\ result' \in Seq(ReadEntry) /\ Len(result') = n
      /\ \A j \in 1 .. n : result'[j] = IF j = n THEN e ELSE result[j]
  BY <1>1, <1>2, <1>3, ExceptSeq
<1>5. /\ e.first = IF field = "first" THEN v ELSE result[n].first
      /\ e.second = IF field = "second" THEN v ELSE result[n].second
      /\ e.third = IF field = "third" THEN v ELSE result[n].third
  <2>1. CASE field = "first"
    BY <1>1, <2>1 DEF ReadEntry
  <2>2. CASE field = "second"
    BY <1>1, <2>2 DEF ReadEntry
  <2>3. CASE field = "third"
    BY <1>1, <2>3 DEF ReadEntry
  <2> QED
    BY <2>1, <2>2, <2>3
<1>6. result'[n] = e /\ \A j \in 1 .. n - 1 : result'[j] = result[j]
  BY <1>1, <1>4
<1> HIDE DEF e
<1> QED
  BY <1>1, <1>4, <1>5, <1>6

LEMMA EntriesRead == Entries \subseteq ReadEntry
  BY TableAssumption DEF ReadEntry, Int32

(* A cut-off copy of the rows is a prefix of them.                         *)
LEMMA Prefix ==
  ASSUME result \in Seq(ReadEntry), rows \in Seq(Entries), Len(result) <= Len(rows),
         \A i \in 1 .. Len(result) : result[i] = rows[i]
  PROVE  result = SubSeq(rows, 1, Len(result))
<1>1. rows \in Seq(ReadEntry) /\ Len(result) \in Nat /\ Len(rows) \in Nat
  BY EntriesRead, SeqMonotonic, LenProperties
<1>2. \A i \in 1 .. Len(result) : rows[i] \in ReadEntry
  BY <1>1, ElementOfSeq
<1>3. /\ SubSeq(rows, 1, Len(result)) \in Seq(ReadEntry)
      /\ Len(SubSeq(rows, 1, Len(result))) = Len(result)
      /\ \A i \in 1 .. Len(result) : SubSeq(rows, 1, Len(result))[i] = rows[i]
  BY <1>1, <1>2, SubSeqProperties
<1> QED
  BY <1>3, SeqEqual

(* The row that a getter reads. *)
LEMMA RowFacts ==
  ASSUME ResultInv, NEW s \in {select_all_, by_rowid_}, running = s, Getting
  PROVE  /\ CurrentRow(s) \in Entries
         /\ CurrentRow(s).first \in ValuesOf(Int32)
         /\ CurrentRow(s).second \in {"null", "text"}
         /\ CurrentRow(s).third = "text"
         /\ Len(result) \in Nat \ {0}
<1> USE ThreeStmts DEF ResultInv, ReadInv, TableInv, HistoryType
<1>1. Len(result) \in Nat \ {0} /\ Len(rows) \in Nat
  BY EmptySeq, LenProperties
<1>2. CurrentRow(s) \in Entries
  BY <1>1, ElementOfSeq DEF CurrentRow
<1> QED
  BY <1>1, <1>2, TableAssumption DEF Int32

(* What an int was stored as is what it is read as. *)
LEMMA IntReadBack == ASSUME NEW x \in ValuesOf(Int32) PROVE Retrieved(Int32, x) = x
<1>1. Half32 \in Nat \ {0} /\ Half64 \in Nat \ {0} /\ Half32 # Half64
  BY WidthAssumption
<1>2. x \in -Half32 .. Half32 - 1
  BY DEF ValuesOf, Int32, Signed
<1>3. Cast(Signed(Half32), x) = x
  BY <1>1, <1>2, CastSigned
<1> QED
  BY <1>1, <1>3 DEF Retrieved, Int32, Signed

(* A getter changes one field of the last entry, and stays on its row.     *)
LEMMA FieldRead ==
  ASSUME ResultInv, NEW s \in {select_all_, by_rowid_}, running = s, Getting,
         running' = s, UNCHANGED <<rows, rowid>>, NEW field, NEW v, Put(field, v),
         \/ field = "first" /\ v \in ValuesOf(Int32)
         \/ field = "second" /\ v \in {"null", "text", "blank"}
         \/ field = "third" /\ v \in {"empty", "text", "blank"}
  PROVE  LET n == Len(result) IN
         /\ result' \in Seq(ReadEntry) /\ Len(result') = n /\ n \in Nat \ {0}
         /\ CurrentRow(s)' = CurrentRow(s)
         /\ s = select_all_ => n <= Len(rows) /\ \A i \in 1 .. n - 1 : result'[i] = rows[i]
         /\ s = by_rowid_ => rowid \in DOMAIN rows /\ n = 1
         /\ result'[n].first = IF field = "first" THEN v ELSE result[n].first
         /\ result'[n].second = IF field = "second" THEN v ELSE result[n].second
         /\ result'[n].third = IF field = "third" THEN v ELSE result[n].third
<1> USE ThreeStmts DEF ResultInv, ReadInv
<1>1. result \in Seq(ReadEntry) /\ result # <<>>
  OBVIOUS
<1> DEFINE n == Len(result)
<1>2. /\ result' \in Seq(ReadEntry) /\ Len(result') = n /\ n \in Nat \ {0}
      /\ \A i \in 1 .. n - 1 : result'[i] = result[i]
      /\ result'[n].first = IF field = "first" THEN v ELSE result[n].first
      /\ result'[n].second = IF field = "second" THEN v ELSE result[n].second
      /\ result'[n].third = IF field = "third" THEN v ELSE result[n].third
  BY <1>1, PutEntry
<1>3. CurrentRow(s)' = CurrentRow(s)
  BY <1>2 DEF CurrentRow
<1>4. s = select_all_ => n <= Len(rows) /\ \A i \in 1 .. n - 1 : result'[i] = rows[i]
  BY <1>2
<1>5. s = by_rowid_ => rowid \in DOMAIN rows /\ n = 1
  OBVIOUS
<1> QED
  BY <1>2, <1>3, <1>4, <1>5

(* A method that goes on or reports an error promises nothing yet.         *)
LEMMA NotReturned ==
  ASSUME at' # "idle" \/ out'.ec # "ok" \/ running' = add_entry_
  PROVE  ListedOrPending' /\ FoundOrPending'
  BY ThreeStmts DEF ListedOrPending, FoundOrPending, Returned

Results == ReadInv /\ ListedOrPending /\ FoundOrPending

LEMMA GetFirstResults ==
  ASSUME ResultInv, NEW s \in {select_all_, by_rowid_}, GetFirst(s) PROVE Results'
<1> USE ThreeStmts
<1> DEFINE v == Retrieved(Int32, CurrentRow(s).first)
<1>1. /\ running = s /\ at = "get_first" /\ Put("first", v) /\ UNCHANGED <<rows, rowid>>
      /\ running' = s
      /\ at' = "get_second" \/ (at' = "idle" /\ out'.ec # "ok")
  BY DEF GetFirst, ReturnOnEc, GoOn
<1>2. v = CurrentRow(s).first /\ v \in ValuesOf(Int32) /\ Getting
  BY <1>1, RowFacts, IntReadBack DEF Getting
<1>3. /\ result' \in Seq(ReadEntry) /\ Len(result') = Len(result) /\ Len(result) \in Nat \ {0}
      /\ CurrentRow(s)' = CurrentRow(s)
      /\ s = select_all_ => /\ Len(result) <= Len(rows)
                            /\ \A i \in 1 .. Len(result) - 1 : result'[i] = rows[i]
      /\ s = by_rowid_ => rowid \in DOMAIN rows /\ Len(result) = 1
      /\ result'[Len(result)].first = CurrentRow(s).first
  BY <1>1, <1>2, FieldRead
<1>4. result' # <<>>
  BY <1>3, EmptySeq
<1>5. ReadInv'
  BY <1>1, <1>3, <1>4 DEF ReadInv, ReadSoFar, Getting, ResultInv
<1> QED
  BY <1>1, <1>5, NotReturned DEF Results

(* A text that is read without an error is the one of the row.             *)
LEMMA GetStringEffect ==
  ASSUME TableInv, NEW s \in {select_all_, by_rowid_}, NEW here, NEW field, NEW there,
         GetString(s, here, field, there)
  PROVE  /\ running = s /\ at = here /\ UNCHANGED <<rows, rowid>>
         /\ running' = s
         /\ \/ /\ out'.ec = "ok" /\ Put(field, CurrentRow(s)[field])
               /\ at' = IF there = "return" THEN "idle" ELSE there
            \/ out'.ec # "ok" /\ at' = "idle" /\ Put(field, "blank")
<1>1. \/ out'.ec = "ok" /\ Put(field, CurrentRow(s)[field])
      \/ out'.ec = "error" /\ Put(field, "blank")
  BY DEF GetString, ReadText, Got, Call, NoMemory
<1> QED
  BY <1>1 DEF GetString, ReturnOnEc, GoOn, Return

LEMMA GetSecondResults ==
  ASSUME ResultInv, NEW s \in {select_all_, by_rowid_},
         GetString(s, "get_second", "second", "get_third")
  PROVE  Results'
<1> USE ThreeStmts
<1>1. PICK v \in {"null", "text", "blank"} :
        /\ running = s /\ running' = s /\ at = "get_second" /\ UNCHANGED <<rows, rowid>>
        /\ Put("second", v)
        /\ \/ at' = "get_third" /\ v = CurrentRow(s).second
           \/ at' = "idle" /\ out'.ec # "ok"
  BY GetStringEffect, RowFacts DEF ResultInv, Getting
<1>2. /\ result' \in Seq(ReadEntry) /\ Len(result') = Len(result) /\ Len(result) \in Nat \ {0}
      /\ CurrentRow(s)' = CurrentRow(s)
      /\ s = select_all_ => /\ Len(result) <= Len(rows)
                            /\ \A i \in 1 .. Len(result) - 1 : result'[i] = rows[i]
      /\ s = by_rowid_ => rowid \in DOMAIN rows /\ Len(result) = 1
      /\ result'[Len(result)].first = result[Len(result)].first
      /\ result'[Len(result)].second = v
  BY <1>1, FieldRead DEF Getting
<1>3. result[Len(result)].first = CurrentRow(s).first
  BY <1>1 DEF ResultInv, ReadInv, ReadSoFar, Getting
<1>4. result' # <<>>
  BY <1>2, EmptySeq
<1>5. ReadInv'
  BY <1>1, <1>2, <1>3, <1>4 DEF ReadInv, ReadSoFar, Getting, ResultInv
<1> QED
  BY <1>1, <1>5, NotReturned DEF Results

(* After the third column the entry is the row. *)
LEMMA GetThirdResults ==
  ASSUME ResultInv, NEW s \in {select_all_, by_rowid_}, NEW there,
         GetString(s, "get_third", "third", there),
         there = IF s = select_all_ THEN "step" ELSE "return"
  PROVE  Results'
<1> USE ThreeStmts
<1> DEFINE n == Len(result)
           row == CurrentRow(s)
<1>1. PICK v \in {"text", "blank"} :
        /\ running = s /\ running' = s /\ at = "get_third" /\ UNCHANGED <<rows, rowid>>
        /\ Put("third", v)
        /\ \/ /\ v = CurrentRow(s).third /\ out'.ec = "ok"
              /\ at' = IF s = select_all_ THEN "step" ELSE "idle"
           \/ at' = "idle" /\ out'.ec # "ok"
  BY GetStringEffect, RowFacts DEF ResultInv, Getting
<1>2. /\ result' \in Seq(ReadEntry) /\ Len(result') = n /\ n \in Nat \ {0}
      /\ CurrentRow(s)' = CurrentRow(s)
      /\ s = select_all_ => n <= Len(rows) /\ \A i \in 1 .. n - 1 : result'[i] = rows[i]
      /\ s = by_rowid_ => rowid \in DOMAIN rows /\ n = 1
      /\ result'[n].first = result[n].first
      /\ result'[n].second = result[n].second
      /\ result'[n].third = v
  BY <1>1, FieldRead DEF Getting
<1>3. result[n].first = row.first /\ result[n].second = row.second
  BY <1>1 DEF ResultInv, ReadInv, ReadSoFar, Getting
<1>4. ReadInv' \/ at' # "idle"
  BY <1>1, <1>2 DEF ReadInv, Getting, ResultInv
<1>5. CASE at' = "idle" /\ out'.ec # "ok"
  BY <1>4, <1>5, NotReturned DEF Results
<1>6. CASE v = row.third /\ out'.ec = "ok" /\ at' = IF s = select_all_ THEN "step" ELSE "idle"
  <2>1. result'[n] = row
    <3>1. row \in ReadEntry
      BY <1>1, RowFacts, EntriesRead DEF Getting
    <3>2. n \in 1 .. n
      BY <1>2
    <3>3. result'[n] \in ReadEntry
      BY <1>2, <3>2, ElementOfSeq
    <3>4. /\ result'[n].first = row.first /\ result'[n].second = row.second
          /\ result'[n].third = row.third
      BY <1>2, <1>3, <1>6
    <3> HIDE DEF row
    <3> QED
      BY <3>1, <3>3, <3>4 DEF ReadEntry
  <2>2. CASE s = select_all_
    <3>1. row = rows[n]
      BY <2>2 DEF CurrentRow
    <3>2. \A i \in 1 .. n : result'[i] = rows[i]
      BY <1>2, <2>1, <2>2, <3>1
    <3>3. ReadInv'
      BY <1>1, <1>2, <1>6, <2>2, <3>2 DEF ReadInv, Getting, ResultInv
    <3> QED
      BY <1>6, <2>2, <3>3, NotReturned DEF Results
  <2>3. CASE s = by_rowid_
    <3>1. row = rows[rowid] /\ n = 1
      BY <1>2, <2>3 DEF CurrentRow
    <3>2. row \in ReadEntry
      BY <1>1, RowFacts, EntriesRead DEF Getting
    <3>3. result' = <<rows[rowid]>>
      BY <1>2, <2>1, <3>1, <3>2, SeqEqual
    <3>4. ReadInv'
      BY <1>4, <1>6, <2>3
    <3>5. FoundOrPending' /\ ListedOrPending'
      BY <1>1, <1>2, <2>3, <3>3 DEF FoundOrPending, ListedOrPending, Returned
    <3> QED
      BY <3>4, <3>5 DEF Results
  <2> QED
    BY <2>2, <2>3
<1> QED
  BY <1>1, <1>5, <1>6

(* The last step of a method: the rows are exhausted, or the failure is    *)
(* pending.                                                                *)
LEMMA NextEntryResults ==
  ASSUME ResultInv, NEW s \in {select_all_, by_rowid_}, NextEntry(s) PROVE Results'
<1> USE ThreeStmts
<1> DEFINE n == Len(result)
<1>1. /\ running = s /\ at = "step" /\ UNCHANGED <<rows, rowid>>
      /\ result \in Seq(ReadEntry) /\ rows \in Seq(Entries) /\ rowid \in RowIds
      /\ n \in Nat /\ Len(rows) \in Nat
  BY LenProperties DEF NextEntry, ResultInv, ReadInv, TableInv, HistoryType
<1>2. CASE s = select_all_
  <2>1. n <= Len(rows) /\ \A i \in 1 .. n : result[i] = rows[i]
    BY <1>1, <1>2 DEF ResultInv, ReadInv
  <2>2. DOMAIN rows = 1 .. Len(rows) /\ NextRow(s) = n + 1
    BY <1>1, <1>2 DEF NextRow
  <2>3. CASE /\ n + 1 \in DOMAIN rows /\ result' = Append(result, Blank)
             /\ ReturnOnEc(s, "get_first")
    <3>1. Blank \in ReadEntry
      BY WidthAssumption DEF Blank, ReadEntry, ValuesOf, Int32, Signed
    <3>2. /\ result' \in Seq(ReadEntry) /\ Len(result') = n + 1
          /\ \A i \in 1 .. n : result'[i] = result[i]
      BY <1>1, <2>3, <3>1
    <3>3. result' # <<>>
      BY <1>1, <3>2, EmptySeq
    <3>4. running' = s /\ (at' = "get_first" \/ (at' = "idle" /\ out'.ec # "ok"))
      BY <2>3 DEF ReturnOnEc, GoOn
    <3>5. ReadInv'
      BY <1>1, <1>2, <2>1, <2>2, <2>3, <3>2, <3>3, <3>4 DEF ReadInv, ReadSoFar, Getting
    <3> QED
      BY <3>4, <3>5, NotReturned DEF Results
  <2>4. ASSUME UNCHANGED result, NoMoreRows(s), n >= Len(rows) \/ Pending(s)' = 1
        PROVE  Results'
    <3>1. result = SubSeq(rows, 1, n)
      BY <1>1, <2>1, Prefix
    <3>2. at' = "idle" /\ running' = s
      BY <1>1, <2>4 DEF NoMoreRows, Return
    <3>3. ReadInv'
      BY <1>1, <2>4, <3>2 DEF ReadInv, Getting
    <3>4. ListedOrPending' /\ FoundOrPending'
      BY <1>1, <1>2, <2>4, <3>1, <3>2 DEF ListedOrPending, FoundOrPending, Returned
    <3> QED
      BY <3>3, <3>4 DEF Results
  <2>5. CASE n + 1 \notin DOMAIN rows /\ UNCHANGED result /\ NoMoreRows(s)
    BY <1>1, <2>2, <2>4, <2>5
  <2>6. CASE Step(s, "error", "none") /\ UNCHANGED result /\ NoMoreRows(s)
    <3>1. rc' = [rc EXCEPT ![s] = "error"]
      BY <1>1, <2>6, PreparedStep DEF ResultInv
    <3>2. Pending(s)' = 1
      BY <3>1 DEF Pending, ResultInv, TableInv, IndInv, TypeOK
    <3> QED
      BY <2>4, <2>6, <3>2
  <2> QED
    BY <1>1, <2>2, <2>3, <2>5, <2>6 DEF NextEntry
<1>3. CASE s = by_rowid_
  <2>1. result = <<>>
    BY <1>1, <1>3 DEF ResultInv, ReadInv
  <2>2. NextRow(s) = rowid
    <3>1. rowid \in -Half64 .. Half64 - 1 /\ Half64 \in Nat \ {0}
      BY <1>1, TableAssumption, WidthAssumption DEF RowIds
    <3> QED
      BY <1>3, <3>1, CastSigned DEF NextRow, Stored, Signed
  <2>3. CASE /\ rowid \in DOMAIN rows /\ result' = Append(result, Blank)
             /\ ReturnOnEc(s, "get_first")
    <3>1. Blank \in ReadEntry
      BY WidthAssumption DEF Blank, ReadEntry, ValuesOf, Int32, Signed
    <3>2. result' \in Seq(ReadEntry) /\ Len(result') = 1
      BY <1>1, <2>1, <2>3, <3>1
    <3>3. result' # <<>>
      BY <3>2, EmptySeq
    <3>4. running' = s /\ (at' = "get_first" \/ (at' = "idle" /\ out'.ec # "ok"))
      BY <2>3 DEF ReturnOnEc, GoOn
    <3>5. ReadInv'
      BY <1>1, <1>3, <2>3, <3>2, <3>3, <3>4 DEF ReadInv, ReadSoFar, Getting
    <3> QED
      BY <3>4, <3>5, NotReturned DEF Results
  <2>4. ASSUME UNCHANGED result, NoMoreRows(s), rowid \notin DOMAIN rows \/ Pending(s)' = 1
        PROVE  Results'
    <3>1. at' = "idle" /\ running' = s
      BY <1>1, <2>4 DEF NoMoreRows, Return
    <3>2. ReadInv'
      BY <1>1, <2>4, <3>1 DEF ReadInv, Getting
    <3>3. ListedOrPending' /\ FoundOrPending'
      BY <1>1, <1>3, <2>1, <2>4, <3>1 DEF ListedOrPending, FoundOrPending, Returned
    <3> QED
      BY <3>2, <3>3 DEF Results
  <2>5. CASE rowid \notin DOMAIN rows /\ UNCHANGED result /\ NoMoreRows(s)
    BY <2>4, <2>5
  <2>6. CASE Step(s, "error", "none") /\ UNCHANGED result /\ NoMoreRows(s)
    <3>1. rc' = [rc EXCEPT ![s] = "error"]
      BY <1>1, <2>6, PreparedStep DEF ResultInv
    <3>2. Pending(s)' = 1
      BY <3>1 DEF Pending, ResultInv, TableInv, IndInv, TypeOK
    <3> QED
      BY <2>4, <2>6, <3>2
  <2> QED
    BY <1>1, <2>2, <2>3, <2>5, <2>6 DEF NextEntry
<1> QED
  BY <1>2, <1>3

LEMMA ResultStep == ASSUME ResultInv, [TableNext]_tableVars PROVE Results'
<1> USE ThreeStmts
<1>1. CASE PrepareStatements
  <2>1. /\ UNCHANGED <<rows, rowid, result>>
        /\ at' \in {"prepare", "unopened", "idle"}
        /\ at' = "idle" => running' = by_rowid_ /\ out'.op = "prepare"
    BY <1>1 DEF PrepareStatements, Prepare, PrepareText, Call
  <2>2. ReadInv'
    BY <2>1 DEF ResultInv, ReadInv, Getting
  <2>3. ListedOrPending' /\ FoundOrPending'
    BY <2>1 DEF ListedOrPending, FoundOrPending, Returned
  <2> QED
    BY <2>2, <2>3 DEF Results
<1>2. ASSUME NEW s \in Stmts, NEW e, NEW r \in RowIds, NEW there, Begin(s, e, r, there),
             there # "idle", ~(there \in {"get_first", "get_second", "get_third"})
      PROVE  Results'
  <2>1. /\ result' = <<>> /\ rowid' = r /\ UNCHANGED rows
        /\ at' = there \/ (at' = "idle" /\ out'.ec # "ok")
    BY <1>2 DEF Begin, ReturnOnEc, GoOn
  <2>2. result' \in Seq(ReadEntry) /\ Len(result') = 0 /\ Len(rows) \in Nat
    BY <2>1, EmptySeq, LenProperties DEF ResultInv, TableInv, HistoryType
  <2>3. ReadInv'
    BY <1>2, <2>1, <2>2 DEF ReadInv, Getting
  <2> QED
    BY <1>2, <2>1, <2>3, NotReturned DEF Results
<1>3. ASSUME NEW s \in {select_all_, by_rowid_}, NEW there, Get(s, there),
             there = IF s = select_all_ THEN "step" ELSE "return"
      PROVE  Results'
  BY <1>3, NextEntryResults, GetFirstResults, GetSecondResults, GetThirdResults DEF Get
<1>4. 0 \in RowIds
  BY TableAssumption DEF RowIds
<1>5. CASE AddEntry
  <2>1. ASSUME running' = add_entry_, UNCHANGED <<rowid, result>> PROVE Results'
    <3>1. ReadInv'
      <4>1. ~Getting'
        BY <1>5, <2>1 DEF AddEntry, Begin, Bind, Insert, ReturnOnEc, GoOn, Return, Getting
      <4> QED
        BY <2>1, <4>1 DEF ResultInv, ReadInv
    <3> QED
      BY <2>1, <3>1, NotReturned DEF Results
  <2>2. ASSUME NEW here, NEW c, NEW there, Bind(here, add_entry_, c, there)
        PROVE  running' = add_entry_ /\ UNCHANGED <<rowid, result>>
    BY <2>2 DEF Bind, ReturnOnEc, GoOn
  <2>3. Insert => running' = add_entry_ /\ UNCHANGED <<rowid, result>>
    BY DEF Insert, Return, ReturnOnEc, GoOn
  <2> QED
    BY <1>2, <1>4, <1>5, <2>1, <2>2, <2>3 DEF AddEntry
<1>6. CASE SelectAll
  BY <1>2, <1>3, <1>4, <1>6 DEF SelectAll
<1>7. CASE ByRowId
  <2>1. ASSUME Bind("rowid", by_rowid_, BindName(by_rowid_, prowid), "step") PROVE Results'
    <3>1. /\ UNCHANGED <<rows, rowid, result>> /\ running = by_rowid_ /\ at = "rowid"
          /\ running' = by_rowid_
          /\ at' = "step" \/ (at' = "idle" /\ out'.ec # "ok")
      BY <2>1 DEF Bind, ReturnOnEc, GoOn
    <3>2. ReadInv'
      BY <3>1 DEF ResultInv, ReadInv, Getting
    <3> QED
      BY <3>1, <3>2, NotReturned DEF Results
  <2> QED
    BY <1>2, <1>3, <1>7, <2>1 DEF ByRowId
<1>8. CASE UNCHANGED tableVars
  BY <1>8 DEF tableVars, table, vars, native, map, ResultInv, Results, ReadInv, ReadSoFar,
     Getting, CurrentRow, ListedOrPending, FoundOrPending, Returned, Pending
<1> QED
  BY <1>1, <1>5, <1>6, <1>7, <1>8 DEF TableNext

(* What the methods return, for any entries and any calls and failures.    *)
THEOREM ResultInductive == TableSpec => []ResultInv
<1>1. ASSUME TableInit PROVE ResultInv
  <2>1. result = <<>> /\ rowid = 0 /\ at = "prepare"
    BY <1>1 DEF TableInit
  <2>2. 0 \in RowIds /\ result \in Seq(ReadEntry)
    BY <2>1, TableAssumption, EmptySeq DEF RowIds
  <2> QED
    BY <1>1, <2>1, <2>2, InitTable DEF ResultInv, ReadInv, Getting, ListedOrPending,
       FoundOrPending, Returned
<1>2. ASSUME ResultInv, [TableNext]_tableVars PROVE ResultInv'
  BY <1>2, TableNextInv, ResultStep DEF ResultInv, Results
<1> QED
  BY <1>1, <1>2, PTL DEF TableSpec

(* A select_all that reports success has returned all rows in order, or a  *)
(* failure that its next call reports has cut the list off.                *)
THEOREM ListsAreWhole == TableSpec => []ListedOrPending
<1>1. ResultInv => ListedOrPending
  BY DEF ResultInv
<1> QED
  BY <1>1, ResultInductive, PTL

(* by_row_id returns the row that was added under the rowid, or nothing    *)
(* when there is none or a failure is pending.                             *)
THEOREM RowsAreFound == TableSpec => []FoundOrPending
<1>1. ResultInv => FoundOrPending
  BY DEF ResultInv
<1> QED
  BY <1>1, ResultInductive, PTL
=============================================================================
