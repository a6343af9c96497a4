--------------------------- MODULE StatementProofs ---------------------------
(***************************************************************************)
(* Proofs about Statement: a value bound by name reaches the parameter of  *)
(* that name, for any statements, texts and parameters, as long as no      *)
(* object is prepared a second time; and what the getters report, however  *)
(* often objects are prepared.                                             *)
(***************************************************************************)
EXTENDS Statement, TLAPS

ErrorCodes == {"ok", "row", "done", "error", "misuse", "range"}

-----------------------------------------------------------------------------
(* Types *)

LEMMA InitType == ASSUME Init PROVE TypeOK
<1>1. \A s \in Stmts : bound[s] \in [Positions(stmt[s]) -> Names \cup {None}]
  BY DEF Init, Positions
<1> QED
  BY <1>1 DEF Init, TypeOK

(* A statement is replaced by one compiled from t, without any bindings. *)
LEMMA ReplaceType ==
  ASSUME TypeOK, NEW s \in Stmts, NEW t \in Texts \cup {None}, Replace(s, t)
  PROVE  /\ stmt' \in [Stmts -> Texts \cup {None}]
         /\ cursor' \in [Stmts -> {"ready", "row", "halted"}]
         /\ rc' \in [Stmts -> {"ok", "error"}]
         /\ column' \in [Stmts -> Values \cup {"none"}]
         /\ DOMAIN bound' = Stmts
         /\ \A x \in Stmts : bound'[x] \in [Positions(stmt[x])' -> Names \cup {None}]
         /\ emptied' \in [Stmts -> BOOLEAN]
         /\ \A before \in ErrorCodes : LeftByFinalize(s, before) \in ErrorCodes
<1> USE DEF TypeOK, Replace
<1>1. /\ stmt'[s] = t /\ bound'[s] = [i \in Positions(t) |-> None]
      /\ \A x \in Stmts \ {s} : stmt'[x] = stmt[x] /\ bound'[x] = bound[x]
  OBVIOUS
<1>2. \A x \in Stmts : bound'[x] \in [Positions(stmt[x])' -> Names \cup {None}]
  BY <1>1 DEF Positions
<1>3. \A before \in ErrorCodes : LeftByFinalize(s, before) \in ErrorCodes
  BY DEF LeftByFinalize, ErrorCodes
<1>4. stmt' \in [Stmts -> Texts \cup {None}]
  OBVIOUS
<1> QED
  BY <1>2, <1>3, <1>4

(* A step moves the cursor and leaves the parameters alone. *)
LEMMA StepType ==
  ASSUME TypeOK, NEW s \in Stmts, NEW a, NEW v,
         SqliteStep(s, a, v) \/ SqliteStepNull(s, a)
  PROVE  /\ cursor' \in [Stmts -> {"ready", "row", "halted"}]
         /\ rc' \in [Stmts -> {"ok", "error"}]
         /\ column' \in [Stmts -> Values \cup {"none"}]
         /\ emptied' \in [Stmts -> BOOLEAN]
         /\ errcode' \in ErrorCodes
         /\ undisturbed' \in [Stmts -> BOOLEAN]
         /\ UNCHANGED <<stmt, bound>>
<1> USE DEF ErrorCodes
<1>1. CASE SqliteStep(s, a, v)
  <2>1. a \in {"done", "error", "row"} /\ v \in Values \cup {"none"}
    BY <1>1 DEF SqliteStep
  <2>2. undisturbed' \in [Stmts -> BOOLEAN] /\ emptied' \in [Stmts -> BOOLEAN]
    BY <1>1 DEF SqliteStep, TypeOK
  <2> QED
    BY <1>1, <2>1, <2>2 DEF SqliteStep, TypeOK
<1>2. CASE SqliteStepNull(s, a)
  BY <1>2 DEF SqliteStepNull, native, TypeOK
<1> QED
  BY <1>1, <1>2

(* What sqlite3_bind_* does to the bindings of the statement. *)
LEMMA BindEffect ==
  ASSUME TypeOK, NEW s \in Stmts, NEW i, NEW name, SqliteBind(s, i, name)
  PROVE  /\ DOMAIN bound' = Stmts
         /\ \A x \in Stmts : DOMAIN bound'[x] = Positions(stmt[x])
         /\ \A x \in Stmts : \A j \in Positions(stmt[x]) :
              bound'[x][j] = bound[x][j] \/ (x = s /\ j = i /\ bound'[x][j] = name)
         /\ errcode' \in ErrorCodes
         /\ UNCHANGED <<stmt, cursor, rc, column, emptied>>
<1> USE DEF TypeOK, SqliteBind, ErrorCodes
<1>1. errcode' \in ErrorCodes
  BY DEF BindAnswer
<1>2. CASE BindAnswer(s, i) = "ok"
  <2>1. i \in Positions(stmt[s]) /\ bound' = [bound EXCEPT ![s][i] = name]
    BY <1>2 DEF BindAnswer
  <2>2. /\ \A x \in Stmts \ {s} : bound'[x] = bound[x]
        /\ bound'[s] = [bound[s] EXCEPT ![i] = name]
        /\ DOMAIN bound' = Stmts
    BY <2>1
  <2> QED
    BY <1>1, <2>1, <2>2
<1>3. CASE BindAnswer(s, i) # "ok"
  BY <1>1, <1>3
<1> QED
  BY <1>2, <1>3

LEMMA BindType ==
  ASSUME TypeOK, NEW s \in Stmts, NEW i, NEW name \in Names \cup {None}, SqliteBind(s, i, name),
         UNCHANGED dangling, parameters' \in [Stmts -> Texts \cup {None, "unprepared"}]
  PROVE  TypeOK'
<1> USE DEF TypeOK
<1>1. UNCHANGED <<stmt, cursor, rc, column, emptied>> /\ DOMAIN bound' = Stmts /\ errcode' \in ErrorCodes
  BY BindEffect
<1>2. ASSUME NEW x \in Stmts PROVE bound'[x] \in [Positions(stmt[x])' -> Names \cup {None}]
  <2>1. Positions(stmt[x])' = Positions(stmt[x])
    BY <1>1 DEF Positions
  <2>2. DOMAIN bound'[x] = Positions(stmt[x])
    BY BindEffect
  <2>3. \A j \in Positions(stmt[x]) : bound'[x][j] \in Names \cup {None}
    BY BindEffect
  <2>4. bound'[x] = [j \in Positions(stmt[x]) |-> bound'[x][j]]
    BY <1>1, <2>2 DEF SqliteBind
  <2> QED
    BY <2>1, <2>3, <2>4
<1>3. undisturbed' \in [Stmts -> BOOLEAN]
  BY DEF SqliteBind, Disturb
<1> QED
  BY <1>1, <1>2, <1>3 DEF ErrorCodes

(* A getter only reads, but it may leave an error behind, on the           *)
(* connection or also on the statement.                                    *)
Reads == \/ /\ UNCHANGED <<native, map>>
            /\ errcode' \in {errcode, "range"}
            /\ UNCHANGED <<errcode, undisturbed>> \/ Disturb
         \/ /\ UNCHANGED <<stmt, cursor, bound, map>> /\ Disturb
            /\ errcode' = "error"
            /\ \E s \in Stmts, given \in BOOLEAN :
                 /\ rc' = [rc EXCEPT ![s] = "error"]
                 /\ column' \in {column, [column EXCEPT ![s] = "null"]}
                 /\ emptied' = [emptied EXCEPT ![s] = @ \/ given]

LEMMA GettersRead ==
  ASSUME NEW s \in Stmts, NEW inRange \in BOOLEAN,
         \/ \E narrow, through \in BOOLEAN : GetNumber(s, inRange, narrow, through)
         \/ GetText(s, inRange)
         \/ \E fits \in BOOLEAN : GetArray(s, inRange, fits)
         \/ GetOptional(s, inRange)
  PROVE  Reads
<1>1. \/ ReadColumn(s, inRange)
      \/ \E op \in {"text", "array"}, ec \in {"ok", "error", "invalid"} :
           NoMemory(op, s, inRange, ec)
  BY DEF GetNumber, ReadText, GetText, GetArray, GetOptional
<1>2. CASE ReadColumn(s, inRange)
  BY <1>2 DEF ReadColumn, Reads
<1>3. ASSUME NEW op, NEW ec, NoMemory(op, s, inRange, ec) PROVE Reads
  BY <1>3 DEF NoMemory, Reads
<1> QED
  BY <1>1, <1>2, <1>3

LEMMA ReadsType == ASSUME TypeOK, Reads PROVE TypeOK'
<1>1. undisturbed' \in [Stmts -> BOOLEAN]
  <2>1. UNCHANGED <<errcode, undisturbed>> \/ Disturb
    BY Zenon DEF Reads
  <2>2. CASE Disturb
    BY <2>2 DEF Disturb
  <2>3. CASE UNCHANGED <<errcode, undisturbed>>
    BY <2>3 DEF TypeOK
  <2> QED
    BY Zenon, <2>1, <2>2, <2>3
<1>2. UNCHANGED <<stmt, cursor, bound, map>> /\ errcode' \in ErrorCodes
  BY DEF Reads, native, ErrorCodes, TypeOK
<1>3. /\ rc' \in [Stmts -> {"ok", "error"}] /\ emptied' \in [Stmts -> BOOLEAN]
      /\ column' \in [Stmts -> Values \cup {"none"}]
  BY DEF Reads, native, Values, TypeOK
<1> QED
  BY <1>1, <1>2, <1>3 DEF map, ErrorCodes, TypeOK, Positions

(* Every call keeps the types, whatever was prepared how often. *)
LEMMA TypeStep == ASSUME TypeOK, [Next]_vars PROVE TypeOK'
<1>1. ASSUME NEW s \in Stmts, NEW t \in Texts, PrepareText(s, t) PROVE TypeOK'
  <2>1. dangling' \in [Stmts -> BOOLEAN] /\ undisturbed' \in [Stmts -> BOOLEAN]
    BY <1>1 DEF PrepareText, Disturb, TypeOK
  <2>2. errcode' \in ErrorCodes
    BY <1>1, ReplaceType DEF PrepareText, ErrorCodes
  <2> QED
    BY <1>1, <2>1, <2>2, ReplaceType DEF PrepareText, ErrorCodes, TypeOK
<1>2. ASSUME NEW s \in Stmts, Destroy(s) PROVE TypeOK'
  <2>1. /\ dangling' \in [Stmts -> BOOLEAN] /\ undisturbed' \in [Stmts -> BOOLEAN]
        /\ parameters' \in [Stmts -> Texts \cup {None, "unprepared"}]
    BY <1>2 DEF Destroy, Disturb, TypeOK
  <2>2. errcode' \in ErrorCodes
    BY <1>2, ReplaceType DEF Destroy, ErrorCodes, TypeOK
  <2> QED
    BY <1>2, <2>1, <2>2, ReplaceType DEF Destroy, ErrorCodes, TypeOK
<1>3. ASSUME NEW a \in {"ok", "error"}, PrepareNothing(a) \/ ExecuteSql(a) PROVE TypeOK'
  BY <1>3 DEF PrepareNothing, ExecuteSql, Disturb, native, map, TypeOK, Positions
<1>4. ASSUME NEW s \in Stmts, NEW a, NEW v, Step(s, a, v) \/ Execute(s, a, v) PROVE TypeOK'
  <2>1. (SqliteStep(s, a, v) \/ SqliteStepNull(s, a)) /\ UNCHANGED map
    BY <1>4 DEF Step, Execute
  <2> QED
    BY <2>1, StepType DEF map, TypeOK, Positions, ErrorCodes
<1>5. ASSUME NEW s \in Stmts, Reset(s) PROVE TypeOK'
  <2>1. errcode' \in {errcode, rc[s]} /\ rc[s] \in {"ok", "error"}
    BY <1>5 DEF Reset, TypeOK
  <2> QED
    BY <1>5, <2>1 DEF Reset, Disturb, map, TypeOK, Positions
<1>6. ASSUME NEW s \in Stmts, NEW i \in Indices, BindIndex(s, i) PROVE TypeOK'
  BY <1>6, BindType DEF BindIndex, map, TypeOK
<1>7. ASSUME NEW s \in Stmts, NEW name \in Names, BindName(s, name) PROVE TypeOK'
  <2>1. parameters' \in [Stmts -> Texts \cup {None, "unprepared"}] /\ UNCHANGED dangling
    BY <1>7 DEF BindName, FilledMap, TypeOK
  <2>2. CASE \E i \in Lookup(FilledMap(s), dangling[s], name) : SqliteBind(s, i, name)
    BY <2>1, <2>2, BindType
  <2>3. CASE UNCHANGED <<native, errcode, undisturbed>>
    BY <2>1, <2>3 DEF native, TypeOK, Positions
  <2> QED
    BY <1>7, <2>2, <2>3 DEF BindName
<1>8. CASE UNCHANGED vars
  BY <1>8 DEF vars, native, map, TypeOK, Positions
<1>9. CASE Reads
  BY <1>9, ReadsType
<1> QED
  BY <1>1, <1>2, <1>3, <1>4, <1>5, <1>6, <1>7, <1>8, <1>9, GettersRead DEF Next

(* The types hold in every reachable state. *)
THEOREM TypeCorrect == Spec => []TypeOK
<1>1. Init => TypeOK
  BY InitType
<1>2. TypeOK /\ [Next]_vars => TypeOK'
  BY TypeStep
<1> QED
  BY <1>1, <1>2, PTL DEF Spec

-----------------------------------------------------------------------------
(* Names *)

(* Init establishes the inductive invariant. *)
LEMMA InitIndInv == ASSUME Init PROVE IndInv
<1>1. MapFits
  BY ConstAssumption DEF Init, MapFits
<1>2. NamedBindsHit
  BY DEF Init, NamedBindsHit, Positions
<1> QED
  BY <1>1, <1>2, InitType DEF IndInv

(* A new statement has no parameter bound. *)
LEMMA ReplaceHits ==
  ASSUME TypeOK, NamedBindsHit, NEW s \in Stmts, NEW t \in Texts \cup {None}, Replace(s, t)
  PROVE  NamedBindsHit'
<1>1. /\ stmt'[s] = t /\ bound'[s] = [i \in Positions(t) |-> None]
      /\ \A x \in Stmts \ {s} : stmt'[x] = stmt[x] /\ bound'[x] = bound[x]
  BY DEF TypeOK, Replace
<1> QED
  BY <1>1 DEF NamedBindsHit, Positions

(* A parameter that has the given name is bound, or any by its index. *)
LEMMA BindHits ==
  ASSUME TypeOK, NamedBindsHit, NEW s \in Stmts, NEW i, NEW name \in Names \cup {None},
         name = None \/ (i \in Positions(stmt[s]) => Params[stmt[s]][i] = name),
         SqliteBind(s, i, name)
  PROVE  NamedBindsHit' /\ UNCHANGED stmt
<1>1. /\ UNCHANGED stmt
      /\ \A x \in Stmts : \A j \in Positions(stmt[x]) :
           bound'[x][j] = bound[x][j] \/ (x = s /\ j = i /\ bound'[x][j] = name)
  BY BindEffect
<1> QED
  BY <1>1 DEF NamedBindsHit, Positions

(* The map that a lookup works on was filled from the bound statement. *)
LEMMA FilledMapFits ==
  ASSUME IndInv, NEW s \in Stmts
  PROVE  /\ ~dangling[s]
         /\ FilledMap(s) \in {"unprepared", stmt[s]}
         /\ FilledMap(s) # None
  BY ConstAssumption DEF IndInv, MapFits, FilledMap, TypeOK

(* While the map fits, a lookup finds the parameters of that name only. *)
LEMMA LookupHits ==
  ASSUME IndInv, NEW s \in Stmts, NEW name \in Names,
         NEW i \in Lookup(FilledMap(s), dangling[s], name)
  PROVE  i \in Positions(stmt[s]) => Params[stmt[s]][i] = name
<1>1. FilledMap(s) # "unprepared"
  BY DEF Lookup
<1>2. FilledMap(s) = stmt[s] /\ ~dangling[s]
  BY <1>1, FilledMapFits
<1> QED
  BY <1>1, <1>2 DEF Lookup

LEMMA BindNameStep ==
  ASSUME IndInv, NEW s \in Stmts, NEW name \in Names, BindName(s, name)
  PROVE  MapFits' /\ NamedBindsHit'
<1> USE DEF IndInv
<1>1. /\ parameters' = [parameters EXCEPT ![s] = FilledMap(s)]
      /\ UNCHANGED dangling
  BY DEF BindName
<1>2. UNCHANGED stmt /\ NamedBindsHit'
  <2>1. CASE \E i \in Lookup(FilledMap(s), dangling[s], name) : SqliteBind(s, i, name)
    BY <2>1, LookupHits, BindHits
  <2>2. CASE UNCHANGED native
    BY <2>2 DEF native, NamedBindsHit, Positions
  <2> QED
    BY <2>1, <2>2 DEF BindName
<1>3. MapFits'
  BY <1>1, <1>2, FilledMapFits, ConstAssumption DEF MapFits, TypeOK
<1> QED
  BY <1>2, <1>3

(* Every step keeps the inductive invariant. *)
LEMMA NextIndInv == ASSUME IndInv, [Next]_vars, ~Reprepare PROVE IndInv'
<1> USE DEF IndInv
<1>1. ASSUME NEW s \in Stmts, NEW t \in Texts, PrepareText(s, t)
      PROVE  MapFits' /\ NamedBindsHit'
  <2>1. stmt[s] = None /\ parameters[s] \notin Texts
    BY <1>1, ConstAssumption DEF PrepareText, MapFits
  <2>2. /\ Replace(s, t) /\ UNCHANGED parameters
        /\ dangling' = [dangling EXCEPT ![s] = parameters[s] \in Texts]
    BY <1>1 DEF PrepareText
  <2>3. \A x \in Stmts \ {s} : stmt'[x] = stmt[x]
    BY <2>2 DEF Replace, TypeOK
  <2>4. \A x \in Stmts : ~dangling'[x]
    BY <2>1, <2>2 DEF MapFits, TypeOK
  <2>5. MapFits'
    BY <2>1, <2>2, <2>3, <2>4 DEF MapFits
  <2> QED
    BY <2>2, <2>5, ReplaceHits
<1>2. ASSUME NEW s \in Stmts, Destroy(s) PROVE MapFits' /\ NamedBindsHit'
  <2>1. /\ Replace(s, None)
        /\ parameters' = [parameters EXCEPT ![s] = None]
        /\ dangling' = [dangling EXCEPT ![s] = FALSE]
    BY <1>2 DEF Destroy
  <2>2. \A x \in Stmts \ {s} : stmt'[x] = stmt[x]
    BY <2>1 DEF Replace, TypeOK
  <2>3. MapFits'
    BY <2>1, <2>2, ConstAssumption DEF MapFits, TypeOK
  <2> QED
    BY <2>1, <2>3, ReplaceHits
<1>3. ASSUME UNCHANGED <<stmt, bound, map>> PROVE MapFits' /\ NamedBindsHit'
  BY <1>3 DEF map, MapFits, NamedBindsHit, Positions
<1>4. ASSUME NEW a, PrepareNothing(a) \/ ExecuteSql(a) PROVE UNCHANGED <<stmt, bound, map>>
  BY <1>4 DEF PrepareNothing, ExecuteSql, native, map
<1>5. ASSUME NEW s \in Stmts, NEW a, NEW v, Step(s, a, v) \/ Execute(s, a, v)
      PROVE  UNCHANGED <<stmt, bound, map>>
  BY <1>5 DEF Step, Execute, SqliteStep, SqliteStepNull, native, map
<1>6. ASSUME NEW s \in Stmts, Reset(s) PROVE UNCHANGED <<stmt, bound, map>>
  BY <1>6 DEF Reset, map
<1>7. ASSUME NEW s \in Stmts, NEW i \in Indices, BindIndex(s, i)
      PROVE  MapFits' /\ NamedBindsHit'
  BY <1>7, BindHits DEF BindIndex, map, MapFits
<1>8. ASSUME Reads \/ UNCHANGED vars PROVE UNCHANGED <<stmt, bound, map>>
  BY <1>8 DEF Reads, vars, native, map
<1> QED
  BY <1>1, <1>2, <1>3, <1>4, <1>5, <1>6, <1>7, <1>8, BindNameStep, GettersRead, TypeStep
     DEF Next

(* The inductive invariant holds in every reachable state, when no object  *)
(* is prepared a second time: what is in the map of names was read from    *)
(* the statement that is bound.                                            *)
THEOREM Inductive == ASSUME ~Reprepare PROVE Spec => []IndInv
<1>1. Init => IndInv
  BY InitIndInv
<1>2. IndInv /\ [Next]_vars => IndInv'
  BY NextIndInv
<1> QED
  BY <1>1, <1>2, PTL DEF Spec

(* A value bound by name is in the parameter of that name, whatever failed *)
(* before and however often names are looked up.                           *)
THEOREM NamesAreNotAmbiguous == ASSUME ~Reprepare PROVE Spec => []NamedBindsHit
<1>1. IndInv => NamedBindsHit
  BY DEF IndInv
<1> QED
  BY <1>1, Inductive, PTL

(* What the last call was. *)
LEMMA NamesOfCalls ==
  ASSUME [Next]_vars
  PROVE  \/ out' = out
         \/ out'.op # "bind"
         \/ \E s \in Stmts, i \in Indices : BindIndex(s, i)
         \/ \E s \in Stmts, name \in Names : BindName(s, name)
<1> USE DEF Call
<1>1. ASSUME NEW s \in Stmts, NEW t, PrepareText(s, t) \/ Destroy(s) \/ Reset(s)
      PROVE  out'.op # "bind"
  BY <1>1 DEF PrepareText, Destroy, Reset
<1>2. ASSUME NEW a, PrepareNothing(a) \/ ExecuteSql(a) PROVE out'.op # "bind"
  BY <1>2 DEF PrepareNothing, ExecuteSql
<1>3. ASSUME NEW s \in Stmts, NEW a, NEW v, Step(s, a, v) \/ Execute(s, a, v)
      PROVE  out'.op # "bind"
  BY <1>3 DEF Step, Execute
<1>4. ASSUME NEW s, NEW inRange, NEW op \in {"text", "array"}, NEW ec, NoMemory(op, s, inRange, ec)
      PROVE  out'.op # "bind"
  BY <1>4 DEF NoMemory, Got
<1>5. ASSUME NEW s, NEW inRange, NEW narrow, NEW through, GetNumber(s, inRange, narrow, through)
      PROVE  out'.op # "bind"
  BY <1>5 DEF GetNumber, Got
<1>6. ASSUME NEW s, NEW inRange, NEW fits,
             GetText(s, inRange) \/ GetArray(s, inRange, fits)
      PROVE  out'.op # "bind"
  BY <1>4, <1>6 DEF ReadText, GetText, GetArray, Got
<1>7. ASSUME NEW s, NEW inRange, GetOptional(s, inRange) PROVE out'.op # "bind"
  BY <1>5, <1>6, <1>7 DEF GetOptional, Got
<1> QED
  BY <1>1, <1>2, <1>3, <1>5, <1>6, <1>7 DEF Next, vars

(* A name of the prepared statement is found, unless a name was looked up  *)
(* before the object was prepared: fill_parameters_map has read them all.  *)
THEOREM NamesAreFound == ASSUME ~Reprepare PROVE Spec => []KnownNamesFound
<1>1. Init => KnownNamesFound
  BY DEF Init, Call, KnownNamesFound
<1>2. ASSUME IndInv, KnownNamesFound, [Next]_vars PROVE KnownNamesFound'
  <2>1. ASSUME NEW s \in Stmts, NEW i, NEW name, SqliteBind(s, i, name)
        PROVE  out'.value # "known"
    BY <2>1 DEF SqliteBind, Call
  <2>2. ASSUME NEW s \in Stmts, NEW name \in Names, BindName(s, name)
        PROVE  out'.value # "known"
    <3>1. CASE \E i \in Lookup(FilledMap(s), dangling[s], name) : SqliteBind(s, i, name)
      BY <2>1, <3>1
    <3>2. CASE ~\E i \in Lookup(FilledMap(s), dangling[s], name) : SqliteBind(s, i, name)
      <4>1. Lookup(FilledMap(s), FALSE, name) = {}
        BY <1>2, <2>2, <3>2, FilledMapFits DEF BindName, IndInv, TypeOK
      <4>2. CASE FilledMap(s) = "unprepared"
        BY <2>2, <3>2, <4>2 DEF BindName, Call
      <4>3. CASE FilledMap(s) # "unprepared"
        <5>1. FilledMap(s) = stmt[s]
          BY <1>2, <4>3, FilledMapFits
        <5>2. ~\E i \in Positions(stmt[s]) : Params[stmt[s]][i] = name
          BY <4>1, <4>3, <5>1 DEF Lookup, Positions
        <5> QED
          BY <2>2, <3>2, <5>2 DEF BindName, Call
      <4> QED
        BY <4>2, <4>3
    <3> QED
      BY <3>1, <3>2
  <2> QED
    BY <1>2, <2>1, <2>2, NamesOfCalls DEF BindIndex, KnownNamesFound
<1> QED
  BY <1>1, <1>2, Inductive, PTL DEF Spec

-----------------------------------------------------------------------------
(* Reports *)

(* Nothing was left unread, or an error is pending for it. *)
Accounted == Unread(out) => \E s \in Stmts : emptied[s]

(* The calls other than the getters of numbers, and their reports. *)
LEMMA OtherReports ==
  ASSUME TypeOK, [Next]_vars
  PROVE  \/ UNCHANGED vars
         \/ out'.op # "number" /\ Accounted'
         \/ \E s \in Stmts, inRange, narrow, through \in BOOLEAN :
              GetNumber(s, inRange, narrow, through)
<1> USE DEF Call, Accounted, Unread
<1>1. ASSUME NEW s \in Stmts, NEW t, PrepareText(s, t) \/ Destroy(s) \/ Reset(s)
      PROVE  out'.op # "number" /\ Accounted'
  BY <1>1 DEF PrepareText, Destroy, Reset
<1>2. ASSUME NEW a, PrepareNothing(a) \/ ExecuteSql(a)
      PROVE  out'.op # "number" /\ Accounted'
  BY <1>2 DEF PrepareNothing, ExecuteSql
<1>3. ASSUME NEW s \in Stmts, NEW a, NEW v, Step(s, a, v) \/ Execute(s, a, v)
      PROVE  out'.op # "number" /\ Accounted'
  BY <1>3 DEF Step, Execute
<1>4. ASSUME NEW s, NEW i, NEW n, SqliteBind(s, i, n) PROVE out'.op # "number" /\ Accounted'
  BY <1>4 DEF SqliteBind
<1>5. ASSUME NEW s, NEW n, BindName(s, n) PROVE out'.op # "number" /\ Accounted'
  BY <1>4, <1>5 DEF BindName
<1>6. ASSUME NEW s \in Stmts, NEW inRange, NEW op \in {"text", "array"}, NEW ec,
             NoMemory(op, s, inRange, ec)
      PROVE  out'.op # "number" /\ Accounted'
  <2>1. /\ emptied' = [emptied EXCEPT ![s] = @ \/ ec = "ok"]
        /\ out'.op = op /\ out'.ec = ec
    BY <1>6 DEF NoMemory, Got
  <2>2. ec = "ok" => emptied'[s]
    BY <2>1 DEF TypeOK
  <2> QED
    BY <2>1, <2>2
<1>7. ASSUME NEW s \in Stmts, NEW inRange, NEW fits \in BOOLEAN,
             GetText(s, inRange) \/ GetArray(s, inRange, fits)
      PROVE  out'.op # "number" /\ Accounted'
  <2>1. CASE \E op \in {"text", "array"}, ec \in {"ok", "error", "invalid"} :
               NoMemory(op, s, inRange, ec)
    BY <1>6, <2>1
  <2>2. ASSUME NEW op \in {"text", "array"}, NEW ec, NEW filled,
               op = "text" => filled # "nothing" \/ ~HasValue(s, inRange),
               op = "array" => filled # "nothing" \/ ec # "ok",
               out' = [Got(op, s, inRange, ec) EXCEPT !.filled = filled]
        PROVE  out'.op # "number" /\ Accounted'
    BY <2>2 DEF Got, ReadAnswer
  <2>3. \A filled \in Fillings(s, inRange) : filled # "nothing"
    BY DEF Fillings
  <2> QED
    BY <1>7, <2>1, <2>2, <2>3 DEF ReadText, GetText, GetArray
<1>8. ASSUME NEW s \in Stmts, NEW inRange \in BOOLEAN, GetOptional(s, inRange)
      PROVE  \/ out'.op # "number" /\ Accounted'
             \/ \E narrow, through \in BOOLEAN : GetNumber(s, inRange, narrow, through)
  BY <1>7, <1>8 DEF GetOptional, Got, ReadAnswer
<1> QED
  BY <1>1, <1>2, <1>3, <1>4, <1>5, <1>7, <1>8 DEF Next, BindIndex

(* The getters of numbers. *)
LEMMA NumberReports ==
  ASSUME ReportInv, NEW s \in Stmts, NEW inRange \in BOOLEAN, NEW narrow \in BOOLEAN,
         NEW through \in BOOLEAN, GetNumber(s, inRange, narrow, through)
  PROVE  /\ ErrorOfRow'
         /\ Accounted'
         /\ NoNumberFromNowhere'
         /\ UndisturbedZero'
<1> DEFINE zero == ReadsZero(s, inRange, narrow)
           ec   == IF zero THEN ZeroReport(errcode, errcode') ELSE "ok"
<1>1. /\ ReadColumn(s, inRange)
      /\ out' = [Got("number", s, inRange, ec) EXCEPT
                   !.filled = IF HasValue(s, inRange) /\ Assigns(through, zero, ec)
                              THEN "whole" ELSE "nothing"]
  BY DEF GetNumber
<1>2. /\ out'.ec = ec /\ out'.answer = ReadAnswer(s, inRange)
      /\ out'.filled = "nothing" => ~HasValue(s, inRange) \/ ~Assigns(through, zero, ec)
  BY <1>1 DEF Got, Call
<1>3. Accounted'
  BY <1>2 DEF Accounted, Unread, Assigns, ReadAnswer
<1>4. UNCHANGED cursor
  BY <1>1 DEF ReadColumn, native
<1>5. ErrorOfRow'
  <2>1. CASE errcode' = errcode
    BY <1>1, <1>4, <2>1 DEF ReadColumn, ReportInv, ErrorOfRow
  <2>2. CASE errcode' # errcode
    BY <1>1, <1>4, <2>2 DEF ReadColumn, Disturb, ErrorOfRow
  <2> QED
    BY <2>1, <2>2
<1>6. NoNumberFromNowhere'
  <2> SUFFICES ASSUME ReadAnswer(s, inRange) # "ok"
               PROVE  ec = "ok" <=> ReadAnswer(s, inRange) = "nothing" /\ errcode' \in {"ok", "row"}
    BY <1>2 DEF NoNumberFromNowhere
  <2>1. CASE stmt[s] = None
    BY <2>1 DEF HasValue, ReadsZero, ReadAnswer, ZeroReport
  <2>2. CASE stmt[s] # None
    <3>1. ReadAnswer(s, inRange) = "range" /\ ~HasValue(s, inRange)
      BY <2>2 DEF ReadAnswer
    <3>2. errcode' = "range" /\ zero
      BY <1>1, <2>2, <3>1 DEF ReadColumn, ReadsZero
    <3> QED
      BY <3>1, <3>2 DEF ZeroReport
  <2> QED
    BY <2>1, <2>2
<1>7. UndisturbedZero'
  <2> SUFFICES ASSUME NEW x \in Stmts, cursor'[x] = "row", undisturbed'[x]
               PROVE  ec = "ok"
    BY <1>2 DEF UndisturbedZero
  <2>1. errcode' = "row"
    BY <1>5 DEF ErrorOfRow
  <2> QED
    BY <2>1 DEF ZeroReport
<1> QED
  BY <1>3, <1>5, <1>6, <1>7

(* Calls that use the connection disturb its error; a step sets it for the *)
(* row it comes to.                                                        *)
LEMMA ErrorOfRowStep ==
  ASSUME TypeOK, ErrorOfRow, [Next]_vars
  PROVE  ErrorOfRow'
<1>1. CASE Disturb
  BY <1>1 DEF Disturb, ErrorOfRow
<1>2. CASE UNCHANGED <<cursor, errcode, undisturbed>>
  BY <1>2 DEF ErrorOfRow
<1>3. ASSUME NEW s \in Stmts, NEW a, NEW v, Step(s, a, v) \/ Execute(s, a, v)
      PROVE  ErrorOfRow'
  <2>1. CASE SqliteStep(s, a, v)
    BY <2>1 DEF SqliteStep, ErrorOfRow, TypeOK
  <2>2. CASE SqliteStepNull(s, a)
    BY <1>2, <2>2 DEF SqliteStepNull, native
  <2> QED
    BY <1>3, <2>1, <2>2 DEF Step, Execute
<1>4. ASSUME NEW s, NEW i, NEW n, SqliteBind(s, i, n) PROVE Disturb
  BY <1>4 DEF SqliteBind
<1>5. ASSUME NEW s, NEW n, BindName(s, n) PROVE Disturb \/ UNCHANGED <<cursor, errcode, undisturbed>>
  BY <1>4, <1>5 DEF BindName, native
<1>6. ASSUME Reads PROVE Disturb \/ UNCHANGED <<cursor, errcode, undisturbed>>
  BY <1>6 DEF Reads, native
<1>7. ASSUME NEW s, NEW t, PrepareText(s, t) \/ Destroy(s) \/ Reset(s) PROVE Disturb
  BY <1>7 DEF PrepareText, Destroy, Reset
<1>8. ASSUME NEW a, PrepareNothing(a) \/ ExecuteSql(a) PROVE Disturb
  BY <1>8 DEF PrepareNothing, ExecuteSql
<1> QED
  BY <1>1, <1>2, <1>3, <1>4, <1>5, <1>6, <1>7, <1>8, GettersRead DEF Next, BindIndex, vars, native

(* The error of a value that came out empty stays with its statement until *)
(* it is reset, or stepped again after the step that fails for it.         *)
LEMMA EmptiedStep == ASSUME TypeOK, EmptiedPending, [Next]_vars PROVE EmptiedPending'
<1> USE DEF EmptiedPending
<1>1. CASE UNCHANGED <<rc, emptied>>
  BY <1>1
<1>2. ASSUME NEW s \in Stmts, emptied' = [emptied EXCEPT ![s] = FALSE],
             rc' = [rc EXCEPT ![s] = "ok"]
      PROVE  EmptiedPending'
  BY <1>2 DEF TypeOK
<1>3. ASSUME NEW s \in Stmts, NEW t, PrepareText(s, t) \/ Destroy(s) \/ Reset(s)
      PROVE  EmptiedPending'
  BY <1>2, <1>3 DEF PrepareText, Destroy, Replace, Reset
<1>4. ASSUME NEW s \in Stmts, NEW a, NEW v, Step(s, a, v) \/ Execute(s, a, v)
      PROVE  EmptiedPending'
  <2>1. CASE SqliteStep(s, a, v)
    <3>1. /\ emptied' = [emptied EXCEPT ![s] = @ /\ cursor[s] = "row"]
          /\ rc' = [rc EXCEPT ![s] = IF a = "error" THEN "error" ELSE "ok"]
          /\ cursor[s] = "row" /\ rc[s] = "error" => a = "error"
      BY <2>1 DEF SqliteStep
    <3> QED
      BY <3>1 DEF TypeOK
  <2>2. CASE SqliteStepNull(s, a)
    BY <1>1, <2>2 DEF SqliteStepNull, native
  <2> QED
    BY <1>4, <2>1, <2>2 DEF Step, Execute
<1>5. ASSUME NEW s, NEW i, NEW n, SqliteBind(s, i, n) PROVE UNCHANGED <<rc, emptied>>
  BY <1>5 DEF SqliteBind
<1>6. ASSUME NEW s, NEW n, BindName(s, n) PROVE UNCHANGED <<rc, emptied>>
  BY <1>5, <1>6 DEF BindName, native
<1>7. ASSUME NEW a, PrepareNothing(a) \/ ExecuteSql(a) PROVE UNCHANGED <<rc, emptied>>
  BY <1>7 DEF PrepareNothing, ExecuteSql, native
<1>8. ASSUME Reads PROVE EmptiedPending'
  <2>1. CASE UNCHANGED native
    BY <1>1, <2>1 DEF native
  <2>2. ASSUME NEW s \in Stmts, NEW given \in BOOLEAN, rc' = [rc EXCEPT ![s] = "error"],
               emptied' = [emptied EXCEPT ![s] = @ \/ given]
        PROVE  EmptiedPending'
    BY <2>2 DEF TypeOK
  <2> QED
    BY <1>8, <2>1, <2>2 DEF Reads
<1> QED
  BY <1>1, <1>3, <1>4, <1>5, <1>6, <1>7, <1>8, GettersRead DEF Next, BindIndex, vars, native

LEMMA NextReportInv == ASSUME ReportInv, [Next]_vars PROVE ReportInv'
<1>1. TypeOK' /\ ErrorOfRow' /\ EmptiedPending'
  BY TypeStep, ErrorOfRowStep, EmptiedStep DEF ReportInv, UnreadIsReported
<1>2. CASE UNCHANGED vars
  BY <1>1, <1>2 DEF vars, native, ReportInv, UndisturbedZero, NoNumberFromNowhere,
     UnreadIsReported
<1>3. CASE out'.op # "number" /\ Accounted'
  BY <1>1, <1>3 DEF ReportInv, UndisturbedZero, NoNumberFromNowhere, UnreadIsReported, Accounted
<1>4. CASE \E s \in Stmts, inRange, narrow, through \in BOOLEAN :
             GetNumber(s, inRange, narrow, through)
  BY <1>1, <1>4, NumberReports DEF ReportInv, UnreadIsReported, Accounted
<1> QED
  BY <1>2, <1>3, <1>4, OtherReports DEF ReportInv

(* What the getters report rests on, however often objects are prepared.   *)
THEOREM ReportInductive == Spec => []ReportInv
<1>1. Init => ReportInv
  BY InitType DEF Init, Call, ReportInv, ErrorOfRow, UndisturbedZero, NoNumberFromNowhere,
     UnreadIsReported, Unread, EmptiedPending
<1>2. ReportInv /\ [Next]_vars => ReportInv'
  BY NextReportInv
<1> QED
  BY <1>1, <1>2, PTL DEF Spec

(* A zero is not taken for an error when nothing but reads came after the  *)
(* step to its row: the last error of the connection is still the row.     *)
THEOREM ZeroOfRowIsNoError == Spec => []UndisturbedZero
<1>1. ReportInv => UndisturbedZero
  BY DEF ReportInv
<1> QED
  BY <1>1, ReportInductive, PTL

(* A getter of numbers reports that there is no row or no such column; of  *)
(* an object that was never prepared it reports whatever error the         *)
(* connection had last, and nothing if there was none.                     *)
THEOREM NoRowIsReported == Spec => []NoNumberFromNowhere
<1>1. ReportInv => NoNumberFromNowhere
  BY DEF ReportInv
<1> QED
  BY <1>1, ReportInductive, PTL

(* Where a getter gives the caller nothing of a value that is there, it    *)
(* reports an error, or the next reset of the statement does.              *)
THEOREM UnassignedIsReported == Spec => []UnreadIsReported
<1>1. ReportInv => UnreadIsReported
  BY DEF ReportInv
<1> QED
  BY <1>1, ReportInductive, PTL
=============================================================================
