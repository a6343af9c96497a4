------------------------------ MODULE Statement ------------------------------
(***************************************************************************)
(* statement (src/statement.cpp, include/sqlite-burrito/statement.h): the  *)
(* prepared statements of one connection.  A statement object keeps a      *)
(* compiled statement and, once a parameter was looked up by name, a map   *)
(* from names to indices.  The getters ask the connection for the last     *)
(* error, and that error belongs to all statements of the connection.      *)
(*                                                                         *)
(* SQLite is modelled by the answers it gives (ok, row, done or an error)  *)
(* and by the error code it leaves on the connection.  A value in a column *)
(* is one of the kinds the getters tell apart.  Throwing variants throw    *)
(* exactly when the error code they pass down comes back set.              *)
(***************************************************************************)
EXTENDS Naturals, Sequences

CONSTANTS Stmts,      \* statement objects
          Texts,      \* SQL statements that compile
          Selects,    \* those of them that return rows, the others insert one
          Params,     \* Params[t]: the names of t's parameters, None if nameless
          Names,      \* parameter names
          None,       \* nullptr, and no name
          Reprepare   \* may a statement object be prepared a second time?

ASSUME ConstAssumption ==
  /\ Selects \subseteq Texts
  /\ Params \in [Texts -> Seq(Names \cup {None})]
  /\ {None, "unprepared"} \cap Texts = {}
  /\ None \notin Names \cup {"unprepared"}
  /\ Reprepare \in BOOLEAN

VARIABLES
  stmt,         \* stmt_: the text it is compiled from
  cursor,       \* ready (fresh or reset), row, or halted
  rc,           \* what a step or a lack of memory left for reset to report
  column,       \* the value in the current row
  bound,        \* bound[s][i]: the name under which parameter i was bound
  emptied,      \* history: a getter found no memory and gave an empty value
  parameters,   \* parameters_: the text the map was filled from
  dangling,     \* the names in the map belong to a finalized statement
  errcode,      \* sqlite3_extended_errcode of the connection
  undisturbed,  \* since its last step, nothing but reads happened
  out           \* the last call: what SQLite answered, what the caller saw

native == <<stmt, cursor, rc, column, bound, emptied>>
map    == <<parameters, dangling>>
vars   == <<native, map, errcode, undisturbed, out>>

(* A wide number becomes zero when it is narrowed to fewer bits. *)
Values == {"null", "empty", "zero", "wide", "number"}

(* filled: how much of the caller's variable comes from the column. *)
Call(op, answer, ec) ==
  [op |-> op, answer |-> answer, ec |-> ec, value |-> "none", count |-> 0,
   filled |-> "whole"]

(* The indices of the parameters of a text. *)
Positions(t) == IF t = None THEN {} ELSE DOMAIN Params[t]

Disturb == undisturbed' = [s \in Stmts |-> FALSE]

Init ==
  /\ stmt = [s \in Stmts |-> None]
  /\ cursor = [s \in Stmts |-> "ready"]
  /\ rc = [s \in Stmts |-> "ok"]
  /\ column = [s \in Stmts |-> "none"]
  /\ bound = [s \in Stmts |-> [i \in Positions(None) |-> None]]
  /\ emptied = [s \in Stmts |-> FALSE]
  /\ parameters = [s \in Stmts |-> None]
  /\ dangling = [s \in Stmts |-> FALSE]
  /\ errcode = "ok"
  /\ undisturbed = [s \in Stmts |-> FALSE]
  /\ out = Call("none", "ok", "ok")

-----------------------------------------------------------------------------
(* prepare, and the end of a statement *)

(* sqlite3_finalize leaves the error of a statement that ran behind.       *)
LeftByFinalize(s, before) == IF stmt[s] = None \/ cursor[s] = "ready" THEN before ELSE rc[s]

(* stmt_ is replaced by a statement compiled from t, or by nullptr. *)
Replace(s, t) ==
  /\ stmt' = [stmt EXCEPT ![s] = t]
  /\ cursor' = [cursor EXCEPT ![s] = "ready"]
  /\ rc' = [rc EXCEPT ![s] = "ok"]
  /\ column' = [column EXCEPT ![s] = "none"]
  /\ bound' = [bound EXCEPT ![s] = [i \in Positions(t) |-> None]]
  /\ emptied' = [emptied EXCEPT ![s] = FALSE]

(* The map of names is not filled again, although its names and indices    *)
(* are those of the old statement, which ends after the new one compiled.  *)
PrepareText(s, t) ==
  /\ Reprepare \/ stmt[s] = None
  /\ Replace(s, t)
  /\ errcode' = LeftByFinalize(s, "ok")
  /\ dangling' = [dangling EXCEPT ![s] = parameters[s] \in Texts]
  /\ out' = Call("prepare", "ok", "ok")
  /\ Disturb
  /\ UNCHANGED parameters

(* A text that does not compile, or that holds no statement, leaves the    *)
(* old statement in place.                                                 *)
PrepareNothing(answer) ==
  /\ errcode' = answer
  /\ out' = Call("prepare", answer, answer)
  /\ Disturb
  /\ UNCHANGED <<native, map>>

(* statement::~statement; a new object takes its place. *)
Destroy(s) ==
  /\ Replace(s, None)
  /\ errcode' = LeftByFinalize(s, errcode)
  /\ parameters' = [parameters EXCEPT ![s] = None]
  /\ dangling' = [dangling EXCEPT ![s] = FALSE]
  /\ out' = Call("destroy", "ok", "ok")
  /\ Disturb

(* statement::execute(connection, sql). *)
ExecuteSql(answer) ==
  /\ errcode' = answer
  /\ out' = Call("sql", answer, answer)
  /\ Disturb
  /\ UNCHANGED <<native, map>>

-----------------------------------------------------------------------------
(* step, execute, reset *)

(* sqlite3_step: a select may have rows, everything may fail, and a row in *)
(* which memory ran out is the last.                                       *)
SqliteStep(s, answer, v) ==
  /\ stmt[s] # None
  /\ answer \in {"done", "error"} \cup (IF stmt[s] \in Selects THEN {"row"} ELSE {})
  /\ cursor[s] = "row" /\ rc[s] = "error" => answer = "error"
  /\ v \in IF answer = "row" THEN Values ELSE {"none"}
  /\ cursor' = [cursor EXCEPT ![s] = IF answer = "row" THEN "row" ELSE "halted"]
  /\ rc' = [rc EXCEPT ![s] = IF answer = "error" THEN "error" ELSE "ok"]
  /\ column' = [column EXCEPT ![s] = v]
  /\ emptied' = [emptied EXCEPT ![s] = @ /\ cursor[s] = "row"]
  /\ errcode' = answer
  /\ undisturbed' = [x \in Stmts |-> x = s]
  /\ UNCHANGED <<stmt, bound>>

SqliteStepNull(s, answer) ==
  /\ stmt[s] = None
  /\ answer = "misuse"
  /\ UNCHANGED <<native, errcode, undisturbed>>

(* statement::step(ec) has its own copy of ec: the caller's stays as it    *)
(* was, and step() throws nothing.                                         *)
StepReport(answer) == "ok"

Step(s, answer, v) ==
  /\ SqliteStep(s, answer, v) \/ SqliteStepNull(s, answer)
  /\ out' = Call("step", answer, StepReport(answer))
  /\ UNCHANGED map

(* statement::execute: sqlite3_changes is returned if ec says done. *)
RowsModified(ec) == IF ec = "done" THEN 1 ELSE 0

Execute(s, answer, v) ==
  /\ SqliteStep(s, answer, v) \/ SqliteStepNull(s, answer)
  /\ out' = [Call("execute", answer, StepReport(answer))
               EXCEPT !.count = RowsModified(StepReport(answer))]
  /\ UNCHANGED map

(* Bug: the answer of sqlite3_reset is dropped. *)
ResetReport_Silent(answer) == "ok"

ResetReport(answer) == answer

(* statement::reset reports what the last step failed with, or that memory *)
(* ran out in its row.                                                     *)
Reset(s) ==
  /\ cursor' = [cursor EXCEPT ![s] = "ready"]
  /\ rc' = [rc EXCEPT ![s] = "ok"]
  /\ column' = [column EXCEPT ![s] = "none"]
  /\ emptied' = [emptied EXCEPT ![s] = FALSE]
  /\ errcode' = IF cursor[s] = "ready" THEN errcode ELSE rc[s]
  /\ out' = Call("reset", rc[s], ResetReport(rc[s]))
  /\ Disturb
  /\ UNCHANGED <<stmt, bound, map>>

-----------------------------------------------------------------------------
(* bind *)

BindAnswer(s, i) ==
  CASE stmt[s] = None \/ cursor[s] # "ready" -> "misuse"
    [] stmt[s] # None /\ cursor[s] = "ready" /\ i \notin Positions(stmt[s]) -> "range"
    [] OTHER -> "ok"

(* sqlite3_bind_*: parameter i gets a value the caller meant for `name`. *)
SqliteBind(s, i, name) ==
  /\ bound' = IF BindAnswer(s, i) = "ok" THEN [bound EXCEPT ![s][i] = name] ELSE bound
  /\ errcode' = IF stmt[s] = None THEN errcode ELSE BindAnswer(s, i)
  /\ out' = Call("bind", BindAnswer(s, i), BindAnswer(s, i))
  /\ Disturb
  /\ UNCHANGED <<stmt, cursor, rc, column, emptied>>

BindIndex(s, i) == SqliteBind(s, i, None) /\ UNCHANGED map

(* fill_parameters_map: once per object, and of an unprepared statement    *)
(* there are no parameters.                                                *)

(* Bug: the map starts at index 0. *)
Lookup_OffByOne(m, unsafe, name) ==
  IF m = "unprepared" THEN {} ELSE {i - 1 : i \in {j \in DOMAIN Params[m] : Params[m][j] = name}}

(* Bug: the last parameter is left out. *)
Lookup_OneShort(m, unsafe, name) ==
  IF m = "unprepared" THEN {} ELSE {i \in DOMAIN Params[m] : Params[m][i] = name /\ i < Len(Params[m])}

(* The index of a name in the map.  Its keys point into the statement it   *)
(* was filled from; once that is finalized a lookup may answer anything.   *)
Lookup(m, unsafe, name) ==
  CASE m = "unprepared" -> {}
    [] m # "unprepared" /\ unsafe -> DOMAIN Params[m]
    [] OTHER -> {i \in DOMAIN Params[m] : Params[m][i] = name}

FilledMap(s) ==
  IF parameters[s] # None THEN parameters[s]
  ELSE IF stmt[s] = None THEN "unprepared" ELSE stmt[s]

BindName(s, name) ==
  /\ parameters' = [parameters EXCEPT ![s] = FilledMap(s)]
  /\ UNCHANGED dangling
  /\ \/ \E i \in Lookup(FilledMap(s), dangling[s], name) : SqliteBind(s, i, name)
     \/ /\ Lookup(FilledMap(s), dangling[s], name) = {} \/ dangling[s]
        /\ out' = [Call("bind", "ok", "invalid") EXCEPT
                     !.value = IF FilledMap(s) = "unprepared" THEN "early"
                               ELSE IF \E i \in Positions(stmt[s]) : Params[stmt[s]][i] = name
                               THEN "known" ELSE "unknown"]
        /\ UNCHANGED <<native, errcode, undisturbed>>

-----------------------------------------------------------------------------
(* get: column 0 is the only one, so another index is out of range *)

HasValue(s, inRange) == stmt[s] # None /\ cursor[s] = "row" /\ inRange

(* sqlite3_column_* of a column that is not there sets the error code. *)
ReadColumn(s, inRange) ==
  /\ errcode' = IF stmt[s] = None \/ HasValue(s, inRange) THEN errcode ELSE "range"
  /\ IF errcode' = errcode THEN UNCHANGED undisturbed ELSE Disturb
  /\ UNCHANGED <<native, map>>

ReadAnswer(s, inRange) ==
  CASE stmt[s] = None -> "nothing"
    [] HasValue(s, inRange) -> "ok"
    [] OTHER -> "range"

Got(op, s, inRange, ec) ==
  [Call(op, ReadAnswer(s, inRange), ec) EXCEPT
     !.value = IF HasValue(s, inRange) THEN column[s] ELSE "none"]

(* A zero may mean an error: the connection's last error decides, unless   *)
(* it says row.                                                            *)

(* Bug: the error code is taken before the column is read. *)
ZeroReport_Early(before, after) == IF before \in {"row", "done"} THEN "ok" ELSE before

(* Bug: done is reported, row too. *)
ZeroReport_Unfiltered(before, after) == after

ZeroReport(before, after) == IF after = "row" THEN "ok" ELSE after

(* The narrow getters are those of 8 to 32 bits and of bool.               *)
ReadsZero(s, inRange, narrow) ==
  ~HasValue(s, inRange) \/ column[s] \in Values \ (IF narrow THEN {"number"} ELSE {"wide", "number"})

(* Bug: they return on a zero, too. *)
Assigns_NotZero(through, zero, ec) == ~through \/ ~zero

(* The getters of float and bool read through another one and return when  *)
(* that has an error; the others have assigned the value by then.          *)
Assigns(through, zero, ec) == ~through \/ ec = "ok"

GetNumber(s, inRange, narrow, through) ==
  LET zero == ReadsZero(s, inRange, narrow)
      ec   == IF zero THEN ZeroReport(errcode, errcode') ELSE "ok"
  IN  /\ ReadColumn(s, inRange)
      /\ out' = [Got("number", s, inRange, ec) EXCEPT
                   !.filled = IF HasValue(s, inRange) /\ Assigns(through, zero, ec)
                              THEN "whole" ELSE "nothing"]

HasBytes(s, inRange) == HasValue(s, inRange) /\ column[s] \notin {"null", "empty"}

(* SQLite runs out of memory where it converts the value, which may be     *)
(* lost then: sqlite3_column_* leaves the error on the connection, and on  *)
(* the statement, whose next step fails and whose reset reports it again.  *)
NoMemory(op, s, inRange, ec) ==
  /\ HasBytes(s, inRange)
  /\ errcode' = "error"
  /\ rc' = [rc EXCEPT ![s] = "error"]
  /\ column' \in {column, [column EXCEPT ![s] = "null"]}
  /\ emptied' = [emptied EXCEPT ![s] = @ \/ ec = "ok"]
  /\ out' = [Got(op, s, inRange, ec) EXCEPT !.filled = "nothing"]
  /\ Disturb
  /\ UNCHANGED <<stmt, cursor, bound, map>>

(* Values of several bytes are filled bytewise: if the bytes of the column *)
(* do not suffice for the last one, its other bytes are not the column's.  *)
Fillings(s, inRange) == IF HasBytes(s, inRange) THEN {"whole", "part"} ELSE {"whole"}

(* A string or a vector: without any bytes it is empty, whatever the       *)
(* reason, and nothing is reported, not even that a number was not made    *)
(* into a text.  Only when the bytes are there and their address is not,   *)
(* there is an error.                                                      *)
ReadText(s, inRange, filled) ==
  /\ ReadColumn(s, inRange)
  /\ out' = [Got("text", s, inRange, "ok") EXCEPT
               !.filled = IF HasValue(s, inRange) THEN filled ELSE "nothing"]

GetText(s, inRange) ==
  \/ \E filled \in Fillings(s, inRange) : ReadText(s, inRange, filled)
  \/ \E ec \in {"error", "ok"} : NoMemory("text", s, inRange, ec)

(* An array must have the size of the value, and some size; without bytes  *)
(* the size is wrong.                                                      *)
GetArray(s, inRange, fits) ==
  \/ /\ ReadColumn(s, inRange)
     /\ fits => HasBytes(s, inRange)
     /\ \E filled \in Fillings(s, inRange) :
          out' = [Got("array", s, inRange, IF fits THEN "ok" ELSE "invalid") EXCEPT
                    !.filled = IF fits THEN filled ELSE "nothing"]
  \/ NoMemory("array", s, inRange, IF fits THEN "error" ELSE "invalid")

(* An optional is empty when is_null says so, which it also says of a      *)
(* column that is not there.  Otherwise it takes what the getter of the    *)
(* value has put, or has not put, in a local variable.                     *)
GetOptional(s, inRange) ==
  IF HasValue(s, inRange) /\ column[s] # "null"
  THEN \/ \E narrow, through \in BOOLEAN : GetNumber(s, inRange, narrow, through)
       \/ GetText(s, inRange)
       \/ \E fits \in BOOLEAN : GetArray(s, inRange, fits)
  ELSE /\ ReadColumn(s, inRange)
       /\ out' = [Got("optional", s, inRange, "ok") EXCEPT
                    !.filled = IF HasValue(s, inRange) THEN "whole" ELSE "nothing"]

-----------------------------------------------------------------------------

Indices == 0 .. 3

Next ==
  \/ \E s \in Stmts, t \in Texts : PrepareText(s, t)
  \/ \E a \in {"ok", "error"} : PrepareNothing(a) \/ ExecuteSql(a)
  \/ \E s \in Stmts, a \in {"row", "done", "error", "misuse"}, v \in Values \cup {"none"} :
       Step(s, a, v) \/ Execute(s, a, v)
  \/ \E s \in Stmts : Reset(s) \/ Destroy(s)
  \/ \E s \in Stmts, i \in Indices : BindIndex(s, i)
  \/ \E s \in Stmts, n \in Names : BindName(s, n)
  \/ \E s \in Stmts, inRange \in BOOLEAN :
       GetText(s, inRange) \/ GetOptional(s, inRange)
  \/ \E s \in Stmts, inRange, narrow, through \in BOOLEAN :
       GetNumber(s, inRange, narrow, through)
  \/ \E s \in Stmts, inRange, fits \in BOOLEAN : GetArray(s, inRange, fits)

Spec == Init /\ [][Next]_vars

-----------------------------------------------------------------------------

(* The types of the statement objects; a bound parameter exists. *)
TypeOK ==
  /\ stmt \in [Stmts -> Texts \cup {None}]
  /\ cursor \in [Stmts -> {"ready", "row", "halted"}]
  /\ rc \in [Stmts -> {"ok", "error"}]
  /\ column \in [Stmts -> Values \cup {"none"}]
  /\ DOMAIN bound = Stmts
  /\ \A s \in Stmts : bound[s] \in [Positions(stmt[s]) -> Names \cup {None}]
  /\ emptied \in [Stmts -> BOOLEAN]
  /\ parameters \in [Stmts -> Texts \cup {None, "unprepared"}]
  /\ dangling \in [Stmts -> BOOLEAN]
  /\ errcode \in {"ok", "row", "done", "error", "misuse", "range"}
  /\ undisturbed \in [Stmts -> BOOLEAN]

(* Test "Name-based bindings should not be ambiguous": a value bound by    *)
(* name is in the parameter of that name.                                  *)
NamedBindsHit ==
  \A s \in Stmts : \A i \in Positions(stmt[s]) :
    bound[s][i] # None => Params[stmt[s]][i] = bound[s][i]

(* The map of names was filled from the statement that is bound.           *)
MapFits ==
  \A s \in Stmts : ~dangling[s] /\ (parameters[s] \in Texts => parameters[s] = stmt[s])

(* The inductive invariant behind NamedBindsHit, for statements that are   *)
(* prepared once.                                                          *)
IndInv == TypeOK /\ MapFits /\ NamedBindsHit

(* A name of the prepared statement is found, unless a name was looked up  *)
(* before the object was prepared.                                         *)
KnownNamesFound == out.op = "bind" => out.value # "known"

Unread(call) == call.answer = "ok" /\ call.filled = "nothing" /\ call.ec = "ok"

EmptiedPending == \A s \in Stmts : emptied[s] => rc[s] = "error"

(* A getter that gave the caller nothing of a value that is there reports  *)
(* it, except a string or vector that came out empty because memory ran    *)
(* out; the statement still has that error for its next reset, unless it   *)
(* was stepped again after the step that fails for it.  Nothing is said of *)
(* an array that is filled in part, and none of this of a column that is   *)
(* not there: strings, vectors and optionals are just empty then.          *)
UnreadIsReported ==
  /\ Unread(out) => \E s \in Stmts : emptied[s]
  /\ EmptiedPending

(* A zero, and a number that becomes zero when it is narrowed, is not      *)
(* taken for an error when nothing but reads happened on the connection    *)
(* since the statement was stepped.                                        *)
UndisturbedZero ==
  \A s \in Stmts :
    cursor[s] = "row" /\ undisturbed[s] /\ out.op = "number" /\ out.answer = "ok" =>
      out.ec = "ok"

(* Reading a number where there is no row or no such column is reported,   *)
(* except when the object was never prepared: its zero is an error only if *)
(* the connection's last call, of whatever statement, left one, and done   *)
(* is one.                                                                 *)
NoNumberFromNowhere ==
  out.op = "number" /\ out.answer # "ok" =>
    (out.ec = "ok" <=> out.answer = "nothing" /\ errcode \in {"ok", "row"})

(* What UndisturbedZero rests on: until something else happens on the      *)
(* connection, its last error is the row that the statement was stepped to.*)
ErrorOfRow == \A s \in Stmts : cursor[s] = "row" /\ undisturbed[s] => errcode = "row"

(* The inductive invariant behind what the getters report, which does not  *)
(* care how often a statement object is prepared.                          *)
ReportInv ==
  /\ TypeOK /\ ErrorOfRow
  /\ UndisturbedZero /\ NoNumberFromNowhere /\ UnreadIsReported

(* The comment in the getters of numbers: "it's actually zero, and not an  *)
(* error".                                                                 *)
ZeroIsNoError ==
  out.op = "number" /\ out.value = "zero" => out.ec = "ok"
=============================================================================
