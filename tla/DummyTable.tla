----------------------------- MODULE DummyTable -----------------------------
(***************************************************************************)
(* dummy_table and dummy_database (src/example/errors/main.cpp): a table   *)
(* behind three persistent statements of one connection.  Each method is a *)
(* sequence of calls of Statement, and returns at the first error code;    *)
(* SQLite's answers follow from the rows of the table, or are errors.      *)
(* The example with exceptions makes the same calls in the same order.     *)
(*                                                                         *)
(* The table exists, the database is opened once and nobody else uses it.  *)
(***************************************************************************)
EXTENDS Statement, Conversions

CONSTANTS add_entry_, select_all_, by_rowid_,  \* the statements of the table
          insert, list, find,                  \* their texts
          pfirst, psecond, pthird, prowid,     \* the names of parameters
          Entries,                             \* the entries that are added
          MaxAdds,                             \* bound: insertions
          MaxFaults                            \* bound: failures per statement

ASSUME TableAssumption ==
  /\ Stmts = {add_entry_, select_all_, by_rowid_}
  /\ add_entry_ # select_all_ /\ add_entry_ # by_rowid_ /\ select_all_ # by_rowid_
  /\ Texts = {insert, list, find} /\ Selects = {list, find}
  /\ Names = {pfirst, psecond, pthird, prowid}
  /\ Params[insert] = <<pfirst, psecond, pthird>>
  /\ Params[list] = <<>> /\ Params[find] = <<prowid>>
  /\ ~Reprepare
  /\ Entries \subseteq [first : ValuesOf(Signed(Half32)), second : {"null", "text"}, third : {"text"}]
  /\ MaxAdds \in 1 .. Half64 - 1 /\ MaxFaults \in Nat

VARIABLES
  rows,      \* the table, by rowid
  running,   \* the statement whose method runs, or ran last
  at,        \* where the method is
  entry,     \* the entry it adds, or None
  rowid,     \* the rowid it looks for
  result,    \* the entries it has returned or will return
  added,     \* history: add_entry has reported so many successes
  faults,    \* history: how often SQLite failed for a statement
  unread,    \* history: how often it failed to give the value of a column
  alarms     \* history: how often its method returned an error

table     == <<rows, running, at, entry, rowid, result, added, faults, unread, alarms>>
tableVars == <<vars, table>>

TableInit ==
  /\ Init
  /\ rows = <<>>
  /\ running = add_entry_ /\ at = "prepare"
  /\ entry = None /\ rowid = 0
  /\ result = <<>>
  /\ added = 0
  /\ faults = [s \in Stmts |-> 0]
  /\ unread = [s \in Stmts |-> 0]
  /\ alarms = [s \in Stmts |-> 0]

(* RETURN_ON_EC: the method of s goes on, or returns the error code.       *)
GoOn(s, there) == running' = s /\ at' = there /\ UNCHANGED alarms

Return == at' = "idle" /\ UNCHANGED <<running, alarms>>

(* Bug: the error code is not looked at. *)
ReturnOnEc_Ignored(s, there) == GoOn(s, there)

ReturnOnEc(s, there) ==
  \/ out'.ec = "ok" /\ GoOn(s, there)
  \/ /\ out'.ec # "ok"
     /\ running' = s /\ at' = "idle"
     /\ alarms' = [alarms EXCEPT ![s] = @ + 1]

(* SQLite fails by itself: an I/O error, no memory, a full disk.           *)
Fault(s, fails) ==
  /\ fails => faults[s] < MaxFaults
  /\ faults' = IF fails THEN [faults EXCEPT ![s] = @ + 1] ELSE faults

-----------------------------------------------------------------------------
(* prepare_statements: a database that could not be opened is not used.    *)

Prepare(s, t, next) ==
  /\ running = s /\ at = "prepare"
  /\ \/ PrepareText(s, t) /\ running' = next /\ at' = (IF next = s THEN "idle" ELSE "prepare")
     \/ PrepareNothing("error") /\ at' = "unopened" /\ UNCHANGED running
  /\ UNCHANGED <<rows, entry, rowid, result, added, faults, unread, alarms>>

PrepareStatements ==
  \/ Prepare(add_entry_, insert, select_all_)
  \/ Prepare(select_all_, list, by_rowid_)
  \/ Prepare(by_rowid_, find, by_rowid_)

(* Every method resets its statement before anything else.                 *)
Begin(s, e, r, there) ==
  /\ at = "idle"
  /\ Reset(s)
  /\ entry' = e /\ rowid' = r /\ result' = <<>>
  /\ ReturnOnEc(s, there)
  /\ UNCHANGED <<rows, added, faults, unread>>

-----------------------------------------------------------------------------
(* add_entry *)

Bind(here, s, call, there) ==
  /\ running = s /\ at = here
  /\ call
  /\ ReturnOnEc(s, there)
  /\ UNCHANGED <<rows, entry, rowid, result, added, faults, unread>>

Int32 == Signed(Half32)

Insert ==
  /\ running = add_entry_ /\ at = "insert"
  /\ \E answer \in {"done", "error"} :
       /\ Execute(add_entry_, answer, "none")
       /\ Fault(add_entry_, answer = "error")
       /\ rows' = IF answer = "done"
                  THEN Append(rows, [entry EXCEPT !.first = Stored(Int32, @)]) ELSE rows
  /\ \/ out'.ec = "ok" /\ added' = added + 1 /\ Return
     \/ out'.ec # "ok" /\ added' = added /\ ReturnOnEc(add_entry_, at)
  /\ UNCHANGED <<entry, rowid, result, unread>>

AddEntry ==
  \/ added < MaxAdds /\ \E e \in Entries : Begin(add_entry_, e, 0, "first")
  \/ Bind("first", add_entry_, BindName(add_entry_, pfirst), "second")
  \/ Bind("second", add_entry_, BindName(add_entry_, psecond), "third")
  \/ Bind("third", add_entry_, BindIndex(add_entry_, 3), "insert")
  \/ Insert

-----------------------------------------------------------------------------
(* select_all and by_row_id *)

Blank == [first |-> 0, second |-> "null", third |-> "empty"]
Kind(v) == IF v = 0 THEN "zero" ELSE "number"

(* The row that the step of s comes to next, and the one it is on.         *)
NextRow(s) == IF s = select_all_ THEN Len(result) + 1
              ELSE Stored(Signed(Half64), rowid)
CurrentRow(s) == rows[IF s = select_all_ THEN Len(result) ELSE rowid]

(* Bug: the loop waits for an error code. *)
NoMoreRows_UntilError(s) == GoOn(s, "step")

NoMoreRows(s) == Return

(* The end of the rows and an error look the same: step returns false.     *)
NextEntry(s) ==
  /\ running = s /\ at = "step"
  /\ \/ /\ NextRow(s) \in DOMAIN rows
        /\ Step(s, "row", Kind(rows[NextRow(s)].first)) /\ Fault(s, FALSE)
        /\ result' = Append(result, Blank)
        /\ ReturnOnEc(s, "get_first")
     \/ /\ NextRow(s) \notin DOMAIN rows
        /\ Step(s, "done", "none") /\ Fault(s, FALSE)
        /\ UNCHANGED result /\ NoMoreRows(s)
     \/ /\ Step(s, "error", "none") /\ Fault(s, TRUE)
        /\ UNCHANGED result /\ NoMoreRows(s)
  /\ UNCHANGED <<rows, entry, rowid, added, unread>>

Put(field, v) == result' = [result EXCEPT ![Len(result)] = [@ EXCEPT ![field] = v]]

GetFirst(s) ==
  /\ running = s /\ at = "get_first"
  /\ GetNumber(s, TRUE, TRUE, FALSE) /\ Fault(s, FALSE)
  /\ Put("first", Retrieved(Int32, CurrentRow(s).first))
  /\ ReturnOnEc(s, "get_second")
  /\ UNCHANGED <<rows, entry, rowid, added, unread>>

(* std::optional<std::string> and std::string: memory for a text may run   *)
(* out.  Its columns are texts, whose length SQLite knows, so they are not *)
(* taken for empty ones.                                                   *)
GetString(s, here, field, there) ==
  /\ running = s /\ at = here
  /\ \/ ReadText(s, TRUE, "whole") /\ Fault(s, FALSE)
        /\ Put(field, CurrentRow(s)[field]) /\ UNCHANGED unread
     \/ CurrentRow(s)[field] = "text" /\ NoMemory("text", s, TRUE, "error") /\ Fault(s, TRUE)
        /\ Put(field, "blank") /\ unread' = [unread EXCEPT ![s] = @ + 1]
  /\ \/ out'.ec = "ok" /\ there = "return" /\ Return
     \/ (out'.ec # "ok" \/ there # "return") /\ ReturnOnEc(s, there)
  /\ UNCHANGED <<rows, entry, rowid, added>>

Get(s, afterwards) ==
  \/ NextEntry(s)
  \/ GetFirst(s)
  \/ GetString(s, "get_second", "second", "get_third")
  \/ GetString(s, "get_third", "third", afterwards)

SelectAll == Begin(select_all_, None, 0, "step") \/ Get(select_all_, "step")

RowIds == 0 .. MaxAdds

ByRowId ==
  \/ \E r \in RowIds : Begin(by_rowid_, None, r, "rowid")
  \/ Bind("rowid", by_rowid_, BindName(by_rowid_, prowid), "step")
  \/ Get(by_rowid_, "return")

TableNext == PrepareStatements \/ AddEntry \/ SelectAll \/ ByRowId

TableSpec == TableInit /\ [][TableNext]_tableVars

(* A method that was called goes on. *)
Running == at \notin {"prepare", "idle"} /\ TableNext

FairTableSpec == TableSpec /\ WF_tableVars(Running)
-----------------------------------------------------------------------------

(* A failure that the next reset of s reports. *)
Pending(s) == IF rc[s] = "error" THEN 1 ELSE 0

(* step and execute hide every failure, but the next call of the method    *)
(* reports it.  A column that could not be read is reported at once, and   *)
(* by the next call again, since its reset still has that error.  Nothing  *)
(* else is reported: no zero is, and no error of another method.           *)
EachFaultReported ==
  \A s \in Stmts : alarms[s] + Pending(s) = faults[s] + unread[s]

(* Every entry whose add_entry succeeded is in the table, except those     *)
(* whose loss was reported to a later add_entry, and the last one, whose   *)
(* loss is still to be reported.                                           *)
LostOrReported == added = Len(rows) + alarms[add_entry_] + Pending(add_entry_)

Returned(s) == at = "idle" /\ running = s /\ out.ec = "ok"

(* A select_all that reports success has returned all rows, in order and   *)
(* as they were added, or a failure that its next call reports cut it off. *)
ListedOrPending ==
  Returned(select_all_) =>
    /\ result = SubSeq(rows, 1, Len(result))
    /\ Len(result) < Len(rows) => Pending(select_all_) = 1

(* by_row_id returns the row that was added under the rowid, and nothing   *)
(* only if there is none, or if a failure is pending.                      *)
FoundOrPending ==
  Returned(by_rowid_) /\ out.op # "prepare" =>
    IF result # <<>> THEN rowid \in DOMAIN rows /\ result = <<rows[rowid]>>
    ELSE rowid \notin DOMAIN rows \/ Pending(by_rowid_) = 1

(* Every method returns, whatever fails. *)
MethodsReturn == at \notin {"prepare", "unopened"} ~> at = "idle"

-----------------------------------------------------------------------------
(* What EachFaultReported and LostOrReported rest on, for the proofs.  *)

TextOf(s) == CASE s = add_entry_ -> insert [] s = select_all_ -> list [] OTHER -> find

(* An error is pending only until its statement is reset.                  *)
PendingInv ==
  \A s \in Stmts :
    /\ rc[s] = "error" => cursor[s] # "ready"
    /\ rc[s] = "error" /\ running = s => at \in {"idle", "unopened"}

(* Where a method is, its statement is prepared for the next call.         *)
MethodInv ==
  /\ running \in Stmts /\ out.ec \in {"ok", "error"}
  /\ at \in {"prepare", "unopened", "idle", "first", "second", "third", "insert",
             "rowid", "step", "get_first", "get_second", "get_third"}
  /\ \A s \in Stmts : parameters[s] \in {None, stmt[s]}
  /\ at \in {"prepare", "unopened"} =>
       \A s \in Stmts : cursor[s] = "ready" /\ parameters[s] = None
  /\ at = "prepare" /\ running # add_entry_ => stmt[add_entry_] = insert
  /\ at = "prepare" /\ running = by_rowid_ => stmt[select_all_] = list
  /\ at \notin {"prepare", "unopened"} => \A s \in Stmts : stmt[s] = TextOf(s)
  /\ at \in {"first", "second", "third", "insert"} =>
       running = add_entry_ /\ cursor[running] = "ready" /\ entry \in Entries
  /\ at = "rowid" => running = by_rowid_ /\ cursor[running] = "ready"
  /\ at \in {"step", "get_first", "get_second", "get_third"} => running \in {select_all_, by_rowid_}
  /\ at \in {"get_first", "get_second", "get_third"} => cursor[running] = "row"
  /\ at = "get_first" => errcode = "row"

(* The table holds what was added, and the histories count.               *)
HistoryType ==
  /\ rows \in Seq(Entries) /\ added \in Nat
  /\ faults \in [Stmts -> Nat] /\ unread \in [Stmts -> Nat] /\ alarms \in [Stmts -> Nat]

(* The inductive invariant of the table and of its statements.             *)
TableInv == /\ IndInv /\ HistoryType /\ PendingInv /\ MethodInv
            /\ EachFaultReported /\ LostOrReported

-----------------------------------------------------------------------------
(* What ListedOrPending and FoundOrPending rest on.                        *)

ReadEntry == [first  : ValuesOf(Int32), second : {"null", "text", "blank"},
              third : {"empty", "text", "blank"}]

Getting == at \in {"get_first", "get_second", "get_third"}

(* The columns of the row that were read so far. *)
ReadSoFar(e, row) ==
  /\ at # "get_first" => e.first = row.first
  /\ at = "get_third" => e.second = row.second

(* select_all has copied the first rows, by_row_id is on the row it looks  *)
(* for, and the entry that is being filled agrees with the row it is on.   *)
ReadInv ==
  /\ result \in Seq(ReadEntry) /\ rowid \in RowIds
  /\ running = select_all_ /\ (at = "step" \/ Getting) =>
       /\ Len(result) <= Len(rows)
       /\ \A i \in 1 .. Len(result) : at = "step" \/ i < Len(result) => result[i] = rows[i]
  /\ running = by_rowid_ /\ at \in {"rowid", "step"} => result = <<>>
  /\ running = by_rowid_ /\ Getting => rowid \in DOMAIN rows /\ Len(result) = 1
  /\ Getting => result # <<>> /\ ReadSoFar(result[Len(result)], CurrentRow(running))

(* The inductive invariant of what the methods return.                     *)
ResultInv == TableInv /\ ReadInv /\ ListedOrPending /\ FoundOrPending
=============================================================================
