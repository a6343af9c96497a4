-------------------------- MODULE VersionedDatabase --------------------------
(***************************************************************************)
(* versioned_database (src/versioned_database.cpp): every process opens a  *)
(* database file, reads the version number in its metadata table, runs the *)
(* user's update callback once per missing step and stores the new version *)
(* after each step.  Every SQLite call of open() is one step here, since   *)
(* other processes, a failure or a crash may come between any two of them. *)
(*                                                                         *)
(* SQLite is modelled by what this code observes of it: a native handle    *)
(* has a file and a transaction state, one handle per file may hold the    *)
(* write lock, and a call may fail (SQLITE_BUSY, I/O error, out of memory).*)
(***************************************************************************)
EXTENDS Naturals

CONSTANTS Procs,           \* processes, each with one versioned_database object
          Files,           \* database files
          Handles,         \* native sqlite3 handles; a bound on open ones
          None,            \* nullptr
          NumSteps,        \* the callback knows the steps 0 .. NumSteps - 1
          Replayable,      \* steps whose script succeeds when it is run again
          Targets,         \* values of open()'s current_version argument
          ReopenElsewhere, \* may an open object be opened on another file?
          MaxOpens,        \* bound: open() calls per process
          MaxFaults,       \* bound: failing SQLite calls
          MaxCrashes       \* bound: processes killed inside open()

ASSUME ConstAssumption ==
  /\ NumSteps \in Nat \ {0}
  /\ Targets \subseteq Nat
  /\ Replayable \subseteq Nat
  /\ ReopenElsewhere \in BOOLEAN
  /\ {MaxOpens, MaxFaults, MaxCrashes} \subseteq Nat
  /\ None \notin Procs \cup Handles

VARIABLES
  version, applied,        \* the files, see VersionedSchema
  hown, hfile, htx,        \* handles: owning process, file, transaction state
  con,                     \* con_: the handle of the object's connection
  update_stmt,             \* update_stmt_: the handle it was compiled on
  update_rc,               \* what sqlite3_reset(update_stmt_) will report
  update_prepared,         \* update_prepared_
  pc, current, target,     \* the open() call in progress and its locals
  result,                  \* what the last open() call reported
  opens, faults, crashes   \* the bounded counters

files   == <<version, applied>>
handles == <<hown, hfile, htx>>
object  == <<con, update_stmt, update_rc, update_prepared>>
call    == <<pc, current, target, result>>
budget  == <<opens, faults, crashes>>
vars    == <<files, handles, object, call, budget>>

Steps == 0 .. NumSteps - 1

Schema == INSTANCE VersionedSchema

Init ==
  /\ Schema!Init
  /\ hown = [h \in Handles |-> None]
  /\ hfile \in [Handles -> Files]
  /\ htx = [h \in Handles |-> "none"]
  /\ con = [p \in Procs |-> None]
  /\ update_stmt = [p \in Procs |-> None]
  /\ update_rc = [p \in Procs |-> "ok"]
  /\ update_prepared = [p \in Procs |-> FALSE]
  /\ pc = [p \in Procs |-> "idle"]
  /\ current = [p \in Procs |-> 0]
  /\ target = [p \in Procs |-> 0]
  /\ result = [p \in Procs |-> "none"]
  /\ opens = [p \in Procs |-> 0]
  /\ faults = 0
  /\ crashes = 0

-----------------------------------------------------------------------------
(* SQLite *)

FileOf(p) == hfile[con[p]]

LockedByOther(h) ==
  \E g \in Handles \ {h} : hown[g] # None /\ hfile[g] = hfile[h] /\ htx[g] = "locked"

(* A call on handle h fails: out of the blue, or because of a foreign lock. *)
Failure(h) ==
  \/ LockedByOther(h) /\ UNCHANGED faults
  \/ faults < MaxFaults /\ faults' = faults + 1

(* The handles in S are closed; what they had not committed is rolled back. *)
CloseHandles(S) ==
  /\ hown' = [h \in Handles |-> IF h \in S THEN None ELSE hown[h]]
  /\ htx' = [h \in Handles |-> IF h \in S THEN "none" ELSE htx[h]]

-----------------------------------------------------------------------------
(* The control flow of open() *)

Goto(p, l) ==
  /\ pc' = [pc EXCEPT ![p] = l]
  /\ UNCHANGED <<current, result>>

Return(p, r) ==
  /\ pc' = [pc EXCEPT ![p] = "idle"]
  /\ current' = [current EXCEPT ![p] = 0]
  /\ result' = [result EXCEPT ![p] = r]

(* `file_version < current_version`, and the loop condition of             *)
(* perform_update: version v is reached, run step v or report success.     *)

(* Bug: the loop stops one step early. *)
Reached_Early(p, v) ==
  IF v + 1 < target[p]
  THEN /\ pc' = [pc EXCEPT ![p] = "update"]
       /\ current' = [current EXCEPT ![p] = v]
       /\ UNCHANGED result
  ELSE Return(p, "ok")

Reached(p, v) ==
  IF v < target[p]
  THEN /\ pc' = [pc EXCEPT ![p] = "update"]
       /\ current' = [current EXCEPT ![p] = v]
       /\ UNCHANGED result
  ELSE Return(p, "ok")

-----------------------------------------------------------------------------
(* connection::open.  The old handle is closed, but sqlite3_close refuses  *)
(* (SQLITE_BUSY, ignored) while update_stmt_ is compiled on it: then the   *)
(* handle stays open, with whatever transaction it is in.                  *)

(* Bug: the old handle is closed under the statement compiled on it. *)
ClosedByOpen_Always(p) == {con[p]}

ClosedByOpen(p) == IF con[p] = update_stmt[p] THEN {} ELSE {con[p]}

ConnectionOpen(p, f, h) ==
  /\ hown[h] = None
  /\ con' = [con EXCEPT ![p] = h]
  /\ hown' = [g \in Handles |-> CASE g = h -> p
                                  [] g # h /\ g \in ClosedByOpen(p) -> None
                                  [] OTHER -> hown[g]]
  /\ htx' = [g \in Handles |-> IF g \in ClosedByOpen(p) THEN "none" ELSE htx[g]]
  /\ hfile' = [hfile EXCEPT ![h] = f]

(* versioned_database::open up to con_.open; an error leaves con_ alone. *)
Open(p, f, t) ==
  /\ pc[p] = "idle"
  /\ opens[p] < MaxOpens
  /\ ~ReopenElsewhere /\ con[p] # None => f = FileOf(p)
  /\ opens' = [opens EXCEPT ![p] = @ + 1]
  /\ target' = [target EXCEPT ![p] = t]
  /\ \/ /\ \E h \in Handles : ConnectionOpen(p, f, h)
        /\ pc' = [pc EXCEPT ![p] = "table"]
        /\ result' = [result EXCEPT ![p] = "none"]
        /\ UNCHANGED <<current, faults>>
     \/ /\ faults < MaxFaults /\ faults' = faults + 1
        /\ Return(p, "error")
        /\ UNCHANGED <<handles, con>>
  /\ UNCHANGED <<files, update_stmt, update_rc, update_prepared, crashes>>

(* get_file_version, first query: is there a metadata table?  A failing    *)
(* prepare is reported; a failing step is not (statement::step takes its   *)
(* error code by value) and reads as "no such table", version 0.           *)
FindTable(p) ==
  /\ pc[p] = "table"
  /\ \/ /\ IF applied[FileOf(p)][0] > 0 THEN Goto(p, "version") ELSE Reached(p, 0)
        /\ UNCHANGED faults
     \/ Failure(con[p]) /\ Return(p, "error")
     \/ Failure(con[p]) /\ Reached(p, 0)
  /\ UNCHANGED <<files, handles, object, target, opens, crashes>>

(* get_file_version, second query: the number in the metadata table.  Again *)
(* a failing step is swallowed and reads as version 0.                      *)
ReadVersion(p) ==
  /\ pc[p] = "version"
  /\ \/ Reached(p, version[FileOf(p)]) /\ UNCHANGED faults
     \/ Failure(con[p]) /\ Return(p, "error")
     \/ Failure(con[p]) /\ Reached(p, 0)
  /\ UNCHANGED <<files, handles, object, target, opens, crashes>>

(* One call of the update callback, a script run by statement::execute: it  *)
(* commits step `current` as a whole, or stops at its first failing         *)
(* statement, in which case nobody ends the transaction it may have begun.  *)

(* Bug: CREATE TABLE IF NOT EXISTS in the script of the first step. *)
CanApply_IfNotExists(p) == current[p] \in Steps /\ ~LockedByOther(con[p])

CanApply(p) ==
  /\ current[p] \in Steps
  /\ ~LockedByOther(con[p])
  /\ applied[FileOf(p)][current[p]] = 0 \/ current[p] \in Replayable

LeftBehind(p) ==
  CASE current[p] \notin Steps -> {"none"}
    [] current[p] \in Steps /\ LockedByOther(con[p]) -> {"none", "open"}
    [] OTHER -> {"none", "open", "locked"}

UpdateSucceeds(p) ==
  /\ CanApply(p)
  /\ applied' = [applied EXCEPT ![FileOf(p)][current[p]] = @ + 1]
  /\ Goto(p, IF update_prepared[p] THEN "store" ELSE "prepare")
  /\ UNCHANGED <<htx, faults>>

(* Bug: `if (ec) return` after the callback is missing. *)
UpdateFails_Ignored(p) ==
  /\ IF CanApply(p) THEN Failure(con[p]) ELSE UNCHANGED faults
  /\ \E tx \in LeftBehind(p) : htx' = [htx EXCEPT ![con[p]] = tx]
  /\ Goto(p, IF update_prepared[p] THEN "store" ELSE "prepare")
  /\ UNCHANGED applied

(* Bug: a failed step is tried again in the loop. *)
UpdateFails_Retried(p) ==
  /\ IF CanApply(p) THEN Failure(con[p]) ELSE UNCHANGED faults
  /\ \E tx \in LeftBehind(p) : htx' = [htx EXCEPT ![con[p]] = tx]
  /\ UNCHANGED <<applied, pc, current, result>>

UpdateFails(p) ==
  /\ IF CanApply(p) THEN Failure(con[p]) ELSE UNCHANGED faults
  /\ \E tx \in LeftBehind(p) : htx' = [htx EXCEPT ![con[p]] = tx]
  /\ Return(p, "error")
  /\ UNCHANGED applied

RunUpdate(p) ==
  /\ pc[p] = "update"
  /\ UpdateSucceeds(p) \/ UpdateFails(p)
  /\ UNCHANGED <<version, hown, hfile, object, target, opens, crashes>>

(* prepare_update_statement: update_prepared_ is set whether or not the    *)
(* statement could be compiled.                                            *)
PrepareUpdateStatement(p) ==
  /\ pc[p] = "prepare"
  /\ update_prepared' = [update_prepared EXCEPT ![p] = TRUE]
  /\ \/ /\ update_stmt' = [update_stmt EXCEPT ![p] = con[p]]
        /\ Goto(p, "store")
        /\ UNCHANGED faults
     \/ /\ Failure(con[p])
        /\ Return(p, "error")
        /\ UNCHANGED update_stmt
  /\ UNCHANGED <<files, handles, con, update_rc, target, opens, crashes>>

(* The UPDATE run by update_stmt_ on the handle h it was compiled on.  In  *)
(* autocommit mode it is durable at once; in a transaction left open on h  *)
(* it only takes the write lock, and nobody will commit it.                *)

(* Bug: the version is stored before `++current`. *)
WriteVersion_BeforeIncrement(h, v) ==
  /\ ~LockedByOther(h)
  /\ IF htx[h] = "none"
     THEN version' = [version EXCEPT ![hfile[h]] = v - 1] /\ UNCHANGED htx
     ELSE htx' = [htx EXCEPT ![h] = "locked"] /\ UNCHANGED version

(* Bug: `++current` twice. *)
WriteVersion_TwoAhead(h, v) ==
  /\ ~LockedByOther(h)
  /\ IF htx[h] = "none"
     THEN version' = [version EXCEPT ![hfile[h]] = v + 1] /\ UNCHANGED htx
     ELSE htx' = [htx EXCEPT ![h] = "locked"] /\ UNCHANGED version

WriteVersion(h, v) ==
  /\ ~LockedByOther(h)
  /\ IF htx[h] = "none"
     THEN version' = [version EXCEPT ![hfile[h]] = v] /\ UNCHANGED htx
     ELSE htx' = [htx EXCEPT ![h] = "locked"] /\ UNCHANGED version

(* reset(ec) reports the failure of the previous execution, bind(ec) the   *)
(* missing statement; execute(ec) reports nothing.                         *)

(* Bug: the error reported by reset is dropped. *)
ResetOrBindFails_ResetIgnored(p) == update_stmt[p] = None

ResetOrBindFails(p) == update_stmt[p] = None \/ update_rc[p] = "error"

ExecuteUpdate(p, v) ==
  \/ /\ WriteVersion(update_stmt[p], v)
     /\ UNCHANGED <<update_rc, faults>>
  \/ /\ Failure(update_stmt[p])
     /\ update_rc' = [update_rc EXCEPT ![p] = "error"]
     /\ UNCHANGED <<version, htx>>

(* ++current; store_new_version(current, ec); *)
StoreNewVersion(p) ==
  /\ pc[p] = "store"
  /\ IF ResetOrBindFails(p)
     THEN /\ update_rc' = [update_rc EXCEPT ![p] = "ok"]
          /\ Return(p, "error")
          /\ UNCHANGED <<version, htx, faults>>
     ELSE /\ ExecuteUpdate(p, current[p] + 1)
          /\ Reached(p, current[p] + 1)
  /\ UNCHANGED <<applied, hown, hfile, con, update_stmt, update_prepared,
                 target, opens, crashes>>

(* ~versioned_database: the statement is finalized, then con_ is closed.   *)
(* Handles that an earlier open() could not close stay open.               *)
FreshObject(p) ==
  /\ con' = [con EXCEPT ![p] = None]
  /\ update_stmt' = [update_stmt EXCEPT ![p] = None]
  /\ update_rc' = [update_rc EXCEPT ![p] = "ok"]
  /\ update_prepared' = [update_prepared EXCEPT ![p] = FALSE]

Destroy(p) ==
  /\ pc[p] = "idle"
  /\ con[p] # None
  /\ CloseHandles({con[p]})
  /\ FreshObject(p)
  /\ UNCHANGED <<files, hfile, call, budget>>

(* The process exits, or is killed anywhere inside open(). *)
EndProcess(p) ==
  /\ \E h \in Handles : hown[h] = p
  /\ IF pc[p] = "idle" THEN UNCHANGED crashes
                       ELSE crashes < MaxCrashes /\ crashes' = crashes + 1
  /\ CloseHandles({h \in Handles : hown[h] = p})
  /\ FreshObject(p)
  /\ pc' = [pc EXCEPT ![p] = "idle"]
  /\ current' = [current EXCEPT ![p] = 0]
  /\ UNCHANGED <<files, hfile, target, result, opens, faults>>

Step(p) ==
  \/ FindTable(p)
  \/ ReadVersion(p)
  \/ RunUpdate(p)
  \/ PrepareUpdateStatement(p)
  \/ StoreNewVersion(p)

Next ==
  \E p \in Procs :
    \/ \E f \in Files, t \in Targets : Open(p, f, t)
    \/ Step(p)
    \/ Destroy(p)
    \/ EndProcess(p)

Spec == Init /\ [][Next]_vars

(* A thread inside open() keeps running: no SQLite call waits (no busy     *)
(* timeout is ever set), and the callback is assumed to return.            *)
FairSpec == Spec /\ \A p \in Procs : WF_vars(Step(p))

-----------------------------------------------------------------------------

FilesType ==
  /\ version \in [Files -> 0 .. NumSteps]
  /\ applied \in [Files -> [Steps -> Nat]]

HandlesType ==
  /\ hown \in [Handles -> Procs \cup {None}]
  /\ hfile \in [Handles -> Files]
  /\ htx \in [Handles -> {"none", "open", "locked"}]

ObjectType ==
  /\ con \in [Procs -> Handles \cup {None}]
  /\ update_stmt \in [Procs -> Handles \cup {None}]
  /\ update_rc \in [Procs -> {"ok", "error"}]
  /\ update_prepared \in [Procs -> BOOLEAN]

CallType ==
  /\ pc \in [Procs -> {"idle", "table", "version", "update", "prepare", "store"}]
  /\ current \in [Procs -> Nat]
  /\ target \in [Procs -> Nat]
  /\ result \in [Procs -> {"none", "ok", "error"}]

BudgetType ==
  /\ opens \in [Procs -> 0 .. MaxOpens]
  /\ faults \in 0 .. MaxFaults
  /\ crashes \in 0 .. MaxCrashes

(* The types of the state of open(): the version written by                *)
(* store_new_version is one of the known steps' versions, and no counter   *)
(* leaves its bound.                                                       *)
TypeOK == FilesType /\ HandlesType /\ ObjectType /\ CallType /\ BudgetType

(* No file's version number claims a step that was never committed to it,  *)
(* however many processes update it, fail, retry or crash                  *)
(* (store_new_version only ever follows the steps it counts).              *)
NeverSkips == Schema!NeverSkips

(* perform_update never runs a step on a file that lacks an earlier one,   *)
(* although get_file_version may have read 0 from a failed query, or a     *)
(* number that another process has overtaken since.                        *)
StepsInOrder == Schema!StepsInOrder

(* An object's connection and its compiled UPDATE use handles that its     *)
(* process owns and nobody has closed, and a call in progress has a        *)
(* connection.                                                             *)
OwnHandles ==
  \A p \in Procs :
    /\ con[p] # None => hown[con[p]] = p
    /\ update_stmt[p] # None => con[p] # None /\ hown[update_stmt[p]] = p
    /\ pc[p] # "idle" => con[p] # None

(* The number of a step is only stored after the callback knew the step.   *)
KnownStep == \A p \in Procs : pc[p] \in {"prepare", "store"} => current[p] \in Steps

(* No handle is closed under an object that uses it, and no number is      *)
(* stored that no known step leads to, also when objects are opened on a   *)
(* second file.                                                            *)
OpenInv == TypeOK /\ OwnHandles /\ KnownStep

(* What NeverSkips needs besides, when no object is opened on a second     *)
(* file: the compiled UPDATE writes to the file of the connection, and the *)
(* loop of perform_update runs on top of all the steps it has counted.     *)
SameFile ==
  \A p \in Procs : update_stmt[p] # None => hfile[update_stmt[p]] = hfile[con[p]]

LoopOnTop ==
  \A p \in Procs :
    /\ pc[p] \in {"update", "prepare", "store"} => Schema!UpTo(FileOf(p), current[p])
    /\ pc[p] \in {"prepare", "store"} => applied[FileOf(p)][current[p]] > 0

(* The inductive invariant: the files keep their promises because every    *)
(* call in progress is on top of its own steps, through its own handles.   *)
IndInv == OpenInv /\ SameFile /\ LoopOnTop /\ NeverSkips /\ StepsInOrder

(* Every step of every process is a step of the abstract schema, or leaves *)
(* the files alone: open() implements "run the next step, record a step".  *)
ImplementsSchema == Schema!Spec

(* With one opener the stored number lags the committed steps by at most   *)
(* two: a lost UPDATE goes unnoticed for one more step, then the reset in  *)
(* the next store_new_version reports it and the loop ends.                *)
LagBound == \A f \in Files : \A k \in Steps : applied[f][k] > 0 => k < version[f] + 2

(* With one opener and no failure no update step is ever run twice, over   *)
(* all its opens, re-opens, new objects and restarts.                      *)
ExactlyOnce ==
  faults = 0 /\ crashes = 0 =>
    \A f \in Files : \A k \in Steps : applied[f][k] <= 1

(* With one opener the stored version never goes down, even when a failed  *)
(* query made get_file_version restart from 0 on an up-to-date file: the   *)
(* first step's CREATE TABLE fails there before anything is stored.        *)
VersionMonotone == [][\A f \in Files : version'[f] >= version[f]]_vars

(* With one opener an open() that reports success leaves a version at most *)
(* one short of the requested one: only the last UPDATE may be lost.       *)
SuccessNearlyStored ==
  \A p \in Procs : result[p] = "ok" /\ con[p] # None => version[FileOf(p)] + 1 >= target[p]

(* Test "The latest database version should be stored": when open()        *)
(* reports success the file's version is at least the requested one.       *)
SuccessStored ==
  \A p \in Procs : result[p] = "ok" /\ con[p] # None => version[FileOf(p)] >= target[p]

(* open() returns: the loop of perform_update ends whatever fails in it.   *)
OpenReturns == \A p \in Procs : pc[p] # "idle" ~> pc[p] = "idle"

(* With one opener, open() brings the file to the requested version unless *)
(* a call fails, the process dies or the callback does not know the step.  *)
UpgradeCompletes ==
  \A p \in Procs, f \in Files :
    pc[p] = "table" /\ FileOf(p) = f /\ target[p] <= NumSteps
      ~> version[f] >= target[p] \/ faults + crashes > 0

-----------------------------------------------------------------------------
(* Why one opener never falls behind by more than one unnoticed UPDATE.    *)

(* A handle that nobody has open is in no transaction, and no call in      *)
(* progress inherits one: only a call that fails leaves one behind.        *)
CleanHandles ==
  /\ \A h \in Handles : hown[h] = None => htx[h] = "none"
  /\ \A p \in Procs : pc[p] # "idle" => htx[con[p]] = "none" /\ result[p] = "none"

(* An UPDATE that failed was compiled, so it will be reset by the next one.*)
FailureKept ==
  \A p \in Procs :
    /\ update_rc[p] = "error" => update_stmt[p] # None
    /\ update_stmt[p] # None => update_prepared[p]
    /\ pc[p] = "prepare" => ~update_prepared[p]

(* In the loop, `current` is the stored version, unless the UPDATE was just*)
(* lost: then the next reset reports it, or the lock that swallowed it     *)
(* stops the next script.  A call that misread the version of a file with a*)
(* table starts from 0, and fails in its first step.                       *)
AtVersion ==
  \A p \in Procs : LET v == version[FileOf(p)] IN
    /\ pc[p] = "update" =>
         \/ current[p] = v
         \/ current[p] = v + 1 /\ (update_rc[p] = "error" \/ LockedByOther(con[p]))
         \/ current[p] = 0 /\ applied[FileOf(p)][0] > 0
    /\ pc[p] = "prepare" => current[p] = v
    /\ pc[p] = "store" =>
         \/ current[p] = v
         \/ current[p] = v + 1 /\ update_rc[p] = "error"

(* The inductive invariant behind LagBound, SuccessNearlyStored and        *)
(* VersionMonotone, for one opener whose first step cannot be run twice.   *)
SoleInv ==
  /\ IndInv /\ CleanHandles /\ FailureKept /\ AtVersion
  /\ LagBound /\ SuccessNearlyStored

(* The inductive invariant behind ExactlyOnce: as long as nothing fails,   *)
(* nothing is left open, every UPDATE is stored, and the steps committed   *)
(* are those the version counts and the one about to be counted.           *)
NothingLeft ==
  /\ \A h \in Handles : htx[h] = "none"
  /\ \A p \in Procs : /\ update_rc[p] = "ok"
                      /\ update_prepared[p] \/ pc[p] = "store" => update_stmt[p] # None
                      /\ pc[p] \in {"update", "prepare", "store"} =>
                           current[p] = version[FileOf(p)]

Uncounted(f, k) ==
  \E p \in Procs : pc[p] \in {"prepare", "store"} /\ FileOf(p) = f /\ current[p] = k

AppliedOnce ==
  \A f \in Files : \A k \in Steps :
    applied[f][k] = IF k < version[f] \/ Uncounted(f, k) THEN 1 ELSE 0

OnceInv == IndInv /\ (faults = 0 /\ crashes = 0 => NothingLeft /\ AppliedOnce)
=============================================================================
