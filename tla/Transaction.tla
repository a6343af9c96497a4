----------------------------- MODULE Transaction -----------------------------
(***************************************************************************)
(* transaction (src/transaction.cpp): objects that begin a transaction on  *)
(* a connection when they are constructed, end it in commit() or           *)
(* rollback(), and roll it back in their destructor when neither was       *)
(* called.  Several connections work on one database file, each used by a  *)
(* thread of its own.                                                      *)
(*                                                                         *)
(* Every call runs one SQL command, and SQLite answers at once: no busy    *)
(* timeout is ever set, so a conflict of locks is an error (SQLITE_BUSY).  *)
(* SQLite is modelled by its rollback-journal locks and autocommit flag.   *)
(* A call that fails without changing anything is a stuttering step.       *)
(***************************************************************************)
EXTENDS Naturals, FiniteSets

CONSTANTS Conns,      \* connections, all on one database file
          Trans,      \* transaction objects
          Rows,       \* rows to insert, each at most once
          None,       \* the owner of a row that no transaction object owns
          Nested,     \* may an object be constructed while another is in scope?
          MaxFaults,  \* bound: I/O errors and the like
          MaxMoves    \* bound: move constructions and assignments

ASSUME ConstAssumption ==
  /\ None \notin Trans
  /\ "unused" \notin Trans \cup {None}
  /\ Nested \in BOOLEAN
  /\ MaxFaults \in Nat /\ MaxMoves \in Nat

VARIABLES
  db,                       \* the durable rows
  autocommit, lock,         \* per connection: no transaction is open; file lock
  pending,                  \* per connection: the rows not yet committed
  reading,                  \* per connection: a SELECT was stepped, not reset
  phase, con,               \* per object: raw, alive or dead; con_
  committed, rolled_back,   \* per object: committed_, rolled_back_
  report,                   \* per object: what its commit or rollback returned
  owner,                    \* the object in whose scope a row was inserted
  terminated,               \* an exception left a destructor
  faults, moves,            \* the bounded counters
  dropped                   \* connections one of whose objects was assigned over

file   == <<db, owner>>
conns  == <<autocommit, lock, pending, reading>>
object == <<phase, con, committed, rolled_back, report>>
moved  == <<moves, dropped>>
vars   == <<file, conns, object, terminated, faults, moved>>

Init ==
  /\ db = {}
  /\ autocommit = [c \in Conns |-> TRUE]
  /\ lock = [c \in Conns |-> "none"]
  /\ pending = [c \in Conns |-> {}]
  /\ reading = [c \in Conns |-> FALSE]
  /\ phase = [o \in Trans |-> "raw"]
  /\ con \in [Trans -> Conns]
  /\ committed = [o \in Trans |-> FALSE]
  /\ rolled_back = [o \in Trans |-> FALSE]
  /\ report = [o \in Trans |-> "none"]
  /\ owner = [r \in Rows |-> "unused"]
  /\ terminated = FALSE
  /\ faults = 0
  /\ moves = 0
  /\ dropped = {}

-----------------------------------------------------------------------------
(* SQLite: a reader excludes commits, a writer excludes other writers. *)

Writing == {"reserved", "pending", "exclusive"}

Others(c) == Conns \ {c}

CanRead(c)  == \A d \in Others(c) : lock[d] \notin {"pending", "exclusive"}
CanWrite(c) == \A d \in Others(c) : lock[d] \notin Writing
Alone(c)    == \A d \in Others(c) : lock[d] = "none"

Fault == faults < MaxFaults /\ faults' = faults + 1

(* The transaction of c ends; a SELECT that was not reset keeps reading. *)
EndTransaction(c) ==
  /\ autocommit' = [autocommit EXCEPT ![c] = TRUE]
  /\ pending' = [pending EXCEPT ![c] = {}]
  /\ lock' = [lock EXCEPT ![c] = IF reading[c] THEN "shared" ELSE "none"]
  /\ UNCHANGED reading

-----------------------------------------------------------------------------
(* The objects *)

(* o is in scope and its destructor will roll back. *)
Holds(o) == phase[o] = "alive" /\ ~committed[o] /\ ~rolled_back[o]
Holders(c) == {o \in Trans : con[o] = c /\ Holds(o)}

Behaviors == {"deferred", "immediate", "exclusive"}

BeginLock(c, b) ==
  CASE b = "deferred"  -> lock[c]
    [] b = "immediate" -> "reserved"
    [] b = "exclusive" -> "exclusive"

(* transaction::transaction; when BEGIN fails it throws, and there is no   *)
(* object.                                                                 *)
Begin(o, c, b) ==
  /\ ~terminated
  /\ phase[o] = "raw"
  /\ Nested \/ Holders(c) = {}
  /\ autocommit[c]
  /\ b = "immediate" => CanWrite(c)
  /\ b = "exclusive" => Alone(c)
  /\ phase' = [phase EXCEPT ![o] = "alive"]
  /\ con' = [con EXCEPT ![o] = c]
  /\ autocommit' = [autocommit EXCEPT ![c] = FALSE]
  /\ lock' = [lock EXCEPT ![c] = BeginLock(c, b)]
  /\ UNCHANGED <<file, pending, reading, committed, rolled_back, report,
                 terminated, faults, moved>>

(* COMMIT TRANSACTION on c by o.  With rows to write it needs the file for *)
(* itself: if another connection reads, the answer is SQLITE_BUSY and the  *)
(* transaction stays open, its lock keeping new readers out.               *)
CommitSucceeds(o, c) ==
  /\ ~autocommit[c]
  /\ pending[c] = {} \/ Alone(c)
  /\ db' = db \cup pending[c]
  /\ EndTransaction(c)
  /\ report' = [report EXCEPT ![o] = "committed"]
  /\ UNCHANGED faults

(* Bug: the error is dropped, as if COMMIT waited. *)
CommitBusy_ErrorDropped(o, c) ==
  /\ ~autocommit[c]
  /\ pending[c] # {} /\ ~Alone(c)
  /\ lock' = [lock EXCEPT ![c] = "pending"]
  /\ report' = [report EXCEPT ![o] = "committed"]
  /\ UNCHANGED <<db, autocommit, pending, reading, faults>>

CommitBusy(o, c) ==
  /\ ~autocommit[c]
  /\ pending[c] # {} /\ ~Alone(c)
  /\ lock' = [lock EXCEPT ![c] = "pending"]
  /\ report' = [report EXCEPT ![o] = "error"]
  /\ UNCHANGED <<db, autocommit, pending, reading, faults>>

(* "no transaction is active", or an I/O error, which rolls back. *)

(* Bug: the error is dropped. *)
CommitFails_ErrorDropped(o, c) ==
  /\ \/ autocommit[c] /\ UNCHANGED <<conns, faults>>
     \/ ~autocommit[c] /\ Fault /\ EndTransaction(c)
  /\ report' = [report EXCEPT ![o] = "committed"]
  /\ UNCHANGED db

CommitFails(o, c) ==
  /\ \/ autocommit[c] /\ UNCHANGED <<conns, faults>>
     \/ ~autocommit[c] /\ Fault /\ EndTransaction(c)
  /\ report' = [report EXCEPT ![o] = "error"]
  /\ UNCHANGED db

(* transaction::commit; refused without effect when a flag is set.  The    *)
(* object is flagged whatever COMMIT answers.                              *)

(* Bug: the flag is not set. *)
Commit_NotFlagged(o) ==
  /\ ~terminated
  /\ Holds(o)
  /\ \/ CommitSucceeds(o, con[o])
     \/ CommitBusy(o, con[o])
     \/ CommitFails(o, con[o])
  /\ UNCHANGED <<phase, con, committed, rolled_back, owner, terminated, moved>>

Commit(o) ==
  /\ ~terminated
  /\ Holds(o)
  /\ \/ CommitSucceeds(o, con[o])
     \/ CommitBusy(o, con[o])
     \/ CommitFails(o, con[o])
  /\ committed' = [committed EXCEPT ![o] = TRUE]
  /\ UNCHANGED <<phase, con, rolled_back, owner, terminated, moved>>

(* ROLLBACK TRANSACTION on c: fails when no transaction is active, or      *)
(* before it has done anything (out of memory).                            *)
RollbackSucceeds(c) == ~autocommit[c] /\ EndTransaction(c) /\ UNCHANGED faults
RollbackFails(c) ==
  /\ \/ autocommit[c] /\ UNCHANGED faults
     \/ ~autocommit[c] /\ Fault
  /\ UNCHANGED conns

(* transaction::rollback, likewise. *)
Rollback(o) ==
  /\ ~terminated
  /\ Holds(o)
  /\ \/ /\ RollbackSucceeds(con[o])
        /\ report' = [report EXCEPT ![o] = "rolled_back"]
     \/ /\ RollbackFails(con[o])
        /\ report' = [report EXCEPT ![o] = "error"]
  /\ rolled_back' = [rolled_back EXCEPT ![o] = TRUE]
  /\ UNCHANGED <<file, phase, con, committed, terminated, moved>>

(* transaction::~transaction is noexcept: what it throws ends the program. *)

(* Bug: the destructor leaves the transaction open. *)
Destroy_NoRollback(o) ==
  /\ ~terminated
  /\ phase[o] = "alive"
  /\ phase' = [phase EXCEPT ![o] = "dead"]
  /\ UNCHANGED <<file, conns, con, committed, rolled_back, report, terminated,
                 faults, moved>>

Destroy(o) ==
  /\ ~terminated
  /\ phase[o] = "alive"
  /\ phase' = [phase EXCEPT ![o] = "dead"]
  /\ \/ /\ ~Holds(o)
        /\ UNCHANGED <<conns, terminated, faults>>
     \/ /\ Holds(o)
        /\ RollbackSucceeds(con[o])
        /\ UNCHANGED terminated
     \/ /\ Holds(o)
        /\ RollbackFails(con[o])
        /\ terminated' = TRUE
  /\ UNCHANGED <<file, con, committed, rolled_back, report, moved>>

(* The default move constructor copies all members and leaves the source   *)
(* as it is.                                                               *)
CopyMembers(o, n) ==
  /\ moves < MaxMoves /\ moves' = moves + 1
  /\ con' = [con EXCEPT ![n] = con[o]]
  /\ committed' = [committed EXCEPT ![n] = committed[o]]
  /\ rolled_back' = [rolled_back EXCEPT ![n] = rolled_back[o]]

Move(o, n) ==
  /\ ~terminated
  /\ phase[o] = "alive" /\ phase[n] = "raw"
  /\ CopyMembers(o, n)
  /\ phase' = [phase EXCEPT ![n] = "alive"]
  /\ UNCHANGED <<file, conns, report, terminated, faults, dropped>>

(* So does move assignment.  What the target was holding is forgotten: the *)
(* rows of its old scope are nobody's, and its report is void.             *)
MoveAssign(o, n) ==
  /\ ~terminated
  /\ o # n /\ phase[o] = "alive" /\ phase[n] = "alive"
  /\ CopyMembers(o, n)
  /\ owner' = [r \in Rows |-> IF owner[r] = n THEN None ELSE owner[r]]
  /\ report' = [report EXCEPT ![n] = "none"]
  /\ dropped' = IF Holds(n) \/ report[n] = "error" THEN dropped \cup {con[n]} ELSE dropped
  /\ UNCHANGED <<db, conns, phase, terminated, faults>>

-----------------------------------------------------------------------------
(* Other statements on a connection *)

OwnerOf(c) == IF Holders(c) = {} THEN {None} ELSE Holders(c)

(* An INSERT: in a transaction it takes the write lock; outside of one it  *)
(* is committed at once, which needs the file for itself.                  *)
Insert(c, r) ==
  /\ ~terminated
  /\ owner[r] = "unused"
  /\ \E o \in OwnerOf(c) : owner' = [owner EXCEPT ![r] = o]
  /\ \/ /\ ~autocommit[c]
        /\ lock[c] \in Writing \/ CanWrite(c)
        /\ lock' = [lock EXCEPT ![c] = IF @ \in Writing THEN @ ELSE "reserved"]
        /\ pending' = [pending EXCEPT ![c] = @ \cup {r}]
        /\ UNCHANGED db
     \/ /\ autocommit[c]
        /\ Alone(c)
        /\ db' = db \cup {r}
        /\ UNCHANGED <<lock, pending>>
  /\ UNCHANGED <<autocommit, reading, object, terminated, faults, moved>>

(* A failing statement (disk full, I/O error) rolls the transaction back.  *)
AutoRollback(c) ==
  /\ ~terminated
  /\ ~autocommit[c]
  /\ Fault
  /\ EndTransaction(c)
  /\ UNCHANGED <<file, object, terminated, moved>>

(* A SELECT is stepped to a row; it is reset. *)
Select(c) ==
  /\ ~terminated
  /\ ~reading[c]
  /\ lock[c] # "none" \/ CanRead(c)
  /\ reading' = [reading EXCEPT ![c] = TRUE]
  /\ lock' = [lock EXCEPT ![c] = IF @ = "none" THEN "shared" ELSE @]
  /\ UNCHANGED <<file, autocommit, pending, object, terminated, faults, moved>>

Reset(c) ==
  /\ ~terminated
  /\ reading[c]
  /\ reading' = [reading EXCEPT ![c] = FALSE]
  /\ lock' = [lock EXCEPT ![c] = IF autocommit[c] THEN "none" ELSE @]
  /\ UNCHANGED <<file, autocommit, pending, object, terminated, faults, moved>>

(* connection::~connection, its objects and statements being gone; a new   *)
(* connection takes its place.                                             *)
Close(c) ==
  /\ ~terminated
  /\ ~reading[c]
  /\ \A o \in Trans : con[o] = c => phase[o] # "alive"
  /\ ~autocommit[c]
  /\ EndTransaction(c)
  /\ UNCHANGED <<file, object, terminated, faults, moved>>

Next ==
  \/ \E o \in Trans, c \in Conns, b \in Behaviors : Begin(o, c, b)
  \/ \E o \in Trans : Commit(o) \/ Rollback(o) \/ Destroy(o)
  \/ \E o, n \in Trans : Move(o, n) \/ MoveAssign(o, n)
  \/ \E c \in Conns, r \in Rows : Insert(c, r)
  \/ \E c \in Conns : AutoRollback(c) \/ Select(c) \/ Reset(c) \/ Close(c)

Spec == Init /\ [][Next]_vars

(* Scopes end, and statements that were stepped are reset or finalized.    *)
FairSpec ==
  /\ Spec
  /\ \A o \in Trans : WF_vars(Destroy(o))
  /\ \A c \in Conns : WF_vars(Reset(c))

-----------------------------------------------------------------------------

FileType ==
  /\ db \subseteq Rows
  /\ owner \in [Rows -> Trans \cup {None, "unused"}]

ConnsType ==
  /\ autocommit \in [Conns -> BOOLEAN]
  /\ lock \in [Conns -> {"none", "shared"} \cup Writing]
  /\ pending \in [Conns -> SUBSET Rows]
  /\ reading \in [Conns -> BOOLEAN]

ObjectType ==
  /\ phase \in [Trans -> {"raw", "alive", "dead"}]
  /\ con \in [Trans -> Conns]
  /\ committed \in [Trans -> BOOLEAN]
  /\ rolled_back \in [Trans -> BOOLEAN]
  /\ report \in [Trans -> {"none", "committed", "rolled_back", "error"}]

CountersType ==
  /\ terminated \in BOOLEAN
  /\ faults \in 0 .. MaxFaults
  /\ moves \in 0 .. MaxMoves
  /\ dropped \subseteq Conns

(* The types of the rows, of SQLite's state and of the objects' members.   *)
TypeOK == FileType /\ ConnsType /\ ObjectType /\ CountersType

RowsOf(o) == {r \in Rows : owner[r] = o}

(* What an object is to the abstract scopes. *)
ScopeState ==
  [o \in Trans |->
     CASE report[o] = "committed" -> "committed"
       [] report[o] # "committed" /\ phase[o] = "raw" -> "raw"
       [] report[o] # "committed" /\ Holds(o) -> "open"
       [] OTHER -> "discarded"]

ScopeRows == [o \in Trans |-> RowsOf(o)]

Scopes == INSTANCE AtomicScopes WITH
  Scopes <- Trans, state <- ScopeState, written <- ScopeRows

(* Every interleaving of calls implements the all-or-nothing scopes of     *)
(* AtomicScopes: rows are published by the commit that reports success,    *)
(* never by another object, a destructor or a commit that reports an error.*)
ImplementsScopes == Scopes!Spec

(* A scope's rows are durable all together or not at all. *)
AllOrNothing == Scopes!AllOrNothing

(* Nothing has failed on its own so far, and no object was moved.          *)
Undisturbed == faults = 0 /\ moves = 0

(* ~transaction throws, which ends the program, only after SQLite rolled a *)
(* transaction back on its own or could not roll back, or after a move     *)
(* left two objects that hold one: whatever else commit and rollback were  *)
(* refused, in any order, its ROLLBACK finds a transaction to roll back.   *)
OnlyFailuresTerminate == terminated => ~Undisturbed

(* A connection is only left in a transaction that no object will end when *)
(* a commit or rollback on it returned an error, or its object was the     *)
(* target of a move assignment (or the program ended).                     *)
LeakReported ==
  \A c \in Conns : ~terminated /\ ~autocommit[c] /\ Holders(c) = {} =>
    c \in dropped \/ \E o \in Trans : con[o] = c /\ report[o] = "error"

(* A commit that reports success has made all rows of its scope durable,   *)
(* even when SQLite can roll the transaction back on its own, and when the *)
(* object was moved.                                                       *)
CommitIsWhole ==
  \A o \in Trans : report[o] = "committed" => RowsOf(o) \subseteq db

(* Every lock is released when scopes end and statements are reset, unless *)
(* a commit failed: no destructor leaves one behind.                       *)
LocksReleased ==
  \A c \in Conns : lock[c] # "none" ~>
    \/ lock[c] = "none"
    \/ \E o \in Trans : con[o] = c /\ report[o] = "error"

(* Test "Auto-rollback on scope exit": when the scope of the last          *)
(* transaction object of a connection has ended, so has the transaction.   *)
ScopeExitEndsTransaction ==
  \A c \in Conns : (\A o \in Trans : con[o] = c => phase[o] # "alive") => autocommit[c]
-----------------------------------------------------------------------------
(* Why the scopes are atomic while nothing fails and nothing is moved.     *)

(* An object that will roll back is the only one of its connection, and    *)
(* that connection is in a transaction.                                    *)
HoldersOpen == \A o \in Trans : Holds(o) => ~autocommit[con[o]]
SoleHolder == \A o, p \in Trans : Holds(o) /\ Holds(p) /\ con[o] = con[p] => o = p

(* The transaction of such a connection is made of the rows of its object. *)
PendingOwned == \A o \in Trans : Holds(o) => pending[con[o]] = RowsOf(o)

IdleIsEmpty == \A c \in Conns : autocommit[c] => pending[c] = {}
RawIsBlank == \A o \in Trans :
  phase[o] = "raw" => ~committed[o] /\ ~rolled_back[o] /\ RowsOf(o) = {}
ReportsLast == \A o \in Trans :
  phase[o] = "raw" \/ Holds(o) => report[o] = "none"

UnusedRows == \A r \in Rows : owner[r] = "unused" => r \notin db
DurableRows == \A o \in Trans : \A r \in RowsOf(o) : r \in db <=> report[o] = "committed"

(* The inductive invariant behind AllOrNothing and ImplementsScopes: what a*)
(* connection has pending belongs to the one object that can commit it.    *)
IndInv ==
  /\ TypeOK /\ ~terminated
  /\ HoldersOpen /\ SoleHolder /\ PendingOwned
  /\ IdleIsEmpty /\ RawIsBlank /\ ReportsLast
  /\ UnusedRows /\ DurableRows

-----------------------------------------------------------------------------
(* What is left of this when statements fail and objects are moved.        *)

(* The inductive invariant behind LeakReported: an object reports when its *)
(* hold ends, so what it reports is about the connection it had.           *)
LeakInv == TypeOK /\ RawIsBlank /\ ReportsLast /\ LeakReported

(* As long as SQLite has not rolled it back, a transaction has all rows of *)
(* each object that holds it.                                              *)
OpenIsWhole ==
  \A o \in Trans : Holds(o) /\ ~autocommit[con[o]] => RowsOf(o) \subseteq pending[con[o]]

(* The inductive invariant behind CommitIsWhole, for objects that are not  *)
(* nested: after a rollback nobody begins a second transaction under an    *)
(* object that still thinks it is in the first.                            *)
WholeInv == LeakInv /\ OpenIsWhole /\ CommitIsWhole
=============================================================================
