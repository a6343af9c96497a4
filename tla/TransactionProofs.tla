-------------------------- MODULE TransactionProofs --------------------------
(***************************************************************************)
(* Proofs about Transaction: up to the first statement that fails on its   *)
(* own or move of an object the transactions are atomic, and what fails    *)
(* afterwards is reported; for any connections, objects and rows, and every*)
(* order of calls, refused and busy commits included.                      *)
(***************************************************************************)
EXTENDS Transaction, TLAPS

-----------------------------------------------------------------------------

(* Init establishes the inductive invariant. *)
LEMMA InitIndInv == ASSUME Init PROVE IndInv
<1> USE DEF Init
<1>1. FileType /\ ConnsType
  BY DEF FileType, ConnsType
<1>2. ObjectType
  BY DEF ObjectType
<1>3. CountersType
  <2>1. terminated = FALSE /\ faults = 0 /\ moves = 0 /\ dropped = {}
    OBVIOUS
  <2>2. 0 \in 0 .. MaxFaults /\ 0 \in 0 .. MaxMoves
    BY ConstAssumption
  <2> QED
    BY <2>1, <2>2 DEF CountersType
<1>4. \A o \in Trans : ~Holds(o) /\ RowsOf(o) = {}
  BY ConstAssumption DEF Holds, RowsOf
<1>5. HoldersOpen /\ SoleHolder /\ PendingOwned
  BY <1>4 DEF HoldersOpen, SoleHolder, PendingOwned
<1>6. IdleIsEmpty /\ RawIsBlank /\ ReportsLast /\ UnusedRows /\ DurableRows
  BY <1>4 DEF IdleIsEmpty, RawIsBlank, ReportsLast, UnusedRows, DurableRows
<1> QED
  BY <1>1, <1>2, <1>3, <1>5, <1>6 DEF IndInv, TypeOK

(* Nothing has failed on its own after a step with which nothing has. *)
LEMMA NoFault == ASSUME TypeOK, faults' = 0 PROVE ~Fault
  BY DEF TypeOK, CountersType, Fault

(* What ends a transaction keeps the connection's types. *)
LEMMA EndTransactionType ==
  ASSUME TypeOK, NEW c \in Conns, EndTransaction(c) \/ UNCHANGED conns
  PROVE  ConnsType'
<1>1. CASE EndTransaction(c)
  <2>1. lock' \in [Conns -> {"none", "shared"} \cup Writing]
    BY <1>1 DEF EndTransaction, TypeOK, ConnsType
  <2> QED
    BY <1>1, <2>1 DEF EndTransaction, TypeOK, ConnsType
<1>2. CASE UNCHANGED conns
  BY <1>2 DEF conns, TypeOK, ConnsType
<1> QED
  BY <1>1, <1>2

(* A failure is counted up to its bound. *)
LEMMA FaultType ==
  ASSUME TypeOK, Fault \/ UNCHANGED faults
  PROVE  faults' \in 0 .. MaxFaults
  BY ConstAssumption DEF Fault, TypeOK, CountersType

(* Every step keeps the types. *)
LEMMA TypeStep == ASSUME TypeOK, [Next]_vars PROVE TypeOK'
<1> USE DEF TypeOK
<1>1. FileType'
  <2>1. ASSUME NEW o \in Trans, Commit(o) PROVE db' \subseteq Rows /\ UNCHANGED owner
    BY <2>1 DEF Commit, CommitSucceeds, CommitBusy, CommitFails, FileType, ConnsType, ObjectType
  <2>2. ASSUME NEW c \in Conns, NEW r \in Rows, Insert(c, r) PROVE FileType'
    BY <2>2 DEF Insert, OwnerOf, Holders, FileType
  <2>3. ASSUME NEW o \in Trans, NEW n \in Trans, MoveAssign(o, n) PROVE FileType'
    BY <2>3 DEF MoveAssign, FileType
  <2> QED
    BY <2>1, <2>2, <2>3 DEF Next, Begin, Rollback, Destroy, Move, AutoRollback, Select, Reset,
       Close, vars, file, FileType
<1>2. ConnsType'
  <2> USE DEF Writing
  <2>1. ASSUME NEW o \in Trans, NEW c \in Conns, NEW b \in Behaviors, Begin(o, c, b)
        PROVE  ConnsType'
    BY <2>1 DEF Begin, BeginLock, Behaviors, ConnsType
  <2>2. ASSUME NEW o \in Trans, Commit(o) \/ Rollback(o) \/ Destroy(o)
        PROVE  ConnsType'
    <3>1. con[o] \in Conns
      BY DEF ObjectType
    <3>2. CASE CommitBusy(o, con[o])
      BY <3>1, <3>2 DEF CommitBusy, ConnsType
    <3> QED
      BY <2>2, <3>1, <3>2, EndTransactionType DEF Commit, CommitSucceeds, CommitFails, Rollback,
         Destroy, RollbackSucceeds, RollbackFails, conns
  <2>3. ASSUME NEW c \in Conns, NEW r \in Rows, Insert(c, r) PROVE ConnsType'
    BY <2>3 DEF Insert, ConnsType
  <2>4. ASSUME NEW c \in Conns, Select(c) \/ Reset(c) PROVE ConnsType'
    BY <2>4 DEF Select, Reset, ConnsType
  <2>5. ASSUME NEW c \in Conns, AutoRollback(c) \/ Close(c) PROVE ConnsType'
    BY <2>5, EndTransactionType DEF AutoRollback, Close
  <2>6. ASSUME NEW o \in Trans, NEW n \in Trans, Move(o, n) \/ MoveAssign(o, n) PROVE ConnsType'
    BY <2>6 DEF Move, MoveAssign, conns, ConnsType
  <2> QED
    BY <2>1, <2>2, <2>3, <2>4, <2>5, <2>6 DEF Next, vars, conns, ConnsType
<1>3. ObjectType'
  <2> USE DEF ObjectType
  <2>1. ASSUME NEW o \in Trans, NEW c \in Conns, NEW b \in Behaviors, Begin(o, c, b)
        PROVE  ObjectType'
    BY <2>1 DEF Begin
  <2>2. ASSUME NEW o \in Trans, Commit(o) PROVE ObjectType'
    BY <2>2 DEF Commit, CommitSucceeds, CommitBusy, CommitFails
  <2>3. ASSUME NEW o \in Trans, Rollback(o) \/ Destroy(o) PROVE ObjectType'
    BY <2>3 DEF Rollback, Destroy
  <2>4. ASSUME NEW o \in Trans, NEW n \in Trans, Move(o, n) \/ MoveAssign(o, n) PROVE ObjectType'
    BY <2>4 DEF Move, MoveAssign, CopyMembers
  <2> QED
    BY <2>1, <2>2, <2>3, <2>4 DEF Next, Insert, AutoRollback, Select, Reset, Close, vars, object
<1>4. CountersType'
  <2> USE DEF Next, Begin, Commit, Rollback, Destroy, Move, MoveAssign, Insert, AutoRollback,
              Select, Reset, Close, vars
  <2>1. faults' \in 0 .. MaxFaults
    BY FaultType DEF CommitSucceeds, CommitBusy, CommitFails, RollbackSucceeds, RollbackFails
  <2>2. terminated' \in BOOLEAN
    BY DEF CountersType
  <2>3. moves' \in 0 .. MaxMoves
    BY ConstAssumption DEF CopyMembers, moved, CountersType
  <2>4. dropped' \subseteq Conns
    BY DEF moved, CountersType, ObjectType
  <2> QED
    BY <2>1, <2>2, <2>3, <2>4 DEF CountersType
<1> QED
  BY <1>1, <1>2, <1>3, <1>4

-----------------------------------------------------------------------------
(* The connection that a holding object uses has a transaction that is all *)
(* its own.                                                                *)

LEMMA HolderFacts ==
  ASSUME IndInv, NEW o \in Trans, Holds(o)
  PROVE  /\ con[o] \in Conns
         /\ ~autocommit[con[o]]
         /\ pending[con[o]] = RowsOf(o)
         /\ report[o] = "none"
         /\ phase[o] = "alive"
         /\ \A p \in Trans \ {o} : Holds(p) => con[p] # con[o]
  BY DEF IndInv, TypeOK, ObjectType, HoldersOpen, SoleHolder, PendingOwned, ReportsLast, Holds

(* A step that ends the transaction of a holding object, and takes the     *)
(* hold from it, with all its rows published or none.                      *)
LEMMA EndStep ==
  ASSUME IndInv, TypeOK', NEW o \in Trans, Holds(o), ~Holds(o)',
         phase'[o] # "raw",
         \A p \in Trans \ {o} : /\ Holds(p)' <=> Holds(p)
                                /\ phase'[p] = phase[p]
                                /\ committed'[p] = committed[p]
                                /\ rolled_back'[p] = rolled_back[p]
                                /\ report'[p] = report[p],
         \A c \in Conns \ {con[o]} : /\ autocommit'[c] = autocommit[c]
                                     /\ pending'[c] = pending[c],
         autocommit'[con[o]] => pending'[con[o]] = {},
         UNCHANGED <<con, owner, terminated>>,
         \/ report'[o] = "committed" /\ db' = db \cup pending[con[o]]
         \/ report'[o] # "committed" /\ db' = db
  PROVE  IndInv'
<1>1. \A p \in Trans : RowsOf(p)' = RowsOf(p)
  BY DEF RowsOf
<1>2. ~terminated'
  BY DEF IndInv
<1>3. HoldersOpen' /\ SoleHolder' /\ PendingOwned'
  BY <1>1, HolderFacts DEF HoldersOpen, SoleHolder, PendingOwned
<1>4. IdleIsEmpty' /\ RawIsBlank' /\ ReportsLast'
  BY <1>1, HolderFacts DEF IndInv, IdleIsEmpty, RawIsBlank, ReportsLast
<1>5. UnusedRows'
  BY HolderFacts, ConstAssumption DEF IndInv, UnusedRows, RowsOf
<1>6. DurableRows'
  <2>1. \A p \in Trans \ {o} : RowsOf(p) \cap RowsOf(o) = {}
    BY DEF RowsOf
  <2>2. \A r \in RowsOf(o) : r \notin db
    BY HolderFacts DEF IndInv, DurableRows
  <2> QED
    BY <1>1, <2>1, <2>2, HolderFacts DEF IndInv, DurableRows
<1> QED
  BY <1>2, <1>3, <1>4, <1>5, <1>6 DEF IndInv

LEMMA BeginStep ==
  ASSUME IndInv, TypeOK',
         NEW o \in Trans, NEW c \in Conns, NEW b \in Behaviors, Begin(o, c, b)
  PROVE  IndInv'
<1> USE DEF Begin, file
<1>1. \A p \in Trans : RowsOf(p)' = RowsOf(p)
  BY DEF RowsOf
<1>2. /\ RowsOf(o) = {} /\ report[o] = "none" /\ ~committed[o] /\ ~rolled_back[o]
      /\ pending[c] = {}
  BY DEF IndInv, RawIsBlank, ReportsLast, IdleIsEmpty
<1>3. \A p \in Trans : Holds(p) => con[p] # c
  BY DEF IndInv, HoldersOpen
<1>4. \A p \in Trans \ {o} : (Holds(p)' <=> Holds(p)) /\ con'[p] = con[p]
  BY DEF Holds, IndInv, TypeOK, ObjectType
<1>5. Holds(o)' /\ con'[o] = c /\ ~autocommit'[c]
  BY <1>2 DEF Holds, IndInv, TypeOK, ConnsType, ObjectType
<1>6. HoldersOpen'
  <2> SUFFICES ASSUME NEW p \in Trans, Holds(p)' PROVE ~autocommit'[con'[p]]
    BY DEF HoldersOpen
  <2> QED
    BY <1>3, <1>4, <1>5 DEF IndInv, HoldersOpen, TypeOK, ConnsType, ObjectType
<1>7. SoleHolder'
  <2> SUFFICES ASSUME NEW p \in Trans, NEW q \in Trans, Holds(p)', Holds(q)',
                      con'[p] = con'[q]
               PROVE  p = q
    BY DEF SoleHolder
  <2> QED
    BY <1>3, <1>4, <1>5 DEF IndInv, SoleHolder
<1>8. PendingOwned'
  <2> SUFFICES ASSUME NEW p \in Trans, Holds(p)' PROVE pending'[con'[p]] = RowsOf(p)'
    BY DEF PendingOwned
  <2>1. CASE p = o
    BY <1>1, <1>2, <1>5, <2>1
  <2>2. CASE p # o
    BY <1>1, <1>4, <2>2 DEF IndInv, PendingOwned
  <2> QED
    BY <2>1, <2>2
<1>9. IdleIsEmpty'
  BY DEF IndInv, IdleIsEmpty, TypeOK, ConnsType
<1>10. RawIsBlank' /\ ReportsLast'
  BY <1>1, <1>2, <1>4 DEF IndInv, RawIsBlank, ReportsLast, TypeOK, ObjectType
<1>11. UnusedRows' /\ DurableRows' /\ ~terminated'
  BY <1>1 DEF IndInv, UnusedRows, DurableRows
<1> QED
  BY <1>6, <1>7, <1>8, <1>9, <1>10, <1>11 DEF IndInv

LEMMA CommitStep ==
  ASSUME IndInv, TypeOK', faults' = 0, NEW o \in Trans, Commit(o)
  PROVE  IndInv'
<1> DEFINE c == con[o]
<1>1. ~autocommit[c] /\ c \in Conns /\ phase[o] = "alive"
  BY HolderFacts DEF Commit
<1>2. ~CommitFails(o, c)
  BY <1>1, NoFault DEF CommitFails, IndInv
<1>3. /\ ~Holds(o)' /\ phase'[o] # "raw"
      /\ \A p \in Trans \ {o} : /\ Holds(p)' <=> Holds(p)
                                /\ phase'[p] = phase[p]
                                /\ committed'[p] = committed[p]
                                /\ rolled_back'[p] = rolled_back[p]
  BY <1>1 DEF Commit, Holds, IndInv, TypeOK, ObjectType
<1>4. CASE CommitSucceeds(o, c)
  <2>1. /\ \A p \in Trans \ {o} : report'[p] = report[p]
        /\ report'[o] = "committed" /\ db' = db \cup pending[c]
    BY <1>4 DEF CommitSucceeds, IndInv, TypeOK, ObjectType
  <2>2. /\ pending'[c] = {}
        /\ \A d \in Conns \ {c} : autocommit'[d] = autocommit[d] /\ pending'[d] = pending[d]
    BY <1>1, <1>4 DEF CommitSucceeds, EndTransaction, IndInv, TypeOK, ConnsType
  <2> QED
    BY <1>3, <2>1, <2>2, EndStep DEF Commit
<1>5. CASE CommitBusy(o, c)
  <2>1. /\ \A p \in Trans \ {o} : report'[p] = report[p]
        /\ report'[o] # "committed" /\ db' = db
    BY <1>5 DEF CommitBusy, IndInv, TypeOK, ObjectType
  <2>2. ~autocommit'[c] /\ UNCHANGED <<autocommit, pending>>
    BY <1>5 DEF CommitBusy
  <2> QED
    BY <1>3, <2>1, <2>2, EndStep DEF Commit
<1> QED
  BY <1>2, <1>4, <1>5 DEF Commit

LEMMA RollbackStep ==
  ASSUME IndInv, TypeOK', faults' = 0, NEW o \in Trans, Rollback(o)
  PROVE  IndInv'
<1> DEFINE c == con[o]
<1>1. ~autocommit[c] /\ c \in Conns /\ phase[o] = "alive"
  BY HolderFacts DEF Rollback
<1>2. RollbackSucceeds(c) /\ report' = [report EXCEPT ![o] = "rolled_back"]
  BY <1>1, NoFault DEF Rollback, RollbackFails, IndInv
<1>3. /\ ~Holds(o)' /\ phase'[o] # "raw"
      /\ \A p \in Trans \ {o} : /\ Holds(p)' <=> Holds(p)
                                /\ phase'[p] = phase[p]
                                /\ committed'[p] = committed[p]
                                /\ rolled_back'[p] = rolled_back[p]
                                /\ report'[p] = report[p]
      /\ report'[o] # "committed" /\ db' = db
  BY <1>1, <1>2 DEF Rollback, Holds, IndInv, TypeOK, ObjectType, file
<1>4. /\ pending'[c] = {}
      /\ \A d \in Conns \ {c} : autocommit'[d] = autocommit[d] /\ pending'[d] = pending[d]
  BY <1>1, <1>2 DEF RollbackSucceeds, EndTransaction, IndInv, TypeOK, ConnsType
<1> QED
  BY <1>3, <1>4, EndStep DEF Rollback, file

LEMMA DestroyStep ==
  ASSUME IndInv, TypeOK', faults' = 0, NEW o \in Trans, Destroy(o)
  PROVE  IndInv'
<1> DEFINE c == con[o]
<1>1. /\ ~Holds(o)' /\ phase'[o] # "raw" /\ phase[o] # "raw"
      /\ \A p \in Trans \ {o} : (Holds(p)' <=> Holds(p)) /\ phase'[p] = phase[p]
  BY DEF Destroy, Holds, IndInv, TypeOK, ObjectType
<1>2. CASE Holds(o)
  <2>1. ~autocommit[c] /\ c \in Conns
    BY <1>2, HolderFacts
  <2>2. RollbackSucceeds(c) /\ UNCHANGED terminated
    BY <1>2, <2>1, NoFault DEF Destroy, RollbackFails, IndInv
  <2>3. /\ pending'[c] = {}
        /\ \A d \in Conns \ {c} : autocommit'[d] = autocommit[d] /\ pending'[d] = pending[d]
    BY <2>1, <2>2 DEF RollbackSucceeds, EndTransaction, IndInv, TypeOK, ConnsType
  <2>4. report'[o] # "committed" /\ db' = db
    BY <1>2, HolderFacts DEF Destroy, file
  <2> QED
    BY <1>1, <1>2, <2>2, <2>3, <2>4, EndStep DEF Destroy, file
<1>3. CASE ~Holds(o)
  <2>1. /\ UNCHANGED <<db, owner, autocommit, pending, con, committed, rolled_back,
                       report, terminated>>
        /\ \A p \in Trans : (Holds(p)' <=> Holds(p)) /\ (phase'[p] = "raw" => phase[p] = "raw")
    BY <1>1, <1>3 DEF Destroy, file, conns
  <2>2. \A p \in Trans : RowsOf(p)' = RowsOf(p)
    BY <2>1 DEF RowsOf
  <2>3. HoldersOpen' /\ SoleHolder' /\ PendingOwned' /\ IdleIsEmpty'
    BY <2>1, <2>2 DEF IndInv, HoldersOpen, SoleHolder, PendingOwned, IdleIsEmpty
  <2>4. RawIsBlank' /\ ReportsLast' /\ UnusedRows' /\ DurableRows' /\ ~terminated'
    BY <2>1, <2>2 DEF IndInv, RawIsBlank, ReportsLast, UnusedRows, DurableRows
  <2> QED
    BY <2>3, <2>4 DEF IndInv
<1> QED
  BY <1>2, <1>3

(* A row goes to the transaction of the one object that can commit it, or, *)
(* where there is none, to nobody.                                         *)
LEMMA InsertStep ==
  ASSUME IndInv, TypeOK', NEW c \in Conns, NEW r \in Rows, Insert(c, r)
  PROVE  IndInv'
<1> USE DEF Insert
<1>1. \A p \in Trans : /\ Holds(p)' <=> Holds(p)
                       /\ con'[p] = con[p] /\ phase'[p] = phase[p]
                       /\ report'[p] = report[p]
                       /\ committed'[p] = committed[p] /\ rolled_back'[p] = rolled_back[p]
  BY DEF object, Holds
<1>2. UNCHANGED <<autocommit, terminated>>
  OBVIOUS
<1>3. PICK w \in OwnerOf(c) : owner' = [owner EXCEPT ![r] = w]
  OBVIOUS
<1>4. \A p \in Trans : r \notin RowsOf(p)
  BY ConstAssumption DEF RowsOf
<1>5. r \notin db
  BY DEF IndInv, UnusedRows
<1>6. \A p \in Trans : RowsOf(p)' = IF p = w THEN RowsOf(p) \cup {r} ELSE RowsOf(p)
  <2>1. \A q \in Rows : owner'[q] = IF q = r THEN w ELSE owner[q]
    BY <1>3 DEF IndInv, TypeOK, FileType
  <2>2. owner[r] \notin Trans
    BY ConstAssumption
  <2> QED
    BY <2>1, <2>2 DEF RowsOf
<1>7. ~terminated' /\ HoldersOpen' /\ SoleHolder' /\ ReportsLast'
  BY <1>1, <1>2 DEF IndInv, HoldersOpen, SoleHolder, ReportsLast
<1>8. CASE \E o \in Trans : Holds(o) /\ con[o] = c
  <2>1. w \in Trans /\ Holds(w) /\ con[w] = c
    BY <1>3, <1>8 DEF OwnerOf, Holders
  <2>2. \A p \in Trans : Holds(p) /\ con[p] = c => p = w
    BY <2>1 DEF IndInv, SoleHolder
  <2>3. ~autocommit[c] /\ pending' = [pending EXCEPT ![c] = @ \cup {r}] /\ db' = db
    BY <2>1 DEF IndInv, HoldersOpen
  <2>4. PendingOwned'
    <3> SUFFICES ASSUME NEW p \in Trans, Holds(p)' PROVE pending'[con'[p]] = RowsOf(p)'
      BY DEF PendingOwned
    <3> QED
      BY <1>1, <1>6, <2>1, <2>2, <2>3 DEF IndInv, PendingOwned, TypeOK, ConnsType, ObjectType
  <2>5. IdleIsEmpty'
    BY <1>2, <2>3 DEF IndInv, IdleIsEmpty, TypeOK, ConnsType
  <2>6. RawIsBlank' /\ DurableRows'
    BY <1>1, <1>5, <1>6, <2>1, <2>3 DEF IndInv, RawIsBlank, DurableRows, ReportsLast, Holds
  <2>7. UnusedRows'
    BY <1>3, <2>3 DEF IndInv, UnusedRows, TypeOK, FileType
  <2> QED
    BY <1>7, <2>4, <2>5, <2>6, <2>7 DEF IndInv
<1>9. CASE ~\E o \in Trans : Holds(o) /\ con[o] = c
  <2>1. w = None /\ \A p \in Trans : RowsOf(p)' = RowsOf(p)
    BY <1>3, <1>6, <1>9, ConstAssumption DEF OwnerOf, Holders
  <2>2. /\ db' \subseteq db \cup {r} /\ db \subseteq db'
        /\ \A d \in Conns : d # c \/ autocommit[c] => pending'[d] = pending[d]
    BY DEF IndInv, TypeOK, ConnsType
  <2>3. PendingOwned'
    BY <1>1, <1>9, <2>1, <2>2 DEF IndInv, PendingOwned, TypeOK, ConnsType, ObjectType
  <2>4. IdleIsEmpty'
    BY <1>2, <2>2 DEF IndInv, IdleIsEmpty
  <2>5. RawIsBlank' /\ DurableRows'
    BY <1>1, <1>4, <2>1, <2>2 DEF IndInv, RawIsBlank, DurableRows
  <2>6. UnusedRows'
    BY <1>3, <2>1, <2>2, ConstAssumption DEF IndInv, UnusedRows, TypeOK, FileType
  <2> QED
    BY <1>7, <2>3, <2>4, <2>5, <2>6 DEF IndInv
<1> QED
  BY <1>8, <1>9

(* SELECT and reset touch nothing but locks; a connection is only closed   *)
(* when no object is left on it.                                           *)
LEMMA OtherStep ==
  ASSUME IndInv, TypeOK', NEW c \in Conns, Select(c) \/ Reset(c) \/ Close(c)
  PROVE  IndInv'
<1>1. UNCHANGED <<db, owner, phase, con, committed, rolled_back, report, terminated>>
  BY DEF Select, Reset, Close, file, object
<1>2. \A p \in Trans : (Holds(p)' <=> Holds(p)) /\ RowsOf(p)' = RowsOf(p)
  BY <1>1 DEF Holds, RowsOf
<1>3. IdleIsEmpty' /\ \A p \in Trans : Holds(p) => /\ autocommit'[con[p]] = autocommit[con[p]]
                                                    /\ pending'[con[p]] = pending[con[p]]
  <2>1. CASE Select(c) \/ Reset(c)
    BY <2>1 DEF Select, Reset, IndInv, IdleIsEmpty
  <2>2. CASE Close(c)
    <3>1. \A p \in Trans : Holds(p) => con[p] # c
      BY <2>2 DEF Close, Holds
    <3> QED
      BY <2>2, <3>1 DEF Close, EndTransaction, IndInv, TypeOK, ConnsType, ObjectType, IdleIsEmpty
  <2> QED
    BY <2>1, <2>2
<1>4. HoldersOpen' /\ SoleHolder' /\ PendingOwned'
  BY <1>1, <1>2, <1>3 DEF IndInv, HoldersOpen, SoleHolder, PendingOwned
<1>5. RawIsBlank' /\ ReportsLast' /\ UnusedRows' /\ DurableRows' /\ ~terminated'
  BY <1>1, <1>2 DEF IndInv, RawIsBlank, ReportsLast, UnusedRows, DurableRows
<1> QED
  BY <1>3, <1>4, <1>5 DEF IndInv

-----------------------------------------------------------------------------

(* Every step keeps the inductive invariant. *)
LEMMA NextIndInv ==
  ASSUME IndInv, [Next]_vars, Undisturbed'
  PROVE  IndInv'
<1>1. TypeOK'
  BY TypeStep DEF IndInv
<1>2. CASE UNCHANGED vars
  <2>1. UNCHANGED <<db, owner, autocommit, pending, phase, con, committed, rolled_back,
                    report, terminated>>
    BY <1>2 DEF vars, file, conns, object
  <2>2. \A p \in Trans : (Holds(p)' <=> Holds(p)) /\ RowsOf(p)' = RowsOf(p)
    BY <2>1 DEF Holds, RowsOf
  <2> QED
    BY <1>1, <2>1, <2>2 DEF IndInv, HoldersOpen, SoleHolder, PendingOwned, IdleIsEmpty,
       RawIsBlank, ReportsLast, UnusedRows, DurableRows
<1>3. ASSUME NEW o \in Trans, NEW n \in Trans, Move(o, n) \/ MoveAssign(o, n) PROVE FALSE
  BY <1>3 DEF Move, MoveAssign, CopyMembers, IndInv, TypeOK, CountersType, Undisturbed
<1>4. ASSUME NEW c \in Conns, AutoRollback(c) PROVE FALSE
  BY <1>4, NoFault DEF AutoRollback, IndInv, Undisturbed
<1> QED
  BY <1>1, <1>2, <1>3, <1>4, BeginStep, CommitStep, RollbackStep, DestroyStep,
     InsertStep, OtherStep DEF Next, Undisturbed

(* The variables keep their types, whatever fails and is moved. *)
THEOREM TypeCorrect == Spec => []TypeOK
<1>1. Init => TypeOK
  BY InitIndInv DEF IndInv
<1>2. TypeOK /\ [Next]_vars => TypeOK'
  BY TypeStep
<1> QED
  BY <1>1, <1>2, PTL DEF Spec

(* What has not failed or moved after a step had not before it. *)
LEMMA StillUndisturbed == ASSUME TypeOK, [Next]_vars, Undisturbed' PROVE Undisturbed
<1>1. faults \in Nat /\ moves \in Nat
  BY DEF TypeOK, CountersType
<1>2. UNCHANGED faults \/ Fault
  BY DEF Next, Begin, Commit, CommitSucceeds, CommitBusy, CommitFails, Rollback, Destroy,
     RollbackSucceeds, RollbackFails, Move, MoveAssign, Insert, AutoRollback, Select, Reset,
     Close, vars
<1>3. UNCHANGED moves \/ moves' = moves + 1
  BY DEF Next, Begin, Commit, Rollback, Destroy, Move, MoveAssign, CopyMembers, Insert,
     AutoRollback, Select, Reset, Close, vars, moved
<1> QED
  BY <1>1, <1>2, <1>3 DEF Fault, Undisturbed

(* The inductive invariant holds in every state before which no statement  *)
(* has failed on its own and no object was moved: what a connection has    *)
(* pending belongs to the one object that can commit it.                   *)
THEOREM Inductive == Spec => [](Undisturbed => IndInv)
<1>1. Init => TypeOK /\ IndInv
  BY InitIndInv DEF IndInv
<1>2. TypeOK /\ (Undisturbed => IndInv) /\ [Next]_vars => (Undisturbed => IndInv)'
  BY NextIndInv, StillUndisturbed
<1> QED
  BY <1>1, <1>2, TypeCorrect, PTL DEF Spec

(* ~transaction throws only after a failure of SQLite's own or a move: in  *)
(* every other state it finds a transaction to roll back.                  *)
THEOREM DestructorsDoNotThrow == Spec => []OnlyFailuresTerminate
<1>1. (Undisturbed => IndInv) => OnlyFailuresTerminate
  BY DEF IndInv, OnlyFailuresTerminate
<1> QED
  BY <1>1, Inductive, PTL

-----------------------------------------------------------------------------
(* The refinement *)

(* The mapped state of an object follows from its report, its phase and    *)
(* whether it holds.                                                       *)
LEMMA MappedState ==
  ASSUME IndInv, NEW o \in Trans
  PROVE  /\ report[o] = "committed" <=> ScopeState[o] = "committed"
         /\ Holds(o) => ScopeState[o] = "open"
         /\ phase[o] = "raw" => ScopeState[o] = "raw"
         /\ phase[o] # "raw" /\ ~Holds(o) /\ report[o] # "committed" =>
              ScopeState[o] = "discarded"
  BY DEF IndInv, ReportsLast, ScopeState, Holds

(* Whatever the failures, the transactions start as abstract scopes.       *)
LEMMA ScopesInit == ASSUME Init PROVE Scopes!Init
<1>1. ScopeState = [s \in Trans |-> "raw"]
  BY DEF Init, ScopeState, Holds
<1>2. ScopeRows = [s \in Trans |-> {}]
  BY ConstAssumption DEF Init, ScopeRows, RowsOf
<1> QED
  BY <1>1, <1>2 DEF Scopes!Init, Init

(* A step after which the mapped state of every object but o is the same.  *)
LEMMA MappedStep ==
  ASSUME IndInv, IndInv', NEW o \in Trans, NEW s, ScopeState'[o] = s,
         \A p \in Trans \ {o} : UNCHANGED <<phase[p], committed[p], rolled_back[p], report[p]>>
  PROVE  ScopeState' = [ScopeState EXCEPT ![o] = s]
<1>1. \A p \in Trans \ {o} : ScopeState'[p] = ScopeState[p]
  BY DEF ScopeState, Holds
<1>2. /\ ScopeState = [p \in Trans |-> ScopeState[p]]
      /\ ScopeState' = [p \in Trans |-> ScopeState'[p]]
  BY DEF ScopeState
<1> QED
  BY <1>1, <1>2

(* A step that ends the hold of o: it publishes the rows of o if it reports *)
(* success, and discards them otherwise.                                   *)
LEMMA MappedEnd ==
  ASSUME IndInv, IndInv', NEW o \in Trans, Holds(o), ~Holds(o)', phase'[o] # "raw",
         \A p \in Trans \ {o} : UNCHANGED <<phase[p], committed[p], rolled_back[p], report[p]>>,
         UNCHANGED owner,
         \/ report'[o] = "committed" /\ db' = db \cup pending[con[o]]
         \/ report'[o] # "committed" /\ db' = db
  PROVE  Scopes!Next
<1>1. ScopeState[o] = "open" /\ ScopeRows[o] = pending[con[o]]
  BY MappedState, HolderFacts DEF ScopeRows
<1>2. UNCHANGED ScopeRows
  BY DEF ScopeRows, RowsOf
<1>3. CASE report'[o] = "committed" /\ db' = db \cup pending[con[o]]
  <2>1. ScopeState'[o] = "committed"
    BY <1>3 DEF ScopeState
  <2>2. ScopeState' = [ScopeState EXCEPT ![o] = "committed"]
    BY <2>1, MappedStep
  <2>3. Scopes!Publish(o)
    BY <1>1, <1>2, <1>3, <2>2 DEF Scopes!Publish
  <2> QED
    BY <2>3 DEF Scopes!Next
<1>4. CASE report'[o] # "committed" /\ db' = db
  <2>1. ScopeState'[o] = "discarded"
    BY <1>4 DEF ScopeState, Holds
  <2>2. ScopeState' = [ScopeState EXCEPT ![o] = "discarded"]
    BY <2>1, MappedStep
  <2>3. Scopes!Discard(o)
    BY <1>1, <1>2, <1>4, <2>2 DEF Scopes!Discard
  <2> QED
    BY <2>3 DEF Scopes!Next
<1> QED
  BY <1>3, <1>4

(* Commit, rollback and the destructor of an object that holds. *)
LEMMA ScopeEnds ==
  ASSUME IndInv, IndInv', faults' = 0, NEW o \in Trans, Holds(o),
         Commit(o) \/ Rollback(o) \/ Destroy(o)
  PROVE  Scopes!Next
<1> USE DEF IndInv, TypeOK, ObjectType
<1>1. ~autocommit[con[o]] /\ phase[o] = "alive" /\ report[o] = "none" /\ ~Fault
  BY HolderFacts, NoFault
<1>2. /\ UNCHANGED owner
      /\ phase'[o] # "raw" /\ ~Holds(o)'
      /\ \A p \in Trans \ {o} : UNCHANGED <<phase[p], committed[p], rolled_back[p]>>
  BY <1>1 DEF Commit, Rollback, Destroy, Holds, file
<1>3. CASE Commit(o)
  BY <1>1, <1>2, <1>3, MappedEnd DEF Commit, CommitSucceeds, CommitBusy, CommitFails
<1>4. CASE Rollback(o) \/ Destroy(o)
  BY <1>1, <1>2, <1>4, MappedEnd DEF Rollback, Destroy, file
<1> QED
  BY <1>3, <1>4

(* An INSERT belongs to the open scope of its connection, or to none. *)
LEMMA ScopeWrites ==
  ASSUME IndInv, NEW c \in Conns, NEW r \in Rows, Insert(c, r)
  PROVE  Scopes!Next \/ UNCHANGED Scopes!vars
<1> USE DEF IndInv
<1>1. UNCHANGED ScopeState
  BY DEF Insert, object, ScopeState, Holds
<1>2. PICK w \in OwnerOf(c) : owner' = [owner EXCEPT ![r] = w]
  BY DEF Insert
<1>3. r \notin db /\ \A p \in Trans : r \notin ScopeRows[p]
  BY ConstAssumption DEF Insert, UnusedRows, ScopeRows, RowsOf
<1>4. Scopes!Fresh(r)
  BY <1>3 DEF Scopes!Fresh
<1>5. \A q \in Rows : owner'[q] = IF q = r THEN w ELSE owner[q]
  BY <1>2 DEF TypeOK, FileType
<1>6. CASE Holders(c) # {}
  <2>1. w \in Trans /\ Holds(w) /\ con[w] = c
    BY <1>6 DEF OwnerOf, Holders
  <2>2. ScopeState[w] = "open" /\ ~autocommit[c]
    BY <2>1, MappedState, HolderFacts
  <2>3. db' = db
    BY <2>2 DEF Insert
  <2>4. ScopeRows' = [ScopeRows EXCEPT ![w] = @ \cup {r}]
    <3>1. \A p \in Trans : RowsOf(p)' = IF p = w THEN RowsOf(p) \cup {r} ELSE RowsOf(p)
      BY <1>3, <1>5 DEF RowsOf, ScopeRows
    <3> QED
      BY <2>1, <3>1 DEF ScopeRows
  <2>5. Scopes!Write(w, r)
    BY <1>1, <1>4, <2>2, <2>3, <2>4 DEF Scopes!Write
  <2> QED
    BY <2>1, <2>5 DEF Scopes!Next
<1>7. CASE Holders(c) = {}
  <2>1. UNCHANGED ScopeRows
    <3>1. \A p \in Trans : RowsOf(p)' = RowsOf(p)
      BY <1>3, <1>5, <1>7, ConstAssumption DEF OwnerOf, RowsOf, ScopeRows
    <3> QED
      BY <3>1 DEF ScopeRows
  <2>2. CASE UNCHANGED db
    BY <1>1, <2>1, <2>2 DEF Scopes!vars
  <2>3. CASE db' = db \cup {r}
    <3>1. Scopes!WriteAlone(r)
      BY <1>1, <1>4, <2>1, <2>3 DEF Scopes!WriteAlone
    <3> QED
      BY <3>1 DEF Scopes!Next
  <2> QED
    BY <2>2, <2>3 DEF Insert
<1> QED
  BY <1>6, <1>7

(* Every step of the program is a step of the abstract scopes or a stutter.*)
LEMMA ScopesStep ==
  ASSUME IndInv, IndInv', [Next]_vars, Undisturbed'
  PROVE  Scopes!Next \/ UNCHANGED Scopes!vars
<1>1. ASSUME NEW o \in Trans, NEW c \in Conns, NEW b \in Behaviors, Begin(o, c, b)
      PROVE  Scopes!Next
  <2> USE DEF IndInv, TypeOK, ObjectType
  <2>1. ScopeState[o] = "raw" /\ Holds(o)'
    BY <1>1, MappedState DEF Begin, RawIsBlank, Holds
  <2>2. ScopeState'[o] = "open"
    BY <1>1, <2>1 DEF Begin, ReportsLast, ScopeState, Holds
  <2>3. \A p \in Trans \ {o} : UNCHANGED <<phase[p], committed[p], rolled_back[p], report[p]>>
    BY <1>1 DEF Begin
  <2>4. ScopeState' = [ScopeState EXCEPT ![o] = "open"]
    BY <2>2, <2>3, MappedStep
  <2>5. UNCHANGED <<db, ScopeRows>>
    BY <1>1 DEF Begin, file, ScopeRows, RowsOf
  <2>6. Scopes!Open(o)
    BY <2>1, <2>4, <2>5 DEF Scopes!Open
  <2> QED
    BY <2>6 DEF Scopes!Next
<1>2. ASSUME NEW o \in Trans, Commit(o) \/ Rollback(o) \/ Destroy(o)
      PROVE  Scopes!Next \/ UNCHANGED Scopes!vars
  <2>1. CASE ~Holds(o)
    <3>1. Destroy(o)
      BY <1>2, <2>1 DEF Commit, Rollback
    <3>2. /\ UNCHANGED <<db, owner, committed, rolled_back, report>>
          /\ \A p \in Trans : (Holds(p)' <=> Holds(p)) /\ (phase'[p] = "raw" <=> phase[p] = "raw")
      BY <2>1, <3>1 DEF Destroy, Holds, file, IndInv, TypeOK, ObjectType
    <3>3. UNCHANGED <<ScopeState, ScopeRows>>
      BY <3>2 DEF ScopeState, ScopeRows, RowsOf
    <3> QED
      BY <3>2, <3>3 DEF Scopes!vars
  <2> QED
    BY <1>2, <2>1, ScopeEnds DEF Undisturbed
<1>3. ASSUME NEW c \in Conns, NEW r \in Rows, Insert(c, r)
      PROVE  Scopes!Next \/ UNCHANGED Scopes!vars
  BY <1>3, ScopeWrites
<1>4. ASSUME NEW c \in Conns, Select(c) \/ Reset(c) \/ Close(c)
      PROVE  UNCHANGED Scopes!vars
  BY <1>4 DEF Select, Reset, Close, file, object, Scopes!vars, ScopeState, ScopeRows, RowsOf, Holds
<1>5. CASE UNCHANGED vars
  BY <1>5 DEF vars, file, object, Scopes!vars, ScopeState, ScopeRows, RowsOf, Holds
<1>6. ASSUME NEW o \in Trans, NEW n \in Trans, Move(o, n) \/ MoveAssign(o, n) PROVE FALSE
  BY <1>6 DEF Move, MoveAssign, CopyMembers, IndInv, TypeOK, CountersType, Undisturbed
<1>7. ASSUME NEW c \in Conns, AutoRollback(c) PROVE FALSE
  BY <1>7, NoFault DEF AutoRollback, IndInv, Undisturbed
<1> QED
  BY <1>1, <1>2, <1>3, <1>4, <1>5, <1>6, <1>7 DEF Next

(* All interleavings of all objects' calls, with refused and busy commits, *)
(* implement the all-or-nothing scopes of AtomicScopes.                    *)
THEOREM Refinement ==
  ASSUME MaxFaults = 0, MaxMoves = 0 PROVE Spec => ImplementsScopes
<1>1. Init => Scopes!Init
  BY ScopesInit
<1>2. IndInv /\ IndInv' /\ [Next]_vars /\ Undisturbed' => [Scopes!Next]_(Scopes!vars)
  BY ScopesStep
<1>3. TypeOK => Undisturbed
  BY DEF TypeOK, CountersType, Undisturbed
<1> QED
  BY <1>1, <1>2, <1>3, TypeCorrect, Inductive, PTL DEF Spec, ImplementsScopes, Scopes!Spec

(* The rows of a scope are durable together or not at all, up to the first *)
(* failure of SQLite's own or move.                                        *)
THEOREM Atomicity == Spec => [](Undisturbed => AllOrNothing)
<1>1. ASSUME IndInv PROVE AllOrNothing
  <2> SUFFICES ASSUME NEW o \in Trans
               PROVE  db \cap ScopeRows[o] =
                        IF ScopeState[o] = "committed" THEN ScopeRows[o] ELSE {}
    BY DEF AllOrNothing, Scopes!AllOrNothing
  <2>1. \A r \in ScopeRows[o] : r \in db <=> ScopeState[o] = "committed"
    BY <1>1, MappedState DEF IndInv, DurableRows, ScopeRows
  <2> QED
    BY <2>1
<1> QED
  BY <1>1, Inductive, PTL

-----------------------------------------------------------------------------
(* Failures and moves *)

(* Only a holding object gets a row, so an object that does not exist yet  *)
(* has none; and it reports nothing before its hold ends.                  *)
LEMMA BlankStep ==
  ASSUME TypeOK, RawIsBlank, ReportsLast, [Next]_vars
  PROVE  RawIsBlank' /\ ReportsLast'
<1> USE DEF TypeOK, ObjectType, RawIsBlank, ReportsLast
<1>1. ASSUME NEW o \in Trans, NEW c \in Conns, NEW b \in Behaviors, Begin(o, c, b)
      PROVE  RawIsBlank' /\ ReportsLast'
  BY <1>1 DEF Begin, file, Holds, RowsOf
<1>2. ASSUME NEW o \in Trans, Commit(o) \/ Rollback(o)
      PROVE  RawIsBlank' /\ ReportsLast'
  <2>1. /\ \A x \in Trans \ {o} : /\ Holds(x)' => Holds(x)
                                  /\ UNCHANGED <<committed[x], rolled_back[x], report[x]>>
        /\ UNCHANGED <<phase, owner>>
    BY <1>2 DEF Commit, CommitSucceeds, CommitBusy, CommitFails, Rollback, file, Holds
  <2>2. phase[o] = "alive" /\ ~Holds(o)'
    BY <1>2 DEF Commit, Rollback, Holds
  <2> QED
    BY <2>1, <2>2 DEF RowsOf
<1>3. ASSUME NEW o \in Trans, Destroy(o) PROVE RawIsBlank' /\ ReportsLast'
  BY <1>3 DEF Destroy, file, Holds, RowsOf
<1>4. ASSUME NEW o \in Trans, NEW n \in Trans, Move(o, n) PROVE RawIsBlank' /\ ReportsLast'
  BY <1>4 DEF Move, CopyMembers, file, Holds, RowsOf
<1>5. ASSUME NEW o \in Trans, NEW n \in Trans, MoveAssign(o, n)
      PROVE  RawIsBlank' /\ ReportsLast'
  <2>1. \A x \in Trans \ {n} : RowsOf(x)' = RowsOf(x)
    BY <1>5, ConstAssumption DEF MoveAssign, RowsOf, FileType
  <2> QED
    BY <1>5, <2>1 DEF MoveAssign, CopyMembers, Holds
<1>6. ASSUME NEW c \in Conns, NEW r \in Rows, Insert(c, r) PROVE RawIsBlank' /\ ReportsLast'
  <2>1. PICK w \in OwnerOf(c) : owner' = [owner EXCEPT ![r] = w]
    BY <1>6 DEF Insert
  <2>2. \A x \in Trans : phase[x] = "raw" => w # x
    BY ConstAssumption DEF OwnerOf, Holders, Holds
  <2>3. \A x \in Trans : phase[x] = "raw" => RowsOf(x)' = RowsOf(x)
    BY <2>1, <2>2, <1>6, ConstAssumption DEF Insert, RowsOf, FileType
  <2> QED
    BY <1>6, <2>3 DEF Insert, object, Holds
<1>7. ASSUME NEW c \in Conns, AutoRollback(c) \/ Select(c) \/ Reset(c) \/ Close(c)
      PROVE  UNCHANGED <<owner, object>>
  BY <1>7 DEF AutoRollback, Select, Reset, Close, file
<1>8. ASSUME UNCHANGED <<owner, object>> PROVE RawIsBlank' /\ ReportsLast'
  BY <1>8 DEF object, Holds, RowsOf
<1> QED
  BY <1>1, <1>2, <1>3, <1>4, <1>5, <1>6, <1>7, <1>8 DEF Next, vars, file

(* A connection that nobody will roll back has a known reason to be in a   *)
(* transaction, and keeps it.                                              *)
Excused(c) == c \in dropped \/ \E o \in Trans : con[o] = c /\ report[o] = "error"

(* A step that neither begins a transaction on c nor ends a hold on it.    *)
LEMMA StillExcused ==
  ASSUME LeakInv, NEW c \in Conns, ~terminated, ~autocommit[c],
         Holders(c) = {}, dropped \subseteq dropped',
         \A o \in Trans : /\ con[o] = c /\ report[o] = "error"
                          /\ ~UNCHANGED <<con[o], report[o]>>
                          => c \in dropped'
  PROVE  Excused(c)'
  BY DEF LeakInv, LeakReported, Excused

LEMMA LeakStep == ASSUME LeakInv, [Next]_vars PROVE LeakReported'
<1> USE DEF LeakInv, TypeOK, ObjectType, ConnsType
<1>1. SUFFICES ASSUME NEW c \in Conns, ~terminated', ~autocommit'[c], Holders(c)' = {}
               PROVE  Excused(c)'
  BY DEF LeakReported, Excused
<1>2. ASSUME ~terminated, ~autocommit[c], Holders(c) = {}, dropped \subseteq dropped',
             UNCHANGED <<con, report>>
      PROVE  Excused(c)'
  BY <1>2, StillExcused
<1>3. ASSUME NEW o \in Trans, NEW d \in Conns, NEW b \in Behaviors, Begin(o, d, b)
      PROVE  Excused(c)'
  <2>1. d # c
    BY <1>1, <1>3 DEF Begin, Holders, Holds, RawIsBlank
  <2>2. ~autocommit[c] /\ Holders(c) = {} /\ ~terminated
    BY <1>1, <1>3, <2>1 DEF Begin, Holders, Holds
  <2>3. report[o] = "none"
    BY <1>3 DEF Begin, ReportsLast
  <2> QED
    BY <1>3, <2>2, <2>3, StillExcused DEF Begin, moved
<1>4. ASSUME NEW o \in Trans, Commit(o) PROVE Excused(c)'
  <2>1. CASE c # con[o]
    <3>1. ~autocommit[c] /\ Holders(c) = {} /\ ~terminated
      BY <1>1, <1>4, <2>1 DEF Commit, CommitSucceeds, CommitBusy, CommitFails, EndTransaction,
         conns, Holders, Holds
    <3>2. \A x \in Trans \ {o} : report'[x] = report[x]
      BY <1>4 DEF Commit, CommitSucceeds, CommitBusy, CommitFails
    <3> QED
      BY <1>4, <2>1, <3>1, <3>2, StillExcused DEF Commit, moved
  <2>2. CASE c = con[o]
    <3>1. CommitBusy(o, con[o])
      BY <1>1, <1>4, <2>2 DEF Commit, CommitSucceeds, CommitFails, EndTransaction, conns
    <3> QED
      BY <1>4, <2>2, <3>1 DEF Commit, CommitBusy, Excused
  <2> QED
    BY <2>1, <2>2
<1>5. ASSUME NEW o \in Trans, Rollback(o) PROVE Excused(c)'
  <2>1. CASE c # con[o]
    <3>1. ~autocommit[c] /\ Holders(c) = {} /\ ~terminated
      BY <1>1, <1>5, <2>1 DEF Rollback, RollbackSucceeds, RollbackFails, EndTransaction,
         conns, Holders, Holds
    <3>2. \A x \in Trans \ {o} : report'[x] = report[x]
      BY <1>5 DEF Rollback
    <3> QED
      BY <1>5, <2>1, <3>1, <3>2, StillExcused DEF Rollback, moved
  <2>2. CASE c = con[o]
    <3>1. ~RollbackSucceeds(con[o])
      BY <1>1, <2>2 DEF RollbackSucceeds, EndTransaction
    <3> QED
      BY <1>5, <2>2, <3>1 DEF Rollback, Excused
  <2> QED
    BY <2>1, <2>2
<1>6. ASSUME NEW o \in Trans, Destroy(o) PROVE Excused(c)'
  <2>1. ~RollbackFails(con[o]) \/ ~Holds(o) \/ RollbackSucceeds(con[o])
    BY <1>1, <1>6 DEF Destroy
  <2>2. ~autocommit[c] /\ ~terminated
    BY <1>1, <1>6 DEF Destroy, RollbackSucceeds, RollbackFails, EndTransaction, conns
  <2>3. Holds(o) => con[o] # c
    BY <1>1, <1>6 DEF Destroy, RollbackSucceeds, EndTransaction
  <2>4. Holders(c) = {}
    BY <1>1, <1>6, <2>3 DEF Destroy, Holders, Holds
  <2> QED
    BY <1>2, <1>6, <2>2, <2>4 DEF Destroy, moved
<1>7. ASSUME NEW o \in Trans, NEW n \in Trans, Move(o, n) PROVE Excused(c)'
  <2>1. ~autocommit[c] /\ Holders(c) = {} /\ ~terminated
    BY <1>1, <1>7 DEF Move, CopyMembers, conns, Holders, Holds
  <2>2. report[n] = "none"
    BY <1>7 DEF Move, ReportsLast
  <2> QED
    BY <1>7, <2>1, <2>2, StillExcused DEF Move, CopyMembers
<1>8. ASSUME NEW o \in Trans, NEW n \in Trans, MoveAssign(o, n) PROVE Excused(c)'
  <2>1. ~autocommit[c] /\ ~terminated /\ dropped \subseteq dropped'
    BY <1>1, <1>8 DEF MoveAssign, conns
  <2>2. CASE Holders(c) = {}
    BY <1>8, <2>1, <2>2, StillExcused DEF MoveAssign, CopyMembers
  <2>3. CASE Holders(c) # {}
    <3>1. Holds(n) /\ con[n] = c
      BY <1>1, <1>8, <2>3 DEF MoveAssign, CopyMembers, Holders, Holds
    <3> QED
      BY <1>8, <3>1 DEF MoveAssign, Excused
  <2> QED
    BY <2>2, <2>3
<1>9. ASSUME NEW d \in Conns, AutoRollback(d) \/ Close(d) PROVE Excused(c)'
  <2>1. ~autocommit[c] /\ ~terminated
    BY <1>1, <1>9 DEF AutoRollback, Close, EndTransaction
  <2> QED
    BY <1>1, <1>2, <1>9, <2>1 DEF AutoRollback, Close, object, moved, Holders, Holds
<1>10. CASE UNCHANGED <<autocommit, object, terminated, dropped>>
  BY <1>1, <1>2, <1>10 DEF object, Holders, Holds
<1>11. ASSUME NEW d \in Conns, \/ Select(d) \/ Reset(d)
                               \/ \E r \in Rows : Insert(d, r)
       PROVE  UNCHANGED <<autocommit, object, terminated, dropped>>
  BY <1>11 DEF Select, Reset, Insert, moved
<1> QED
  BY <1>3, <1>4, <1>5, <1>6, <1>7, <1>8, <1>9, <1>10, <1>11 DEF Next, vars, conns, moved

LEMMA LeakInit == ASSUME Init PROVE LeakInv
<1>1. LeakReported
  BY DEF Init, LeakReported
<1> QED
  BY <1>1, InitIndInv DEF IndInv, LeakInv

LEMMA LeakInvStep == ASSUME LeakInv, [Next]_vars PROVE LeakInv'
  BY TypeStep, BlankStep, LeakStep DEF LeakInv

(* What a commit or a rollback leaves open, it has reported, whatever      *)
(* fails, is moved or is nested; and so has nobody else.                   *)
THEOREM LeaksAreReported == Spec => []LeakReported
<1>1. LeakInv => LeakReported
  BY DEF LeakInv
<1> QED
  BY <1>1, LeakInit, LeakInvStep, PTL DEF Spec

(* Where a row goes: to a holding object of its connection, or to nobody.  *)
LEMMA InsertRows ==
  ASSUME TypeOK, NEW c \in Conns, NEW r \in Rows, Insert(c, r)
  PROVE  \E w \in OwnerOf(c) : \A o \in Trans :
           RowsOf(o)' = IF o = w THEN RowsOf(o) \cup {r} ELSE RowsOf(o)
<1>1. PICK w \in OwnerOf(c) : owner' = [owner EXCEPT ![r] = w]
  BY DEF Insert
<1>2. \A q \in Rows : owner'[q] = IF q = r THEN w ELSE owner[q]
  BY <1>1 DEF TypeOK, FileType
<1>3. owner[r] \notin Trans
  BY ConstAssumption DEF Insert
<1> QED
  BY <1>2, <1>3 DEF RowsOf

(* No step takes a row from a scope that has it, but an assignment over    *)
(* its object, and only an INSERT gives it one.                            *)
LEMMA SameRows ==
  ASSUME UNCHANGED owner PROVE \A o \in Trans : RowsOf(o)' = RowsOf(o)
  BY DEF RowsOf

LEMMA AssignedRows ==
  ASSUME TypeOK, NEW o \in Trans, NEW n \in Trans, MoveAssign(o, n)
  PROVE  \A x \in Trans : RowsOf(x)' = IF x = n THEN {} ELSE RowsOf(x)
  BY ConstAssumption DEF MoveAssign, RowsOf, TypeOK, FileType

(* A transaction keeps all rows of the objects that hold it: nobody begins *)
(* one while another object thinks the connection is in its own.           *)
LEMMA OpenIsWholeStep ==
  ASSUME WholeInv, [Next]_vars, ~Nested
  PROVE  OpenIsWhole'
<1> USE DEF WholeInv, LeakInv, TypeOK, ObjectType, ConnsType
<1>1. SUFFICES ASSUME NEW x \in Trans, Holds(x)', ~autocommit'[con'[x]]
               PROVE  RowsOf(x)' \subseteq pending'[con'[x]]
  BY DEF OpenIsWhole
<1>2. ASSUME Holds(x), con'[x] = con[x], RowsOf(x)' = RowsOf(x), ~autocommit[con[x]],
             pending[con[x]] \subseteq pending'[con[x]]
      PROVE  RowsOf(x)' \subseteq pending'[con'[x]]
  BY <1>2 DEF OpenIsWhole
<1>3. ASSUME NEW o \in Trans, NEW c \in Conns, NEW b \in Behaviors, Begin(o, c, b)
      PROVE  RowsOf(x)' \subseteq pending'[con'[x]]
  <2>1. RowsOf(x)' = RowsOf(x)
    BY <1>3, SameRows DEF Begin, file
  <2>2. CASE x = o
    BY <1>3, <2>1, <2>2 DEF Begin, RawIsBlank
  <2>3. CASE x # o
    <3>1. Holds(x) /\ con'[x] = con[x]
      BY <1>1, <1>3, <2>3 DEF Begin, Holds
    <3>2. con[x] # c
      BY <1>3, <3>1 DEF Begin, Holders
    <3> QED
      BY <1>1, <1>2, <1>3, <2>1, <3>1, <3>2 DEF Begin
  <2> QED
    BY <2>2, <2>3
<1>4. ASSUME NEW c \in Conns, EndTransaction(c) \/ UNCHANGED conns,
             Holds(x), con'[x] = con[x], RowsOf(x)' = RowsOf(x)
      PROVE  RowsOf(x)' \subseteq pending'[con'[x]]
  BY <1>1, <1>2, <1>4 DEF EndTransaction, conns
<1>5. ASSUME NEW o \in Trans, Commit(o) \/ Rollback(o) \/ Destroy(o)
      PROVE  RowsOf(x)' \subseteq pending'[con'[x]]
  <2>1. Holds(x) /\ con'[x] = con[x]
    BY <1>1, <1>5 DEF Commit, Rollback, Destroy, Holds
  <2>2. RowsOf(x)' = RowsOf(x)
    BY <1>5, SameRows DEF Commit, Rollback, Destroy, file
  <2>3. CASE CommitBusy(o, con[o])
    BY <1>1, <1>2, <2>1, <2>2, <2>3 DEF CommitBusy
  <2>4. CASE EndTransaction(con[o]) \/ UNCHANGED conns
    BY <1>4, <2>1, <2>2, <2>4
  <2> QED
    BY <1>5, <2>3, <2>4 DEF Commit, Rollback, Destroy, CommitSucceeds, CommitFails,
       RollbackSucceeds, RollbackFails, conns
<1>6. ASSUME NEW o \in Trans, NEW n \in Trans, Move(o, n) \/ MoveAssign(o, n)
      PROVE  RowsOf(x)' \subseteq pending'[con'[x]]
  <2>1. CASE x = n
    <3>1. RowsOf(x)' = {}
      BY <1>6, <2>1, SameRows, AssignedRows DEF Move, file, RawIsBlank
    <3> QED
      BY <3>1
  <2>2. CASE x # n
    <3>1. Holds(x) /\ con'[x] = con[x] /\ UNCHANGED conns
      BY <1>1, <1>6, <2>2 DEF Move, MoveAssign, CopyMembers, Holds
    <3>2. RowsOf(x)' = RowsOf(x)
      BY <1>6, <2>2, SameRows, AssignedRows DEF Move, file
    <3> QED
      BY <1>1, <1>2, <3>1, <3>2 DEF conns
  <2> QED
    BY <2>1, <2>2
<1>7. ASSUME NEW c \in Conns, NEW r \in Rows, Insert(c, r)
      PROVE  RowsOf(x)' \subseteq pending'[con'[x]]
  <2>1. Holds(x) /\ con'[x] = con[x] /\ ~autocommit[con[x]]
    BY <1>1, <1>7 DEF Insert, object, Holds
  <2>2. PICK w \in OwnerOf(c) :
          RowsOf(x)' = IF x = w THEN RowsOf(x) \cup {r} ELSE RowsOf(x)
    BY <1>7, InsertRows
  <2>3. RowsOf(x) \subseteq pending[con[x]] /\ pending[con[x]] \subseteq pending'[con[x]]
    BY <1>7, <2>1 DEF OpenIsWhole, Insert
  <2>4. CASE x = w
    <3>1. con[x] = c
      BY <2>2, <2>4, ConstAssumption DEF OwnerOf, Holders
    <3>2. r \in pending'[con[x]]
      BY <1>7, <2>1, <3>1 DEF Insert
    <3> QED
      BY <2>1, <2>2, <2>3, <3>2
  <2> QED
    BY <2>1, <2>2, <2>3, <2>4
<1>8. ASSUME NEW c \in Conns, AutoRollback(c) \/ Close(c)
      PROVE  RowsOf(x)' \subseteq pending'[con'[x]]
  BY <1>1, <1>4, <1>8, SameRows DEF AutoRollback, Close, file, object, Holds
<1>9. CASE UNCHANGED <<owner, object, autocommit, pending>>
  BY <1>1, <1>2, <1>9, SameRows DEF object, Holds
<1>10. ASSUME NEW c \in Conns, Select(c) \/ Reset(c)
       PROVE  UNCHANGED <<owner, object, autocommit, pending>>
  BY <1>10 DEF Select, Reset, file
<1> QED
  BY <1>3, <1>5, <1>6, <1>7, <1>8, <1>9, <1>10 DEF Next, vars, file, conns

(* A commit that succeeds publishes what is pending, and nothing is taken  *)
(* from the file; a scope that reported its commit gets no further row.    *)
LEMMA CommitIsWholeStep ==
  ASSUME WholeInv, [Next]_vars
  PROVE  CommitIsWhole'
<1> USE DEF WholeInv, LeakInv, TypeOK, ObjectType, ConnsType
<1>1. SUFFICES ASSUME NEW x \in Trans, report'[x] = "committed" PROVE RowsOf(x)' \subseteq db'
  BY DEF CommitIsWhole
<1>2. ASSUME report'[x] = report[x], RowsOf(x)' \subseteq RowsOf(x), db \subseteq db'
      PROVE  RowsOf(x)' \subseteq db'
  BY <1>1, <1>2 DEF CommitIsWhole
<1>3. ASSUME NEW o \in Trans, Commit(o) PROVE RowsOf(x)' \subseteq db'
  <2>1. RowsOf(x)' = RowsOf(x) /\ db \subseteq db'
    BY <1>3, SameRows DEF Commit, CommitSucceeds, CommitBusy, CommitFails
  <2>2. CASE x = o
    <3>1. CommitSucceeds(o, con[o])
      BY <1>1, <1>3, <2>2 DEF Commit, CommitBusy, CommitFails
    <3>2. RowsOf(o) \subseteq pending[con[o]]
      BY <1>3, <3>1 DEF Commit, CommitSucceeds, OpenIsWhole
    <3> QED
      BY <2>1, <2>2, <3>1, <3>2 DEF CommitSucceeds
  <2>3. CASE x # o
    BY <1>2, <1>3, <2>1, <2>3 DEF Commit, CommitSucceeds, CommitBusy, CommitFails
  <2> QED
    BY <2>2, <2>3
<1>4. ASSUME NEW o \in Trans, Rollback(o) PROVE RowsOf(x)' \subseteq db'
  BY <1>1, <1>2, <1>4, SameRows DEF Rollback, file
<1>5. ASSUME NEW o \in Trans, NEW n \in Trans, MoveAssign(o, n) PROVE RowsOf(x)' \subseteq db'
  BY <1>1, <1>2, <1>5, AssignedRows DEF MoveAssign
<1>6. ASSUME NEW c \in Conns, NEW r \in Rows, Insert(c, r) PROVE RowsOf(x)' \subseteq db'
  <2>1. report[x] = "committed" /\ db \subseteq db' /\ UNCHANGED report
    BY <1>1, <1>6 DEF Insert, object
  <2>2. x \notin OwnerOf(c)
    BY <2>1, ConstAssumption DEF OwnerOf, Holders, ReportsLast
  <2>3. RowsOf(x)' = RowsOf(x)
    BY <1>6, <2>2, InsertRows
  <2> QED
    BY <1>2, <2>1, <2>3
<1>7. CASE UNCHANGED <<file, report>>
  BY <1>2, <1>7, SameRows DEF file
<1> QED
  BY <1>3, <1>4, <1>5, <1>6, <1>7 DEF Next, Begin, Destroy, Move, AutoRollback, Select, Reset,
     Close, vars, object

(* As long as no object is constructed in the scope of another, what a      *)
(* connection has pending includes all that its objects will claim to have  *)
(* committed, whatever fails and is moved.                                  *)
THEOREM WholeInductive == ASSUME ~Nested PROVE Spec => []WholeInv
<1>1. ASSUME Init PROVE WholeInv
  <2>1. \A o \in Trans : ~Holds(o) /\ report[o] # "committed"
    BY <1>1 DEF Init, Holds
  <2> QED
    BY <1>1, <2>1, LeakInit DEF WholeInv, OpenIsWhole, CommitIsWhole
<1>2. ASSUME WholeInv, [Next]_vars PROVE WholeInv'
  BY <1>2, LeakInvStep, OpenIsWholeStep, CommitIsWholeStep DEF WholeInv
<1> QED
  BY <1>1, <1>2, PTL DEF Spec

(* A commit that reports success has written all rows of its scope,        *)
(* although SQLite may roll back on its own at any time and objects are    *)
(* moved, as long as no object is constructed in the scope of another.     *)
THEOREM CommitsAreWhole == ASSUME ~Nested PROVE Spec => []CommitIsWhole
<1>1. WholeInv => CommitIsWhole
  BY DEF WholeInv
<1> QED
  BY <1>1, WholeInductive, PTL
=============================================================================
