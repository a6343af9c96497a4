----------------------- MODULE VersionedDatabaseProofs -----------------------
(***************************************************************************)
(* Proofs about VersionedDatabase, for any number of processes, files,     *)
(* handles, steps, failures and crashes.  What is proved about the files   *)
(* holds as long as no object is opened on a second file while it is still *)
(* open on a first one; the types and the ownership of handles always do.  *)
(***************************************************************************)
EXTENDS VersionedDatabase, TLAPS

(* How applied can change: not at all, or by one more run of one step. *)
Grows ==
  \/ UNCHANGED applied
  \/ \E f \in Files, k \in Steps : applied' = [applied EXCEPT ![f][k] = @ + 1]

(* No step of open() takes back a committed update step. *)
LEMMA AppliedGrows ==
  ASSUME TypeOK, [Next]_vars, OwnHandles
  PROVE  Grows
<1>1. CASE UNCHANGED vars
  BY <1>1 DEF vars, files, Grows
<1>2. ASSUME NEW p \in Procs, RunUpdate(p)
      PROVE  Grows
  <2>1. CASE UpdateSucceeds(p)
    <3>1. con[p] \in Handles
      BY <1>2, ConstAssumption DEF RunUpdate, OwnHandles, TypeOK, ObjectType
    <3>2. FileOf(p) \in Files
      BY <3>1 DEF FileOf, TypeOK, HandlesType
    <3> QED
      BY <2>1, <3>2 DEF UpdateSucceeds, CanApply, Grows
  <2>2. CASE UpdateFails(p)
    BY <2>2 DEF UpdateFails, Grows
  <2> QED
    BY <1>2, <2>1, <2>2 DEF RunUpdate
<1>3. ASSUME NEW p \in Procs, \E f \in Files, t \in Targets : Open(p, f, t)
      PROVE  Grows
  BY <1>3 DEF Open, files, Grows
<1>4. ASSUME NEW p \in Procs,
             \/ FindTable(p)
             \/ ReadVersion(p)
             \/ PrepareUpdateStatement(p)
             \/ StoreNewVersion(p)
      PROVE  Grows
  BY <1>4 DEF FindTable, ReadVersion, PrepareUpdateStatement, StoreNewVersion,
              files, Grows
<1>5. ASSUME NEW p \in Procs, Destroy(p) \/ EndProcess(p)
      PROVE  Grows
  BY <1>5 DEF Destroy, EndProcess, files, Grows
<1> QED
  BY <1>1, <1>2, <1>3, <1>4, <1>5 DEF Next, Step

(* Seen step by step: every count stays a number and only grows. *)
LEMMA CountsGrow ==
  ASSUME TypeOK, Grows
  PROVE  /\ applied' \in [Files -> [Steps -> Nat]]
         /\ \A f \in Files, k \in Steps : applied'[f][k] >= applied[f][k]
<1>1. applied \in [Files -> [Steps -> Nat]]
  BY DEF TypeOK, FilesType
<1>2. CASE UNCHANGED applied
  BY <1>1, <1>2
<1>3. ASSUME NEW g \in Files, NEW j \in Steps,
             applied' = [applied EXCEPT ![g][j] = @ + 1]
      PROVE  /\ applied' \in [Files -> [Steps -> Nat]]
             /\ \A f \in Files, k \in Steps : applied'[f][k] >= applied[f][k]
  <2>1. applied[g] \in [Steps -> Nat] /\ applied[g][j] \in Nat
    BY <1>1
  <2>2. [applied[g] EXCEPT ![j] = @ + 1] \in [Steps -> Nat]
    BY <2>1
  <2>3. applied' = [applied EXCEPT ![g] = [applied[g] EXCEPT ![j] = @ + 1]]
    BY <1>3
  <2> QED
    BY <1>1, <2>1, <2>2, <2>3
<1> QED
  BY <1>2, <1>3 DEF Grows

(* What is on top of the steps below v stays so. *)
LEMMA UpToStable ==
  ASSUME TypeOK, Grows, NEW f \in Files, NEW v \in Nat, Schema!UpTo(f, v)
  PROVE  Schema!UpTo(f, v)'
<1> SUFFICES ASSUME NEW k \in Steps, k < v
             PROVE  applied'[f][k] > 0
  BY DEF Schema!UpTo, Schema!Steps, Steps
<1>1. applied[f][k] \in Nat /\ applied'[f][k] \in Nat
  BY CountsGrow DEF TypeOK, FilesType
<1>2. applied[f][k] > 0
  BY DEF Schema!UpTo, Schema!Steps, Steps
<1> QED
  BY CountsGrow, <1>1, <1>2

-----------------------------------------------------------------------------

(* A call that goes on in the loop, or returns, keeps its types. *)
LEMMA ReachedType ==
  ASSUME CallType, NEW p \in Procs, NEW v \in Nat, Reached(p, v), UNCHANGED target
  PROVE  CallType'
  BY DEF CallType, Reached, Return

LEMMA ReturnType ==
  ASSUME CallType, NEW p \in Procs, NEW r \in {"none", "ok", "error"}, Return(p, r),
         UNCHANGED target
  PROVE  CallType'
  BY DEF CallType, Return

LEMMA GotoType ==
  ASSUME CallType, NEW p \in Procs, NEW l \in {"version", "store", "prepare"}, Goto(p, l),
         UNCHANGED target
  PROVE  CallType'
  BY DEF CallType, Goto

LEMMA CallTypeStep ==
  ASSUME TypeOK, OwnHandles, [Next]_vars
  PROVE  CallType'
<1> USE DEF TypeOK
<1>1. CASE UNCHANGED vars
  BY <1>1 DEF CallType, vars, call
<1>2. ASSUME NEW p \in Procs, NEW f \in Files, NEW t \in Targets, Open(p, f, t)
      PROVE  CallType'
  BY <1>2, ConstAssumption DEF CallType, Open, Return
<1>3. ASSUME NEW p \in Procs, FindTable(p)
      PROVE  CallType'
  BY <1>3, ReachedType, ReturnType, GotoType DEF FindTable
<1>4. ASSUME NEW p \in Procs, ReadVersion(p)
      PROVE  CallType'
  <2>1. CASE \/ Return(p, "error")
             \/ Reached(p, 0)
    BY <1>4, <2>1, ReachedType, ReturnType DEF ReadVersion
  <2>2. CASE Reached(p, version[FileOf(p)])
    <3>1. con[p] \in Handles
      BY <1>4, ConstAssumption DEF ReadVersion, OwnHandles, ObjectType
    <3>2. version[FileOf(p)] \in Nat
      BY <3>1, ConstAssumption DEF FileOf, HandlesType, FilesType
    <3> QED
      BY <1>4, <2>2, <3>2, ReachedType DEF ReadVersion
  <2> QED
    BY <1>4, <2>1, <2>2 DEF ReadVersion
<1>5. ASSUME NEW p \in Procs, RunUpdate(p)
      PROVE  CallType'
  BY <1>5, ReturnType, GotoType DEF RunUpdate, UpdateSucceeds, UpdateFails
<1>6. ASSUME NEW p \in Procs, PrepareUpdateStatement(p)
      PROVE  CallType'
  BY <1>6, ReturnType, GotoType DEF PrepareUpdateStatement
<1>7. ASSUME NEW p \in Procs, StoreNewVersion(p)
      PROVE  CallType'
  <2>1. current[p] + 1 \in Nat
    BY DEF CallType
  <2> QED
    BY <1>7, <2>1, ReachedType, ReturnType DEF StoreNewVersion
<1>8. ASSUME NEW p \in Procs, Destroy(p)
      PROVE  CallType'
  BY <1>8 DEF Destroy, CallType, call
<1>9. ASSUME NEW p \in Procs, EndProcess(p)
      PROVE  CallType'
  BY <1>9 DEF EndProcess, CallType
<1> QED
  BY <1>1, <1>2, <1>3, <1>4, <1>5, <1>6, <1>7, <1>8, <1>9 DEF Next, Step

(* Only StoreNewVersion writes a version, and it writes one that some known *)
(* step leads to.                                                           *)
LEMMA FilesTypeStep ==
  ASSUME TypeOK, OwnHandles, KnownStep, [Next]_vars
  PROVE  FilesType'
<1> USE DEF TypeOK
<1>1. applied' \in [Files -> [Steps -> Nat]]
  BY AppliedGrows, CountsGrow
<1>2. ASSUME NEW p \in Procs, StoreNewVersion(p)
      PROVE  version' \in [Files -> 0 .. NumSteps]
  <2>1. CASE ResetOrBindFails(p)
    BY <1>2, <2>1 DEF StoreNewVersion, FilesType
  <2>2. CASE ~ResetOrBindFails(p)
    <3>1. ExecuteUpdate(p, current[p] + 1)
      BY <1>2, <2>2 DEF StoreNewVersion
    <3>2. current[p] + 1 \in 0 .. NumSteps
      BY <1>2, ConstAssumption DEF StoreNewVersion, KnownStep, Steps
    <3> QED
      BY <3>1, <3>2 DEF ExecuteUpdate, WriteVersion, FilesType
  <2> QED
    BY <2>1, <2>2
<1>3. ASSUME UNCHANGED version
      PROVE  version' \in [Files -> 0 .. NumSteps]
  BY <1>3 DEF FilesType
<1>4. ASSUME NEW p \in Procs,
             \/ \E f \in Files, t \in Targets : Open(p, f, t)
             \/ FindTable(p) \/ ReadVersion(p) \/ RunUpdate(p)
             \/ PrepareUpdateStatement(p) \/ Destroy(p) \/ EndProcess(p)
      PROVE  UNCHANGED version
  BY <1>4 DEF Open, FindTable, ReadVersion, RunUpdate, PrepareUpdateStatement,
              Destroy, EndProcess, files
<1> QED
  BY <1>1, <1>2, <1>3, <1>4 DEF Next, Step, vars, files, FilesType

LEMMA HandlesTypeStep ==
  ASSUME TypeOK, OwnHandles, [Next]_vars
  PROVE  HandlesType'
<1> USE DEF TypeOK
<1>1. CASE UNCHANGED handles
  BY <1>1 DEF HandlesType, handles
<1>2. ASSUME NEW p \in Procs, NEW f \in Files, NEW t \in Targets, Open(p, f, t)
      PROVE  HandlesType'
  <2>1. ASSUME NEW h \in Handles, ConnectionOpen(p, f, h)
        PROVE  HandlesType'
    BY <2>1 DEF ConnectionOpen, HandlesType
  <2> QED
    BY <1>1, <1>2, <2>1 DEF Open, handles
<1>3. ASSUME NEW p \in Procs, RunUpdate(p)
      PROVE  HandlesType'
  BY <1>3 DEF RunUpdate, UpdateSucceeds, UpdateFails, LeftBehind, HandlesType
<1>4. ASSUME NEW p \in Procs, StoreNewVersion(p)
      PROVE  HandlesType'
  BY <1>4 DEF StoreNewVersion, ExecuteUpdate, WriteVersion, HandlesType
<1>5. ASSUME NEW p \in Procs, Destroy(p) \/ EndProcess(p)
      PROVE  HandlesType'
  BY <1>5 DEF Destroy, EndProcess, CloseHandles, HandlesType
<1> QED
  BY <1>1, <1>2, <1>3, <1>4, <1>5
     DEF Next, Step, FindTable, ReadVersion, PrepareUpdateStatement, vars, handles

LEMMA ObjectTypeStep ==
  ASSUME TypeOK, [Next]_vars
  PROVE  ObjectType'
<1> USE DEF TypeOK, ObjectType
<1>1. CASE UNCHANGED object
  BY <1>1 DEF object
<1>2. ASSUME NEW p \in Procs, NEW f \in Files, NEW t \in Targets, Open(p, f, t)
      PROVE  ObjectType'
  BY <1>2 DEF Open, ConnectionOpen
<1>3. ASSUME NEW p \in Procs, PrepareUpdateStatement(p)
      PROVE  ObjectType'
  BY <1>3 DEF PrepareUpdateStatement
<1>4. ASSUME NEW p \in Procs, StoreNewVersion(p)
      PROVE  ObjectType'
  BY <1>4 DEF StoreNewVersion, ExecuteUpdate
<1>5. ASSUME NEW p \in Procs, Destroy(p) \/ EndProcess(p)
      PROVE  ObjectType'
  BY <1>5 DEF Destroy, EndProcess, FreshObject
<1> QED
  BY <1>1, <1>2, <1>3, <1>4, <1>5
     DEF Next, Step, FindTable, ReadVersion, RunUpdate, vars, object

LEMMA BudgetTypeStep ==
  ASSUME TypeOK, [Next]_vars
  PROVE  BudgetType'
<1> USE ConstAssumption DEF TypeOK, BudgetType, Failure
<1>1. CASE UNCHANGED budget
  BY <1>1 DEF budget
<1>2. ASSUME NEW p \in Procs, NEW f \in Files, NEW t \in Targets, Open(p, f, t)
      PROVE  BudgetType'
  BY <1>2 DEF Open
<1>3. ASSUME NEW p \in Procs,
             FindTable(p) \/ ReadVersion(p) \/ PrepareUpdateStatement(p)
      PROVE  BudgetType'
  BY <1>3 DEF FindTable, ReadVersion, PrepareUpdateStatement
<1>4. ASSUME NEW p \in Procs, RunUpdate(p)
      PROVE  BudgetType'
  BY <1>4 DEF RunUpdate, UpdateSucceeds, UpdateFails
<1>5. ASSUME NEW p \in Procs, StoreNewVersion(p)
      PROVE  BudgetType'
  BY <1>5 DEF StoreNewVersion, ExecuteUpdate
<1>6. ASSUME NEW p \in Procs, EndProcess(p)
      PROVE  BudgetType'
  BY <1>6 DEF EndProcess
<1> QED
  BY <1>1, <1>2, <1>3, <1>4, <1>5, <1>6 DEF Next, Step, Destroy, vars, budget

LEMMA TypeStep ==
  ASSUME OpenInv, [Next]_vars
  PROVE  TypeOK'
  BY FilesTypeStep, HandlesTypeStep, ObjectTypeStep, CallTypeStep, BudgetTypeStep
     DEF TypeOK, OpenInv

-----------------------------------------------------------------------------

(* Handles stay with their processes: a new connection gets a free handle,  *)
(* only the owner closes one, and never the one its update_stmt_ is on.     *)
LEMMA OwnHandlesStep ==
  ASSUME TypeOK, OwnHandles, [Next]_vars
  PROVE  OwnHandles'
<1> USE ConstAssumption DEF TypeOK
<1>1. CASE UNCHANGED <<hown, con, update_stmt, pc>>
  BY <1>1 DEF OwnHandles
<1>2. ASSUME NEW p \in Procs, NEW f \in Files, NEW t \in Targets, Open(p, f, t)
      PROVE  OwnHandles'
  <2>1. ASSUME NEW h \in Handles, ConnectionOpen(p, f, h), pc' = [pc EXCEPT ![p] = "table"]
        PROVE  OwnHandles'
    <3>1. UNCHANGED update_stmt
      BY <1>2 DEF Open
    <3>2. con' = [con EXCEPT ![p] = h] /\ hown[h] = None /\ hown'[h] = p
      BY <2>1 DEF ConnectionOpen, HandlesType
    <3>3. ASSUME NEW g \in Handles \ {h}, g \notin ClosedByOpen(p)
          PROVE  hown'[g] = hown[g]
      BY <2>1, <3>3 DEF ConnectionOpen, HandlesType
    <3>4. ASSUME NEW q \in Procs \ {p}
          PROVE  /\ con'[q] # None => hown'[con'[q]] = q
                 /\ update_stmt'[q] # None => con'[q] # None /\ hown'[update_stmt'[q]] = q
                 /\ pc'[q] # "idle" => con'[q] # None
      <4>1. con'[q] = con[q] /\ pc'[q] = pc[q]
        BY <2>1, <3>2 DEF ObjectType, CallType
      <4>2. ASSUME NEW g \in Handles, hown[g] = q
            PROVE  hown'[g] = q
        BY <3>2, <3>3, <4>2 DEF ClosedByOpen, OwnHandles
      <4> QED
        BY <3>1, <4>1, <4>2 DEF OwnHandles, ObjectType
    <3>5. con'[p] = h
      BY <3>2 DEF ObjectType
    <3>6. ASSUME update_stmt[p] # None
          PROVE  hown'[update_stmt[p]] = p
      BY <3>2, <3>3, <3>6 DEF OwnHandles, ObjectType, ClosedByOpen
    <3> QED
      BY <3>1, <3>2, <3>4, <3>5, <3>6 DEF OwnHandles
  <2>2. CASE Return(p, "error") /\ UNCHANGED <<handles, con>>
    BY <1>2, <2>2 DEF Open, Return, handles, OwnHandles, CallType
  <2> QED
    BY <1>2, <2>1, <2>2 DEF Open
<1>3. ASSUME NEW p \in Procs, pc[p] # "idle",
             UNCHANGED <<hown, con, update_stmt>>,
             \A q \in Procs \ {p} : pc'[q] = pc[q]
      PROVE  OwnHandles'
  BY <1>3 DEF OwnHandles
<1>4. ASSUME NEW p \in Procs, FindTable(p) \/ ReadVersion(p) \/ RunUpdate(p)
      PROVE  OwnHandles'
  <2>1. \A q \in Procs \ {p} : pc'[q] = pc[q]
    BY <1>4 DEF FindTable, ReadVersion, RunUpdate, UpdateSucceeds, UpdateFails,
                Reached, Goto, Return, CallType
  <2> QED
    BY <1>3, <1>4, <2>1 DEF FindTable, ReadVersion, RunUpdate, handles, object
<1>5. ASSUME NEW p \in Procs, PrepareUpdateStatement(p)
      PROVE  OwnHandles'
  BY <1>5 DEF PrepareUpdateStatement, Goto, Return, handles, OwnHandles, ObjectType,
              CallType
<1>6. ASSUME NEW p \in Procs, StoreNewVersion(p)
      PROVE  OwnHandles'
  <2>1. \A q \in Procs \ {p} : pc'[q] = pc[q]
    BY <1>6 DEF StoreNewVersion, Reached, Return, CallType
  <2> QED
    BY <1>3, <1>6, <2>1 DEF StoreNewVersion
<1>7. ASSUME NEW p \in Procs, Destroy(p)
      PROVE  OwnHandles'
  BY <1>7 DEF Destroy, CloseHandles, FreshObject, call, OwnHandles, ObjectType,
              HandlesType
<1>8. ASSUME NEW p \in Procs, EndProcess(p)
      PROVE  OwnHandles'
  BY <1>8 DEF EndProcess, CloseHandles, FreshObject, OwnHandles, ObjectType,
              HandlesType, CallType
<1> QED
  BY <1>1, <1>2, <1>4, <1>5, <1>6, <1>7, <1>8
     DEF Next, Step, vars, handles, object, call

(* Only a step that the callback knows is followed by the two states that   *)
(* store its number.                                                        *)
LEMMA KnownStepStep ==
  ASSUME OpenInv, [Next]_vars
  PROVE  KnownStep'
<1> USE DEF OpenInv, TypeOK, CallType
<1>1. SUFFICES ASSUME NEW q \in Procs, pc'[q] \in {"prepare", "store"}
               PROVE  current'[q] \in Steps
  BY DEF KnownStep
<1>2. ASSUME pc'[q] = pc[q], current'[q] = current[q]
      PROVE  current'[q] \in Steps
  BY <1>1, <1>2 DEF KnownStep
<1>3. ASSUME NEW p \in Procs, NEW f \in Files, NEW t \in Targets, Open(p, f, t)
      PROVE  current'[q] \in Steps
  BY <1>1, <1>2, <1>3 DEF Open, Return
<1>4. ASSUME NEW p \in Procs, FindTable(p) \/ ReadVersion(p) \/ StoreNewVersion(p)
      PROVE  current'[q] \in Steps
  BY <1>1, <1>2, <1>4 DEF FindTable, ReadVersion, StoreNewVersion, Goto, Reached, Return
<1>5. ASSUME NEW p \in Procs, RunUpdate(p)
      PROVE  current'[q] \in Steps
  BY <1>1, <1>2, <1>5 DEF RunUpdate, UpdateSucceeds, UpdateFails, CanApply, Goto, Return
<1>6. ASSUME NEW p \in Procs, PrepareUpdateStatement(p)
      PROVE  current'[q] \in Steps
  BY <1>1, <1>2, <1>6 DEF PrepareUpdateStatement, KnownStep, Goto, Return
<1>7. ASSUME NEW p \in Procs, Destroy(p) \/ EndProcess(p)
      PROVE  current'[q] \in Steps
  BY <1>1, <1>2, <1>7 DEF Destroy, EndProcess, call
<1>8. CASE UNCHANGED vars
  BY <1>2, <1>8 DEF vars, call
<1> QED
  BY <1>3, <1>4, <1>5, <1>6, <1>7, <1>8 DEF Next, Step

LEMMA OpenStep ==
  ASSUME OpenInv, [Next]_vars
  PROVE  OpenInv'
<1>1. TypeOK'
  BY TypeStep
<1>2. OwnHandles'
  BY OwnHandlesStep DEF OpenInv
<1>3. KnownStep'
  BY KnownStepStep
<1> QED
  BY <1>1, <1>2, <1>3 DEF OpenInv

(* An update_stmt_ that keeps its old handle open stays on the file of the  *)
(* connection, because the object is not opened elsewhere.                  *)
LEMMA SameFileStep ==
  ASSUME OpenInv, SameFile, [Next]_vars, ~ReopenElsewhere
  PROVE  SameFile'
<1> USE ConstAssumption DEF OpenInv, TypeOK, HandlesType, ObjectType
<1>1. CASE UNCHANGED <<hfile, con, update_stmt>>
  BY <1>1 DEF SameFile
<1>2. ASSUME NEW p \in Procs, NEW f \in Files, NEW t \in Targets, Open(p, f, t)
      PROVE  SameFile'
  <2>1. ASSUME NEW h \in Handles, ConnectionOpen(p, f, h)
        PROVE  SameFile'
    <3>1. UNCHANGED update_stmt /\ (f = FileOf(p) \/ con[p] = None)
      BY <1>2 DEF Open
    <3>2. con' = [con EXCEPT ![p] = h] /\ hfile' = [hfile EXCEPT ![h] = f] /\ hown[h] = None
      BY <2>1 DEF ConnectionOpen
    <3>3. ASSUME NEW q \in Procs, update_stmt[q] # None
          PROVE  update_stmt[q] # h /\ con[q] # h /\ con[q] # None
      BY <3>2, <3>3 DEF OwnHandles
    <3> QED
      BY <3>1, <3>2, <3>3 DEF SameFile, FileOf
  <2> QED
    BY <1>1, <1>2, <2>1 DEF Open, handles
<1>3. ASSUME NEW p \in Procs, PrepareUpdateStatement(p)
      PROVE  SameFile'
  BY <1>3 DEF PrepareUpdateStatement, handles, SameFile
<1>4. ASSUME NEW p \in Procs, Destroy(p) \/ EndProcess(p)
      PROVE  SameFile'
  BY <1>4 DEF Destroy, EndProcess, FreshObject, SameFile
<1> QED
  BY <1>1, <1>2, <1>3, <1>4 DEF Next, Step, FindTable, ReadVersion, RunUpdate,
     StoreNewVersion, vars, handles, object

-----------------------------------------------------------------------------

(* Every step of open() runs one update step on top of its predecessors,   *)
(* stores a version all of whose steps were run, or leaves the files alone.*)
LEMMA SchemaStep ==
  ASSUME IndInv, [Next]_vars
  PROVE  [Schema!Next]_(Schema!vars)
<1> USE ConstAssumption DEF IndInv, OpenInv, TypeOK
<1>1. CASE UNCHANGED files
  BY <1>1 DEF files, Schema!vars
<1>2. ASSUME NEW p \in Procs, RunUpdate(p)
      PROVE  Schema!Next \/ UNCHANGED files
  <2>1. FileOf(p) \in Files
    BY <1>2 DEF RunUpdate, OwnHandles, ObjectType, HandlesType, FileOf
  <2>2. ASSUME UpdateSucceeds(p)
        PROVE  Schema!Next
    <3>1. current[p] \in Schema!Steps /\ UNCHANGED version
      BY <1>2, <2>2 DEF RunUpdate, UpdateSucceeds, CanApply, Steps, Schema!Steps
    <3>2. Schema!UpTo(FileOf(p), current[p])
      BY <1>2 DEF RunUpdate, LoopOnTop
    <3>3. Schema!ApplyStep(FileOf(p), current[p])
      BY <2>2, <3>1, <3>2 DEF UpdateSucceeds, Schema!ApplyStep
    <3> QED
      BY <2>1, <3>1, <3>3 DEF Schema!Next
  <2>3. UpdateFails(p) => UNCHANGED files
    BY <1>2 DEF RunUpdate, UpdateFails, files
  <2> QED
    BY <1>2, <2>2, <2>3 DEF RunUpdate
<1>3. ASSUME NEW p \in Procs, StoreNewVersion(p)
      PROVE  Schema!Next \/ UNCHANGED files
  <2>1. CASE UNCHANGED version
    BY <1>3, <2>1 DEF StoreNewVersion, files
  <2>2. CASE ~UNCHANGED version
    <3>1. /\ ExecuteUpdate(p, current[p] + 1)
          /\ update_stmt[p] # None
          /\ UNCHANGED applied
      BY <1>3, <2>2 DEF StoreNewVersion, ResetOrBindFails
    <3>2. /\ hfile[update_stmt[p]] = FileOf(p)
          /\ FileOf(p) \in Files
      BY <3>1 DEF SameFile, OwnHandles, ObjectType, HandlesType, FileOf
    <3>3. version' = [version EXCEPT ![FileOf(p)] = current[p] + 1]
      BY <2>2, <3>1, <3>2 DEF ExecuteUpdate, WriteVersion
    <3>4. /\ current[p] + 1 \in 0 .. NumSteps
          /\ Schema!UpTo(FileOf(p), current[p] + 1)
      BY <1>3 DEF StoreNewVersion, LoopOnTop, KnownStep, Schema!UpTo, Schema!Steps, Steps
    <3>5. Schema!StoreVersion(FileOf(p), current[p] + 1)
      BY <3>1, <3>3, <3>4 DEF Schema!StoreVersion
    <3> QED
      BY <3>2, <3>4, <3>5 DEF Schema!Next
  <2> QED
    BY <2>1, <2>2
<1>4. ASSUME NEW p \in Procs,
             \/ \E f \in Files, t \in Targets : Open(p, f, t)
             \/ FindTable(p) \/ ReadVersion(p) \/ PrepareUpdateStatement(p)
             \/ Destroy(p) \/ EndProcess(p)
      PROVE  UNCHANGED files
  BY <1>4 DEF Open, FindTable, ReadVersion, PrepareUpdateStatement, Destroy, EndProcess
<1> QED
  BY <1>1, <1>2, <1>3, <1>4 DEF Next, Step, vars, files, Schema!vars

(* Both promises of the schema are inductive. *)
LEMMA SchemaInvariants ==
  ASSUME TypeOK, NeverSkips, StepsInOrder, Grows, [Schema!Next]_(Schema!vars)
  PROVE  NeverSkips' /\ StepsInOrder'
<1> USE DEF TypeOK, FilesType, NeverSkips, Schema!NeverSkips, StepsInOrder,
            Schema!StepsInOrder
<1>1. CASE UNCHANGED <<version, applied>>
  BY <1>1 DEF Schema!UpTo
<1>2. ASSUME NEW f \in Files, NEW k \in Schema!Steps, Schema!ApplyStep(f, k)
      PROVE  NeverSkips' /\ StepsInOrder'
  <2>1. ASSUME NEW g \in Files
        PROVE  Schema!UpTo(g, version[g])'
    <3>1. PICK v \in Nat : v = version[g] /\ v = version'[g]
      BY <1>2, ConstAssumption DEF Schema!ApplyStep
    <3>2. Schema!UpTo(g, v)'
      BY <3>1, UpToStable
    <3> QED
      BY <3>1, <3>2 DEF Schema!UpTo
  <2>2. ASSUME NEW g \in Files, NEW j \in Schema!Steps, applied'[g][j] > 0
        PROVE  Schema!UpTo(g, j)'
    <3>1. applied[g][j] > 0 \/ (g = f /\ j = k)
      BY <1>2, <2>2 DEF Schema!ApplyStep, Steps, Schema!Steps
    <3>2. Schema!UpTo(g, j)
      BY <1>2, <3>1 DEF Schema!ApplyStep
    <3> QED
      BY <3>2, UpToStable DEF Schema!Steps
  <2> QED
    BY <2>1, <2>2
<1>3. ASSUME NEW f \in Files, NEW v \in 0 .. NumSteps, Schema!StoreVersion(f, v)
      PROVE  NeverSkips' /\ StepsInOrder'
  <2>1. applied' = applied
    BY <1>3 DEF Schema!StoreVersion
  <2> QED
    BY <1>3, <2>1 DEF Schema!StoreVersion, Schema!UpTo
<1> QED
  BY <1>1, <1>2, <1>3 DEF Schema!Next, Schema!vars

(* A call that another process' step does not touch stays on top of its     *)
(* steps: its file does not change under it, and steps are not taken back.  *)
LEMMA LoopUndisturbed ==
  ASSUME OpenInv, LoopOnTop, Grows, NEW q \in Procs,
         pc'[q] = pc[q], current'[q] = current[q], con'[q] = con[q],
         con[q] # None => hfile'[con[q]] = hfile[con[q]]
  PROVE  /\ pc'[q] \in {"update", "prepare", "store"} => Schema!UpTo(FileOf(q), current[q])'
         /\ pc'[q] \in {"prepare", "store"} => applied'[FileOf(q)'][current'[q]] > 0
<1> USE DEF OpenInv
<1> SUFFICES ASSUME pc[q] \in {"update", "prepare", "store"}
             PROVE  /\ Schema!UpTo(FileOf(q), current[q])'
                    /\ pc[q] \in {"prepare", "store"} => applied'[FileOf(q)'][current[q]] > 0
  OBVIOUS
<1>1. FileOf(q)' = FileOf(q) /\ FileOf(q) \in Files
  BY ConstAssumption DEF FileOf, OwnHandles, TypeOK, ObjectType, HandlesType
<1>2. PICK f \in Files, v \in Nat :
        f = FileOf(q) /\ f = FileOf(q)' /\ v = current[q] /\ v = current'[q]
  BY <1>1 DEF TypeOK, CallType
<1>3. Schema!UpTo(f, v)'
  BY <1>2, UpToStable DEF LoopOnTop
<1>4. Schema!UpTo(FileOf(q), current[q])'
  BY <1>2, <1>3 DEF Schema!UpTo
<1>5. ASSUME pc[q] \in {"prepare", "store"}
      PROVE  applied'[FileOf(q)'][current[q]] > 0
  <2>1. v \in Steps /\ applied[f][v] > 0
    BY <1>2, <1>5 DEF LoopOnTop, KnownStep
  <2>2. applied[f][v] \in Nat /\ applied'[f][v] \in Nat /\ applied'[f][v] >= applied[f][v]
    BY <2>1, CountsGrow DEF TypeOK, FilesType
  <2> QED
    BY <1>2, <2>1, <2>2
<1> QED
  BY <1>4, <1>5

(* A call that enters the loop, or goes round it, at a version all of whose *)
(* steps the file has seen.                                                 *)
LEMMA LoopReached ==
  ASSUME TypeOK, Grows, NEW p \in Procs, NEW v \in Nat, Reached(p, v),
         FileOf(p) \in Files, UNCHANGED <<hfile, con>>, Schema!UpTo(FileOf(p), v)
  PROVE  /\ pc'[p] \in {"idle", "update"}
         /\ pc'[p] = "update" => Schema!UpTo(FileOf(p), current[p])'
<1>1. PICK f \in Files : f = FileOf(p) /\ f = FileOf(p)'
  BY DEF FileOf
<1>2. Schema!UpTo(f, v)'
  BY <1>1, UpToStable
<1> QED
  BY <1>1, <1>2 DEF Reached, Return, TypeOK, CallType, Schema!UpTo

LEMMA LoopOnTopStep ==
  ASSUME IndInv, [Next]_vars
  PROVE  LoopOnTop'
<1> USE ConstAssumption DEF IndInv, OpenInv, TypeOK
<1> DEFINE InLoop(q) ==
      /\ pc[q] \in {"update", "prepare", "store"} => Schema!UpTo(FileOf(q), current[q])
      /\ pc[q] \in {"prepare", "store"} => applied[FileOf(q)][current[q]] > 0
<1>0. Grows
  BY AppliedGrows
<1>1. SUFFICES \A q \in Procs : InLoop(q)'
  BY DEF LoopOnTop
<1>2. ASSUME NEW q \in Procs, UNCHANGED <<pc[q], current[q], con[q]>>,
             con[q] # None => hfile'[con[q]] = hfile[con[q]]
      PROVE  InLoop(q)'
  BY <1>0, <1>2, LoopUndisturbed
<1>3. ASSUME NEW p \in Procs, pc[p] # "idle"
      PROVE  FileOf(p) \in Files
  BY <1>3 DEF FileOf, OwnHandles, ObjectType, HandlesType
<1>4. CASE UNCHANGED vars
  BY <1>2, <1>4 DEF vars, call, object, handles
<1>5. ASSUME NEW p \in Procs, NEW f \in Files, NEW t \in Targets, Open(p, f, t),
             NEW q \in Procs
      PROVE  InLoop(q)'
  <2>1. CASE q = p
    BY <1>5, <2>1 DEF Open, Return, CallType
  <2>2. CASE q # p
    <3>1. UNCHANGED <<pc[q], current[q], con[q]>>
      BY <1>5, <2>2 DEF Open, ConnectionOpen, Return, CallType, ObjectType
    <3>2. con[q] # None => hfile'[con[q]] = hfile[con[q]]
      BY <1>5 DEF Open, ConnectionOpen, handles, OwnHandles, HandlesType, ObjectType
    <3> QED
      BY <1>2, <3>1, <3>2
  <2> QED
    BY <2>1, <2>2
<1>6. ASSUME NEW p \in Procs, FindTable(p) \/ ReadVersion(p), NEW q \in Procs
      PROVE  InLoop(q)'
  <2>1. UNCHANGED <<hfile, con>>
    BY <1>6 DEF FindTable, ReadVersion, handles, object
  <2>2. CASE q # p
    <3>1. UNCHANGED <<pc[q], current[q]>>
      BY <1>6, <2>2 DEF FindTable, ReadVersion, Reached, Goto, Return, CallType
    <3> QED
      BY <1>2, <2>1, <3>1
  <2>3. ASSUME NEW v \in Nat, Reached(p, v), Schema!UpTo(FileOf(p), v)
        PROVE  InLoop(p)'
    BY <1>0, <1>3, <1>6, <2>1, <2>3, LoopReached DEF FindTable, ReadVersion
  <2>4. Schema!UpTo(FileOf(p), 0)
    BY DEF Schema!UpTo, Schema!Steps
  <2>5. ASSUME pc[p] = "version"
        PROVE  /\ version[FileOf(p)] \in Nat
               /\ Schema!UpTo(FileOf(p), version[FileOf(p)])
    BY <1>3, <2>5 DEF NeverSkips, Schema!NeverSkips, FilesType
  <2>6. ASSUME Goto(p, "version") \/ Return(p, "error")
        PROVE  InLoop(p)'
    BY <2>6 DEF Goto, Return, CallType
  <2> QED
    BY <1>6, <2>2, <2>3, <2>4, <2>5, <2>6 DEF FindTable, ReadVersion
<1>7. ASSUME NEW p \in Procs, RunUpdate(p), NEW q \in Procs
      PROVE  InLoop(q)'
  <2>1. UNCHANGED <<hfile, con>>
    BY <1>7 DEF RunUpdate, object
  <2>2. CASE q # p
    <3>1. UNCHANGED <<pc[q], current[q]>>
      BY <1>7, <2>2 DEF RunUpdate, UpdateSucceeds, UpdateFails, Goto, Return, CallType
    <3> QED
      BY <1>2, <2>1, <3>1
  <2>3. ASSUME UpdateSucceeds(p)
        PROVE  InLoop(p)'
    <3>1. FileOf(p)' = FileOf(p) /\ current' = current /\ current[p] \in Steps
      BY <2>1, <2>3 DEF UpdateSucceeds, CanApply, Goto, FileOf
    <3>2. PICK f \in Files, v \in Nat : f = FileOf(p) /\ v = current[p]
      BY <1>3, <1>7 DEF RunUpdate, CallType
    <3>3. Schema!UpTo(f, v)'
      BY <1>0, <1>7, <3>2, UpToStable DEF RunUpdate, LoopOnTop
    <3>4. applied'[f][v] > 0
      <4>1. applied[f] \in [Steps -> Nat] /\ applied[f][v] \in Nat
        BY <3>1, <3>2 DEF FilesType
      <4>2. applied'[f][v] = applied[f][v] + 1
        BY <2>3, <3>1, <3>2, <4>1 DEF UpdateSucceeds, FilesType
      <4> QED
        BY <4>1, <4>2
    <3> QED
      BY <3>1, <3>2, <3>3, <3>4 DEF Schema!UpTo
  <2>4. UpdateFails(p) => InLoop(p)'
    BY DEF UpdateFails, Return, CallType
  <2> QED
    BY <1>7, <2>2, <2>3, <2>4 DEF RunUpdate
<1>8. ASSUME NEW p \in Procs, PrepareUpdateStatement(p), NEW q \in Procs
      PROVE  InLoop(q)'
  <2>1. UNCHANGED <<files, hfile, con>>
    BY <1>8 DEF PrepareUpdateStatement, handles
  <2>2. CASE q # p
    <3>1. UNCHANGED <<pc[q], current[q]>>
      BY <1>8, <2>2 DEF PrepareUpdateStatement, Goto, Return, CallType
    <3> QED
      BY <1>2, <2>1, <3>1
  <2>3. ASSUME Goto(p, "store")
        PROVE  InLoop(p)'
    BY <1>8, <2>1, <2>3
       DEF PrepareUpdateStatement, Goto, CallType, LoopOnTop, files, FileOf, Schema!UpTo
  <2>4. Return(p, "error") => InLoop(p)'
    BY DEF Return, CallType
  <2> QED
    BY <1>8, <2>2, <2>3, <2>4 DEF PrepareUpdateStatement
<1>9. ASSUME NEW p \in Procs, StoreNewVersion(p), NEW q \in Procs
      PROVE  InLoop(q)'
  <2>1. UNCHANGED <<hfile, con>>
    BY <1>9 DEF StoreNewVersion
  <2>2. CASE q # p
    <3>1. UNCHANGED <<pc[q], current[q]>>
      BY <1>9, <2>2 DEF StoreNewVersion, Reached, Return, CallType
    <3> QED
      BY <1>2, <2>1, <3>1
  <2>3. ASSUME Reached(p, current[p] + 1)
        PROVE  InLoop(p)'
    <3>1. current[p] + 1 \in Nat /\ Schema!UpTo(FileOf(p), current[p] + 1)
      BY <1>9 DEF StoreNewVersion, LoopOnTop, KnownStep, CallType, Schema!UpTo, Schema!Steps,
         Steps
    <3> QED
      BY <1>0, <1>3, <1>9, <2>1, <2>3, <3>1, LoopReached DEF StoreNewVersion
  <2>4. Return(p, "error") => InLoop(p)'
    BY DEF Return, CallType
  <2> QED
    BY <1>9, <2>2, <2>3, <2>4 DEF StoreNewVersion
<1>10. ASSUME NEW p \in Procs, Destroy(p) \/ EndProcess(p), NEW q \in Procs
       PROVE  InLoop(q)'
  <2>1. CASE q = p
    BY <1>10, <2>1 DEF Destroy, EndProcess, call, CallType
  <2>2. CASE q # p
    <3>1. UNCHANGED <<pc[q], current[q], con[q], hfile>>
      BY <1>10, <2>2 DEF Destroy, EndProcess, FreshObject, call, CallType, ObjectType
    <3> QED
      BY <1>2, <3>1
  <2> QED
    BY <2>1, <2>2
<1> HIDE DEF InLoop
<1> QED
  BY <1>1, <1>4, <1>5, <1>6, <1>7, <1>8, <1>9, <1>10 DEF Next, Step

-----------------------------------------------------------------------------

LEMMA InitOpenInv ==
  ASSUME Init
  PROVE  OpenInv
<1> USE ConstAssumption
<1>1. FilesType
  BY DEF Init, Schema!Init, FilesType, Schema!Steps, Steps
<1>2. HandlesType /\ ObjectType /\ CallType /\ BudgetType
  BY DEF Init, HandlesType, ObjectType, CallType, BudgetType
<1>3. OwnHandles /\ KnownStep
  BY DEF Init, OwnHandles, KnownStep
<1> QED
  BY <1>1, <1>2, <1>3 DEF OpenInv, TypeOK

(* Any number of objects, opened and reopened on any files, under any       *)
(* failures and crashes: ClosedByOpen never takes the handle that           *)
(* update_stmt_ is compiled on, and no handle is used by two processes.     *)
THEOREM OpenInductive == Spec => []OpenInv
<1>1. Init => OpenInv
  BY InitOpenInv
<1>2. OpenInv /\ [Next]_vars => OpenInv'
  BY OpenStep
<1> QED
  BY <1>1, <1>2, PTL DEF Spec

(* All state of open() stays within its types: in particular no version     *)
(* above the number of known steps is ever stored by store_new_version,     *)
(* not even in the wrong file.                                              *)
THEOREM TypeCorrect == Spec => []TypeOK
<1>1. OpenInv => TypeOK
  BY DEF OpenInv
<1> QED
  BY <1>1, OpenInductive, PTL

LEMMA InitIndInv ==
  ASSUME Init
  PROVE  IndInv
<1>1. SameFile /\ LoopOnTop
  BY DEF Init, SameFile, LoopOnTop
<1>2. NeverSkips /\ StepsInOrder
  BY ConstAssumption DEF Init, Schema!Init, NeverSkips, StepsInOrder, Schema!NeverSkips,
     Schema!StepsInOrder, Schema!UpTo, Schema!Steps
<1> QED
  BY <1>1, <1>2, InitOpenInv DEF IndInv

LEMMA NextIndInv ==
  ASSUME IndInv, [Next]_vars, ~ReopenElsewhere
  PROVE  IndInv'
<1>1. OpenInv'
  BY OpenStep DEF IndInv
<1>2. SameFile'
  BY SameFileStep DEF IndInv
<1>3. LoopOnTop'
  BY LoopOnTopStep
<1>4. NeverSkips' /\ StepsInOrder'
  BY SchemaStep, SchemaInvariants, AppliedGrows DEF IndInv, OpenInv
<1> QED
  BY <1>1, <1>2, <1>3, <1>4 DEF IndInv

(* The inductive invariant holds in every reachable state of any number of  *)
(* openers, under any failures and crashes, as long as an open object is    *)
(* only opened again on its own file.                                       *)
THEOREM Inductive ==
  ASSUME ~ReopenElsewhere
  PROVE  Spec => []IndInv
<1>1. Init => IndInv
  BY InitIndInv
<1>2. IndInv /\ [Next]_vars => IndInv'
  BY NextIndInv
<1> QED
  BY <1>1, <1>2, PTL DEF Spec

(* store_new_version never claims a step that perform_update has not        *)
(* committed to that file.                                                  *)
THEOREM VersionNeverSkips ==
  ASSUME ~ReopenElsewhere
  PROVE  Spec => []NeverSkips
<1>1. IndInv => NeverSkips
  BY DEF IndInv
<1> QED
  BY <1>1, Inductive, PTL

(* perform_update never runs a step on a file that lacks an earlier one.    *)
THEOREM UpdatesInOrder ==
  ASSUME ~ReopenElsewhere
  PROVE  Spec => []StepsInOrder
<1>1. IndInv => StepsInOrder
  BY DEF IndInv
<1> QED
  BY <1>1, Inductive, PTL

(* open() implements the abstract schema: its initial states are initial    *)
(* states of VersionedSchema, and each of its steps runs the next update    *)
(* step, stores a version whose steps were all run, or changes no file.     *)
THEOREM Refinement ==
  ASSUME ~ReopenElsewhere
  PROVE  Spec => ImplementsSchema
<1>1. Init => Schema!Init
  BY DEF Init
<1>2. IndInv /\ [Next]_vars => [Schema!Next]_(Schema!vars)
  BY SchemaStep
<1> QED
  BY <1>1, <1>2, Inductive, PTL DEF Spec, ImplementsSchema, Schema!Spec

=============================================================================
