--------------------------- MODULE SoleOpenerProofs ---------------------------
(***************************************************************************)
(* Proofs about VersionedDatabase for a file that one process opens: how   *)
(* far the stored version can fall behind the committed steps, for any     *)
(* number of steps, opens, failing calls and crashes, provided that the    *)
(* script of the first step, which creates the metadata table, fails when  *)
(* it is run again.                                                        *)
(***************************************************************************)
EXTENDS VersionedDatabaseProofs

SoleOpener == \A p, q \in Procs : p = q

-----------------------------------------------------------------------------
(* What the parts of open() do to the state of one call. *)

LEMMA CallFacts ==
  ASSUME IndInv, NEW p \in Procs, pc[p] # "idle"
  PROVE  /\ con[p] \in Handles /\ hown[con[p]] = p
         /\ FileOf(p) \in Files
         /\ version[FileOf(p)] \in 0 .. NumSteps
         /\ current[p] \in Nat
  BY ConstAssumption DEF IndInv, OpenInv, TypeOK, FilesType, HandlesType, ObjectType,
     CallType, OwnHandles, FileOf

LEMMA ReachedEffect ==
  ASSUME TypeOK, NEW p \in Procs, NEW v \in Nat, Reached(p, v)
  PROVE  \/ pc'[p] = "update" /\ current'[p] = v /\ result'[p] = result[p]
         \/ pc'[p] = "idle" /\ current'[p] = 0 /\ result'[p] = "ok" /\ target[p] <= v
  BY DEF Reached, Return, TypeOK, CallType

LEMMA ReturnEffect ==
  ASSUME TypeOK, NEW p \in Procs, NEW r, Return(p, r)
  PROVE  pc'[p] = "idle" /\ current'[p] = 0 /\ result'[p] = r
  BY DEF Return, TypeOK, CallType

LEMMA GotoEffect ==
  ASSUME TypeOK, NEW p \in Procs, NEW l, Goto(p, l)
  PROVE  pc'[p] = l /\ UNCHANGED <<current, result>>
  BY DEF Goto, TypeOK, CallType

(* A script that succeeds adds one run of the current step, nothing else.  *)
LEMMA ApplyEffect ==
  ASSUME IndInv, NEW p \in Procs, RunUpdate(p), UpdateSucceeds(p)
  PROVE  /\ current[p] \in Steps
         /\ applied[FileOf(p)][current[p]] = 0 \/ current[p] \in Replayable
         /\ ~LockedByOther(con[p])
         /\ \A f \in Files, k \in Steps :
              applied'[f][k] = IF f = FileOf(p) /\ k = current[p]
                               THEN applied[f][k] + 1 ELSE applied[f][k]
<1>1. FileOf(p) \in Files
  BY CallFacts DEF RunUpdate
<1> QED
  BY <1>1 DEF UpdateSucceeds, CanApply, IndInv, OpenInv, TypeOK, FilesType

(* When an open handle of the opener has the lock, the others are locked   *)
(* out, its own connection included.                                       *)
LEMMA LockedOut ==
  ASSUME NEW g \in Handles, NEW h \in Handles, g # h, hown[h] # None,
         hfile[h] = hfile[g], htx[h] = "locked"
  PROVE  LockedByOther(g)
  BY DEF LockedByOther

-----------------------------------------------------------------------------

LEMMA CleanHandlesStep ==
  ASSUME IndInv, CleanHandles, [Next]_vars, SoleOpener
  PROVE  CleanHandles'
<1> USE DEF IndInv, OpenInv, TypeOK, HandlesType, ObjectType, CallType, CleanHandles, SoleOpener
<1>1. ASSUME NEW p \in Procs, NEW f \in Files, NEW t \in Targets, Open(p, f, t)
      PROVE  CleanHandles'
  BY <1>1, ConstAssumption DEF Open, ConnectionOpen, ClosedByOpen, handles, Return
<1>2. ASSUME NEW p \in Procs,
             FindTable(p) \/ ReadVersion(p) \/ PrepareUpdateStatement(p)
      PROVE  CleanHandles'
  BY <1>2 DEF FindTable, ReadVersion, PrepareUpdateStatement, handles, object, Goto,
     Reached, Return
<1>3. ASSUME NEW p \in Procs, RunUpdate(p) PROVE CleanHandles'
  <2>1. con[p] \in Handles /\ hown[con[p]] = p
    BY <1>3, CallFacts DEF RunUpdate
  <2> QED
    BY <1>3, <2>1, ConstAssumption DEF RunUpdate, UpdateSucceeds, UpdateFails, object,
       Goto, Return
<1>4. ASSUME NEW p \in Procs, StoreNewVersion(p) PROVE CleanHandles'
  <2>1. UNCHANGED <<hown, con>>
    BY <1>4 DEF StoreNewVersion
  <2>2. UNCHANGED htx \/ /\ update_stmt[p] # None
                         /\ htx[update_stmt[p]] # "none"
                         /\ htx' = [htx EXCEPT ![update_stmt[p]] = "locked"]
    BY <1>4 DEF StoreNewVersion, ExecuteUpdate, WriteVersion, ResetOrBindFails
  <2>3. update_stmt[p] # None => hown[update_stmt[p]] = p
    BY DEF OwnHandles
  <2>4. \A h \in Handles : hown'[h] = None => htx'[h] = "none"
    BY <2>1, <2>2, <2>3, ConstAssumption
  <2>5. htx'[con[p]] = "none"
    BY <1>4, <2>2, CallFacts DEF StoreNewVersion
  <2>6. pc'[p] # "idle" => result'[p] = "none"
    BY <1>4 DEF StoreNewVersion, Reached, Return
  <2> QED
    BY <2>1, <2>4, <2>5, <2>6
<1>5. ASSUME NEW p \in Procs, Destroy(p) \/ EndProcess(p) PROVE CleanHandles'
  BY <1>5 DEF Destroy, EndProcess, CloseHandles, FreshObject, call
<1>6. CASE UNCHANGED vars
  BY <1>6 DEF vars, handles, object, call
<1> QED
  BY <1>1, <1>2, <1>3, <1>4, <1>5, <1>6 DEF Next, Step

LEMMA FailureKeptStep ==
  ASSUME IndInv, FailureKept, [Next]_vars, SoleOpener
  PROVE  FailureKept'
<1> USE DEF IndInv, OpenInv, TypeOK, ObjectType, CallType, FailureKept, SoleOpener
<1>1. ASSUME NEW p \in Procs, NEW f \in Files, NEW t \in Targets, Open(p, f, t)
      PROVE  FailureKept'
  BY <1>1 DEF Open, Return
<1>2. ASSUME NEW p \in Procs, FindTable(p) \/ ReadVersion(p) PROVE FailureKept'
  BY <1>2 DEF FindTable, ReadVersion, object, Goto, Reached, Return
<1>3. ASSUME NEW p \in Procs, RunUpdate(p) PROVE FailureKept'
  BY <1>3 DEF RunUpdate, UpdateSucceeds, UpdateFails, object, Goto, Return
<1>4. ASSUME NEW p \in Procs, PrepareUpdateStatement(p) PROVE FailureKept'
  BY <1>4 DEF PrepareUpdateStatement, Goto, Return
<1>5. ASSUME NEW p \in Procs, StoreNewVersion(p) PROVE FailureKept'
  <2>1. update_rc'[p] = "error" => update_stmt[p] # None
    BY <1>5 DEF StoreNewVersion, ResetOrBindFails, ExecuteUpdate
  <2> QED
    BY <1>5, <2>1 DEF StoreNewVersion, Reached, Return
<1>6. ASSUME NEW p \in Procs, Destroy(p) \/ EndProcess(p) PROVE FailureKept'
  BY <1>6 DEF Destroy, EndProcess, FreshObject, call
<1>7. CASE UNCHANGED vars
  BY <1>7 DEF vars, object, call
<1> QED
  BY <1>1, <1>2, <1>3, <1>4, <1>5, <1>6, <1>7 DEF Next, Step

-----------------------------------------------------------------------------

(* store_new_version in one of the three ways it can go: it reports an     *)
(* error; it stores the next version; or the UPDATE is lost, to a failure  *)
(* that the statement keeps or to a transaction that keeps the lock.       *)
LEMMA StoreEffect ==
  ASSUME SoleInv, NEW p \in Procs, StoreNewVersion(p)
  PROVE  LET v == version[FileOf(p)] IN
         \/ Return(p, "error") /\ UNCHANGED version
         \/ /\ current[p] = v /\ Reached(p, v + 1)
            /\ version' = [version EXCEPT ![FileOf(p)] = v + 1]
         \/ /\ current[p] = v /\ Reached(p, v + 1)
            /\ UNCHANGED version
            /\ update_rc'[p] = "error" \/ LockedByOther(con[p])'
<1> USE DEF SoleInv, IndInv, OpenInv, TypeOK
<1> DEFINE s == update_stmt[p]
<1>1. CASE ResetOrBindFails(p)
  BY <1>1 DEF StoreNewVersion
<1>2. CASE ~ResetOrBindFails(p)
  <2>1. s \in Handles /\ hown[s] = p /\ hfile[s] = hfile[con[p]] /\ s # None
    BY <1>2 DEF ResetOrBindFails, OwnHandles, SameFile, ObjectType
  <2>2. current[p] = version[FileOf(p)] /\ Reached(p, current[p] + 1)
    BY <1>2 DEF StoreNewVersion, AtVersion, ResetOrBindFails
  <2>3. CASE WriteVersion(s, current[p] + 1) /\ htx[s] = "none"
    BY <2>1, <2>2, <2>3 DEF WriteVersion, FileOf
  <2>4. CASE WriteVersion(s, current[p] + 1) /\ htx[s] # "none"
    <3>1. htx[con[p]] = "none" /\ con[p] \in Handles
      BY CallFacts DEF StoreNewVersion, CleanHandles
    <3>2. UNCHANGED <<hown, hfile, con>> /\ htx'[s] = "locked"
      BY <2>1, <2>4 DEF StoreNewVersion, WriteVersion, HandlesType
    <3>3. LockedByOther(con[p])'
      BY <2>1, <2>4, <3>1, <3>2, ConstAssumption DEF LockedByOther
    <3> QED
      BY <2>2, <2>4, <3>3 DEF WriteVersion
  <2>5. CASE /\ UNCHANGED version
             /\ update_rc' = [update_rc EXCEPT ![p] = "error"]
    BY <2>2, <2>5 DEF ObjectType
  <2> QED
    BY <1>2, <2>3, <2>4, <2>5 DEF StoreNewVersion, ExecuteUpdate
<1> QED
  BY <1>1, <1>2

(* Only a step of the loop is about the files, so the rest keeps what      *)
(* relates them to the version.                                            *)
LEMMA StartEffect ==
  ASSUME SoleInv, NEW p \in Procs, FindTable(p) \/ ReadVersion(p)
  PROVE  LET v == version[FileOf(p)] IN
         \/ pc'[p] = "version"
         \/ Return(p, "error")
         \/ Reached(p, v)
         \/ Reached(p, 0) /\ applied[FileOf(p)][0] > 0
<1> USE DEF SoleInv, IndInv, OpenInv
<1> DEFINE f == FileOf(p)
<1>1. f \in Files /\ version[f] \in 0 .. NumSteps
  BY CallFacts DEF FindTable, ReadVersion
<1>2. 0 \in Steps /\ applied[f][0] \in Nat
  BY <1>1, ConstAssumption DEF TypeOK, FilesType, Steps
<1>3. applied[f][0] > 0 \/ version[f] = 0
  BY <1>1, <1>2 DEF NeverSkips, Schema!NeverSkips, Schema!UpTo, Schema!Steps, Steps
<1> QED
  BY <1>3 DEF FindTable, ReadVersion, Goto, TypeOK, CallType

LEMMA AtVersionStep ==
  ASSUME SoleInv, [Next]_vars, SoleOpener, 0 \notin Replayable
  PROVE  AtVersion'
<1> USE DEF SoleInv, SoleOpener
<1>0. TypeOK
  BY DEF IndInv, OpenInv
<1>1. SUFFICES ASSUME NEW p \in Procs, pc'[p] # "idle"
               PROVE  LET v == version'[FileOf(p)'] IN
                 /\ pc'[p] = "update" =>
                      \/ current'[p] = v
                      \/ current'[p] = v + 1 /\ (update_rc'[p] = "error" \/ LockedByOther(con[p])')
                      \/ current'[p] = 0 /\ applied'[FileOf(p)'][0] > 0
                 /\ pc'[p] = "prepare" => current'[p] = v
                 /\ pc'[p] = "store" =>
                      \/ current'[p] = v
                      \/ current'[p] = v + 1 /\ update_rc'[p] = "error"
  BY DEF AtVersion
<1> DEFINE f == FileOf(p)
           v == version[f]
<1>2. ASSUME NEW g \in Files, NEW t \in Targets, Open(p, g, t) PROVE pc'[p] = "table"
  BY <1>0, <1>1, <1>2 DEF Open, Return, TypeOK, CallType
<1>3. ASSUME pc[p] # "idle"
      PROVE  f \in Files /\ v \in Nat /\ current[p] \in Nat
  BY <1>3, CallFacts
<1>4. CASE FindTable(p) \/ ReadVersion(p)
  <2>1. f \in Files /\ v \in Nat
    BY <1>3, <1>4 DEF FindTable, ReadVersion
  <2>2. UNCHANGED <<version, applied>> /\ FileOf(p)' = f
    BY <1>4 DEF FindTable, ReadVersion, files, handles, object, FileOf
  <2>3. \/ pc'[p] = "version"
        \/ pc'[p] = "update" /\ current'[p] = v
        \/ pc'[p] = "update" /\ current'[p] = 0 /\ applied[f][0] > 0
    <3>1. ~Return(p, "error")
      BY <1>0, <1>1, ReturnEffect
    <3>2. ASSUME NEW w \in Nat, Reached(p, w) PROVE pc'[p] = "update" /\ current'[p] = w
      BY <1>0, <1>1, <3>2, ReachedEffect
    <3> QED
      BY <1>4, <2>1, <3>1, <3>2, StartEffect
  <2> QED
    BY <2>2, <2>3
<1>5. CASE RunUpdate(p)
  <2>1. UpdateSucceeds(p) /\ pc[p] = "update"
    BY <1>0, <1>1, <1>5, ReturnEffect DEF RunUpdate, UpdateFails
  <2>2. /\ UNCHANGED <<version, update_rc, update_prepared, current>> /\ FileOf(p)' = f
        /\ pc'[p] = IF update_prepared[p] THEN "store" ELSE "prepare"
    BY <1>0, <1>5, <2>1, GotoEffect DEF RunUpdate, UpdateSucceeds, object, FileOf
  <2>3. \/ current[p] = v
        \/ current[p] = v + 1 /\ update_rc[p] = "error"
    <3>1. \/ current[p] = v
          \/ current[p] = v + 1 /\ (update_rc[p] = "error" \/ LockedByOther(con[p]))
          \/ current[p] = 0 /\ applied[f][0] > 0
      BY <2>1 DEF AtVersion
    <3>2. ~LockedByOther(con[p]) /\ (applied[f][current[p]] = 0 \/ current[p] # 0)
      BY <1>5, <2>1, ApplyEffect
    <3> QED
      BY <3>1, <3>2
  <2>4. current[p] = v \/ update_prepared[p]
    BY <2>3 DEF FailureKept
  <2> QED
    BY <2>2, <2>3, <2>4
<1>6. CASE PrepareUpdateStatement(p)
  <2>1. /\ UNCHANGED <<version, current>> /\ FileOf(p)' = f
        /\ pc'[p] = "store" /\ pc[p] = "prepare"
    BY <1>0, <1>1, <1>6, GotoEffect, ReturnEffect DEF PrepareUpdateStatement, files,
       handles, FileOf
  <2> QED
    BY <2>1 DEF AtVersion
<1>7. CASE StoreNewVersion(p)
  <2>1. f \in Files /\ v \in Nat
    BY <1>3, <1>7 DEF StoreNewVersion
  <2>2. FileOf(p)' = f
    BY <1>7 DEF StoreNewVersion, FileOf
  <2>3. pc'[p] = "update" /\ current'[p] = v + 1
    BY <1>0, <1>1, <1>7, <2>1, StoreEffect, ReachedEffect, ReturnEffect
  <2>4. \/ version'[f] = v + 1
        \/ version'[f] = v /\ (update_rc'[p] = "error" \/ LockedByOther(con[p])')
    BY <1>0, <1>1, <1>7, <2>1, StoreEffect, ReturnEffect DEF TypeOK, FilesType
  <2> QED
    BY <2>1, <2>2, <2>3, <2>4
<1>8. CASE Destroy(p) \/ EndProcess(p)
  BY <1>0, <1>1, <1>8 DEF Destroy, EndProcess, call, TypeOK, CallType
<1>9. CASE UNCHANGED vars
  BY <1>1, <1>9 DEF vars, files, handles, object, call, AtVersion, FileOf, LockedByOther
<1> QED
  BY <1>1, <1>2, <1>4, <1>5, <1>6, <1>7, <1>8, <1>9 DEF Next, Step

(* How the versions change: not at all, or by one in one file.             *)
LEMMA VersionEffect ==
  ASSUME SoleInv, [Next]_vars
  PROVE  \/ UNCHANGED version
         \/ \E f \in Files : version' = [version EXCEPT ![f] = version[f] + 1]
<1>1. ASSUME NEW p \in Procs, StoreNewVersion(p)
      PROVE  \/ UNCHANGED version
             \/ \E f \in Files : version' = [version EXCEPT ![f] = version[f] + 1]
  <2>1. FileOf(p) \in Files
    BY <1>1, CallFacts DEF StoreNewVersion, SoleInv
  <2> QED
    BY <1>1, <2>1, StoreEffect
<1>2. ASSUME NEW p \in Procs,
             \/ \E f \in Files, t \in Targets : Open(p, f, t)
             \/ FindTable(p) \/ ReadVersion(p) \/ RunUpdate(p)
             \/ PrepareUpdateStatement(p) \/ Destroy(p) \/ EndProcess(p)
      PROVE  UNCHANGED version
  BY <1>2 DEF Open, FindTable, ReadVersion, RunUpdate, PrepareUpdateStatement,
              Destroy, EndProcess, files
<1> QED
  BY <1>1, <1>2 DEF Next, Step, vars, files

LEMMA VersionsGrow ==
  ASSUME SoleInv, [Next]_vars, NEW f \in Files
  PROVE  version[f] \in Nat /\ version'[f] \in Nat /\ version'[f] >= version[f]
<1>1. version \in [Files -> 0 .. NumSteps]
  BY DEF SoleInv, IndInv, OpenInv, TypeOK, FilesType
<1> QED
  BY <1>1, VersionEffect, ConstAssumption

LEMMA LagStep ==
  ASSUME SoleInv, [Next]_vars
  PROVE  LagBound'
<1> USE DEF SoleInv
<1>0. TypeOK /\ OwnHandles
  BY DEF IndInv, OpenInv
<1>1. SUFFICES ASSUME NEW f \in Files, NEW k \in Steps, applied'[f][k] > 0
               PROVE  k < version'[f] + 2
  BY DEF LagBound
<1>2. version[f] \in Nat /\ version'[f] \in Nat /\ version'[f] >= version[f] /\ k \in Nat
  BY VersionsGrow DEF Steps
<1>3. ASSUME applied'[f][k] = applied[f][k] PROVE k < version'[f] + 2
  BY <1>1, <1>2, <1>3 DEF LagBound
<1>4. ASSUME NEW p \in Procs, RunUpdate(p) PROVE k < version'[f] + 2
  <2>1. CASE UpdateSucceeds(p) /\ f = FileOf(p) /\ k = current[p]
    <3>1. \/ current[p] = version[f]
          \/ current[p] = version[f] + 1
          \/ current[p] = 0
      BY <1>4, <2>1 DEF RunUpdate, AtVersion
    <3> QED
      BY <1>2, <2>1, <3>1
  <2>2. CASE UpdateSucceeds(p) /\ ~(f = FileOf(p) /\ k = current[p])
    BY <1>3, <1>4, <2>2, ApplyEffect
  <2> QED
    BY <1>3, <1>4, <2>1, <2>2 DEF RunUpdate, UpdateFails
<1>5. ASSUME NEW p \in Procs,
             \/ \E g \in Files, t \in Targets : Open(p, g, t)
             \/ FindTable(p) \/ ReadVersion(p) \/ PrepareUpdateStatement(p)
             \/ StoreNewVersion(p) \/ Destroy(p) \/ EndProcess(p)
      PROVE  UNCHANGED applied
  BY <1>5 DEF Open, FindTable, ReadVersion, PrepareUpdateStatement, StoreNewVersion,
              Destroy, EndProcess, files
<1> QED
  BY <1>3, <1>4, <1>5 DEF Next, Step, vars, files

LEMMA SuccessStep ==
  ASSUME SoleInv, [Next]_vars, SoleOpener
  PROVE  SuccessNearlyStored'
<1> USE DEF SoleInv, SoleOpener
<1>0. TypeOK
  BY DEF IndInv, OpenInv
<1>1. SUFFICES ASSUME NEW p \in Procs, result'[p] = "ok", con'[p] # None
               PROVE  version'[FileOf(p)'] + 1 >= target'[p]
  BY DEF SuccessNearlyStored
<1> DEFINE f == FileOf(p)
           v == version[f]
<1>2. ASSUME NEW g \in Files, NEW t \in Targets, Open(p, g, t) PROVE FALSE
  BY <1>0, <1>1, <1>2 DEF Open, Return, TypeOK, CallType
<1>3. ASSUME f \in Files, NEW w \in Nat, Reached(p, w), w <= version'[f] + 1,
             FileOf(p)' = f, UNCHANGED target, result[p] = "none"
      PROVE  version'[FileOf(p)'] + 1 >= target'[p]
  <2>1. version'[f] \in Nat /\ target[p] \in Nat
    BY <1>0, <1>3, VersionsGrow DEF TypeOK, CallType
  <2> QED
    BY <1>0, <1>1, <1>3, <2>1, ReachedEffect
<1>4. CASE FindTable(p) \/ ReadVersion(p)
  <2>1. pc[p] # "idle" /\ UNCHANGED <<version, target>> /\ FileOf(p)' = f
    BY <1>4 DEF FindTable, ReadVersion, files, handles, object, FileOf
  <2>2. f \in Files /\ v \in Nat /\ result[p] = "none"
    BY <2>1, CallFacts DEF CleanHandles
  <2>3. \E w \in {0, v} : Reached(p, w)
    <3>1. ~Return(p, "error") /\ ~Goto(p, "version")
      BY <1>0, <1>1, <2>2, ReturnEffect, GotoEffect
    <3> QED
      BY <1>4, <3>1 DEF FindTable, ReadVersion
  <2> QED
    BY <1>3, <2>1, <2>2, <2>3
<1>5. CASE RunUpdate(p) \/ PrepareUpdateStatement(p)
  <2>1. result[p] = "none"
    BY <1>5 DEF RunUpdate, PrepareUpdateStatement, CleanHandles
  <2> QED
    BY <1>0, <1>1, <1>5, <2>1, ReturnEffect, GotoEffect DEF RunUpdate, UpdateSucceeds,
       UpdateFails, PrepareUpdateStatement
<1>6. CASE StoreNewVersion(p)
  <2>1. f \in Files /\ v \in Nat /\ result[p] = "none"
    BY <1>6, CallFacts DEF StoreNewVersion, CleanHandles
  <2>2. UNCHANGED target /\ FileOf(p)' = f
    BY <1>6 DEF StoreNewVersion, FileOf
  <2>3. Reached(p, v + 1)
    BY <1>0, <1>1, <1>6, StoreEffect, ReturnEffect
  <2>4. version'[f] \in Nat /\ version'[f] >= v
    BY <2>1, VersionsGrow
  <2> QED
    BY <1>3, <2>1, <2>2, <2>3, <2>4
<1>7. CASE Destroy(p) \/ EndProcess(p)
  BY <1>0, <1>1, <1>7 DEF Destroy, EndProcess, FreshObject, TypeOK, ObjectType
<1>8. CASE UNCHANGED vars
  BY <1>1, <1>8 DEF vars, files, handles, object, call, SuccessNearlyStored, FileOf
<1> QED
  BY <1>1, <1>2, <1>4, <1>5, <1>6, <1>7, <1>8 DEF Next, Step

-----------------------------------------------------------------------------

LEMMA InitSoleInv == ASSUME Init PROVE SoleInv
<1>1. LagBound
  <2> SUFFICES ASSUME NEW f \in Files, NEW k \in Steps, applied[f][k] > 0
               PROVE  k < version[f] + 2
    BY DEF LagBound
  <2>1. version[f] \in Nat /\ k \in Nat /\ applied[f][k] = IF k < version[f] THEN 1 ELSE 0
    BY ConstAssumption DEF Init, Schema!Init, Schema!Steps, Steps
  <2> QED
    BY <2>1
<1>2. CleanHandles /\ FailureKept /\ AtVersion /\ SuccessNearlyStored
  BY DEF Init, CleanHandles, FailureKept, AtVersion, SuccessNearlyStored
<1> QED
  BY <1>1, <1>2, InitIndInv DEF SoleInv

(* One opener, whatever fails and wherever it is killed: its call in        *)
(* progress is at the stored version, or knows that it is not.              *)
THEOREM SoleInductive ==
  ASSUME SoleOpener, ~ReopenElsewhere, 0 \notin Replayable
  PROVE  Spec => []SoleInv
<1>1. Init => SoleInv
  BY InitSoleInv
<1>2. ASSUME SoleInv, [Next]_vars PROVE SoleInv'
  BY <1>2, NextIndInv, CleanHandlesStep, FailureKeptStep, AtVersionStep, LagStep,
     SuccessStep DEF SoleInv
<1> QED
  BY <1>1, <1>2, PTL DEF Spec

(* However many UPDATEs are lost, to failures, to transactions that a       *)
(* failed script left open, or to crashes, the stored version lags the      *)
(* committed steps by at most two.                                          *)
THEOREM LagIsBounded ==
  ASSUME SoleOpener, ~ReopenElsewhere, 0 \notin Replayable
  PROVE  Spec => []LagBound
<1>1. SoleInv => LagBound
  BY DEF SoleInv
<1> QED
  BY <1>1, SoleInductive, PTL

(* An open() that reports success has stored the requested version, or the  *)
(* one before it.                                                           *)
THEOREM SuccessIsNearlyStored ==
  ASSUME SoleOpener, ~ReopenElsewhere, 0 \notin Replayable
  PROVE  Spec => []SuccessNearlyStored
<1>1. SoleInv => SuccessNearlyStored
  BY DEF SoleInv
<1> QED
  BY <1>1, SoleInductive, PTL

(* No step of open() lowers a stored version, even when a failed query made *)
(* get_file_version answer 0 for a file that is up to date.                 *)
THEOREM VersionsNeverDrop ==
  ASSUME SoleOpener, ~ReopenElsewhere, 0 \notin Replayable
  PROVE  Spec => VersionMonotone
<1>1. ASSUME SoleInv, [Next]_vars PROVE \A f \in Files : version'[f] >= version[f]
  BY <1>1, VersionsGrow
<1>2. SoleInv /\ [Next]_vars => [\A f \in Files : version'[f] >= version[f]]_vars
  BY <1>1
<1> QED
  BY <1>2, SoleInductive, PTL DEF Spec, VersionMonotone

-----------------------------------------------------------------------------
(* Nothing fails: every step is committed once *)

(* No lock is left behind to fail a call, and nothing else fails it.       *)
LEMMA NoFailure ==
  ASSUME TypeOK, NothingLeft, faults' = 0, NEW h \in Handles
  PROVE  ~Failure(h) /\ ~LockedByOther(h)
  BY DEF Failure, LockedByOther, NothingLeft, TypeOK, BudgetType

(* No counter is ever taken back. *)
LEMMA NothingFailed ==
  ASSUME TypeOK, [Next]_vars, faults' = 0, crashes' = 0
  PROVE  faults = 0 /\ crashes = 0
<1> USE DEF TypeOK, BudgetType, Failure
<1>1. ASSUME NEW p \in Procs, NEW f \in Files, NEW t \in Targets, Open(p, f, t)
      PROVE  faults = 0 /\ crashes = 0
  BY <1>1 DEF Open
<1>2. ASSUME NEW p \in Procs, FindTable(p) \/ ReadVersion(p) \/ PrepareUpdateStatement(p)
      PROVE  faults = 0 /\ crashes = 0
  BY <1>2 DEF FindTable, ReadVersion, PrepareUpdateStatement
<1>3. ASSUME NEW p \in Procs, RunUpdate(p) \/ StoreNewVersion(p)
      PROVE  faults = 0 /\ crashes = 0
  BY <1>3 DEF RunUpdate, UpdateSucceeds, UpdateFails, StoreNewVersion, ExecuteUpdate
<1>4. ASSUME NEW p \in Procs, Destroy(p) \/ EndProcess(p)
      PROVE  faults = 0 /\ crashes = 0
  BY <1>4 DEF Destroy, EndProcess, budget
<1> QED
  BY <1>1, <1>2, <1>3, <1>4 DEF Next, Step, vars, budget

(* Outside of a step that is being counted, the version counts them all.   *)
LEMMA StillAppliedOnce ==
  ASSUME SoleOpener, AppliedOnce, UNCHANGED files, NEW p \in Procs,
         pc[p] \notin {"prepare", "store"}, pc'[p] \notin {"prepare", "store"}
  PROVE  AppliedOnce'
  BY DEF AppliedOnce, Uncounted, files, SoleOpener

LEMMA OnceStep ==
  ASSUME IndInv, NothingLeft, AppliedOnce, [Next]_vars, SoleOpener,
         faults' = 0, crashes' = 0
  PROVE  NothingLeft' /\ AppliedOnce'
<1> USE DEF SoleOpener
<1>0. TypeOK /\ faults = 0 /\ crashes = 0
  BY NothingFailed DEF IndInv, OpenInv
<1>1. ASSUME NEW p \in Procs, NEW f \in Files, NEW t \in Targets, Open(p, f, t)
      PROVE  NothingLeft' /\ AppliedOnce'
  <2>1. PICK h \in Handles : ConnectionOpen(p, f, h) /\ pc' = [pc EXCEPT ![p] = "table"]
    BY <1>0, <1>1 DEF Open
  <2>2. AppliedOnce'
    BY <1>0, <1>1, <2>1, StillAppliedOnce DEF Open, TypeOK, CallType
  <2> QED
    BY <1>0, <1>1, <2>1, <2>2 DEF Open, ConnectionOpen, NothingLeft, TypeOK, CallType,
       ObjectType
<1>2. ASSUME NEW p \in Procs, FindTable(p) \/ ReadVersion(p)
      PROVE  NothingLeft' /\ AppliedOnce'
  <2> DEFINE f == FileOf(p)
             v == version[f]
  <2>1. f \in Files /\ v \in Nat /\ con[p] \in Handles
    BY <1>2, CallFacts DEF FindTable, ReadVersion
  <2>2. Goto(p, "version") \/ Reached(p, v)
    <3>1. 0 \in Steps /\ applied[f][0] \in Nat
      BY <1>0, <2>1, ConstAssumption DEF TypeOK, FilesType, Steps
    <3>2. applied[f][0] > 0 \/ v = 0
      BY <2>1, <3>1 DEF IndInv, NeverSkips, Schema!NeverSkips, Schema!UpTo, Schema!Steps, Steps
    <3> QED
      BY <1>0, <1>2, <2>1, <3>2, NoFailure DEF FindTable, ReadVersion
  <2>3. /\ pc'[p] \in {"idle", "version", "update"}
        /\ pc'[p] = "update" => current'[p] = v
    BY <1>0, <2>1, <2>2, ReachedEffect, GotoEffect
  <2>4. UNCHANGED <<files, handles, object>> /\ pc[p] \in {"table", "version"}
    BY <1>2 DEF FindTable, ReadVersion
  <2> QED
    BY <2>3, <2>4, StillAppliedOnce DEF NothingLeft, files, handles, object, FileOf
<1>3. ASSUME NEW p \in Procs, RunUpdate(p), UpdateFails(p)
      PROVE  NothingLeft' /\ AppliedOnce'
  <2>1. con[p] \in Handles /\ FileOf(p) \in Files /\ current[p] = version[FileOf(p)]
    BY <1>3, CallFacts DEF RunUpdate, NothingLeft
  <2>2. ~CanApply(p) /\ ~LockedByOther(con[p])
    BY <1>0, <1>3, <2>1, NoFailure DEF UpdateFails
  <2>3. applied[FileOf(p)][current[p]] = 0 \/ current[p] \notin Steps
    <3>1. current[p] \in Nat
      BY <1>0 DEF TypeOK, CallType
    <3> QED
      BY <1>3, <2>1, <3>1 DEF RunUpdate, AppliedOnce, Uncounted
  <2>4. LeftBehind(p) = {"none"}
    BY <2>2, <2>3 DEF CanApply, LeftBehind
  <2>5. UNCHANGED htx
    BY <1>0, <1>3, <2>1, <2>4 DEF UpdateFails, NothingLeft, TypeOK, HandlesType
  <2>6. pc'[p] = "idle" /\ UNCHANGED files /\ pc[p] = "update"
    BY <1>0, <1>3, ReturnEffect DEF RunUpdate, UpdateFails, files
  <2> QED
    BY <1>3, <2>5, <2>6, StillAppliedOnce DEF RunUpdate, NothingLeft, object
<1>4. ASSUME NEW p \in Procs, RunUpdate(p), UpdateSucceeds(p)
      PROVE  NothingLeft' /\ AppliedOnce'
  <2> DEFINE f == FileOf(p)
             c == current[p]
  <2>1. UNCHANGED <<version, htx, object, current>> /\ FileOf(p)' = f
    BY <1>0, <1>4, GotoEffect DEF RunUpdate, UpdateSucceeds, object, FileOf
  <2>2. pc[p] = "update" /\ pc'[p] = IF update_prepared[p] THEN "store" ELSE "prepare"
    BY <1>0, <1>4, GotoEffect DEF RunUpdate, UpdateSucceeds
  <2>3. c = version[f] /\ c \in Nat /\ f \in Files
    BY <1>4, <2>2, CallFacts DEF NothingLeft
  <2>4. ASSUME NEW g \in Files, NEW k \in Steps
        PROVE  applied'[g][k] = IF k < version'[g] \/ Uncounted(g, k)' THEN 1 ELSE 0
    <3>1. applied'[g][k] = IF g = f /\ k = c THEN applied[g][k] + 1 ELSE applied[g][k]
      BY <1>4, ApplyEffect
    <3>2. Uncounted(g, k)' <=> g = f /\ k = c
      BY <2>1, <2>2 DEF Uncounted
    <3>3. applied[g][k] = IF k < version[g] THEN 1 ELSE 0
      BY <2>2 DEF AppliedOnce, Uncounted
    <3> QED
      BY <2>1, <2>3, <3>1, <3>2, <3>3
  <2> QED
    BY <2>1, <2>2, <2>3, <2>4 DEF NothingLeft, AppliedOnce, object
<1>5. ASSUME NEW p \in Procs, PrepareUpdateStatement(p)
      PROVE  NothingLeft' /\ AppliedOnce'
  <2>1. con[p] \in Handles /\ con[p] # None /\ pc[p] = "prepare"
    BY <1>5, CallFacts, ConstAssumption DEF PrepareUpdateStatement
  <2>2. Goto(p, "store") /\ update_stmt' = [update_stmt EXCEPT ![p] = con[p]]
    BY <1>0, <1>5, <2>1, NoFailure DEF PrepareUpdateStatement
  <2>3. /\ UNCHANGED <<files, handles, con, update_rc, current>>
        /\ pc'[p] = "store" /\ FileOf(p)' = FileOf(p) /\ update_stmt'[p] = con[p]
    BY <1>0, <1>5, <2>2, GotoEffect DEF PrepareUpdateStatement, handles, FileOf, TypeOK,
       ObjectType
  <2> QED
    BY <2>1, <2>3 DEF NothingLeft, AppliedOnce, Uncounted, files, handles
<1>6. ASSUME NEW p \in Procs, StoreNewVersion(p)
      PROVE  NothingLeft' /\ AppliedOnce'
  <2> DEFINE f == FileOf(p)
             c == current[p]
             s == update_stmt[p]
  <2>1. pc[p] = "store" /\ c = version[f] /\ c \in Nat /\ f \in Files
    BY <1>6, CallFacts DEF StoreNewVersion, NothingLeft
  <2>2. s \in Handles /\ hfile[s] = f /\ htx[s] = "none" /\ ~ResetOrBindFails(p)
    BY <1>0, <2>1 DEF NothingLeft, ResetOrBindFails, IndInv, OpenInv, OwnHandles, SameFile,
       TypeOK, ObjectType, FileOf
  <2>3. WriteVersion(s, c + 1) /\ Reached(p, c + 1) /\ UNCHANGED update_rc
    BY <1>0, <1>6, <2>2, NoFailure DEF StoreNewVersion, ExecuteUpdate
  <2>4. version' = [version EXCEPT ![f] = c + 1] /\ UNCHANGED htx
    BY <2>2, <2>3 DEF WriteVersion
  <2>5. UNCHANGED <<applied, con, update_stmt, update_prepared>> /\ FileOf(p)' = f
    BY <1>6 DEF StoreNewVersion, FileOf
  <2>6. \/ pc'[p] = "idle"
        \/ pc'[p] = "update" /\ current'[p] = c + 1
    BY <1>0, <2>1, <2>3, ReachedEffect
  <2>7. ASSUME NEW g \in Files, NEW k \in Steps
        PROVE  applied'[g][k] = IF k < version'[g] \/ Uncounted(g, k)' THEN 1 ELSE 0
    <3>1. ~Uncounted(g, k)' /\ (Uncounted(g, k) <=> g = f /\ k = c)
      BY <2>1, <2>6 DEF Uncounted
    <3>2. version'[g] = IF g = f THEN c + 1 ELSE version[g]
      BY <1>0, <2>4 DEF TypeOK, FilesType
    <3>3. k \in Nat /\ applied'[g][k] = IF k < version[g] \/ Uncounted(g, k) THEN 1 ELSE 0
      BY <2>5 DEF AppliedOnce, Steps
    <3> QED
      BY <2>1, <3>1, <3>2, <3>3
  <2>8. pc'[p] = "update" => current'[p] = version'[f]
    BY <1>0, <2>1, <2>4, <2>6 DEF TypeOK, FilesType
  <2> QED
    BY <2>2, <2>3, <2>4, <2>5, <2>6, <2>7, <2>8 DEF NothingLeft, AppliedOnce
<1>7. ASSUME NEW p \in Procs, Destroy(p) \/ EndProcess(p)
      PROVE  NothingLeft' /\ AppliedOnce'
  <2>1. pc[p] = "idle" /\ pc'[p] = "idle" /\ UNCHANGED files
    BY <1>0, <1>7 DEF Destroy, EndProcess, call, TypeOK, CallType, BudgetType
  <2>2. AppliedOnce'
    BY <2>1, StillAppliedOnce
  <2> QED
    BY <1>0, <1>7, <2>1, <2>2 DEF Destroy, EndProcess, CloseHandles, FreshObject,
       NothingLeft, TypeOK, ObjectType
<1>8. CASE UNCHANGED vars
  BY <1>8 DEF vars, files, handles, object, call, NothingLeft, AppliedOnce, Uncounted, FileOf
<1> QED
  BY <1>1, <1>2, <1>3, <1>4, <1>5, <1>6, <1>7, <1>8 DEF Next, Step, RunUpdate

(* One opener, as long as nothing fails: every UPDATE is stored, and the    *)
(* steps committed are those the version counts or is about to count.       *)
THEOREM OnceInductive ==
  ASSUME SoleOpener, ~ReopenElsewhere
  PROVE  Spec => []OnceInv
<1>1. ASSUME Init PROVE OnceInv
  <2>1. NothingLeft
    BY <1>1 DEF Init, NothingLeft
  <2>2. AppliedOnce
    BY <1>1, ConstAssumption DEF Init, Schema!Init, Schema!Steps, Steps, AppliedOnce,
       Uncounted
  <2> QED
    BY <1>1, <2>1, <2>2, InitIndInv DEF OnceInv
<1>2. ASSUME OnceInv, [Next]_vars PROVE OnceInv'
  <2>1. ASSUME faults' = 0, crashes' = 0 PROVE faults = 0 /\ crashes = 0
    BY <1>2, <2>1, NothingFailed DEF OnceInv, IndInv, OpenInv
  <2> QED
    BY <1>2, <2>1, OnceStep, NextIndInv DEF OnceInv
<1> QED
  BY <1>1, <1>2, PTL DEF Spec

(* With one opener and no failure no update step is run twice, over all its *)
(* opens, re-opens, new objects and restarts, replayable or not.            *)
THEOREM StepsRunOnce ==
  ASSUME SoleOpener, ~ReopenElsewhere
  PROVE  Spec => []ExactlyOnce
<1>1. OnceInv => ExactlyOnce
  BY DEF OnceInv, AppliedOnce, ExactlyOnce
<1> QED
  BY <1>1, OnceInductive, PTL
=============================================================================
