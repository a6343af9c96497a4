--------------------------- MODULE VersionedSchema ---------------------------
(***************************************************************************)
(* What versioned_database promises of every database file, whoever opens  *)
(* it and whatever fails: an update step is run only on top of all the     *)
(* steps before it, and the version number kept in the metadata table      *)
(* never claims a step the file has not seen.                              *)
(***************************************************************************)
EXTENDS Naturals

CONSTANTS Files,      \* the database files
          NumSteps    \* the update callback knows the steps 0 .. NumSteps - 1

VARIABLES version,    \* version[f]: the number stored in the metadata table
          applied     \* applied[f][k]: how often step k was committed to f

vars == <<version, applied>>

Steps == 0 .. NumSteps - 1

UpTo(f, v) == \A k \in Steps : k < v => applied[f][k] > 0

Init ==
  /\ version \in [Files -> 0 .. NumSteps]
  /\ applied = [f \in Files |-> [k \in Steps |-> IF k < version[f] THEN 1 ELSE 0]]

(* A step is run, or run again, on top of all its predecessors. *)
ApplyStep(f, k) ==
  /\ UpTo(f, k)
  /\ applied' = [applied EXCEPT ![f][k] = @ + 1]
  /\ UNCHANGED version

(* The version is set to a number all of whose steps have been run. *)
StoreVersion(f, v) ==
  /\ UpTo(f, v)
  /\ version' = [version EXCEPT ![f] = v]
  /\ UNCHANGED applied

Next ==
  \E f \in Files :
    \/ \E k \in Steps : ApplyStep(f, k)
    \/ \E v \in 0 .. NumSteps : StoreVersion(f, v)

Spec == Init /\ [][Next]_vars

-----------------------------------------------------------------------------

(* The version stored in a file never claims a step that was not committed *)
(* to that file: what get_file_version reads is safe to build on.          *)
NeverSkips == \A f \in Files : UpTo(f, version[f])

(* The committed steps of a file form a prefix: perform_update never runs  *)
(* step k on a file that lacks a step before k.                            *)
StepsInOrder == \A f \in Files : \A k \in Steps : applied[f][k] > 0 => UpTo(f, k)
=============================================================================
