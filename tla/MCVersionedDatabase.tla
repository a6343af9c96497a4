------------------------- MODULE MCVersionedDatabase -------------------------
(* Model-checking instances of VersionedDatabase. *)
EXTENDS VersionedDatabase, TLC

(* Handles are interchangeable, and so are processes. *)
HandleSymmetry == Permutations(Handles)
Symmetry == Permutations(Handles) \cup Permutations(Procs)
=============================================================================
