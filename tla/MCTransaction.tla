---------------------------- MODULE MCTransaction ----------------------------
(* Model-checking instances of Transaction. *)
EXTENDS Transaction, TLC

Symmetry == Permutations(Conns) \cup Permutations(Trans) \cup Permutations(Rows)
=============================================================================
