----------------------------- MODULE MCStatement -----------------------------
(* Model-checking instances of Statement: a query with two parameters, and *)
(* an insertion with the same two in the other order and a nameless one.   *)
EXTENDS Statement, TLC

CONSTANTS query, insert, first, second

MCTexts == {query, insert}
MCSelects == {query}
MCNames == {first, second}
MCParams == (query :> <<first, second>>) @@ (insert :> <<second, None, first>>)

Symmetry == Permutations(Stmts)
=============================================================================
