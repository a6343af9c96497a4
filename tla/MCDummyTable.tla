---------------------------- MODULE MCDummyTable ----------------------------
(* A model-checking instance of DummyTable, with integers of one to four   *)
(* bits and entries at both ends of int and at zero.                       *)
EXTENDS DummyTable, Errors, TLC

MCStmts == {add_entry_, select_all_, by_rowid_}
MCTexts == {insert, list, find}
MCSelects == {list, find}
MCNames == {pfirst, psecond, pthird, prowid}
MCParams == (insert :> <<pfirst, psecond, pthird>>) @@ (list :> <<>>) @@ (find :> <<prowid>>)
MCEntries == {[first |-> 0, second |-> "null", third |-> "text"],
              [first |-> -Half32, second |-> "text", third |-> "text"]}

(* The theorem of Errors, on the codes there are. *)
ASSUME CodesChecked == \A c \in Codes : Condition(c) \in Conditions
=============================================================================
