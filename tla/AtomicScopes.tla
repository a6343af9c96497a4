----------------------------- MODULE AtomicScopes -----------------------------
(***************************************************************************)
(* What transaction objects are for: the rows written while such an object *)
(* is in scope become durable together, when it commits, or not at all.    *)
(***************************************************************************)

CONSTANTS Scopes,  \* transaction objects
          Rows     \* the rows that are inserted

VARIABLES db,      \* the durable rows
          state,   \* state[s]: raw, open, committed or discarded
          written  \* written[s]: the rows written while s was open

vars == <<db, state, written>>

Fresh(r) == r \notin db /\ \A s \in Scopes : r \notin written[s]

Init ==
  /\ db = {}
  /\ state = [s \in Scopes |-> "raw"]
  /\ written = [s \in Scopes |-> {}]

Open(s) ==
  /\ state[s] = "raw"
  /\ state' = [state EXCEPT ![s] = "open"]
  /\ UNCHANGED <<db, written>>

Write(s, r) ==
  /\ state[s] = "open"
  /\ Fresh(r)
  /\ written' = [written EXCEPT ![s] = @ \cup {r}]
  /\ UNCHANGED <<db, state>>

Publish(s) ==
  /\ state[s] = "open"
  /\ state' = [state EXCEPT ![s] = "committed"]
  /\ db' = db \cup written[s]
  /\ UNCHANGED written

Discard(s) ==
  /\ state[s] = "open"
  /\ state' = [state EXCEPT ![s] = "discarded"]
  /\ UNCHANGED <<db, written>>

(* A row written outside of every scope is durable at once. *)
WriteAlone(r) ==
  /\ Fresh(r)
  /\ db' = db \cup {r}
  /\ UNCHANGED <<state, written>>

Next ==
  \/ \E s \in Scopes : Open(s) \/ Publish(s) \/ Discard(s)
  \/ \E s \in Scopes, r \in Rows : Write(s, r)
  \/ \E r \in Rows : WriteAlone(r)

Spec == Init /\ [][Next]_vars

-----------------------------------------------------------------------------

(* All rows of a committed transaction are durable and none of any other:  *)
(* the tests of transaction.cpp, for every order of calls.                 *)
AllOrNothing ==
  \A s \in Scopes : db \cap written[s] = IF state[s] = "committed" THEN written[s] ELSE {}
=============================================================================
