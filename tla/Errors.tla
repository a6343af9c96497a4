------------------------------- MODULE Errors -------------------------------
(***************************************************************************)
(* The error codes of SQLite as the library compares them                  *)
(* (include/sqlite-burrito/errors/sqlite.h, src/errors/sqlite.cpp): a code *)
(* is an error code as it is, and a condition by its low eight bits.       *)
(***************************************************************************)
EXTENDS Integers, TLAPS

(* enum condition: SQLITE_OK to SQLITE_WARNING, SQLITE_ROW, SQLITE_DONE.   *)
Ok         == 0
Row        == 100
Done       == 101
Conditions == 0 .. 28 \cup {Row, Done}

(* enum code: how many extended codes it knows of each condition.          *)
Extended(p) ==
  CASE p \in {0, 23, 28} -> 1 .. 1      \* ok, auth, warning
    [] p = 4 -> 2 .. 2                  \* abort
    [] p \in {5, 6, 11, 27} -> 1 .. 2   \* busy, locked, corrupt, notice
    [] p = 1 -> 1 .. 3                  \* error
    [] p = 14 -> 1 .. 5                 \* cantopen
    [] p = 8 -> 1 .. 6                  \* readonly
    [] p = 19 -> 1 .. 10                \* constraint
    [] p = 10 -> 1 .. 31                \* ioerr
    [] OTHER -> {}

Codes == {Ok} \cup UNION {{p + 256 * k : k \in Extended(p)} : p \in Conditions}

(* error_category::default_error_condition *)
Condition(ev) == ev % 256

(* ec == condition::p, and if (ec).                                        *)
Is(ev, p)   == Condition(ev) = p
IsError(ev) == ev # Ok
-----------------------------------------------------------------------------

(* "The primary result code is always a part of the extended result code": *)
(* whatever is put above the low eight bits, the condition is the same.    *)
THEOREM ConditionOfExtended ==
  ASSUME NEW p \in 0 .. 255, NEW k \in Nat PROVE Condition(p + 256 * k) = p
  BY DEF Condition

LEMMA ExtendedBound == ASSUME NEW p \in Conditions PROVE Extended(p) \subseteq 1 .. 31
  BY DEF Extended, Conditions, Row, Done

(* Every code the library names equals one of the conditions it names; the *)
(* only one that equals ok is ok itself and ok_load_permanently, which     *)
(* `if (ec)` nevertheless takes for an error.                              *)
THEOREM CodesHaveConditions ==
  ASSUME NEW c \in Codes
  PROVE  /\ Condition(c) \in Conditions
         /\ Is(c, Ok) /\ IsError(c) => c = 256
<1>1. CASE c = Ok
  BY <1>1 DEF Ok, Condition, Conditions, IsError
<1>2. ASSUME NEW p \in Conditions, NEW k \in Extended(p), c = p + 256 * k
      PROVE  /\ Condition(c) \in Conditions
             /\ Is(c, Ok) /\ IsError(c) => c = 256
  <2>1. p \in 0 .. 255 /\ k \in Nat
    BY ExtendedBound DEF Conditions, Row, Done
  <2>2. Condition(c) = p
    BY <1>2, <2>1, ConditionOfExtended
  <2>3. p = 0 => c = 256
    BY <1>2 DEF Extended
  <2> QED
    BY <2>2, <2>3 DEF Is, Ok
<1> QED
  BY <1>1, <1>2 DEF Codes
=============================================================================
