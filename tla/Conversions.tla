---------------------------- MODULE Conversions ----------------------------
(***************************************************************************)
(* The integers of statement::bind and statement::get (src/statement.cpp), *)
(* with their widths, and the sizes of its vectors and arrays.  SQLite     *)
(* keeps signed 64-bit integers; sqlite3_bind_int and sqlite3_column_int   *)
(* take and give the low 32 bits.                                          *)
(***************************************************************************)
EXTENDS Integers

CONSTANTS Half8, Half16, Half32, Half64  \* 2^7, 2^15, 2^31, 2^63

ASSUME WidthAssumption ==
  /\ {Half8, Half16, Half32, Half64} \subseteq Nat \ {0}
  /\ 2 * Half8 <= Half16 /\ 2 * Half16 <= Half32 /\ 2 * Half32 <= Half64

Signed(half)   == [signed |-> TRUE, half |-> half]
Unsigned(half) == [signed |-> FALSE, half |-> half]

Halves   == {Half8, Half16, Half32, Half64}
IntTypes == {Signed(h) : h \in Halves} \cup {Unsigned(h) : h \in Halves}

ValuesOf(T) == IF T.signed THEN -T.half .. T.half - 1 ELSE 0 .. 2 * T.half - 1

(* static_cast to an integer type of two's complement. *)
Cast(T, x) ==
  IF T.signed THEN ((x + T.half) % (2 * T.half)) - T.half ELSE x % (2 * T.half)

(* Bug: a rowid is bound like an int. *)
Stored_Narrow(T, x) == Cast(Signed(Half16), x)

(* What SQLite stores when x is bound as a T. *)
Stored(T, x) == Cast(Signed(IF T.half = Half64 THEN Half64 ELSE Half32), x)

(* Bug: the sign is dropped on the way. *)
Retrieved_Unsigned(T, v) == Cast(Unsigned(T.half), v)

(* What the getter of T finds in the integer v. *)
Retrieved(T, v) ==
  Cast(T, IF T.half = Half64 THEN v ELSE Cast(Signed(Half32), v))

(* How many values of a size a vector gets for some bytes. *)
NumValues(bytes, size) ==
  LET whole == bytes \div size
  IN  IF whole * size < bytes THEN whole + 1 ELSE whole
=============================================================================
