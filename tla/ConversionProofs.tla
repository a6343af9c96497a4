-------------------------- MODULE ConversionProofs --------------------------
(***************************************************************************)
(* Proofs about Conversions, for every width.                              *)
(***************************************************************************)
EXTENDS Conversions, TLAPS

(* Remainders of numbers within one modulus of the range. *)
LEMMA ModSmall == ASSUME NEW m \in Nat \ {0}, NEW a \in 0 .. m - 1 PROVE a % m = a
  OBVIOUS
LEMMA ModOver == ASSUME NEW m \in Nat \ {0}, NEW a \in m .. 2 * m - 1 PROVE a % m = a - m
  OBVIOUS
LEMMA ModUnder == ASSUME NEW m \in Nat \ {0}, NEW a \in -m .. -1 PROVE a % m = a + m
  OBVIOUS

(* A number of the type is not changed by a cast to it. *)
LEMMA CastSigned ==
  ASSUME NEW h \in Nat \ {0}, NEW x \in -h .. h - 1 PROVE Cast(Signed(h), x) = x
<1>1. x + h \in 0 .. 2 * h - 1 /\ 2 * h \in Nat \ {0}
  OBVIOUS
<1> QED
  BY <1>1, ModSmall DEF Cast, Signed

(* The upper half of an unsigned type becomes negative in the signed one   *)
(* of its width, and comes back.                                           *)
LEMMA CastUpperHalf ==
  ASSUME NEW h \in Nat \ {0}, NEW x \in h .. 2 * h - 1
  PROVE  /\ Cast(Signed(h), x) = x - 2 * h
         /\ Cast(Unsigned(h), x - 2 * h) = x
<1>1. 2 * h \in Nat \ {0} /\ x + h \in 2 * h .. 2 * (2 * h) - 1 /\ x - 2 * h \in -(2 * h) .. -1
  OBVIOUS
<1>2. (x + h) % (2 * h) = (x + h) - 2 * h
  BY <1>1, ModOver
<1>3. (x - 2 * h) % (2 * h) = (x - 2 * h) + 2 * h
  BY <1>1, ModUnder
<1> QED
  BY <1>2, <1>3 DEF Cast, Signed, Unsigned

LEMMA CastUnsigned ==
  ASSUME NEW h \in Nat \ {0}, NEW x \in 0 .. 2 * h - 1 PROVE Cast(Unsigned(h), x) = x
  BY ModSmall DEF Cast, Unsigned

(* A value that is bound and read as the same integer type comes back, for *)
(* each of the eight types.                                                *)
THEOREM RoundTrip ==
  ASSUME NEW T \in IntTypes, NEW x \in ValuesOf(T)
  PROVE  Retrieved(T, Stored(T, x)) = x
<1> USE WidthAssumption
<1>1. ASSUME NEW h \in Halves, T = Signed(h) PROVE Retrieved(T, Stored(T, x)) = x
  <2>1. h \in Nat \ {0} /\ T.half = h /\ x \in -h .. h - 1
    BY <1>1 DEF Halves, Signed, ValuesOf
  <2>2. Cast(Signed(h), x) = x
    BY <2>1, CastSigned
  <2>3. h # Half64 => Cast(Signed(Half32), x) = x
    <3>1. h # Half64 => x \in -Half32 .. Half32 - 1
      BY <2>1 DEF Halves
    <3> QED
      BY <3>1, CastSigned
  <2> QED
    BY <1>1, <2>1, <2>2, <2>3 DEF Retrieved, Stored
<1>2. ASSUME NEW h \in Halves, T = Unsigned(h) PROVE Retrieved(T, Stored(T, x)) = x
  <2>1. h \in Nat \ {0} /\ T.half = h /\ x \in 0 .. 2 * h - 1
    BY <1>2 DEF Halves, Unsigned, ValuesOf
  <2>2. CASE h \in {Half8, Half16}
    <3>1. x \in -Half32 .. Half32 - 1 /\ h # Half64
      BY <2>1, <2>2
    <3>2. Cast(Signed(Half32), x) = x
      BY <3>1, CastSigned
    <3>3. Cast(Unsigned(h), x) = x
      BY <2>1, CastUnsigned
    <3> QED
      BY <1>2, <2>1, <3>1, <3>2, <3>3 DEF Retrieved, Stored
  <2>3. CASE h \in {Half32, Half64}
    <3>1. CASE x < h
      <4>1. Cast(Signed(h), x) = x /\ Cast(Unsigned(h), x) = x
        BY <2>1, <3>1, CastSigned, CastUnsigned
      <4> QED
        BY <1>2, <2>1, <2>3, <4>1 DEF Retrieved, Stored
    <3>2. CASE x >= h
      <4>1. Cast(Signed(h), x) = x - 2 * h /\ Cast(Unsigned(h), x - 2 * h) = x
        BY <2>1, <3>2, CastUpperHalf
      <4>2. Cast(Signed(h), x - 2 * h) = x - 2 * h
        BY <2>1, <3>2, CastSigned
      <4> QED
        BY <1>2, <2>1, <2>3, <4>1, <4>2 DEF Retrieved, Stored
    <3> QED
      BY <2>1, <3>1, <3>2
  <2> QED
    BY <2>2, <2>3 DEF Halves
<1> QED
  BY <1>1, <1>2 DEF IntTypes

(* SQL sees another number than the one that was bound exactly when it is  *)
(* in the upper half of uint32 or uint64: there it is negative.            *)
THEOREM ChangedInSql ==
  ASSUME NEW T \in IntTypes, NEW x \in ValuesOf(T)
  PROVE  IF ~T.signed /\ T.half \in {Half32, Half64} /\ x >= T.half
         THEN Stored(T, x) = x - 2 * T.half
         ELSE Stored(T, x) = x
<1> USE WidthAssumption
<1> DEFINE h == T.half
<1>1. h \in Halves
  <2>1. PICK g \in Halves : T = Signed(g) \/ T = Unsigned(g)
    BY DEF IntTypes
  <2> QED
    BY <2>1 DEF Signed, Unsigned
<1>2. h \in Nat \ {0} /\ Half32 \in Nat \ {0} /\ Half64 \in Nat \ {0}
  BY <1>1 DEF Halves
<1>3. CASE ~T.signed /\ h \in {Half32, Half64} /\ x >= h
  <2>1. x \in h .. 2 * h - 1
    BY <1>2, <1>3 DEF ValuesOf
  <2>2. Cast(Signed(h), x) = x - 2 * h
    BY <1>2, <2>1, CastUpperHalf
  <2> QED
    BY <1>3, <2>2 DEF Stored
<1>4. CASE ~(~T.signed /\ h \in {Half32, Half64} /\ x >= h)
  <2>1. CASE h = Half64
    <3>1. x \in -Half64 .. Half64 - 1
      BY <1>2, <1>4, <2>1 DEF ValuesOf
    <3> QED
      BY <1>2, <1>4, <2>1, <3>1, CastSigned DEF Stored
  <2>2. CASE h # Half64
    <3>1. x \in -Half32 .. Half32 - 1
      BY <1>1, <1>2, <1>4, <2>2 DEF ValuesOf, Halves
    <3> QED
      BY <1>2, <1>4, <2>2, <3>1, CastSigned DEF Stored
  <2> QED
    BY <2>1, <2>2
<1> QED
  BY <1>3, <1>4

(* The bytes of a column fit into the values that are reserved for them,   *)
(* and none of these is reserved in vain.                                  *)
THEOREM BytesFit ==
  ASSUME NEW bytes \in Nat, NEW size \in Nat \ {0}
  PROVE  /\ NumValues(bytes, size) * size >= bytes
         /\ bytes > 0 => (NumValues(bytes, size) - 1) * size < bytes
  BY DEF NumValues
=============================================================================
