------------------------------ MODULE AcslText ------------------------------
(***************************************************************************)
(* The texts by which the passes hand ranges to each other, and the four   *)
(* conversions between a text and a range: getRangePair reads what Frama-C *)
(* wrote, getAnnotation and the propagation pass write the metadata string *)
(* "acsl_range", getConstantRange reads it back.                           *)
(*                                                                         *)
(* A text is an assertion about one name.  Three forms are read:           *)
(*   eq     x == c                                                         *)
(*   in     x >= lo && x <= hi                                             *)
(*   oneof  x == lo || ... || x == hi                                      *)
(* Its numbers are the integers its digits denote, of any size.            *)
(***************************************************************************)
EXTENDS ConstantRange

CONSTANTS
    W,          \* the modulus of long long and of 64-bit ranges
    N           \* the modulus of int and of 32-bit ranges

ASSUME WidthAssumption ==
    /\ W \in Nat /\ N \in Nat
    /\ N >= 4 /\ N % 2 = 0 /\ W > N /\ W % N = 0

TextEq(c) == [kind |-> "eq", lo |-> c, hi |-> c]

TextIn(lo, hi) == [kind |-> "in", lo |-> lo, hi |-> hi]

TextOneOf(lo, hi) == [kind |-> "oneof", lo |-> lo, hi |-> hi]

(* The number the parser makes of digits: atol stops at the largest long,  *)
(* and a minus sign is applied after it.                                   *)
ReadInteger(n) ==
    IF n > SignedMax(W) THEN SignedMax(W)
    ELSE IF n < -SignedMax(W) THEN -SignedMax(W)
    ELSE n

Word64(n) == FromSigned(W, ReadInteger(n))      \* APInt(64, n, true)

Word32(n) == ReadInteger(n) % N                 \* APInt(32, n, true)

ToInt(n) == Signed(N, Word32(n))                  \* int v = n

(* The assertions that mean the same after they were mapped, printed and   *)
(* read: equalities with an int that is not negative, and intervals and    *)
(* lists of ints that reach zero and span three values or more; one that   *)
(* starts below zero ends below the two largest longs.                     *)
Printable(t) ==
    /\ t.kind = "eq" => t.lo \in 0 .. SignedMax(N) /\ t.hi = t.lo
    /\ t.kind = "in" => {t.lo, t.hi} \subseteq -SignedMin(W) .. SignedMax(W)
    /\ t.kind = "oneof" => {t.lo, t.hi} \subseteq -SignedMin(N) .. SignedMax(N)
    /\ t.kind \in {"in", "oneof"} =>
        /\ t.lo + 1 < t.hi /\ t.hi >= 0
        /\ t.lo < 0 => t.hi < SignedMax(W) - 1

(* Mutant: the range of a disjunction is one of 32 bits.                   *)
RangePairOfInts(t) ==
    CASE t.kind = "eq"    -> MkRange(W, Word64(t.lo), Plus(W, Word64(t.lo), 1))
      [] t.kind = "in"    -> MkRange(W, Word64(t.lo), Word64(t.hi))
      [] t.kind = "oneof" -> MkRange(N, Word32(t.lo), Word32(t.hi))

(***************************************************************************)
(* getRangePair: what the mapping pass makes of Frama-C's assertion.  The  *)
(* upper bound of an equality is exclusive; that of an interval and of a   *)
(* disjunction is the last value itself.  The numbers of a disjunction     *)
(* pass through variables of type int.                                     *)
(***************************************************************************)
RangePair(t) ==
    CASE t.kind = "eq"    -> MkRange(W, Word64(t.lo), Plus(W, Word64(t.lo), 1))
      [] t.kind = "in"    -> MkRange(W, Word64(t.lo), Word64(t.hi))
      [] t.kind = "oneof" -> MkRange(W, FromSigned(W, ToInt(t.lo)), FromSigned(W, ToInt(t.hi)))

(***************************************************************************)
(* getAnnotation: the metadata string of a range of the mapping pass,      *)
(* whose bounds are printed as unsigned numbers.  Two bounds one apart are *)
(* printed as an equality.                                                 *)
(***************************************************************************)
GetAnnotation(r) ==
    IF r.lo = Minus(W, r.hi, 1) THEN TextEq(r.lo) ELSE TextIn(r.lo, r.hi)

(* Mutants: 32 bits are not wrapped; the end of an interval is exclusive.  *)
GetConstantRangeUnwrapped(t) ==
    IF t.kind = "eq"
    THEN MkRange(N, Word32(t.lo), Word32(t.lo) + 1)
    ELSE MkRange(W, Word64(t.lo), Plus(W, Word64(t.hi), 1))

GetConstantRangeExclusive(t) ==
    IF t.kind = "eq"
    THEN MkRange(N, Word32(t.lo), (Word32(t.lo) + 1) % N)
    ELSE MkRange(W, Word64(t.lo), Word64(t.hi))

(***************************************************************************)
(* getConstantRange: the range of a metadata string.  An equality yields a *)
(* range of 32 bits, an interval one of 64.                                *)
(***************************************************************************)
GetConstantRange(t) ==
    IF t.kind = "eq"
    THEN MkRange(N, Word32(t.lo), (Word32(t.lo) + 1) % N)
    ELSE MkRange(W, Word64(t.lo), Plus(W, Word64(t.hi), 1))

(* Mutants: the end of the range is printed as it is; it is decremented    *)
(* twice; the bounds of an int are printed as unsigned numbers.            *)
EmitRangeUpper(r) == TextIn(Signed(r.m, r.lo), Signed(r.m, r.hi))

EmitRangeShort(r) == TextIn(Signed(r.m, r.lo), Signed(r.m, r.hi) - 2)

EmitRangeUnsigned(r) == TextIn(r.lo, r.hi - 1)

(* Mutant: a single value is written as the mapping pass writes it.        *)
EmitRangeOfOne(r) ==
    IF Plus(r.m, r.lo, 1) = r.hi
    THEN TextEq(Signed(r.m, r.lo))
    ELSE TextIn(Signed(r.m, r.lo), Signed(r.m, r.hi) - 1)

(***************************************************************************)
(* The string the propagation pass writes for a range of either width: its *)
(* bounds read as signed numbers of 64 bits.  The decrement of an upper    *)
(* bound that reads as the smallest of them wraps, as compiled code does.  *)
(***************************************************************************)
EmitRange(r) ==
    LET hi == Signed(r.m, r.hi)
    IN  TextIn(Signed(r.m, r.lo), IF hi = -SignedMin(W) THEN SignedMax(W) ELSE hi - 1)

Accepted(r) == Legal(r.m, r.lo, r.hi)   \* the constructor's assertion

(* A range says of the number x that its low bits are among the members.   *)
Holds(r, x) == Contains(r, x % r.m)
=============================================================================
