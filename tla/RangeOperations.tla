-------------------------- MODULE RangeOperations --------------------------
(***************************************************************************)
(* The register of RangeArithmetic under every operation of ConstantRange: *)
(* maxima, bitwise operations, shifts, the union at a phi node, the        *)
(* narrowing at a branch, a constant taken off, and an addition at another *)
(* width between an extension and a truncation, as C computes with mixed   *)
(* types.                                                                  *)
(***************************************************************************)
EXTENDS RangeArithmetic, RangeConversions

CONSTANT D          \* the modulus of the wider words

ASSUME WiderAssumption == D \in Nat /\ D > M /\ D % M = 0

\* What the operations on bits need: both are powers of two.
ASSUME BitsAssumption ==
    /\ \E k \in 2 .. M : M = 2 ^ k
    /\ \E k \in 1 .. M : D = M * 2 ^ k

Predicates == {"eq", "ne", "ult", "ule", "ugt", "uge", "slt", "sle", "sgt", "sge"}

Bit(v, k) == (v \div 2 ^ k) % 2 = 1

BitsOf(v) == {k \in 0 .. Bits(M) - 1 : Bit(v, k)}

WordOf(S) == CHOOSE v \in Word(M) : BitsOf(v) = S

Compares(p, x, y) ==
    CASE p = "eq"  -> x = y
      [] p = "ne"  -> x # y
      [] p = "ult" -> x < y
      [] p = "ule" -> x <= y
      [] p = "ugt" -> x > y
      [] p = "uge" -> x >= y
      [] p = "slt" -> Signed(M, x) < Signed(M, y)
      [] p = "sle" -> Signed(M, x) <= Signed(M, y)
      [] p = "sgt" -> Signed(M, x) > Signed(M, y)
      [] p = "sge" -> Signed(M, x) >= Signed(M, y)

UMaxStep(b, w) == val' = Greater(val, w) /\ acc' = UMax(acc, b)

SMaxStep(b, w) == val' = SGreater(M, val, w) /\ acc' = SMax(acc, b)

AndStep(b, w) == val' = WordOf(BitsOf(val) \cap BitsOf(w)) /\ acc' = BinaryAnd(acc, b)

OrStep(b, w) == val' = WordOf(BitsOf(val) \cup BitsOf(w)) /\ acc' = BinaryOr(acc, b)

ShlStep(b, w) ==        \* shifting by the width or more has no outcome
    /\ w < Bits(M)
    /\ val' = Shifted(M, val, w)
    /\ acc' = Shl(acc, b)

LShrStep(b, w) ==
    /\ w < Bits(M)
    /\ val' = ShiftedDown(M, val, w)
    /\ acc' = LShr(acc, b)

SubtractStep(w) == val' = Minus(M, val, w) /\ acc' = Subtract(acc, w)

PhiStep(b, w) ==        \* control may come from either block
    /\ val' \in {val, w}
    /\ acc' = UnionWith(acc, b)

BranchStep(p, b, w) ==  \* on the edge where the comparison is true
    /\ Compares(p, val, w)
    /\ acc' = IntersectWith(acc, MakeICmpRegion(p, b))
    /\ UNCHANGED val

ConstantBranchStep(p, w) ==
    /\ Compares(p, val, w)
    /\ acc' = IntersectWith(acc, MakeConstantRange(p, M, w))
    /\ UNCHANGED val

ZextStep(b, w) ==
    /\ val' = (val + w) % M
    /\ acc' = ZextOrTrunc(Add(ZextOrTrunc(acc, D), b), M)

SextStep(b, w) ==
    /\ val' = (SignExtended(M, D, val) + w) % M
    /\ acc' = SextOrTrunc(Add(SextOrTrunc(acc, D), b), M)

Wider == {p \in Ranges(D) \X Word(D) : Contains(p[1], p[2])}

\* The operations that treat words as numbers, and those on their bits.
NextNumber ==
    \/ Next
    \/ \E p \in Known : UMaxStep(p[1], p[2])
    \/ \E p \in Known : SMaxStep(p[1], p[2])
    \/ \E w \in Word(M) : SubtractStep(w)
    \/ \E p \in Known : PhiStep(p[1], p[2])
    \/ \E q \in Predicates, p \in Known : BranchStep(q, p[1], p[2])
    \/ \E q \in Predicates, w \in Word(M) : ConstantBranchStep(q, w)
    \/ \E p \in Wider : ZextStep(p[1], p[2])
    \/ \E p \in Wider : SextStep(p[1], p[2])

NextBits ==
    \/ \E p \in Known : AndStep(p[1], p[2])
    \/ \E p \in Known : OrStep(p[1], p[2])
    \/ \E p \in Known : ShlStep(p[1], p[2])
    \/ \E p \in Known : LShrStep(p[1], p[2])

NextOperation == NextNumber \/ NextBits

SpecNumber == Init /\ [][NextNumber]_vars

SpecOperations == Init /\ [][NextOperation]_vars

-----------------------------------------------------------------------------
(* The bounds by which the analyses order values are members, and no       *)
(* member lies outside them, in either reading: also for sets that wrap    *)
(* around zero, around the smallest number, or end exactly there           *)
(* (ConstantRange.cpp:158-205).                                            *)
BoundsExact ==
    ~IsEmptySet(acc) =>
        /\ {UnsignedMin(acc), UnsignedMax(acc), GetSignedMin(acc), GetSignedMax(acc)} \subseteq Members(acc)
        /\ \A v \in Members(acc) :
            /\ UnsignedMin(acc) <= v /\ v <= UnsignedMax(acc)
            /\ Signed(M, GetSignedMin(acc)) <= Signed(M, v)
            /\ Signed(M, v) <= Signed(M, GetSignedMax(acc))

(* "guaranteed to include all elements contained in both input ranges, and *)
(* to have the smallest possible set size that does so"                    *)
(* (ConstantRange.h:168, intersectWith), and for a union, "find the        *)
(* smaller gap and bridge it" (ConstantRange.cpp:340-419): no smaller      *)
(* range would do, so that a phi node loses no more than a range must.     *)
Smallest(S, r) ==
    \A other \in Ranges(M) : S \subseteq Members(other) => SetSize(r) <= SetSize(other)

HullsSmallest ==
    \A b \in Ranges(M) :
        /\ Smallest(Members(acc) \cap Members(b), IntersectWith(acc, b))
        /\ Smallest(Members(acc) \cup Members(b), UnionWith(acc, b))

(* "Produce the smallest range that contains all values that might satisfy *)
(* the comparison" (ConstantRange.h:61): no smaller range would do; and    *)
(* the region of one word is what makeConstantRange makes of it            *)
(* (Instructions.cpp:3196).                                                *)
RegionSmallest ==
    \A p \in Predicates :
        LET satisfying == {v \in Word(M) : \E w \in Members(acc) : Compares(p, v, w)}
            region     == MakeICmpRegion(p, acc)
        IN  /\ satisfying \subseteq Members(region)
            /\ Smallest(satisfying, region)
            /\ Members(MakeConstantRange(p, M, val)) = {v \in Word(M) : Compares(p, v, val)}

(* The complement has exactly the other words, so that what is left after  *)
(* a difference is at least what set difference leaves                     *)
(* (ConstantRange.cpp:254-259, 715-721).                                   *)
InverseExact ==
    /\ Members(Inverse(acc)) = Word(M) \ Members(acc)
    /\ \A b \in Ranges(M) : Members(acc) \ Members(b) \subseteq Members(Difference(acc, b))

(* The closed form that multiply is modelled by is truncate() on the       *)
(* product at twice the width; and a conversion to a wider word and back   *)
(* keeps a set that does not wrap in the reading it was extended in, and   *)
(* widens, never narrows, one that does, whichever way it wraps            *)
(* (ConstantRange.cpp:423-519, 596-601).                                   *)
TruncateExact ==
    LET zext == Members(Truncate(ZeroExtend(acc, D), M))
        sext == Members(Truncate(SignExtend(acc, D), M))
    IN  /\ \A b \in Ranges(M) :
            ~IsEmptySet(acc) /\ ~IsEmptySet(b) =>
                Multiply(acc, b) =
                    Truncate(MkRange(M * M, UnsignedMin(acc) * UnsignedMin(b),
                                            UnsignedMax(acc) * UnsignedMax(b) + 1), M)
        /\ Members(acc) \subseteq zext \cap sext
        /\ ~IsWrappedSet(acc) => zext = Members(acc)
        /\ ~IsSignWrappedSet(acc) => sext = Members(acc)
=============================================================================
