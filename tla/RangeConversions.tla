-------------------------- MODULE RangeConversions --------------------------
(***************************************************************************)
(* The rest of llvm::ConstantRange: changes of width, unions, signed       *)
(* bounds, complements, the ranges of comparisons, maxima, bitwise         *)
(* operations and shifts.  The framework reaches truncate and unionWith    *)
(* through multiply, subtract and makeConstantRange through the trip       *)
(* counts of loops; the others are what the analyses of LLVM do with the   *)
(* same ranges.                                                            *)
(***************************************************************************)
EXTENDS ConstantRange, FiniteSets

(***************************************************************************)
(* Signed bounds.                                                          *)
(***************************************************************************)
IsNegative(m, v) == 2 * v >= m

IsSignWrappedSet(r) == Contains(r, SignedMax(r.m)) /\ Contains(r, SignedMin(r.m))

GetSignedMax(r) ==
    LET last == Minus(r.m, r.hi, 1)
    IN  IF IF IsWrappedSet(r) THEN IsNegative(r.m, r.lo) # IsNegative(r.m, r.hi)
                              ELSE Signed(r.m, r.lo) <= Signed(r.m, last)
        THEN last ELSE SignedMax(r.m)

(* Mutant: the exclusive end is compared, not the last member.             *)
GetSignedMinEnd(r) ==
    IF Signed(r.m, r.lo) <= Signed(r.m, r.hi) THEN r.lo ELSE SignedMin(r.m)

GetSignedMin(r) ==
    LET last == Minus(r.m, r.hi, 1)
    IN  IF \/ Signed(r.m, r.lo) <= Signed(r.m, last)
           \/ IsWrappedSet(r) /\ r.hi = SignedMin(r.m)
        THEN r.lo ELSE SignedMin(r.m)

(***************************************************************************)
(* The complement, the difference, and a range moved by a constant.        *)
(***************************************************************************)
(* Mutant: the empty set is its own complement.                            *)
InverseOfEmpty(r) ==
    IF IsFullSet(r) \/ IsEmptySet(r) THEN EmptySet(r.m) ELSE MkRange(r.m, r.hi, r.lo)

Inverse(r) ==
    IF IsFullSet(r) THEN EmptySet(r.m)
    ELSE IF IsEmptySet(r) THEN FullSet(r.m)
    ELSE MkRange(r.m, r.hi, r.lo)

Difference(a, b) == IntersectWith(a, Inverse(b))

Subtract(r, v) ==
    IF r.lo = r.hi THEN r ELSE MkRange(r.m, Minus(r.m, r.lo, v), Minus(r.m, r.hi, v))

(***************************************************************************)
(* unionWith: a range that covers both, with the smaller of two gaps       *)
(* bridged.  Bridge closes the gap of two disjoint ranges; the operators   *)
(* that follow it are the branches for ranges neither empty nor full.      *)
(***************************************************************************)
Bridge(a, b) ==
    IF Minus(a.m, b.lo, a.hi) < Minus(a.m, a.lo, b.hi)
    THEN MkRange(a.m, a.lo, b.hi)
    ELSE MkRange(a.m, b.lo, a.hi)

UnionPlain(a, b) ==
    LET l == IF b.lo < a.lo THEN b.lo ELSE a.lo
        h == IF Minus(a.m, b.hi, 1) > Minus(a.m, a.hi, 1) THEN b.hi ELSE a.hi
    IN  IF b.hi < a.lo \/ a.hi < b.lo THEN Bridge(a, b)
        ELSE IF l = 0 /\ h = 0 THEN FullSet(a.m)
        ELSE MkRange(a.m, l, h)

UnionWrapped(a, b) ==
    IF b.hi <= a.hi \/ b.lo >= a.lo THEN a
    ELSE IF b.lo <= a.hi /\ a.lo <= b.hi THEN FullSet(a.m)
    ELSE IF a.hi <= b.lo /\ b.hi <= a.lo THEN Bridge(a, b)
    ELSE IF a.hi < b.lo /\ a.lo < b.hi THEN MkRange(a.m, b.lo, a.hi)
    ELSE MkRange(a.m, a.lo, b.hi)

UnionBothWrapped(a, b) ==
    IF b.lo <= a.hi \/ a.lo <= b.hi THEN FullSet(a.m)
    ELSE MkRange(a.m, IF b.lo < a.lo THEN b.lo ELSE a.lo,
                      IF b.hi > a.hi THEN b.hi ELSE a.hi)

UnionWith(a, b) ==
    IF IsFullSet(a) \/ IsEmptySet(b) THEN a
    ELSE IF IsFullSet(b) \/ IsEmptySet(a) THEN b
    ELSE IF ~IsWrappedSet(a) /\ ~IsWrappedSet(b) THEN UnionPlain(a, b)
    ELSE IF IsWrappedSet(a) /\ IsWrappedSet(b) THEN UnionBothWrapped(a, b)
    ELSE IF IsWrappedSet(a) THEN UnionWrapped(a, b)
    ELSE UnionWrapped(b, a)

(***************************************************************************)
(* Changes of width, to a modulus d that is a multiple or a divisor of the *)
(* range's own.                                                            *)
(***************************************************************************)
ZeroExtend(r, d) ==
    IF IsEmptySet(r) THEN EmptySet(d)
    ELSE IF IsFullSet(r) \/ IsWrappedSet(r)
         THEN MkRange(d, IF r.hi = 0 THEN r.lo ELSE 0, r.m)
    ELSE MkRange(d, r.lo, r.hi)

SignExtended(m, d, v) == FromSigned(d, Signed(m, v))

SignExtend(r, d) ==
    IF IsEmptySet(r) THEN EmptySet(d)
    ELSE IF r.hi = SignedMin(r.m) THEN MkRange(d, SignExtended(r.m, d, r.lo), r.hi)
    ELSE IF IsFullSet(r) \/ IsSignWrappedSet(r)
         THEN MkRange(d, d - SignedMin(r.m), SignedMin(r.m))
    ELSE MkRange(d, SignExtended(r.m, d, r.lo), SignExtended(r.m, d, r.hi))

(* A part that does not wrap, less the multiples of d below both its ends, *)
(* is wrapped, or full, when it still crosses one.                         *)
(* Mutant: the multiples of d are not taken off the upper end.             *)
TruncatePartLower(l, h, d) ==
    IF h <= d - 1 THEN MkRange(d, l % d, h)
    ELSE IF h - d < l % d THEN MkRange(d, l % d, h - d)
    ELSE FullSet(d)

TruncatePart(l, h, d) ==
    LET lo == IF l >= d - 1 THEN l % d ELSE l
        hi == h - (l - lo)
    IN  IF hi <= d - 1 THEN MkRange(d, lo, hi)
        ELSE IF hi - d < lo THEN MkRange(d, lo, hi - d)
        ELSE FullSet(d)

Truncate(r, d) ==
    IF IsEmptySet(r) THEN EmptySet(d)
    ELSE IF IsFullSet(r) \/ (IsWrappedSet(r) /\ r.hi >= d - 1) THEN FullSet(d)
    ELSE IF ~IsWrappedSet(r) THEN TruncatePart(r.lo, r.hi, d)
    ELSE IF r.lo = r.m - 1 THEN MkRange(d, d - 1, r.hi)
    ELSE UnionWith(TruncatePart(r.lo, r.m - 1, d), MkRange(d, d - 1, r.hi))

ZextOrTrunc(r, d) ==
    IF r.m > d THEN Truncate(r, d) ELSE IF r.m < d THEN ZeroExtend(r, d) ELSE r

SextOrTrunc(r, d) ==
    IF r.m > d THEN Truncate(r, d) ELSE IF r.m < d THEN SignExtend(r, d) ELSE r

(***************************************************************************)
(* The words a comparison holds for.  A region starts or ends at the       *)
(* smallest word of the predicate's reading, base.                         *)
(***************************************************************************)
UpTo(m, base, v) ==     \* base .. v - 1
    IF v = base THEN EmptySet(m) ELSE MkRange(m, base, v)

ThroughStrict(m, base, v) == UpTo(m, base, v)   \* mutant: v itself is left out

Through(m, base, v) ==  \* base .. v
    IF Plus(m, v, 1) = base THEN FullSet(m) ELSE MkRange(m, base, Plus(m, v, 1))

Beyond(m, base, v) ==   \* v + 1 ..
    IF Plus(m, v, 1) = base THEN EmptySet(m) ELSE MkRange(m, Plus(m, v, 1), base)

Onward(m, base, v) ==   \* v ..
    IF v = base THEN FullSet(m) ELSE MkRange(m, v, base)

(* The words that compare to some member of r.                             *)
MakeICmpRegion(p, r) ==
    LET m == r.m  s == SignedMin(m)
    IN  IF IsEmptySet(r) THEN r
        ELSE CASE p = "eq"  -> r
               [] p = "ne"  -> IF r.hi = Plus(m, r.lo, 1) THEN MkRange(m, r.hi, r.lo) ELSE FullSet(m)
               [] p = "ult" -> UpTo(m, 0, UnsignedMax(r))
               [] p = "slt" -> UpTo(m, s, GetSignedMax(r))
               [] p = "ule" -> Through(m, 0, UnsignedMax(r))
               [] p = "sle" -> Through(m, s, GetSignedMax(r))
               [] p = "ugt" -> Beyond(m, 0, UnsignedMin(r))
               [] p = "sgt" -> Beyond(m, s, GetSignedMin(r))
               [] p = "uge" -> Onward(m, 0, UnsignedMin(r))
               [] p = "sge" -> Onward(m, s, GetSignedMin(r))

(* The words that compare to c.                                            *)
MakeConstantRange(p, m, c) ==
    CASE p = "eq"  -> MkRange(m, c, Plus(m, c, 1))
      [] p = "ne"  -> MkRange(m, Plus(m, c, 1), c)
      [] p = "ult" -> UpTo(m, 0, c)
      [] p = "slt" -> UpTo(m, SignedMin(m), c)
      [] p = "ule" -> Through(m, 0, c)
      [] p = "sle" -> Through(m, SignedMin(m), c)
      [] p = "ugt" -> Beyond(m, 0, c)
      [] p = "sgt" -> Beyond(m, SignedMin(m), c)
      [] p = "uge" -> Onward(m, 0, c)
      [] p = "sge" -> Onward(m, SignedMin(m), c)

(***************************************************************************)
(* Maxima, bitwise operations and shifts.  OrFull is the range of lowest   *)
(* and highest result, full when it goes all the way around.               *)
(***************************************************************************)
OrFull(m, l, h) == IF Plus(m, h, 1) = l THEN FullSet(m) ELSE MkRange(m, l, Plus(m, h, 1))

Greater(x, y) == IF x > y THEN x ELSE y

SGreater(m, x, y) == IF Signed(m, x) > Signed(m, y) THEN x ELSE y

UMax(a, b) ==
    IF IsEmptySet(a) \/ IsEmptySet(b) THEN EmptySet(a.m)
    ELSE OrFull(a.m, Greater(UnsignedMin(a), UnsignedMin(b)), Greater(UnsignedMax(a), UnsignedMax(b)))

SMax(a, b) ==
    IF IsEmptySet(a) \/ IsEmptySet(b) THEN EmptySet(a.m)
    ELSE OrFull(a.m, SGreater(a.m, GetSignedMin(a), GetSignedMin(b)),
                     SGreater(a.m, GetSignedMax(a), GetSignedMax(b)))

BinaryAnd(a, b) ==
    IF IsEmptySet(a) \/ IsEmptySet(b) THEN EmptySet(a.m)
    ELSE Through(a.m, 0, IF UnsignedMax(a) < UnsignedMax(b) THEN UnsignedMax(a) ELSE UnsignedMax(b))

BinaryOr(a, b) ==
    IF IsEmptySet(a) \/ IsEmptySet(b) THEN EmptySet(a.m)
    ELSE Onward(a.m, 0, Greater(UnsignedMin(a), UnsignedMin(b)))

Bits(m) == CHOOSE k \in 0 .. m : 2 ^ k = m

CountLeadingZeros(m, v) == Cardinality({k \in 0 .. Bits(m) - 1 : v < 2 ^ k})

Shifted(m, v, k) == IF k >= Bits(m) THEN 0 ELSE (v * 2 ^ k) % m

ShiftedDown(m, v, k) == IF k >= Bits(m) THEN 0 ELSE v \div 2 ^ k

Shl(a, b) ==
    IF IsEmptySet(a) \/ IsEmptySet(b) THEN EmptySet(a.m)
    ELSE IF CountLeadingZeros(a.m, UnsignedMax(a)) > UnsignedMax(b)
         THEN MkRange(a.m, Shifted(a.m, UnsignedMin(a), UnsignedMin(b)),
                           Plus(a.m, Shifted(a.m, UnsignedMax(a), UnsignedMax(b)), 1))
    ELSE FullSet(a.m)

LShr(a, b) ==
    IF IsEmptySet(a) \/ IsEmptySet(b) THEN EmptySet(a.m)
    ELSE OrFull(a.m, ShiftedDown(a.m, UnsignedMin(a), UnsignedMax(b)),
                     ShiftedDown(a.m, UnsignedMax(a), UnsignedMin(b)))
=============================================================================
