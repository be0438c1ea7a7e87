--------------------------- MODULE ConstantRange ---------------------------
(***************************************************************************)
(* The range arithmetic every part of the annotation framework relies on:  *)
(* llvm::ConstantRange (src/lib/IR/ConstantRange.cpp).                     *)
(*                                                                         *)
(* An APInt of width w is a number of 0 .. m-1 with m = 2^w; the modulus m *)
(* stands for the width, so that a small even m is a small machine word.   *)
(* A range [lo, hi) of width w is the record [m, lo, hi].  It is half open *)
(* and may wrap (lo > hi).  lo = hi is allowed for two sets only: the      *)
(* empty set [0, 0) and the full set [m-1, m-1).                           *)
(***************************************************************************)
EXTENDS Integers

(***************************************************************************)
(* APInt: words, their signed reading, and arithmetic modulo m.  Plus and  *)
(* Minus reduce by one conditional step because their arguments are words. *)
(***************************************************************************)
Word(m) == 0 .. m - 1

Signed(m, v) == IF 2 * v < m THEN v ELSE v - m

FromSigned(m, n) == IF n >= 0 THEN n ELSE n + m

Plus(m, x, y) == IF x + y < m THEN x + y ELSE x + y - m

Minus(m, x, y) == IF x >= y THEN x - y ELSE x - y + m

SignedMin(m) == m \div 2

SignedMax(m) == m \div 2 - 1

(***************************************************************************)
(* Construction.  Legal is the assertion of the constructor on two bounds. *)
(***************************************************************************)
MkRange(m, l, h) == [m |-> m, lo |-> l, hi |-> h]

Legal(m, l, h) == l = h => l \in {0, m - 1}

Ranges(m) == {r \in [m : {m}, lo : Word(m), hi : Word(m)] : Legal(m, r.lo, r.hi)}

EmptySet(m) == MkRange(m, 0, 0)

FullSet(m) == MkRange(m, m - 1, m - 1)

IsFullSet(r) == r.lo = r.hi /\ r.lo = r.m - 1

IsEmptySet(r) == r.lo = r.hi /\ r.lo = 0

IsWrappedSet(r) == r.lo > r.hi

(***************************************************************************)
(* Membership, size and bounds.                                            *)
(***************************************************************************)
Contains(r, v) ==
    IF r.lo = r.hi THEN IsFullSet(r)
    ELSE IF ~IsWrappedSet(r) THEN r.lo <= v /\ v < r.hi
    ELSE r.lo <= v \/ v < r.hi

Members(r) == {v \in Word(r.m) : Contains(r, v)}

(* Mutant: the upper bounds of two ranges that do not wrap compared strictly. *)
ContainsRangeStrict(r, o) ==
    IF IsFullSet(r) \/ IsEmptySet(o) THEN TRUE
    ELSE IF IsEmptySet(r) \/ IsFullSet(o) THEN FALSE
    ELSE IF ~IsWrappedSet(r)
         THEN ~IsWrappedSet(o) /\ r.lo <= o.lo /\ o.hi < r.hi
    ELSE IF ~IsWrappedSet(o) THEN o.hi <= r.hi \/ r.lo <= o.lo
    ELSE o.hi <= r.hi /\ r.lo <= o.lo

ContainsRange(r, o) ==
    IF IsFullSet(r) \/ IsEmptySet(o) THEN TRUE
    ELSE IF IsEmptySet(r) \/ IsFullSet(o) THEN FALSE
    ELSE IF ~IsWrappedSet(r)
         THEN ~IsWrappedSet(o) /\ r.lo <= o.lo /\ o.hi <= r.hi
    ELSE IF ~IsWrappedSet(o) THEN o.hi <= r.hi \/ r.lo <= o.lo
    ELSE o.hi <= r.hi /\ r.lo <= o.lo

SetSize(r) == IF IsFullSet(r) THEN r.m ELSE Minus(r.m, r.hi, r.lo)

UnsignedMax(r) ==
    IF IsFullSet(r) \/ IsWrappedSet(r) THEN r.m - 1 ELSE Minus(r.m, r.hi, 1)

UnsignedMin(r) ==
    IF IsFullSet(r) \/ (IsWrappedSet(r) /\ r.hi # 0) THEN 0 ELSE r.lo

(***************************************************************************)
(* The smallest range that covers the intersection of two ranges.  The two *)
(* operators that follow are the branches of intersectWith for ranges that *)
(* are neither empty nor full: a does not wrap and neither does b, a wraps *)
(* and b does not, both wrap.                                              *)
(***************************************************************************)
Larger(a, b) == IF SetSize(a) < SetSize(b) THEN b ELSE a     \* mutant

Smaller(a, b) == IF SetSize(a) < SetSize(b) THEN a ELSE b

(* Mutant: ranges that only touch are taken to overlap.                    *)
IntersectPlainTouching(a, b) ==
    IF a.lo < b.lo
    THEN IF a.hi < b.lo THEN EmptySet(a.m)
         ELSE IF a.hi < b.hi THEN MkRange(a.m, b.lo, a.hi)
         ELSE b
    ELSE IF a.hi < b.hi THEN a
         ELSE IF a.lo < b.hi THEN MkRange(a.m, a.lo, b.hi)
         ELSE EmptySet(a.m)

IntersectPlain(a, b) ==
    IF a.lo < b.lo
    THEN IF a.hi <= b.lo THEN EmptySet(a.m)
         ELSE IF a.hi < b.hi THEN MkRange(a.m, b.lo, a.hi)
         ELSE b
    ELSE IF a.hi < b.hi THEN a
         ELSE IF a.lo < b.hi THEN MkRange(a.m, a.lo, b.hi)
         ELSE EmptySet(a.m)

IntersectWrapped(a, b) ==
    IF ~IsWrappedSet(b)
    THEN IF b.lo < a.hi
         THEN IF b.hi < a.hi THEN b
              ELSE IF b.hi <= a.lo THEN MkRange(a.m, b.lo, a.hi)
              ELSE Smaller(a, b)
         ELSE IF b.lo < a.lo
              THEN IF b.hi <= a.lo THEN EmptySet(a.m)
                   ELSE MkRange(a.m, a.lo, b.hi)
              ELSE b
    ELSE IF b.hi < a.hi
         THEN IF b.lo < a.hi THEN Smaller(a, b)
              ELSE IF b.lo < a.lo THEN MkRange(a.m, a.lo, b.hi)
              ELSE b
         ELSE IF b.hi <= a.lo
              THEN IF b.lo < a.lo THEN a ELSE MkRange(a.m, b.lo, a.hi)
              ELSE Smaller(a, b)

IntersectWith(a, b) ==
    IF IsEmptySet(a) \/ IsFullSet(b) THEN a
    ELSE IF IsEmptySet(b) \/ IsFullSet(a) THEN b
    ELSE IF IsWrappedSet(a) THEN IntersectWrapped(a, b)
    ELSE IF IsWrappedSet(b) THEN IntersectWrapped(b, a)
    ELSE IntersectPlain(a, b)

(***************************************************************************)
(* Addition and subtraction: a result smaller than an operand has wrapped  *)
(* around the whole word and becomes the full set.                         *)
(***************************************************************************)
SpreadOrFull(a, b, l, h) ==
    IF l = h \/ SetSize(MkRange(a.m, l, h)) < SetSize(a)
             \/ SetSize(MkRange(a.m, l, h)) < SetSize(b)
    THEN FullSet(a.m)
    ELSE MkRange(a.m, l, h)

Add(a, b) ==
    IF IsEmptySet(a) \/ IsEmptySet(b) THEN EmptySet(a.m)
    ELSE IF IsFullSet(a) \/ IsFullSet(b) THEN FullSet(a.m)
    ELSE SpreadOrFull(a, b, Plus(a.m, a.lo, b.lo),
                            Minus(a.m, Plus(a.m, a.hi, b.hi), 1))

(* Mutant: the upper bound of a difference taken as inclusive.             *)
SubInclusive(a, b) ==
    IF IsEmptySet(a) \/ IsEmptySet(b) THEN EmptySet(a.m)
    ELSE IF IsFullSet(a) \/ IsFullSet(b) THEN FullSet(a.m)
    ELSE SpreadOrFull(a, b, Plus(a.m, Minus(a.m, a.lo, b.hi), 1),
                            Minus(a.m, Minus(a.m, a.hi, b.lo), 1))

Sub(a, b) ==
    IF IsEmptySet(a) \/ IsEmptySet(b) THEN EmptySet(a.m)
    ELSE IF IsFullSet(a) \/ IsFullSet(b) THEN FullSet(a.m)
    ELSE SpreadOrFull(a, b, Plus(a.m, Minus(a.m, a.lo, b.hi), 1),
                            Minus(a.m, a.hi, b.lo))

(* Mutant: a product as wide as the word is not seen to be full.           *)
TruncateProductWide(m, l, h) ==
    LET div == IF l >= m - 1 THEN l \div m ELSE 0
        lo  == l - m * div
        hi  == h - m * div
    IN  IF hi <= m - 1 THEN MkRange(m, lo, hi)
        ELSE IF hi - m <= lo THEN MkRange(m, lo, hi - m)
        ELSE FullSet(m)

(***************************************************************************)
(* Multiplication works on the unsigned bounds at twice the width, where   *)
(* the product range [l, h) cannot wrap, and truncates it to the word.     *)
(* TruncateProduct is truncate() on such a range: the multiples of m that  *)
(* lie below both bounds are taken off, and a range that then still        *)
(* crosses a multiple of m is wrapped, or full when its ends meet.  Its    *)
(* union with the empty set, the last step of the code, changes nothing.   *)
(***************************************************************************)
TruncateProduct(m, l, h) ==
    LET div == IF l >= m - 1 THEN l \div m ELSE 0
        lo  == l - m * div
        hi  == h - m * div
    IN  IF hi <= m - 1 THEN MkRange(m, lo, hi)
        ELSE IF hi - m < lo THEN MkRange(m, lo, hi - m)
        ELSE FullSet(m)

Multiply(a, b) ==
    IF IsEmptySet(a) \/ IsEmptySet(b) THEN EmptySet(a.m)
    ELSE TruncateProduct(a.m, UnsignedMin(a) * UnsignedMin(b),
                              UnsignedMax(a) * UnsignedMax(b) + 1)

(***************************************************************************)
(* Unsigned division: a divisor of zero has no quotient, so the smallest   *)
(* divisor that counts is 1, or the start of a range that ends at [.., 1). *)
(***************************************************************************)
UDiv(a, b) ==
    LET umin == IF UnsignedMin(b) # 0 THEN UnsignedMin(b)
                ELSE IF b.hi = 1 THEN b.lo ELSE 1
        l    == UnsignedMin(a) \div UnsignedMax(b)
        h    == Plus(a.m, UnsignedMax(a) \div umin, 1)
    IN  IF IsEmptySet(a) \/ IsEmptySet(b) \/ UnsignedMax(b) = 0 THEN EmptySet(a.m)
        ELSE IF IsFullSet(b) THEN FullSet(a.m)
        ELSE IF l = h THEN FullSet(a.m)
        ELSE MkRange(a.m, l, h)

(***************************************************************************)
(* Operands of different widths.  APInt asserts that the widths agree      *)
(* wherever the arithmetic is reached; multiply first widens its second    *)
(* operand to twice the width of the first, which asserts that this is     *)
(* wider than it was.                                                      *)
(***************************************************************************)
AddAsserts(a, b) ==
    /\ a.m # b.m
    /\ ~IsEmptySet(a) /\ ~IsEmptySet(b) /\ ~IsFullSet(a) /\ ~IsFullSet(b)

MultiplyAsserts(a, b) == a.m < b.m /\ ~IsEmptySet(a) /\ ~IsEmptySet(b)

UDivAsserts(a, b) ==
    /\ a.m # b.m
    /\ ~IsEmptySet(a) /\ ~IsEmptySet(b) /\ UnsignedMax(b) # 0 /\ ~IsFullSet(b)
=============================================================================
