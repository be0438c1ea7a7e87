------------------------- MODULE CompareFold_proofs -------------------------
(***************************************************************************)
(* What the folding of comparisons guarantees, for every width of int and  *)
(* long and operands with metadata of any interval.                        *)
(***************************************************************************)
EXTENDS CompareFold, Ranges_proofs

(* The members of an interval, by the numbers the predicate reads.         *)
LEMMA IntervalMembers ==
    ASSUME NEW p, NEW m \in Moduli, NEW r \in Ranges(m), Interval(p, r), NEW v \in Word(m)
    PROVE  Contains(r, v) <=>
             Number(p, m, r.lo) <= Number(p, m, v) /\ Number(p, m, v) < Number(p, m, r.hi)
<1>1. r.m = m /\ r.lo \in 0 .. m - 1 /\ r.hi \in 0 .. m - 1 /\ v \in 0 .. m - 1 /\ m \in Int
  BY RangeFacts DEF Word, Moduli
<1>2. PICK s \in Int : m = 2 * s /\ SignedMin(m) = s /\ SignedMax(m) = s - 1 /\ s >= 2
  BY DEF Moduli, SignedMin, SignedMax
<1>3. QED
  BY <1>1, <1>2 DEF Interval, Number, Contains, IsFullSet, IsWrappedSet, Signed

(* Two disjoint intervals decide a predicate for all their members, unless *)
(* it is strict and they touch.                                            *)
LEMMA IntervalsDecide ==
    ASSUME NEW p \in Below \cup Above, NEW m \in Moduli, NEW a \in Ranges(m), NEW b \in Ranges(m),
           NEW x \in Word(m), NEW y \in Word(m), Contains(a, x), Contains(b, y),
           Members(a) \cap Members(b) = {}, Interval(p, a), Interval(p, b),
           p \in {"slt", "ult"} => a.hi # b.lo, p \in {"sgt", "ugt"} => b.hi # a.lo
    PROVE  Compare(p, m, x, y) <=>
             \/ p \in Below /\ Compare(p, m, a.hi, b.lo)
             \/ p \in Above /\ Compare(p, m, a.lo, b.hi)
<1>1. /\ a.m = m /\ a.lo \in Word(m) /\ a.hi \in Word(m)
      /\ b.m = m /\ b.lo \in Word(m) /\ b.hi \in Word(m)
  BY RangeFacts DEF Word
<1> DEFINE X  == Number(p, m, x)
           Y  == Number(p, m, y)
           AL == Number(p, m, a.lo)
           AH == Number(p, m, a.hi)
           BL == Number(p, m, b.lo)
           BH == Number(p, m, b.hi)
<1>2. /\ X \in Int /\ Y \in Int /\ AL \in Int /\ AH \in Int /\ BL \in Int /\ BH \in Int
      /\ AH = BL => a.hi = b.lo
      /\ BH = AL => b.hi = a.lo
  BY <1>1, CompareNumbers
<1>3. AL <= X /\ X < AH /\ BL <= Y /\ Y < BH
  BY <1>1, IntervalMembers
<1>4. AL < AH /\ BL < BH
  BY <1>1 DEF Interval
<1>5. Contains(a, a.lo) /\ Contains(b, b.lo)
  BY <1>1, <1>2, <1>4, IntervalMembers
<1>6. ~Contains(b, a.lo) /\ ~Contains(a, b.lo)
  BY <1>1, <1>5 DEF Members
<1>7. ~(BL <= AL /\ AL < BH) /\ ~(AL <= BL /\ BL < AH)
  BY <1>1, <1>6, IntervalMembers
<1>8. (X < Y /\ AH <= BL) \/ (Y < X /\ BH <= AL)
  <2> HIDE DEF X, Y, AL, AH, BL, BH
  <2>1. QED
    BY <1>2, <1>3, <1>4, <1>7
<1>9. CASE p \in {"slt", "ult"}
  <2>1. Compare(p, m, x, y) <=> X < Y
    BY <1>9, CompareNumbers
  <2>2. Compare(p, m, a.hi, b.lo) <=> AH < BL
    BY <1>1, <1>9, CompareNumbers
  <2>3. p \in Below /\ p \notin Above
    BY <1>9 DEF Below, Above
  <2>4. AH # BL
    BY <1>2, <1>9
  <2> HIDE DEF X, Y, AL, AH, BL, BH
  <2>5. QED
    BY <1>2, <1>3, <1>4, <1>8, <2>1, <2>2, <2>3, <2>4
<1>10. CASE p \in {"sle", "ule"}
  <2>1. Compare(p, m, x, y) <=> X <= Y
    BY <1>10, CompareNumbers
  <2>2. Compare(p, m, a.hi, b.lo) <=> AH <= BL
    BY <1>1, <1>10, CompareNumbers
  <2>3. p \in Below /\ p \notin Above
    BY <1>10 DEF Below, Above
  <2> HIDE DEF X, Y, AL, AH, BL, BH
  <2>4. QED
    BY <1>2, <1>3, <1>4, <1>8, <2>1, <2>2, <2>3
<1>11. CASE p \in {"sgt", "ugt"}
  <2>1. Compare(p, m, x, y) <=> X > Y
    BY <1>11, CompareNumbers
  <2>2. Compare(p, m, a.lo, b.hi) <=> AL > BH
    BY <1>1, <1>11, CompareNumbers
  <2>3. p \notin Below /\ p \in Above
    BY <1>11 DEF Below, Above
  <2>4. BH # AL
    BY <1>2, <1>11
  <2> HIDE DEF X, Y, AL, AH, BL, BH
  <2>5. QED
    BY <1>2, <1>3, <1>4, <1>8, <2>1, <2>2, <2>3, <2>4
<1>12. CASE p \in {"sge", "uge"}
  <2>1. Compare(p, m, x, y) <=> X >= Y
    BY <1>12, CompareNumbers
  <2>2. Compare(p, m, a.lo, b.hi) <=> AL >= BH
    BY <1>1, <1>12, CompareNumbers
  <2>3. p \notin Below /\ p \in Above
    BY <1>12 DEF Below, Above
  <2> HIDE DEF X, Y, AL, AH, BL, BH
  <2>4. QED
    BY <1>2, <1>3, <1>4, <1>8, <2>1, <2>2, <2>3
<1>13. QED
  BY <1>9, <1>10, <1>11, <1>12 DEF Below, Above

(* The word of 64 bits of an int, sign-extended.                           *)
Extended(ty, x) == Signed(ty, x) % W

(* An ordered predicate says the same of two ints and of their extensions. *)
LEMMA ExtensionOrdered ==
    ASSUME NEW p \in Below \cup Above, NEW ty \in {N, W}, NEW x \in Word(ty), NEW y \in Word(ty)
    PROVE  /\ Extended(ty, x) \in Word(W) /\ Extended(ty, y) \in Word(W)
           /\ Compare(p, W, Extended(ty, x), Extended(ty, y)) <=> Compare(p, ty, x, y)
<1>1. PICK s, S \in Int :
        /\ N = 2 * s /\ SignedMin(N) = s /\ SignedMax(N) = s - 1
        /\ W = 2 * S /\ SignedMin(W) = S /\ SignedMax(W) = S - 1
        /\ s >= 2 /\ S >= 2 * s
  BY Halves
<1>2. ty \in Moduli /\ W \in Moduli
  BY Widths
<1> DEFINE a == Signed(ty, x)
           b == Signed(ty, y)
<1>3. a \in -SignedMin(ty) .. SignedMax(ty) /\ b \in -SignedMin(ty) .. SignedMax(ty)
  BY <1>2, SignedFacts
<1>4. a \in -SignedMin(W) .. SignedMax(W) /\ b \in -SignedMin(W) .. SignedMax(W)
  BY <1>3, NumbersOfLong
<1>5. /\ Signed(W, a % W) = a /\ a % W = FromSigned(W, a) /\ a \in Int
      /\ Signed(W, b % W) = b /\ b % W = FromSigned(W, b) /\ b \in Int
  BY <1>2, <1>4, SignedOfMod
<1>6. a % W \in Word(W) /\ b % W \in Word(W)
  BY <1>2, <1>5, IntMod
<1>7. x \in 0 .. ty - 1 /\ y \in 0 .. ty - 1
  BY DEF Word
<1>8. \E t \in Int : ty = 2 * t /\ SignedMin(ty) = t /\ SignedMax(ty) = t - 1 /\ t >= 2 /\ t <= S
  BY <1>1
<1>9. /\ (x < y <=> a % W < b % W) /\ (x <= y <=> a % W <= b % W)
      /\ x \in Int /\ y \in Int /\ a % W \in Int /\ b % W \in Int
  <2>1. PICK t \in Int : ty = 2 * t /\ SignedMin(ty) = t /\ SignedMax(ty) = t - 1 /\ t >= 2 /\ t <= S
    BY <1>8
  <2>2. a = (IF x <= t - 1 THEN x ELSE x - 2 * t) /\ b = (IF y <= t - 1 THEN y ELSE y - 2 * t)
    BY <1>7, <2>1 DEF Signed
  <2>3. a % W = (IF a >= 0 THEN a ELSE a + 2 * S) /\ b % W = (IF b >= 0 THEN b ELSE b + 2 * S)
    BY <1>1, <1>5 DEF FromSigned
  <2> DEFINE c == a % W
             d == b % W
  <2>4. c = (IF a >= 0 THEN a ELSE a + 2 * S) /\ d = (IF b >= 0 THEN b ELSE b + 2 * S)
    BY <2>3
  <2> HIDE DEF a, b, c, d
  <2>5. (x < y <=> c < d) /\ (x <= y <=> c <= d) /\ x \in Int /\ y \in Int /\ c \in Int /\ d \in Int
    BY <1>1, <1>5, <1>7, <2>1, <2>2, <2>4
  <2>6. QED
    BY <2>5 DEF c, d
<1> HIDE DEF a, b
<1>10. Compare(p, W, a % W, b % W) <=> Compare(p, ty, x, y)
  <2>1. CASE p \in {"slt", "sle"}
    BY <1>5, <2>1 DEF Compare, a, b
  <2>2. CASE p \in {"sgt", "sge"}
    BY <1>5, <2>2 DEF Compare, a, b
  <2>3. CASE p \in {"ult", "ule"}
    BY <1>9, <2>3 DEF Compare
  <2>4. CASE p \in {"ugt", "uge"}
    BY <1>9, <2>4 DEF Compare
  <2>5. QED
    BY <2>1, <2>2, <2>3, <2>4 DEF Below, Above
<1>11. QED
  BY <1>6, <1>10 DEF Extended, a, b

(* The range of an operand is legal, of 32 or of 64 bits, and holds of it. *)
LEMMA OperandFacts ==
    ASSUME NEW c \in Compares, NEW o \in {c.lhs, c.rhs}, Known(o)
    PROVE  /\ RangeOf(c.ty, o).m \in {N, W} /\ RangeOf(c.ty, o) \in Ranges(RangeOf(c.ty, o).m)
           /\ o.word \in Word(c.ty) /\ c.ty \in {N, W}
           /\ Contains(RangeOf(c.ty, o), Signed(c.ty, o.word) % RangeOf(c.ty, o).m)
<1>1. /\ c.ty \in {N, W} /\ o \in Operands(c.ty)
      /\ o.md # NoText =>
           Accepted(GetConstantRange(o.md)) /\ Holds(GetConstantRange(o.md), Signed(c.ty, o.word))
  BY ComparesAssumption
<1>2. /\ o.word \in Word(c.ty) /\ o.constant \in BOOLEAN
      /\ o.md \in {NoText} \cup [kind : {"eq", "in"}, lo : Int, hi : Int]
  BY <1>1 DEF Operands
<1>3. N \in Moduli /\ W \in Moduli /\ c.ty \in Moduli
  BY <1>1, Widths
<1>4. CASE o.constant
  <2> DEFINE n == Signed(c.ty, o.word)
  <2>1. n \in -SignedMin(W) .. SignedMax(W)
    BY <1>1, <1>2, <1>3, SignedFacts, NumbersOfLong
  <2>2. PICK r : r = MkRange(W, FromSigned(W, n), Plus(W, FromSigned(W, n), 1))
    OBVIOUS
  <2>3. r \in Ranges(W) /\ Holds(r, n)
    BY <2>1, <2>2, LiteralRange
  <2>4. RangeOf(c.ty, o) = r
    BY <1>4, <2>2 DEF RangeOf
  <2>5. r.m = W
    BY <1>3, <2>3, RangeFacts
  <2>6. QED
    BY <1>1, <1>2, <2>3, <2>4, <2>5 DEF Holds
<1>5. CASE ~o.constant
  <2> DEFINE r == GetConstantRange(o.md)
  <2>1. o.md \in [kind : {"eq", "in"}, lo : Int, hi : Int] /\ o.md # NoText /\ RangeOf(c.ty, o) = r
    BY <1>2, <1>5 DEF Known, RangeOf
  <2>2. r.m \in {N, W} /\ r \in Ranges(r.m)
    <3>1. CASE o.md.kind = "eq"
      <4>1. o.md.lo \in Int
        BY <2>1
      <4>2. r \in Ranges(N)
        BY <3>1, <4>1, EqualityRange
      <4>3. r.m = N
        BY <1>3, <4>2, RangeFacts
      <4>4. QED
        BY <4>2, <4>3
    <3>2. CASE o.md.kind = "in"
      <4>1. o.md \in [kind : {"in"}, lo : Int, hi : Int]
        BY <2>1, <3>2
      <4>2. /\ r = MkRange(W, Word64(o.md.lo), Plus(W, Word64(o.md.hi), 1))
            /\ Word64(o.md.lo) \in Word(W) /\ Plus(W, Word64(o.md.hi), 1) \in Word(W)
        BY <4>1, IntervalRange
      <4>3. Legal(W, Word64(o.md.lo), Plus(W, Word64(o.md.hi), 1)) /\ r.m = W
        BY <1>1, <2>1, <4>2 DEF Accepted, MkRange
      <4>4. QED
        BY <1>3, <4>2, <4>3, MkRangeLegal
    <3>3. QED
      BY <2>1, <3>1, <3>2
  <2>3. QED
    BY <1>1, <1>2, <2>1, <2>2 DEF Holds
<1>6. QED
  BY <1>2, <1>4, <1>5

(* What tryConstantFoldCMP makes of two operands.                          *)
Tried(c, l, r) ==
    LET a == RangeOf(c.ty, l)
        b == RangeOf(c.ty, r)
    IN  IF ~Known(l) \/ ~Known(r) THEN "UNKNOWN"
        ELSE IF a.m # b.m THEN "aborted"
        ELSE FoldConstantRanges(c.pred, a, b)

(* Ranges of one width decide exactly when they are disjoint.              *)
LEMMA TriedFacts ==
    ASSUME NEW c \in Compares, NEW l \in {c.lhs, c.rhs}, NEW r \in {c.lhs, c.rhs}
    PROVE  /\ Tried(c, l, r) \in {"TRUE", "FALSE", "UNKNOWN", "aborted"}
           /\ Known(l) /\ Known(r) /\ RangeOf(c.ty, l).m = RangeOf(c.ty, r).m =>
                /\ Tried(c, l, r) = FoldConstantRanges(c.pred, RangeOf(c.ty, l), RangeOf(c.ty, r))
                /\ Tried(c, l, r) = "UNKNOWN" <=>
                     Members(RangeOf(c.ty, l)) \cap Members(RangeOf(c.ty, r)) # {}
<1> DEFINE a == RangeOf(c.ty, l)
           b == RangeOf(c.ty, r)
<1>1. FoldConstantRanges(c.pred, a, b) \in {"TRUE", "FALSE", "UNKNOWN"}
  BY DEF FoldConstantRanges, Fold
<1>2. Tried(c, l, r) \in {"TRUE", "FALSE", "UNKNOWN", "aborted"}
  BY <1>1 DEF Tried
<1>3. ASSUME Known(l), Known(r), a.m = b.m
      PROVE  /\ Tried(c, l, r) = FoldConstantRanges(c.pred, a, b)
             /\ Tried(c, l, r) = "UNKNOWN" <=> Members(a) \cap Members(b) # {}
  <2>1. a.m \in Moduli /\ a \in Ranges(a.m) /\ b \in Ranges(a.m)
    BY <1>3, OperandFacts, Widths
  <2>2. IsEmptySet(IntersectWith(a, b)) <=> Members(a) \cap Members(b) = {}
    BY <2>1, DisjointRanges
  <2>3. Tried(c, l, r) = FoldConstantRanges(c.pred, a, b)
    BY <1>3 DEF Tried
  <2>4. FoldConstantRanges(c.pred, a, b) = "UNKNOWN" <=> ~IsEmptySet(IntersectWith(a, b))
    BY DEF FoldConstantRanges, Fold
  <2>5. QED
    BY <2>2, <2>3, <2>4
<1>4. QED
  BY <1>2, <1>3

-----------------------------------------------------------------------------
(* The operands and the predicate are those of the comparison, or all of   *)
(* them swapped.                                                           *)
Oriented ==
    \/ lhs = compare.lhs /\ rhs = compare.rhs /\ pred = compare.pred
    \/ /\ lhs = compare.rhs /\ rhs = compare.lhs /\ pred = Swapped(compare.pred)
       /\ rhs.constant /\ ~lhs.constant

(* The result is what the two operands together fold to.                   *)
Decided ==
    \/ result = "none"
    \/ /\ lhs.constant /\ rhs.constant
       /\ result = Fold(Compare(pred, compare.ty, lhs.word, rhs.word))
    \/ ~lhs.constant /\ result = Tried(compare, lhs, rhs)

(* The inductive invariant.                                                *)
IInv == compare \in Compares /\ Oriented /\ Decided

(* The simplification starts and stays within the invariant.               *)
THEOREM Inductive == Spec => []IInv
<1>1. Init => IInv
  BY DEF Init, IInv, Oriented, Decided
<1>2. IInv /\ [Next]_vars => IInv'
  <2>1. SUFFICES ASSUME IInv, [Next]_vars PROVE IInv'
    OBVIOUS
  <2>2. CASE FoldConstants
    BY <2>1, <2>2 DEF IInv, Oriented, Decided, FoldConstants
  <2>3. CASE SwapConstant
    BY <2>1, <2>3 DEF IInv, Oriented, Decided, SwapConstant
  <2>4. CASE TryConstantFold
    <3>1. /\ compare' = compare /\ lhs' = lhs /\ rhs' = rhs /\ pred' = pred /\ ~lhs.constant
          /\ result' = Tried(compare, lhs, rhs)
      BY <2>4 DEF TryConstantFold, Tried
    <3>2. QED
      BY <2>1, <3>1 DEF IInv, Oriented, Decided
  <2>5. CASE UNCHANGED vars
    BY <2>1, <2>5 DEF IInv, Oriented, Decided, vars
  <2>6. QED
    BY <2>1, <2>2, <2>3, <2>4, <2>5 DEF Next
<1>3. QED
  BY <1>1, <1>2, PTL DEF Spec

(* What the assumption says of the comparison at hand.                     *)
LEMMA CompareFacts ==
    ASSUME compare \in Compares
    PROVE  /\ compare.pred \in AllPredicates
           /\ compare.ty \in Moduli
           /\ compare.lhs.word \in Word(compare.ty) /\ compare.rhs.word \in Word(compare.ty)
<1>1. /\ compare.pred \in AllPredicates /\ compare.ty \in {N, W}
      /\ compare.lhs \in Operands(compare.ty) /\ compare.rhs \in Operands(compare.ty)
  BY ComparesAssumption DEF AllPredicates
<1>2. QED
  BY <1>1, Widths DEF Operands

(* Both operands are kept, in either order, and the result is one of those *)
(* of foldConstantRanges (InstructionSimplify.cpp:1897-1911).              *)
THEOREM TypeCorrect == Spec => []TypeOK
<1>1. IInv => TypeOK
  <2>1. SUFFICES ASSUME IInv PROVE TypeOK
    OBVIOUS
  <2>2. {lhs, rhs} = {compare.lhs, compare.rhs}
    BY <2>1 DEF IInv, Oriented
  <2>3. pred \in AllPredicates
    <3>1. compare.pred \in AllPredicates /\ Swapped(compare.pred) \in AllPredicates
      BY <2>1, CompareFacts, SwapTruth DEF IInv
    <3>2. QED
      BY <2>1, <3>1 DEF IInv, Oriented
  <2>4. result \in {"none", "TRUE", "FALSE", "UNKNOWN", "aborted"}
    <3>1. Tried(compare, lhs, rhs) \in {"TRUE", "FALSE", "UNKNOWN", "aborted"}
      BY <2>1, <2>2, TriedFacts DEF IInv
    <3>2. QED
      BY <2>1, <3>1 DEF IInv, Decided, Fold
  <2>5. QED
    BY <2>2, <2>3, <2>4 DEF TypeOK, AllPredicates
<1>2. QED
  BY <1>1, Inductive, PTL

(* The swap keeps the meaning of operands and predicate together           *)
(* (InstructionSimplify.cpp:1901-1903).                                    *)
THEOREM SwapsKeepTruth == Spec => []SwapKeepsTruth
<1>1. IInv => SwapKeepsTruth
  <2>1. SUFFICES ASSUME IInv PROVE SwapKeepsTruth
    OBVIOUS
  <2>2. CASE lhs = compare.lhs /\ rhs = compare.rhs /\ pred = compare.pred
    BY <2>2 DEF SwapKeepsTruth, Truth
  <2>3. CASE lhs = compare.rhs /\ rhs = compare.lhs /\ pred = Swapped(compare.pred)
    BY <2>1, <2>3, CompareFacts, SwapTruth DEF IInv, Truth, SwapKeepsTruth
  <2>4. QED
    BY <2>1, <2>2, <2>3 DEF IInv, Oriented
<1>2. QED
  BY <1>1, Inductive, PTL

(* Ranges decide a comparison exactly when they have no value in common    *)
(* (foldConstantRanges).                                                   *)
THEOREM DecidedExactly == Spec => []DecidedWhenDisjoint
<1>1. IInv => DecidedWhenDisjoint
  <2>1. SUFFICES ASSUME IInv,
                        result # "none", Known(lhs), Known(rhs),
                        RangeOf(compare.ty, lhs).m = RangeOf(compare.ty, rhs).m,
                        ~(lhs.constant /\ rhs.constant)
                 PROVE  result = "UNKNOWN" <=>
                          Members(RangeOf(compare.ty, lhs)) \cap Members(RangeOf(compare.ty, rhs)) # {}
    BY DEF DecidedWhenDisjoint
  <2>2. compare \in Compares /\ lhs \in {compare.lhs, compare.rhs} /\ rhs \in {compare.lhs, compare.rhs}
    BY <2>1 DEF IInv, Oriented
  <2>3. result = Tried(compare, lhs, rhs)
    BY <2>1 DEF IInv, Decided
  <2>4. QED
    BY <2>1, <2>2, <2>3, TriedFacts
<1>2. QED
  BY <1>1, Inductive, PTL

(* A comparison that is folded is folded to what it would have computed,   *)
(* provided that its bounds need no care: where the ranges decide about an *)
(* ordered predicate, no constant is on the left, both ranges are          *)
(* intervals in its reading, and strictly compared bounds do not touch     *)
(* (InstructionSimplify.cpp:1909-2040, ConstantRangeUtils.cpp:195-225).    *)
THEOREM FoldsRight ==
    ASSUME \A c \in Compares : Careful(c)
    PROVE  Spec => []FoldedRight
<1>1. IInv => FoldedRight
  <2>1. SUFFICES ASSUME IInv, result \in {"TRUE", "FALSE"} PROVE result = Fold(Truth)
    BY DEF FoldedRight
  <2> DEFINE p == compare.pred
             a == RangeOf(compare.ty, lhs)
             b == RangeOf(compare.ty, rhs)
  <2>2. CASE lhs.constant /\ rhs.constant
    <3>1. result = Fold(Compare(pred, compare.ty, lhs.word, rhs.word))
      BY <2>1, <2>2 DEF IInv, Decided
    <3>2. lhs = compare.lhs /\ rhs = compare.rhs /\ pred = compare.pred
      BY <2>1, <2>2 DEF IInv, Oriented
    <3>3. QED
      BY <3>1, <3>2 DEF Truth
  <2>3. CASE ~(lhs.constant /\ rhs.constant)
    <3>1. compare \in Compares /\ lhs \in {compare.lhs, compare.rhs} /\ rhs \in {compare.lhs, compare.rhs}
      BY <2>1 DEF IInv, Oriented
    <3>2. result = Tried(compare, lhs, rhs) /\ ~lhs.constant
      BY <2>1, <2>3 DEF IInv, Decided
    <3>3. Known(lhs) /\ Known(rhs) /\ a.m = b.m
      BY <2>1, <3>2 DEF Tried
    <3>4. /\ result = FoldConstantRanges(p, a, b)
          /\ Members(a) \cap Members(b) = {}
      BY <2>1, <3>1, <3>2, <3>3, TriedFacts
    <3>5. result = Fold(\/ p \in Below /\ Compare(p, a.m, a.hi, b.lo)
                        \/ p \in Above /\ Compare(p, a.m, a.lo, b.hi)
                        \/ p = "ne")
      BY <2>1, <3>4 DEF FoldConstantRanges
    <3>6. /\ a.m \in {N, W} /\ a \in Ranges(a.m) /\ b \in Ranges(a.m) /\ a.m \in Moduli
          /\ lhs.word \in Word(compare.ty) /\ rhs.word \in Word(compare.ty) /\ compare.ty \in {N, W}
      BY <3>1, <3>3, OperandFacts, Widths
    <3> DEFINE x == Signed(compare.ty, lhs.word) % a.m
               y == Signed(compare.ty, rhs.word) % a.m
    <3>7. Contains(a, x) /\ Contains(b, y)
      BY <3>1, <3>3, OperandFacts
    <3>8. /\ x \in Word(a.m) /\ y \in Word(a.m)
          /\ Signed(compare.ty, lhs.word) \in Int /\ Signed(compare.ty, rhs.word) \in Int
      <4>1. Signed(compare.ty, lhs.word) \in Int /\ Signed(compare.ty, rhs.word) \in Int
        BY <3>6, SignedFacts, Widths
      <4>2. QED
        BY <3>6, <4>1, IntMod
    <3>9. x # y
      BY <3>4, <3>6, <3>7, <3>8, RangeFacts DEF Members
    <3>10. lhs.word # rhs.word
      BY <3>9
    <3>11. CASE p \in {"eq", "ne"}
      <4>1. compare.lhs.word # compare.rhs.word
        BY <2>1, <3>10 DEF IInv, Oriented
      <4>2. Truth <=> p = "ne"
        BY <3>11, <4>1 DEF Truth, Compare
      <4>3. p \notin Below /\ p \notin Above
        BY <3>11 DEF Below, Above
      <4>4. QED
        BY <3>5, <4>2, <4>3 DEF Fold
    <3>12. CASE p \notin {"eq", "ne"}
      <4>1. p \in Below \cup Above
        BY <3>1, <3>12, CompareFacts DEF AllPredicates
      <4>2. Careful(compare)
        BY <3>1
      <4>3. lhs = compare.lhs /\ rhs = compare.rhs
        <5>1. SUFFICES ASSUME lhs = compare.rhs, rhs = compare.lhs, rhs.constant PROVE FALSE
          BY <2>1 DEF IInv, Oriented
        <5>2. Members(b) \cap Members(a) = {}
          BY <3>4
        <5>3. IsEmptySet(IntersectWith(b, a))
          BY <3>6, <5>2, DisjointRanges
        <5>4. QED
          BY <2>3, <3>3, <3>12, <4>2, <5>1, <5>3 DEF Careful
      <4>4. IsEmptySet(IntersectWith(a, b))
        BY <3>4, <3>6, DisjointRanges
      <4>5. /\ a.m = N => compare.ty = N
            /\ Interval(p, a) /\ Interval(p, b)
            /\ p \in {"slt", "ult"} => a.hi # b.lo
            /\ p \in {"sgt", "ugt"} => b.hi # a.lo
        BY <2>3, <3>3, <3>12, <4>2, <4>3, <4>4 DEF Careful
      <4>6. Compare(p, a.m, x, y) <=>
              \/ p \in Below /\ Compare(p, a.m, a.hi, b.lo)
              \/ p \in Above /\ Compare(p, a.m, a.lo, b.hi)
        BY <3>4, <3>6, <3>7, <3>8, <4>1, <4>5, IntervalsDecide
      <4>7. Compare(p, a.m, x, y) <=> Compare(p, compare.ty, lhs.word, rhs.word)
        <5>1. CASE a.m = W
          BY <3>6, <4>1, <5>1, ExtensionOrdered DEF Extended
        <5>2. CASE a.m = N
          <6>1. x = lhs.word /\ y = rhs.word
            BY <3>6, <4>5, <5>2, SignedFacts
          <6>2. QED
            BY <4>5, <5>2, <6>1
        <5>3. QED
          BY <3>6, <5>1, <5>2
      <4>8. Truth <=> Compare(p, compare.ty, lhs.word, rhs.word)
        BY <4>3 DEF Truth
      <4>9. QED
        BY <3>5, <3>12, <4>6, <4>7, <4>8 DEF Fold
    <3>13. QED
      BY <3>11, <3>12
  <2>4. QED
    BY <2>2, <2>3
<1>2. QED
  BY <1>1, Inductive, PTL
====
