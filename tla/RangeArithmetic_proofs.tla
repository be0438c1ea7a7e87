----------------------- MODULE RangeArithmetic_proofs -----------------------
(***************************************************************************)
(* Soundness and exactness of the range arithmetic for words of every      *)
(* width.  IInv is kept by every operation on numbers; the properties of   *)
(* one range follow from its first conjunct.  The operations on bits are   *)
(* not proved: they rest on powers of two.                                 *)
(***************************************************************************)
EXTENDS RangeOperations, Ranges_proofs

(* The modulus of the register is one the lemmas about ranges speak of.    *)
LEMMA MModulus == M \in Moduli
BY MAssumption DEF Moduli

(* A range is the smallest that covers its own members.                    *)
LEMMA CoversItself ==
    ASSUME NEW m \in Moduli, NEW a \in Ranges(m), NEW o \in Ranges(m), Members(a) \subseteq Members(o)
    PROVE  SetSize(a) <= SetSize(o)
<1>1. /\ UnionWith(a, a) \in Ranges(m)
      /\ Members(a) \subseteq Members(UnionWith(a, a))
  BY UnionSound
<1>2. Smaller(a, a) = a
  BY DEF Smaller
<1>3. IntersectWith(a, a) = a
  BY <1>2, RangeFacts DEF IntersectWith, IntersectPlain, IntersectWrapped, IsEmptySet, IsFullSet, IsWrappedSet, Moduli
<1>4. QED
  BY <1>3, IntersectSmallest

(* The range of a comparison with one word has exactly the words it holds  *)
(* for.                                                                    *)
LEMMA ComparesSound ==
    ASSUME NEW p \in Predicates, NEW c \in Word(M)
    PROVE  /\ MakeConstantRange(p, M, c) \in Ranges(M)
           /\ Members(MakeConstantRange(p, M, c)) = {v \in Word(M) : Compares(p, v, c)}
<1> DEFINE r == MakeConstantRange(p, M, c)
<1>1. M \in Moduli
  BY MModulus
<1>2. r \in Ranges(M)
  <2>1. ASSUME NEW l \in Word(M), NEW h \in Word(M), l # h
        PROVE  MkRange(M, l, h) \in Ranges(M)
    BY <2>1, <1>1, MkRangeLegal DEF Legal
  <2>2. Plus(M, c, 1) \in Word(M) /\ Plus(M, c, 1) # c
    BY <1>1 DEF Plus, Moduli, Word
  <2>3. p = "eq" => r = MkRange(M, c, Plus(M, c, 1))
    BY DEF MakeConstantRange
  <2>4. p = "ne" => r = MkRange(M, Plus(M, c, 1), c)
    BY DEF MakeConstantRange
  <2>5. CASE p \notin {"eq", "ne"}
    BY <2>5, <1>1, RegionLegal DEF MakeConstantRange, Predicates
  <2>6. QED
    BY <2>1, <2>2, <2>3, <2>4, <2>5
<1>3. ASSUME NEW v \in Word(M)
      PROVE  Contains(r, v) <=> Compares(p, v, c)
  <2>1. CASE p = "eq"
    BY <2>1, <1>1 DEF MakeConstantRange, Compares, Contains, MkRange, IsFullSet, IsWrappedSet, Plus, Moduli, Word
  <2>2. CASE p = "ne"
    BY <2>2, <1>1 DEF MakeConstantRange, Compares, Contains, MkRange, IsFullSet, IsWrappedSet, Plus, Moduli, Word
  <2>3. CASE p \notin {"eq", "ne"}
    BY <2>3, <1>1, RegionMembers DEF MakeConstantRange, Compares, Predicates
  <2>4. QED
    BY <2>1, <2>2, <2>3
<1>4. QED
  BY <1>1, <1>2, <1>3, RangeFacts DEF Members

(* The region of a comparison with a range has exactly the words that      *)
(* compare to one of its members: to its largest or smallest, in the       *)
(* reading of the predicate.                                               *)
LEMMA RegionExact ==
    ASSUME NEW p \in Predicates, NEW r \in Ranges(M)
    PROVE  /\ MakeICmpRegion(p, r) \in Ranges(M)
           /\ Members(MakeICmpRegion(p, r)) = {v \in Word(M) : \E w \in Members(r) : Compares(p, v, w)}
<1> DEFINE g == MakeICmpRegion(p, r)
<1>1. /\ M \in Moduli /\ r.m = M /\ r.lo \in Word(M) /\ r.hi \in Word(M)
      /\ r.lo = r.hi => r.lo \in {0, M - 1}
  BY MModulus, RangeFacts DEF Word
<1>2. CASE IsEmptySet(r)
  <2>1. g = r
    BY <1>2 DEF MakeICmpRegion
  <2>2. \A v : ~Contains(r, v)
    BY <1>2, <1>1, EmptyHasNoMember
  <2>3. QED
    BY <2>1, <2>2 DEF Members
<1>3. CASE ~IsEmptySet(r)
  <2>1. /\ \A c \in {UnsignedMin(r), UnsignedMax(r), GetSignedMin(r), GetSignedMax(r)} : c \in Members(r)
        /\ \A v \in Members(r) :
            /\ UnsignedMin(r) <= v /\ v <= UnsignedMax(r)
            /\ Signed(M, GetSignedMin(r)) <= Signed(M, v)
            /\ Signed(M, v) <= Signed(M, GetSignedMax(r))
    BY <1>1, <1>3, BoundsOfRange
  <2>2. \A v \in Members(r) : v \in Word(M) /\ Contains(r, v)
    BY <1>1 DEF Members
  <2>3. g \in Ranges(M)
    <3>1. CASE p = "eq"
      BY <3>1, <1>3 DEF MakeICmpRegion
    <3>2. CASE p = "ne"
      BY <3>2, <1>1, <1>3, MkRangeLegal, EmptyFullLegal DEF MakeICmpRegion, Plus, Legal, Moduli, Word
    <3>3. CASE p \notin {"eq", "ne"}
      BY <3>3, <1>1, <1>3, <2>1, <2>2, RegionLegal DEF MakeICmpRegion, Predicates
    <3>4. QED
      BY <3>1, <3>2, <3>3
  <2>4. ASSUME NEW v \in Word(M)
        PROVE  Contains(g, v) <=> \E w \in Members(r) : Compares(p, v, w)
    <3>1. CASE p = "eq"
      BY <3>1, <1>1, <1>3 DEF MakeICmpRegion, Compares, Members
    <3>2. CASE p = "ne"
      <4>1. CASE r.hi = Plus(M, r.lo, 1)
        BY <4>1, <3>2, <1>1, <1>3
        DEF MakeICmpRegion, Compares, Members, Contains, MkRange, IsFullSet, IsWrappedSet, IsEmptySet, Plus, Moduli, Word
      <4>2. CASE r.hi # Plus(M, r.lo, 1)
        <5>1. r.lo \in Members(r) /\ Plus(M, r.lo, 1) \in Members(r) /\ r.lo # Plus(M, r.lo, 1)
          BY <4>2, <1>1, <1>3
          DEF Members, Contains, IsFullSet, IsWrappedSet, IsEmptySet, Plus, Moduli, Word
        <5>2. QED
          BY <5>1, <4>2, <3>2, <1>1, <1>3, FullContains DEF MakeICmpRegion, Compares
      <4>3. QED
        BY <4>1, <4>2
    <3>3. \A c \in Word(M) : Signed(M, c) \in Int /\ c \in Int
      BY <1>1 DEF Signed, Moduli, Word
    <3>4. CASE p = "ult"
      <4>1. g = UpTo(M, 0, UnsignedMax(r))
        BY <3>4, <1>1, <1>3 DEF MakeICmpRegion
      <4>2. Contains(g, v) <=> v < UnsignedMax(r)
        BY <4>1, <2>1, <2>2, <1>1, RegionMembers
      <4>3. \A w \in Members(r) : v < w => v < UnsignedMax(r)
        BY <2>1, <2>2, <3>3
      <4>4. \A w : Compares(p, v, w) <=> v < w
        BY <3>4 DEF Compares
      <4>5. QED
        BY <4>2, <4>3, <4>4, <2>1
    <3>5. CASE p = "ule"
      <4>1. g = Through(M, 0, UnsignedMax(r))
        BY <3>5, <1>1, <1>3 DEF MakeICmpRegion
      <4>2. Contains(g, v) <=> v <= UnsignedMax(r)
        BY <4>1, <2>1, <2>2, <1>1, RegionMembers
      <4>3. \A w \in Members(r) : v <= w => v <= UnsignedMax(r)
        BY <2>1, <2>2, <3>3
      <4>4. \A w : Compares(p, v, w) <=> v <= w
        BY <3>5 DEF Compares
      <4>5. QED
        BY <4>2, <4>3, <4>4, <2>1
    <3>6. CASE p = "ugt"
      <4>1. g = Beyond(M, 0, UnsignedMin(r))
        BY <3>6, <1>1, <1>3 DEF MakeICmpRegion
      <4>2. Contains(g, v) <=> v > UnsignedMin(r)
        BY <4>1, <2>1, <2>2, <1>1, RegionMembers
      <4>3. \A w \in Members(r) : v > w => v > UnsignedMin(r)
        BY <2>1, <2>2, <3>3
      <4>4. \A w : Compares(p, v, w) <=> v > w
        BY <3>6 DEF Compares
      <4>5. QED
        BY <4>2, <4>3, <4>4, <2>1
    <3>7. CASE p = "uge"
      <4>1. g = Onward(M, 0, UnsignedMin(r))
        BY <3>7, <1>1, <1>3 DEF MakeICmpRegion
      <4>2. Contains(g, v) <=> v >= UnsignedMin(r)
        BY <4>1, <2>1, <2>2, <1>1, RegionMembers
      <4>3. \A w \in Members(r) : v >= w => v >= UnsignedMin(r)
        BY <2>1, <2>2, <3>3
      <4>4. \A w : Compares(p, v, w) <=> v >= w
        BY <3>7 DEF Compares
      <4>5. QED
        BY <4>2, <4>3, <4>4, <2>1
    <3>8. CASE p = "slt"
      <4>1. g = UpTo(M, SignedMin(M), GetSignedMax(r))
        BY <3>8, <1>1, <1>3 DEF MakeICmpRegion
      <4>2. Contains(g, v) <=> Signed(M, v) < Signed(M, GetSignedMax(r))
        BY <4>1, <2>1, <2>2, <1>1, RegionMembers
      <4>3. \A w \in Members(r) : Signed(M, v) < Signed(M, w) => Signed(M, v) < Signed(M, GetSignedMax(r))
        BY <2>1, <2>2, <3>3
      <4>4. \A w : Compares(p, v, w) <=> Signed(M, v) < Signed(M, w)
        BY <3>8 DEF Compares
      <4>5. QED
        BY <4>2, <4>3, <4>4, <2>1
    <3>9. CASE p = "sle"
      <4>1. g = Through(M, SignedMin(M), GetSignedMax(r))
        BY <3>9, <1>1, <1>3 DEF MakeICmpRegion
      <4>2. Contains(g, v) <=> Signed(M, v) <= Signed(M, GetSignedMax(r))
        BY <4>1, <2>1, <2>2, <1>1, RegionMembers
      <4>3. \A w \in Members(r) : Signed(M, v) <= Signed(M, w) => Signed(M, v) <= Signed(M, GetSignedMax(r))
        BY <2>1, <2>2, <3>3
      <4>4. \A w : Compares(p, v, w) <=> Signed(M, v) <= Signed(M, w)
        BY <3>9 DEF Compares
      <4>5. QED
        BY <4>2, <4>3, <4>4, <2>1
    <3>10. CASE p = "sgt"
      <4>1. g = Beyond(M, SignedMin(M), GetSignedMin(r))
        BY <3>10, <1>1, <1>3 DEF MakeICmpRegion
      <4>2. Contains(g, v) <=> Signed(M, v) > Signed(M, GetSignedMin(r))
        BY <4>1, <2>1, <2>2, <1>1, RegionMembers
      <4>3. \A w \in Members(r) : Signed(M, v) > Signed(M, w) => Signed(M, v) > Signed(M, GetSignedMin(r))
        BY <2>1, <2>2, <3>3
      <4>4. \A w : Compares(p, v, w) <=> Signed(M, v) > Signed(M, w)
        BY <3>10 DEF Compares
      <4>5. QED
        BY <4>2, <4>3, <4>4, <2>1
    <3>11. CASE p = "sge"
      <4>1. g = Onward(M, SignedMin(M), GetSignedMin(r))
        BY <3>11, <1>1, <1>3 DEF MakeICmpRegion
      <4>2. Contains(g, v) <=> Signed(M, v) >= Signed(M, GetSignedMin(r))
        BY <4>1, <2>1, <2>2, <1>1, RegionMembers
      <4>3. \A w \in Members(r) : Signed(M, v) >= Signed(M, w) => Signed(M, v) >= Signed(M, GetSignedMin(r))
        BY <2>1, <2>2, <3>3
      <4>4. \A w : Compares(p, v, w) <=> Signed(M, v) >= Signed(M, w)
        BY <3>11 DEF Compares
      <4>5. QED
        BY <4>2, <4>3, <4>4, <2>1
    <3>12. QED
      BY <3>1, <3>2, <3>4, <3>5, <3>6, <3>7, <3>8, <3>9, <3>10, <3>11 DEF Predicates
  <2>5. QED
    BY <2>3, <2>4, <1>1, RangeFacts DEF Members
<1>4. QED
  BY <1>2, <1>3

(* For a legal range each exactness property is one of the lemmas.         *)
LEMMA TypedContainsExact == TypeOK => ContainsExact
BY MModulus, ContainsRangeExact DEF TypeOK, ContainsExact

(* And so do those of an empty intersection,                               *)
LEMMA TypedDisjointExact == TypeOK => DisjointExact
BY MModulus, DisjointRanges DEF TypeOK, DisjointExact

(* of the four bounds of a range,                                          *)
LEMMA TypedBoundsExact == TypeOK => BoundsExact
BY MModulus, BoundsOfRange DEF TypeOK, BoundsExact

(* of the smallest hulls,                                                  *)
LEMMA TypedHullsSmallest == TypeOK => HullsSmallest
BY MModulus, IntersectSmallest, UnionSmallest DEF TypeOK, HullsSmallest, Smallest

(* of the regions of comparisons,                                          *)
LEMMA TypedRegionSmallest == TypeOK => RegionSmallest
BY MModulus, RegionExact, ComparesSound, CoversItself DEF TypeOK, RegionSmallest, Smallest

(* and of complements.                                                     *)
LEMMA TypedInverseExact == TypeOK => InverseExact
<1> SUFFICES ASSUME TypeOK PROVE InverseExact
  OBVIOUS
<1>1. M \in Moduli /\ acc \in Ranges(M)
  BY MModulus DEF TypeOK
<1>2. \A b \in Ranges(M) : Members(acc) \ Members(b) \subseteq Members(Difference(acc, b))
  <2>1. ASSUME NEW b \in Ranges(M), NEW v \in Members(acc) \ Members(b)
        PROVE  v \in Members(Difference(acc, b))
    BY <2>1, <1>1, InverseMembers, IntersectSound, RangeFacts DEF Members, Difference
  <2>2. QED
    BY <2>1
<1>3. QED
  BY <1>1, <1>2, InverseMembers DEF InverseExact

(* The range is legal and holds the value it stands for.                   *)
IInv == TypeOK /\ Sound

(* The first range contains the first value.                               *)
LEMMA InitIInv == Init => IInv
BY DEF Init, Known, IInv, TypeOK, Sound

(* One step of an operation of the passes, for any legal operand range and *)
(* any word in it (add, sub, multiply, udiv, intersectWith).               *)
LEMMA NextIInv == IInv /\ [Next]_vars => IInv'
<1> SUFFICES ASSUME IInv, [Next]_vars PROVE IInv'
  OBVIOUS
<1>1. acc \in Ranges(M) /\ val \in Word(M) /\ Contains(acc, val)
  BY DEF IInv, TypeOK, Sound
<1>2. ASSUME NEW p \in Known
      PROVE  p[1] \in Ranges(M) /\ p[2] \in Word(M) /\ Contains(p[1], p[2])
  BY <1>2 DEF Known
<1>3. CASE \E p \in Known : AddStep(p[1], p[2])
  <2>1. PICK p \in Known : AddStep(p[1], p[2])
    BY <1>3
  <2>2. val' \in Word(M)
    BY <2>1, <1>1, <1>2, MAssumption DEF AddStep, Plus, Word
  <2>3. acc' \in Ranges(M) /\ Contains(acc', val')
    BY <2>1, <1>1, <1>2, AddSound, MModulus DEF AddStep
  <2>4. QED
    BY <2>2, <2>3 DEF IInv, TypeOK, Sound
<1>4. CASE \E p \in Known : SubStep(p[1], p[2])
  <2>1. PICK p \in Known : SubStep(p[1], p[2])
    BY <1>4
  <2>2. val' \in Word(M)
    BY <2>1, <1>1, <1>2, MAssumption DEF SubStep, Minus, Word
  <2>3. acc' \in Ranges(M) /\ Contains(acc', val')
    BY <2>1, <1>1, <1>2, SubSound, MModulus DEF SubStep
  <2>4. QED
    BY <2>2, <2>3 DEF IInv, TypeOK, Sound
<1>5. CASE \E p \in Known : MulStep(p[1], p[2])
  <2>1. PICK p \in Known : MulStep(p[1], p[2])
    BY <1>5
  <2>2. val * p[2] \in Nat
    BY <1>1, <1>2, MAssumption DEF Word
  <2>3. val' \in Word(M)
    BY <2>1, <2>2, DivMod, MModulus DEF MulStep, Word
  <2>4. acc' \in Ranges(M) /\ Contains(acc', val')
    BY <2>1, <1>1, <1>2, MultiplySound, MModulus DEF MulStep
  <2>5. QED
    BY <2>3, <2>4 DEF IInv, TypeOK, Sound
<1>6. CASE \E p \in Known : UDivStep(p[1], p[2])
  <2>1. PICK p \in Known : UDivStep(p[1], p[2])
    BY <1>6
  <2>2. val \in Nat /\ p[2] \in Nat /\ p[2] >= 1
    BY <2>1, <1>1, <1>2, MAssumption DEF UDivStep, Word
  <2>3. val \div p[2] \in Nat /\ val \div p[2] <= val
    BY <2>2, QuotientBelow
  <2>4. val' \in Word(M)
    BY <2>1, <2>3, <1>1, MAssumption DEF UDivStep, Word
  <2>5. acc' \in Ranges(M) /\ Contains(acc', val')
    BY <2>1, <1>1, <1>2, UDivSound, MModulus DEF UDivStep
  <2>6. QED
    BY <2>4, <2>5 DEF IInv, TypeOK, Sound
<1>7. CASE \E b \in Ranges(M) : Meet(b)
  BY <1>7, <1>1, IntersectSound, MModulus DEF Meet, IInv, TypeOK, Sound
<1>8. CASE UNCHANGED vars
  BY <1>8 DEF vars, IInv, TypeOK, Sound
<1>9. QED
  BY <1>3, <1>4, <1>5, <1>6, <1>7, <1>8 DEF Next

(* The wider word is a whole number of turns of the narrower, and even.    *)
LEMMA DWraps == Wraps(M, D)
BY MModulus, MultipleWraps, WiderAssumption

(* One step of any operation on numbers: the larger of two words, a phi    *)
(* node, a branch, and sums at the wider word.                             *)
LEMMA NextNumberIInv == IInv /\ [NextNumber]_vars => IInv'
<1> SUFFICES ASSUME IInv, [NextNumber]_vars PROVE IInv'
  OBVIOUS
<1>1. M \in Moduli /\ M \in Nat /\ M >= 4 /\ D \in Nat /\ D > M
  BY MModulus, MAssumption, WiderAssumption
<1>2. acc \in Ranges(M) /\ acc.m = M /\ val \in Word(M) /\ Contains(acc, val) /\ val \in Members(acc)
  BY <1>1, RangeFacts DEF IInv, TypeOK, Sound, Members
<1>3. ASSUME NEW p \in Known
      PROVE  p[1] \in Ranges(M) /\ p[2] \in Word(M) /\ Contains(p[1], p[2]) /\ p[2] \in Members(p[1])
  BY <1>1, RangeFacts DEF Known, Members
<1> SUFFICES /\ acc' \in Ranges(M) /\ val' \in Word(M)
             /\ Contains(acc', val')
  BY DEF IInv, TypeOK, Sound
<1>4. CASE Next \/ UNCHANGED vars
  BY <1>4, NextIInv DEF IInv, TypeOK, Sound
<1>5. CASE \E p \in Known : UMaxStep(p[1], p[2])
  <2>1. PICK p \in Known : UMaxStep(p[1], p[2])
    BY <1>5
  <2>2. Greater(val, p[2]) \in Word(M)
    BY <1>2, <1>3 DEF Greater
  <2>3. QED
    BY <2>1, <2>2, <1>1, <1>2, <1>3, MaxSound DEF UMaxStep
<1>6. CASE \E p \in Known : SMaxStep(p[1], p[2])
  <2>1. PICK p \in Known : SMaxStep(p[1], p[2])
    BY <1>6
  <2>2. SGreater(M, val, p[2]) \in Word(M)
    BY <1>2, <1>3 DEF SGreater
  <2>3. QED
    BY <2>1, <2>2, <1>1, <1>2, <1>3, MaxSound DEF SMaxStep
<1>7. CASE \E w \in Word(M) : SubtractStep(w)
  <2>1. PICK w \in Word(M) : SubtractStep(w)
    BY <1>7
  <2>2. Minus(M, val, w) \in Word(M)
    BY <1>1, <1>2 DEF Minus, Word
  <2>3. QED
    BY <2>1, <2>2, <1>1, <1>2, SubtractSound DEF SubtractStep
<1>8. CASE \E p \in Known : PhiStep(p[1], p[2])
  <2>1. PICK p \in Known : PhiStep(p[1], p[2])
    BY <1>8
  <2>2. val' \in Members(acc) \cup Members(p[1]) /\ val' \in Word(M)
    BY <2>1, <1>2, <1>3 DEF PhiStep
  <2>3. QED
    BY <2>1, <2>2, <1>1, <1>2, <1>3, UnionSound DEF PhiStep, Members
<1>9. CASE \E q \in Predicates, p \in Known : BranchStep(q, p[1], p[2])
  <2>1. PICK q \in Predicates, p \in Known : BranchStep(q, p[1], p[2])
    BY <1>9
  <2>2. val \in Members(MakeICmpRegion(q, p[1])) /\ MakeICmpRegion(q, p[1]) \in Ranges(M)
    BY <2>1, <1>2, <1>3, RegionExact DEF BranchStep
  <2>3. Contains(MakeICmpRegion(q, p[1]), val)
    BY <2>2 DEF Members
  <2>4. QED
    BY <2>1, <2>2, <2>3, <1>1, <1>2, IntersectSound DEF BranchStep
<1>10. CASE \E q \in Predicates, w \in Word(M) : ConstantBranchStep(q, w)
  <2>1. PICK q \in Predicates, w \in Word(M) : ConstantBranchStep(q, w)
    BY <1>10
  <2>2. val \in Members(MakeConstantRange(q, M, w)) /\ MakeConstantRange(q, M, w) \in Ranges(M)
    BY <2>1, <1>2, ComparesSound DEF ConstantBranchStep
  <2>3. Contains(MakeConstantRange(q, M, w), val)
    BY <2>2 DEF Members
  <2>4. QED
    BY <2>1, <2>2, <2>3, <1>1, <1>2, IntersectSound DEF ConstantBranchStep
<1>11. ASSUME NEW p \in Wider, NEW r \in Ranges(D), NEW x \in Word(D), Contains(r, x)
       PROVE  /\ ZextOrTrunc(Add(r, p[1]), M) \in Ranges(M)
              /\ SextOrTrunc(Add(r, p[1]), M) \in Ranges(M)
              /\ (x + p[2]) % M \in Word(M)
              /\ Contains(ZextOrTrunc(Add(r, p[1]), M), (x + p[2]) % M)
              /\ Contains(SextOrTrunc(Add(r, p[1]), M), (x + p[2]) % M)
  <2>1. p[1] \in Ranges(D) /\ p[2] \in Word(D) /\ Contains(p[1], p[2])
    BY DEF Wider
  <2>2. D \in Moduli
    BY DWraps DEF Wraps
  <2>3. Add(r, p[1]) \in Ranges(D) /\ Contains(Add(r, p[1]), Plus(D, x, p[2]))
    BY <1>11, <2>1, <2>2, AddSound
  <2>4. /\ Plus(D, x, p[2]) \in Word(D)
        /\ Plus(D, x, p[2]) % M = (x + p[2]) % M
    BY <2>1, DWraps, PlusReduces
  <2>5. /\ Truncate(Add(r, p[1]), M) \in Ranges(M)
        /\ Contains(Truncate(Add(r, p[1]), M), (x + p[2]) % M)
    BY <2>3, <2>4, DWraps, NarrowSound
  <2>6. (x + p[2]) % M \in Word(M)
    BY <1>1, <2>1 DEF Word
  <2>7. Add(r, p[1]).m = D
    BY <2>2, <2>3, RangeFacts
  <2>8. QED
    BY <2>5, <2>6, <2>7, <1>1 DEF ZextOrTrunc, SextOrTrunc
<1>12. /\ ZextOrTrunc(acc, D) \in Ranges(D) /\ SextOrTrunc(acc, D) \in Ranges(D)
       /\ val \in Word(D) /\ Contains(ZextOrTrunc(acc, D), val)
       /\ SignExtended(M, D, val) \in Word(D)
       /\ Contains(SextOrTrunc(acc, D), SignExtended(M, D, val))
  BY <1>1, <1>2, DWraps, WidenSound DEF ZextOrTrunc, SextOrTrunc
<1>13. CASE \E p \in Wider : ZextStep(p[1], p[2])
  BY <1>11, <1>12, <1>13 DEF ZextStep
<1>14. CASE \E p \in Wider : SextStep(p[1], p[2])
  BY <1>11, <1>12, <1>14 DEF SextStep
<1>15. QED
  BY <1>4, <1>5, <1>6, <1>7, <1>8, <1>9, <1>10, <1>13, <1>14 DEF NextNumber

(* Extended and truncated again, a word is what it was; so is a range that *)
(* did not wrap.                                                           *)
LEMMA TypedTruncateExact == TypeOK => TruncateExact
<1> SUFFICES ASSUME TypeOK PROVE TruncateExact
  OBVIOUS
<1>1. M \in Moduli /\ acc \in Ranges(M) /\ acc.m = M
  BY MModulus, RangeFacts DEF TypeOK
<1>2. ASSUME NEW x \in Members(acc)
      PROVE  x \in Members(Truncate(ZeroExtend(acc, D), M)) \cap Members(Truncate(SignExtend(acc, D), M))
  <2>1. x \in Word(M) /\ Contains(acc, x)
    BY <1>1 DEF Members
  <2>2. SignExtended(M, D, x) % M = x /\ x % M = x
    <3>1. SignExtended(M, D, x) \in {x, D - M + x}
      BY <2>1, MAssumption, WiderAssumption DEF SignExtended, Signed, FromSigned, Word
    <3>2. QED
      BY <3>1, <2>1, DWraps, ModOfDifference
  <2>3. /\ ZeroExtend(acc, D) \in Ranges(D) /\ SignExtend(acc, D) \in Ranges(D)
        /\ x \in Word(D) /\ Contains(ZeroExtend(acc, D), x)
        /\ SignExtended(M, D, x) \in Word(D) /\ Contains(SignExtend(acc, D), SignExtended(M, D, x))
    BY <2>1, <1>1, DWraps, WidenSound
  <2>4. /\ Truncate(ZeroExtend(acc, D), M) \in Ranges(M)
        /\ Truncate(SignExtend(acc, D), M) \in Ranges(M)
        /\ Contains(Truncate(ZeroExtend(acc, D), M), x)
        /\ Contains(Truncate(SignExtend(acc, D), M), x)
    BY <2>2, <2>3, DWraps, NarrowSound
  <2>5. QED
    BY <2>1, <2>4, <1>1, RangeFacts DEF Members
<1>3. QED
  BY <1>1, <1>2, DWraps, RoundTrip, MultiplyTruncates DEF TruncateExact

(* The invariant of every behaviour with operations on numbers only.       *)
LEMMA NumberIInv == SpecNumber => []IInv
BY InitIInv, NextNumberIInv, PTL DEF SpecNumber

(* The operations of the passes are among those on numbers.                *)
LEMMA SpecIInv == Spec => []IInv
BY InitIInv, NextIInv, PTL DEF Spec

(* The range the compiler keeps is always a range its constructor accepts  *)
(* (the assertion of ConstantRange.cpp:46), for words of every width.      *)
THEOREM TypeCorrect == SpecNumber => []TypeOK
BY NumberIInv, PTL DEF IInv

(* The range the compiler keeps always contains the word the program       *)
(* computed, for words of every width and chains of every length.          *)
THEOREM RangeSoundness == SpecNumber => []Sound
BY NumberIInv, PTL DEF IInv

(* contains(range) is exactly set inclusion, whatever sequence of operations *)
(* led to the range (ConstantRange.cpp:222-238).                           *)
THEOREM ContainmentExact == SpecNumber => []ContainsExact
BY NumberIInv, TypedContainsExact, PTL DEF IInv

(* An empty intersection is reported exactly when the sets share no member *)
(* (ConstantRange.cpp:265-337).                                            *)
THEOREM DisjointnessExact == SpecNumber => []DisjointExact
BY NumberIInv, TypedDisjointExact, PTL DEF IInv

(* The four bounds of a range are members of it and enclose the others     *)
(* (ConstantRange.cpp:158-205).                                            *)
THEOREM BoundsAreMembers == SpecNumber => []BoundsExact
BY NumberIInv, TypedBoundsExact, PTL DEF IInv

(* No range smaller than intersectWith or unionWith returns would do       *)
(* (ConstantRange.cpp:265-419).                                            *)
THEOREM HullsAreSmallest == SpecNumber => []HullsSmallest
BY NumberIInv, TypedHullsSmallest, PTL DEF IInv

(* The region of a comparison has every word that may satisfy it, and no   *)
(* smaller range has (ConstantRange.cpp:70-141).                           *)
THEOREM RegionsAreSmallest == SpecNumber => []RegionSmallest
BY NumberIInv, TypedRegionSmallest, PTL DEF IInv

(* The complement has exactly the other words, and a difference loses none *)
(* (ConstantRange.cpp:254-259, 715-721).                                   *)
THEOREM ComplementExact == SpecNumber => []InverseExact
BY NumberIInv, TypedInverseExact, PTL DEF IInv

(* multiply is truncate on the product at twice the width, and a range that *)
(* does not wrap survives a wider word (ConstantRange.cpp:423-519).        *)
THEOREM ConversionsExact == SpecNumber => []TruncateExact
BY NumberIInv, TypedTruncateExact, PTL DEF IInv
=============================================================================
