--------------------------- MODULE Ranges_proofs ----------------------------
(***************************************************************************)
(* What the operations of ConstantRange return, what the conversions       *)
(* between texts and ranges preserve, and what the predicates say, for     *)
(* words, int and long of every width.  The proofs about the passes cite   *)
(* these lemmas by name.                                                   *)
(***************************************************************************)
EXTENDS RangeConversions, AcslText, Predicates, TLAPS, WellFoundedInduction

(* A set of numbers that is not empty has a least one.                     *)
LEMMA LeastNumber ==
    ASSUME NEW T \in SUBSET Nat, T # {}
    PROVE  \E n \in T : \A k \in T : n <= k
<1>1. PICK n \in T : \A k \in T : ~(<<k, n>> \in OpToRel(<, Nat))
  BY NatLessThanWellFounded, WFMin
<1>2. \A k \in T : ~(k < n)
  BY <1>1 DEF OpToRel
<1>3. QED
  BY <1>2

(* Powers of two above two are moduli; the proofs need less of them.       *)
Moduli == {m \in Nat : m >= 4 /\ m % 2 = 0}

(* The bounds of a legal range are words, and equal bounds mean the empty  *)
(* set or the full set.                                                    *)
LEMMA RangeFacts ==
    ASSUME NEW m \in Moduli, NEW r \in Ranges(m)
    PROVE  /\ r = MkRange(m, r.lo, r.hi)
           /\ r.m = m /\ r.lo \in 0 .. m - 1 /\ r.hi \in 0 .. m - 1
           /\ r.lo = r.hi => r.lo = 0 \/ r.lo = m - 1
BY DEF Ranges, MkRange, Word, Legal

(* Bounds the constructor accepts make a legal range.                      *)
LEMMA MkRangeLegal ==
    ASSUME NEW m \in Moduli, NEW l \in Word(m), NEW h \in Word(m), Legal(m, l, h)
    PROVE  MkRange(m, l, h) \in Ranges(m)
BY DEF Ranges, MkRange

(* The two sets of equal bounds are legal.                                 *)
LEMMA EmptyFullLegal ==
    ASSUME NEW m \in Moduli
    PROVE  EmptySet(m) \in Ranges(m) /\ FullSet(m) \in Ranges(m)
BY DEF Moduli, EmptySet, FullSet, Ranges, MkRange, Legal, Word

(* A word lies in a proper range exactly when its distance from the lower  *)
(* bound is below the size of the range, wrapped or not.                   *)
LEMMA ContainsOffset ==
    ASSUME NEW m \in Moduli, NEW r \in Ranges(m), NEW v \in Word(m), r.lo # r.hi
    PROVE  Contains(r, v) <=> Minus(m, v, r.lo) < Minus(m, r.hi, r.lo)
BY RangeFacts DEF Moduli, Contains, IsWrappedSet, Minus, Word

(* The full set has every word, the empty set none.                        *)
LEMMA FullContains ==
    ASSUME NEW m \in Moduli, NEW v
    PROVE  Contains(FullSet(m), v) /\ ~Contains(EmptySet(m), v)
BY DEF Moduli, Contains, FullSet, EmptySet, MkRange, IsFullSet

(* The distance of a sum from a sum of lower bounds, and the size of the   *)
(* range between the sums of the bounds, before and after wrapping.        *)
LEMMA AddOffsets ==
    ASSUME NEW m \in Moduli,
           NEW al \in Word(m), NEW ah \in Word(m), NEW bl \in Word(m), NEW bh \in Word(m),
           NEW x \in Word(m), NEW y \in Word(m),
           Minus(m, x, al) < Minus(m, ah, al), Minus(m, y, bl) < Minus(m, bh, bl),
           Minus(m, Minus(m, Plus(m, ah, bh), 1), Plus(m, al, bl)) >= Minus(m, ah, al)
    PROVE  Minus(m, Plus(m, x, y), Plus(m, al, bl))
               < Minus(m, Minus(m, Plus(m, ah, bh), 1), Plus(m, al, bl))
BY SMTT(30) DEF Plus, Minus, Word, Moduli

(* add keeps every sum x + y of a member of each operand.                  *)
LEMMA AddSound ==
    ASSUME NEW m \in Moduli, NEW a \in Ranges(m), NEW b \in Ranges(m)
    PROVE  /\ Add(a, b) \in Ranges(m)
           /\ \A x, y \in Word(m) :
                Contains(a, x) /\ Contains(b, y) => Contains(Add(a, b), Plus(m, x, y))
<1> DEFINE l == Plus(m, a.lo, b.lo)
           h == Minus(m, Plus(m, a.hi, b.hi), 1)
<1>1. a.m = m /\ a.lo \in 0 .. m - 1 /\ a.hi \in 0 .. m - 1
  BY RangeFacts
<1>2. b.m = m /\ b.lo \in 0 .. m - 1 /\ b.hi \in 0 .. m - 1
  BY RangeFacts
<1>3. l \in Word(m) /\ h \in Word(m)
  BY <1>1, <1>2 DEF Moduli, Plus, Minus, Word
<1>4. Add(a, b) \in Ranges(m)
  BY <1>1, <1>2, <1>3, EmptyFullLegal, MkRangeLegal DEF Add, SpreadOrFull, Legal
<1>5. ASSUME NEW x \in Word(m), NEW y \in Word(m), Contains(a, x), Contains(b, y)
      PROVE  Contains(Add(a, b), Plus(m, x, y))
  <2>1. CASE IsFullSet(a) \/ IsFullSet(b) \/ Add(a, b) = FullSet(m)
    BY <2>1, <1>1, <1>2, <1>5, FullContains
    DEF Moduli, Add, Contains, IsEmptySet, IsFullSet
  <2>2. CASE ~IsFullSet(a) /\ ~IsFullSet(b) /\ Add(a, b) # FullSet(m)
    <3>1. a.lo # a.hi /\ b.lo # b.hi
      BY <2>2, <1>5 DEF Contains
    <3>2. /\ Add(a, b) = MkRange(m, l, h)
          /\ l # h
          /\ ~(SetSize(MkRange(m, l, h)) < SetSize(a))
      BY <2>2, <3>1, <1>1, <1>2 DEF Add, SpreadOrFull, IsEmptySet
    <3>3. Minus(m, h, l) >= Minus(m, a.hi, a.lo)
      BY <3>1, <3>2, <1>1, <1>3
      DEF Moduli, SetSize, MkRange, IsFullSet, Minus, Word
    <3>4. Minus(m, x, a.lo) < Minus(m, a.hi, a.lo) /\ Minus(m, y, b.lo) < Minus(m, b.hi, b.lo)
      BY <3>1, <1>5, ContainsOffset
    <3>5. /\ Minus(m, a.hi, a.lo) \in Word(m) /\ Minus(m, b.hi, b.lo) \in Word(m)
          /\ Plus(m, x, y) \in Word(m)
      BY <1>1, <1>2 DEF Moduli, Minus, Plus, Word
    <3>6. Minus(m, Plus(m, x, y), l) < Minus(m, h, l)
      BY <3>3, <3>4, <3>5, <1>1, <1>2, AddOffsets DEF Word
    <3>7. QED
      BY <3>2, <3>5, <3>6, <1>4, ContainsOffset DEF MkRange
  <2>3. QED
    BY <2>1, <2>2
<1>6. QED
  BY <1>4, <1>5

(* The same for a difference of words and of bounds.                       *)
LEMMA SubOffsets ==
    ASSUME NEW m \in Moduli,
           NEW al \in Word(m), NEW ah \in Word(m), NEW bl \in Word(m), NEW bh \in Word(m),
           NEW x \in Word(m), NEW y \in Word(m),
           Minus(m, x, al) < Minus(m, ah, al), Minus(m, y, bl) < Minus(m, bh, bl),
           Minus(m, Minus(m, ah, bl), Plus(m, Minus(m, al, bh), 1)) >= Minus(m, ah, al)
    PROVE  Minus(m, Minus(m, x, y), Plus(m, Minus(m, al, bh), 1))
               < Minus(m, Minus(m, ah, bl), Plus(m, Minus(m, al, bh), 1))
BY SMTT(30) DEF Plus, Minus, Word, Moduli

(* sub keeps every difference x - y of a member of each operand.           *)
LEMMA SubSound ==
    ASSUME NEW m \in Moduli, NEW a \in Ranges(m), NEW b \in Ranges(m)
    PROVE  /\ Sub(a, b) \in Ranges(m)
           /\ \A x, y \in Word(m) :
                Contains(a, x) /\ Contains(b, y) => Contains(Sub(a, b), Minus(m, x, y))
<1> DEFINE l == Plus(m, Minus(m, a.lo, b.hi), 1)
           h == Minus(m, a.hi, b.lo)
<1>1. a.m = m /\ a.lo \in 0 .. m - 1 /\ a.hi \in 0 .. m - 1
  BY RangeFacts
<1>2. b.m = m /\ b.lo \in 0 .. m - 1 /\ b.hi \in 0 .. m - 1
  BY RangeFacts
<1>3. l \in Word(m) /\ h \in Word(m)
  BY <1>1, <1>2 DEF Moduli, Plus, Minus, Word
<1>4. Sub(a, b) \in Ranges(m)
  BY <1>1, <1>2, <1>3, EmptyFullLegal, MkRangeLegal DEF Sub, SpreadOrFull, Legal
<1>5. ASSUME NEW x \in Word(m), NEW y \in Word(m), Contains(a, x), Contains(b, y)
      PROVE  Contains(Sub(a, b), Minus(m, x, y))
  <2>1. CASE IsFullSet(a) \/ IsFullSet(b) \/ Sub(a, b) = FullSet(m)
    BY <2>1, <1>1, <1>2, <1>5, FullContains
    DEF Moduli, Sub, Contains, IsEmptySet, IsFullSet
  <2>2. CASE ~IsFullSet(a) /\ ~IsFullSet(b) /\ Sub(a, b) # FullSet(m)
    <3>1. a.lo # a.hi /\ b.lo # b.hi
      BY <2>2, <1>5 DEF Contains
    <3>2. /\ Sub(a, b) = MkRange(m, l, h)
          /\ l # h
          /\ ~(SetSize(MkRange(m, l, h)) < SetSize(a))
      BY <2>2, <3>1, <1>1, <1>2 DEF Sub, SpreadOrFull, IsEmptySet
    <3>3. Minus(m, h, l) >= Minus(m, a.hi, a.lo)
      BY <3>1, <3>2, <1>1, <1>3
      DEF Moduli, SetSize, MkRange, IsFullSet, Minus, Word
    <3>4. Minus(m, x, a.lo) < Minus(m, a.hi, a.lo) /\ Minus(m, y, b.lo) < Minus(m, b.hi, b.lo)
      BY <3>1, <1>5, ContainsOffset
    <3>5. /\ Minus(m, a.hi, a.lo) \in Word(m) /\ Minus(m, b.hi, b.lo) \in Word(m)
          /\ Minus(m, x, y) \in Word(m)
      BY <1>1, <1>2 DEF Moduli, Minus, Plus, Word
    <3>6. Minus(m, Minus(m, x, y), l) < Minus(m, h, l)
      BY <3>3, <3>4, <3>5, <1>1, <1>2, SubOffsets DEF Word
    <3>7. QED
      BY <3>2, <3>5, <3>6, <1>4, ContainsOffset DEF MkRange
  <2>3. QED
    BY <2>1, <2>2
<1>6. QED
  BY <1>4, <1>5

(* The unsigned bounds enclose every member of a range.                    *)
LEMMA UnsignedBounds ==
    ASSUME NEW m \in Moduli, NEW r \in Ranges(m), NEW x \in Word(m), Contains(r, x)
    PROVE  /\ UnsignedMin(r) \in Word(m) /\ UnsignedMax(r) \in Word(m)
           /\ UnsignedMin(r) <= x /\ x <= UnsignedMax(r)
BY RangeFacts
DEF Moduli, Contains, UnsignedMin, UnsignedMax, IsFullSet, IsWrappedSet, Minus, Word

(* A range with a member is not the empty set.                             *)
LEMMA EmptyHasNoMember ==
    ASSUME NEW m \in Moduli, NEW r \in Ranges(m), NEW x, Contains(r, x)
    PROVE  ~IsEmptySet(r)
BY RangeFacts DEF Moduli, Contains, IsEmptySet, IsFullSet

(* intersectWith keeps every common member, and an empty result means that *)
(* there is none.                                                          *)
LEMMA IntersectSound ==
    ASSUME NEW m \in Moduli, NEW a \in Ranges(m), NEW b \in Ranges(m)
    PROVE  /\ IntersectWith(a, b) \in Ranges(m)
           /\ \A x \in Word(m) :
                Contains(a, x) /\ Contains(b, x) => Contains(IntersectWith(a, b), x)
<1>1. /\ a.m = m /\ a.lo \in 0 .. m - 1 /\ a.hi \in 0 .. m - 1
      /\ a.lo = a.hi => a.lo = 0 \/ a.lo = m - 1
  BY RangeFacts
<1>2. /\ b.m = m /\ b.lo \in 0 .. m - 1 /\ b.hi \in 0 .. m - 1
      /\ b.lo = b.hi => b.lo = 0 \/ b.lo = m - 1
  BY RangeFacts
<1>3. Smaller(a, b) \in {a, b} /\ Smaller(b, a) \in {a, b}
  BY DEF Smaller
<1>4. ASSUME NEW c \in Ranges(m), NEW d \in Ranges(m), IsWrappedSet(c)
      PROVE  /\ IntersectWrapped(c, d) \in Ranges(m)
             /\ \A x \in Word(m) :
                  Contains(c, x) /\ Contains(d, x) => Contains(IntersectWrapped(c, d), x)
  <2>1. c.m = m /\ c.lo \in 0 .. m - 1 /\ c.hi \in 0 .. m - 1
    BY RangeFacts
  <2>2. /\ d.m = m /\ d.lo \in 0 .. m - 1 /\ d.hi \in 0 .. m - 1
        /\ d.lo = d.hi => d.lo = 0 \/ d.lo = m - 1
    BY RangeFacts
  <2>3. Smaller(c, d) = c \/ Smaller(c, d) = d
    BY DEF Smaller
  <2>4. IntersectWrapped(c, d) \in Ranges(m)
    BY <1>4, <2>1, <2>2, <2>3, EmptyFullLegal, MkRangeLegal
    DEF Moduli, IntersectWrapped, IsWrappedSet, Legal, Word
  <2>5. ASSUME NEW x \in Word(m), Contains(c, x), Contains(d, x)
        PROVE  Contains(IntersectWrapped(c, d), x)
    BY <1>4, <2>1, <2>2, <2>3, <2>5
    DEF Moduli, IntersectWrapped, IsWrappedSet, Contains, IsFullSet, MkRange, EmptySet, Word
  <2>6. QED
    BY <2>4, <2>5
<1>5. ASSUME ~IsWrappedSet(a), ~IsWrappedSet(b), a.lo # a.hi, b.lo # b.hi
      PROVE  /\ IntersectPlain(a, b) \in Ranges(m)
             /\ \A x \in Word(m) :
                  Contains(a, x) /\ Contains(b, x) => Contains(IntersectPlain(a, b), x)
  <2>1. IntersectPlain(a, b) \in Ranges(m)
    BY <1>1, <1>2, <1>5, EmptyFullLegal, MkRangeLegal
    DEF Moduli, IntersectPlain, IsWrappedSet, Legal, Word
  <2>2. ASSUME NEW x \in Word(m), Contains(a, x), Contains(b, x)
        PROVE  Contains(IntersectPlain(a, b), x)
    BY <1>1, <1>2, <1>5, <2>2
    DEF Moduli, IntersectPlain, IsWrappedSet, Contains, IsFullSet, MkRange, EmptySet, Word
  <2>3. QED
    BY <2>1, <2>2
<1>6. QED
  BY <1>1, <1>2, <1>4, <1>5 DEF IntersectWith, IsEmptySet, IsFullSet, Contains

(* Integer division by m, as quotient and remainder.                       *)
LEMMA DivMod ==
    ASSUME NEW m \in Moduli, NEW n \in Nat
    PROVE  /\ n \div m \in Nat /\ n % m \in 0 .. m - 1
           /\ n = m * (n \div m) + (n % m)
BY DEF Moduli

(* The remainder is the only number of 0 .. m - 1 that differs from n by a *)
(* multiple of m.                                                          *)
LEMMA ModUnique ==
    ASSUME NEW m \in Moduli, NEW n \in Int, NEW q \in Int, n - m * q \in 0 .. m - 1
    PROVE  n % m = n - m * q
<1> DEFINE e == n \div m
<1>1. n = m * e + (n % m) /\ n % m \in 0 .. m - 1 /\ e \in Int
  BY DEF Moduli
<1> HIDE DEF e
<1>2. m * e - m * q < m /\ m * q - m * e < m
  BY <1>1 DEF Moduli
<1>3. m * (e - q) < m /\ m * (q - e) < m
  BY <1>1, <1>2 DEF Moduli
<1>4. ASSUME NEW k \in Int, k >= 1 PROVE m * k >= m
  BY <1>4 DEF Moduli
<1>5. e = q
  BY <1>1, <1>3, <1>4 DEF Moduli
<1>6. n = m * q + (n % m) /\ m * q \in Int
  BY <1>1, <1>5 DEF Moduli
<1>7. QED
  BY <1>1, <1>6 DEF Moduli

(* A product grows with its factors.                                       *)
LEMMA ProductMonotone ==
    ASSUME NEW x \in Nat, NEW y \in Nat, NEW u \in Nat, NEW v \in Nat, x <= u, y <= v
    PROVE  x * y <= u * v
<1>1. x * y <= u * y
  OBVIOUS
<1>2. u * y <= u * v
  OBVIOUS
<1>3. QED
  BY <1>1, <1>2

(* A product range truncated to the word keeps every product modulo m.     *)
LEMMA TruncateSound ==
    ASSUME NEW m \in Moduli, NEW l \in Nat, NEW h \in Nat, l < h
    PROVE  /\ TruncateProduct(m, l, h) \in Ranges(m)
           /\ \A p \in Nat : l <= p /\ p < h => Contains(TruncateProduct(m, l, h), p % m)
<1> DEFINE div == IF l >= m - 1 THEN l \div m ELSE 0
           lo  == l - m * div
           hi  == h - m * div
<1>1. div \in Nat /\ lo \in 0 .. m - 1 /\ hi \in Nat /\ lo < hi
  <2>1. CASE l >= m - 1
    BY <2>1, DivMod DEF Moduli
  <2>2. CASE ~(l >= m - 1)
    BY <2>2 DEF Moduli
  <2>3. QED
    BY <2>1, <2>2
<1>2. TruncateProduct(m, l, h) = IF hi <= m - 1 THEN MkRange(m, lo, hi)
                                 ELSE IF hi - m < lo THEN MkRange(m, lo, hi - m)
                                 ELSE FullSet(m)
  BY DEF TruncateProduct
<1> HIDE DEF div
<1>3. TruncateProduct(m, l, h) \in Ranges(m)
  BY <1>1, <1>2, EmptyFullLegal, MkRangeLegal DEF Moduli, Legal, Word
<1>4. ASSUME NEW p \in Nat, l <= p, p < h
      PROVE  Contains(TruncateProduct(m, l, h), p % m)
  <2> DEFINE q == p - m * div
  <2>1. q \in Nat /\ lo <= q /\ q < hi
    BY <1>1, <1>4 DEF Moduli
  <2>2. CASE hi <= m - 1
    <3>1. p - m * div \in 0 .. m - 1 /\ div \in Int
      BY <2>1, <2>2, <1>1 DEF Moduli
    <3>2. p % m = q
      BY <3>1, ModUnique
    <3>3. QED
      BY <2>1, <2>2, <3>2, <1>1, <1>2 DEF Contains, MkRange, IsWrappedSet
  <2>3. CASE hi > m - 1 /\ hi - m < lo
    <3>1. CASE q < m
      <4>1. p - m * div \in 0 .. m - 1 /\ div \in Int
        BY <3>1, <2>1, <1>1 DEF Moduli
      <4>2. p % m = q
        BY <4>1, ModUnique
      <4>3. QED
        BY <2>1, <2>3, <4>2, <1>1, <1>2
        DEF Moduli, Contains, MkRange, IsWrappedSet
    <3>2. CASE q >= m
      <4>1. /\ q - m = p - m * (div + 1) /\ div + 1 \in Int
            /\ p - m * (div + 1) \in 0 .. m - 1
        BY <3>2, <2>1, <2>3, <1>1 DEF Moduli
      <4>2. p % m = q - m
        BY <4>1, ModUnique
      <4>3. QED
        BY <2>1, <2>3, <3>2, <4>2, <1>1, <1>2
        DEF Moduli, Contains, MkRange, IsWrappedSet
    <3>3. QED
      BY <3>1, <3>2, <2>1 DEF Moduli
  <2>4. CASE hi > m - 1 /\ ~(hi - m < lo)
    BY <2>4, <1>1, <1>2, FullContains DEF Moduli
  <2>5. QED
    BY <2>2, <2>3, <2>4, <1>1 DEF Moduli
<1>5. QED
  BY <1>3, <1>4

(* multiply keeps every product x * y modulo the word.                     *)
LEMMA MultiplySound ==
    ASSUME NEW m \in Moduli, NEW a \in Ranges(m), NEW b \in Ranges(m)
    PROVE  \A x, y \in Word(m) :
             Contains(a, x) /\ Contains(b, y) =>
                 /\ Multiply(a, b) \in Ranges(m)
                 /\ Contains(Multiply(a, b), (x * y) % m)
<1> SUFFICES ASSUME NEW x \in Word(m), NEW y \in Word(m), Contains(a, x), Contains(b, y)
             PROVE  /\ Multiply(a, b) \in Ranges(m)
                    /\ Contains(Multiply(a, b), (x * y) % m)
  OBVIOUS
<1> DEFINE l == UnsignedMin(a) * UnsignedMin(b)
           h == UnsignedMax(a) * UnsignedMax(b) + 1
<1>1. /\ UnsignedMin(a) \in Nat /\ UnsignedMax(a) \in Nat
      /\ UnsignedMin(a) <= x /\ x <= UnsignedMax(a)
      /\ UnsignedMin(b) \in Nat /\ UnsignedMax(b) \in Nat
      /\ UnsignedMin(b) <= y /\ y <= UnsignedMax(b)
      /\ x \in Nat /\ y \in Nat
  BY UnsignedBounds DEF Moduli, Word
<1>2. l <= x * y /\ x * y < h /\ l \in Nat /\ h \in Nat /\ x * y \in Nat
  BY <1>1, ProductMonotone
<1>3. Multiply(a, b) = TruncateProduct(m, l, h)
  BY EmptyHasNoMember, RangeFacts DEF Multiply
<1>4. QED
  BY <1>2, <1>3, TruncateSound

(* A quotient grows with its dividend and shrinks with its divisor.        *)
LEMMA DivMonotone ==
    ASSUME NEW x \in Nat, NEW u \in Nat, x <= u,
           NEW y \in Nat, NEW d \in Nat, d >= 1, d <= y
    PROVE  x \div y \in Nat /\ u \div d \in Nat /\ x \div y <= u \div d
<1> DEFINE q == x \div y
           e == u \div d
<1>1. /\ q \in Nat /\ x % y \in Nat /\ x = y * q + (x % y)
      /\ e \in Nat /\ u % d \in 0 .. d - 1 /\ u = d * e + (u % d)
  OBVIOUS
<1> HIDE DEF q, e
<1>2. d * q <= y * q
  BY <1>1, ProductMonotone
<1>3. d * q < d * (e + 1)
  BY <1>1, <1>2
<1>4. ASSUME q >= e + 1 PROVE d * (e + 1) <= d * q
  BY <1>1, <1>4, ProductMonotone
<1>5. q <= e
  BY <1>1, <1>3, <1>4
<1>6. QED
  BY <1>1, <1>5 DEF q, e

(* A quotient is at most its dividend.                                     *)
LEMMA QuotientBelow ==
    ASSUME NEW x \in Nat, NEW y \in Nat, y >= 1
    PROVE  x \div y \in Nat /\ x \div y <= x
<1> DEFINE q == x \div y
<1>1. q \in Nat /\ x % y \in Nat /\ x = y * q + (x % y)
  OBVIOUS
<1> HIDE DEF q
<1>2. 1 * q <= y * q
  BY <1>1, ProductMonotone
<1>3. QED
  BY <1>1, <1>2 DEF q

(* udiv keeps every quotient x \div y by a divisor other than zero.        *)
LEMMA UDivSound ==
    ASSUME NEW m \in Moduli, NEW a \in Ranges(m), NEW b \in Ranges(m)
    PROVE  \A x, y \in Word(m) :
             Contains(a, x) /\ Contains(b, y) /\ y # 0 =>
                 /\ UDiv(a, b) \in Ranges(m)
                 /\ Contains(UDiv(a, b), x \div y)
<1> SUFFICES ASSUME NEW x \in Word(m), NEW y \in Word(m),
                    Contains(a, x), Contains(b, y), y # 0
             PROVE  UDiv(a, b) \in Ranges(m) /\ Contains(UDiv(a, b), x \div y)
  OBVIOUS
<1> DEFINE umin == IF UnsignedMin(b) # 0 THEN UnsignedMin(b)
                   ELSE IF b.hi = 1 THEN b.lo ELSE 1
           l    == UnsignedMin(a) \div UnsignedMax(b)
           q    == UnsignedMax(a) \div umin
           h    == Plus(m, q, 1)
<1>1. /\ a.m = m /\ a.lo \in 0 .. m - 1 /\ a.hi \in 0 .. m - 1
      /\ b.m = m /\ b.lo \in 0 .. m - 1 /\ b.hi \in 0 .. m - 1
      /\ b.lo = b.hi => b.lo = 0 \/ b.lo = m - 1
  BY RangeFacts
<1>2. /\ UnsignedMin(a) \in Nat /\ UnsignedMax(a) \in 0 .. m - 1
      /\ UnsignedMin(a) <= x /\ x <= UnsignedMax(a)
      /\ UnsignedMin(b) \in Nat /\ UnsignedMax(b) \in 0 .. m - 1
      /\ UnsignedMin(b) <= y /\ y <= UnsignedMax(b)
      /\ x \in Nat /\ y \in Nat /\ y >= 1
  BY UnsignedBounds DEF Moduli, Word
<1>3. umin \in Nat /\ umin >= 1 /\ umin <= y
  BY <1>1, <1>2
  DEF Moduli, Contains, UnsignedMin, IsFullSet, IsWrappedSet, Word
<1> HIDE DEF umin
<1>4. UnsignedMax(b) \in Nat /\ UnsignedMax(b) >= 1 /\ UnsignedMax(a) \in Nat
  BY <1>2 DEF Moduli
<1>5. l \in Nat /\ x \div y \in Nat /\ l <= x \div y
  BY <1>2, <1>4, DivMonotone
<1>6. q \in Nat /\ x \div y <= q
  BY <1>2, <1>3, <1>4, DivMonotone
<1>7. q <= m - 1
  <2>1. UnsignedMax(a) \div 1 = UnsignedMax(a)
    BY <1>2
  <2>2. q <= UnsignedMax(a) \div 1
    BY <1>3, <1>4, DivMonotone
  <2> HIDE DEF q
  <2>3. QED
    BY <2>1, <2>2, <1>2, <1>6 DEF Moduli
<1>8. UDiv(a, b) = IF IsFullSet(b) \/ l = h THEN FullSet(m) ELSE MkRange(m, l, h)
  BY <1>1, <1>2, EmptyHasNoMember DEF UDiv, umin
<1> HIDE DEF l, q
<1>9. UDiv(a, b) \in Ranges(m)
  BY <1>5, <1>6, <1>7, <1>8, EmptyFullLegal, MkRangeLegal
  DEF Moduli, Plus, Legal, Word
<1>10. Contains(UDiv(a, b), x \div y)
  <2>1. CASE IsFullSet(b) \/ l = h
    BY <2>1, <1>8, FullContains
  <2>2. CASE ~(IsFullSet(b) \/ l = h)
    BY <2>2, <1>5, <1>6, <1>7, <1>8
    DEF Moduli, Contains, MkRange, IsWrappedSet, Plus
  <2>3. QED
    BY <2>1, <2>2
<1>11. QED
  BY <1>9, <1>10

-----------------------------------------------------------------------------

(* The lower bound of a range that is not empty is a member.               *)
LEMMA LowerMember ==
    ASSUME NEW m \in Moduli, NEW r \in Ranges(m), ~IsEmptySet(r)
    PROVE  r.lo \in Word(m) /\ Contains(r, r.lo)
BY RangeFacts DEF Moduli, Contains, IsFullSet, IsWrappedSet, IsEmptySet, Word

(* contains(range) is set inclusion: if the ends of both ranges do not tell *)
(* them apart, no word does (ConstantRange.cpp:222).                       *)
LEMMA ContainsRangeExact ==
    ASSUME NEW m \in Moduli, NEW a \in Ranges(m), NEW b \in Ranges(m)
    PROVE  ContainsRange(b, a) <=> Members(a) \subseteq Members(b)
<1>1. /\ a.m = m /\ a.lo \in 0 .. m - 1 /\ a.hi \in 0 .. m - 1
      /\ a.lo = a.hi => a.lo = 0 \/ a.lo = m - 1
  BY RangeFacts
<1>2. /\ b.m = m /\ b.lo \in 0 .. m - 1 /\ b.hi \in 0 .. m - 1
      /\ b.lo = b.hi => b.lo = 0 \/ b.lo = m - 1
  BY RangeFacts
<1>3. ASSUME ContainsRange(b, a), NEW x \in Members(a)
      PROVE  x \in Members(b)
  BY <1>1, <1>2, <1>3
  DEF ContainsRange, Members, Contains, IsEmptySet, IsFullSet, IsWrappedSet, Moduli, Word
<1>4. ASSUME Members(a) \subseteq Members(b)
      PROVE  ContainsRange(b, a)
  <2>1. \A c \in {a.lo, Minus(m, a.hi, 1), b.hi, Minus(m, b.lo, 1)} :
            c \in Word(m) /\ (Contains(a, c) => Contains(b, c))
    BY <1>1, <1>2, <1>4 DEF Members, Minus, Moduli, Word
  <2>2. QED
    BY <2>1, <1>1, <1>2
    DEF ContainsRange, Contains, IsEmptySet, IsFullSet, IsWrappedSet, Minus, Moduli
<1>5. QED
  BY <1>3, <1>4

(* intersectWith is empty exactly for ranges with no common member.        *)
LEMMA DisjointRanges ==
    ASSUME NEW m \in Moduli, NEW a \in Ranges(m), NEW b \in Ranges(m)
    PROVE  IsEmptySet(IntersectWith(a, b)) <=> Members(a) \cap Members(b) = {}
<1>1. /\ a.m = m /\ a.lo \in 0 .. m - 1 /\ a.hi \in 0 .. m - 1
      /\ a.lo = a.hi => a.lo = 0 \/ a.lo = m - 1
  BY RangeFacts
<1>2. /\ b.m = m /\ b.lo \in 0 .. m - 1 /\ b.hi \in 0 .. m - 1
      /\ b.lo = b.hi => b.lo = 0 \/ b.lo = m - 1
  BY RangeFacts
<1>3. ASSUME IsEmptySet(IntersectWith(a, b)), NEW x \in Members(a) \cap Members(b)
      PROVE  FALSE
  BY <1>1, <1>2, <1>3, IntersectSound, EmptyHasNoMember DEF Members
<1>4. ASSUME Members(a) \cap Members(b) = {}
      PROVE  IsEmptySet(IntersectWith(a, b))
  <2>1. ~(Contains(a, a.lo) /\ Contains(b, a.lo)) /\ ~(Contains(a, b.lo) /\ Contains(b, b.lo))
    BY <1>1, <1>2, <1>4 DEF Members, Word
  <2>2. QED
    BY <2>1, <1>1, <1>2
    DEF IntersectWith, IntersectPlain, IntersectWrapped, Smaller, EmptySet, MkRange,
        Contains, IsEmptySet, IsFullSet, IsWrappedSet, Moduli
<1>5. QED
  BY <1>3, <1>4

(* The unsigned and the signed bounds of a range are members, and enclose  *)
(* all members.                                                            *)
LEMMA BoundsOfRange ==
    ASSUME NEW m \in Moduli, NEW r \in Ranges(m), ~IsEmptySet(r)
    PROVE  /\ \A c \in {UnsignedMin(r), UnsignedMax(r), GetSignedMin(r), GetSignedMax(r)} : c \in Members(r)
           /\ \A v \in Members(r) :
                /\ UnsignedMin(r) <= v /\ v <= UnsignedMax(r)
                /\ Signed(m, GetSignedMin(r)) <= Signed(m, v)
                /\ Signed(m, v) <= Signed(m, GetSignedMax(r))
<1>1. /\ r.m = m /\ r.lo \in 0 .. m - 1 /\ r.hi \in 0 .. m - 1
      /\ r.lo = r.hi => r.lo = m - 1
  BY RangeFacts DEF IsEmptySet
<1>2. PICK s \in Int : m = 2 * s /\ SignedMin(m) = s /\ SignedMax(m) = s - 1
  BY DEF Moduli, SignedMin, SignedMax
<1>3. UnsignedMin(r) \in Members(r) /\ UnsignedMax(r) \in Members(r)
  BY <1>1 DEF UnsignedMin, UnsignedMax, Members, Contains, IsFullSet, IsWrappedSet, Minus, Moduli, Word
<1>4. GetSignedMin(r) \in Members(r)
  BY <1>1, <1>2 DEF GetSignedMin, Members, Contains, IsFullSet, IsWrappedSet, Minus, Moduli, Word, Signed
<1>5. GetSignedMax(r) \in Members(r)
  BY <1>1, <1>2 DEF GetSignedMax, Members, Contains, IsFullSet, IsWrappedSet, Minus, Moduli, Word, Signed, IsNegative
<1>6. ASSUME NEW v \in Members(r)
      PROVE  UnsignedMin(r) <= v /\ v <= UnsignedMax(r)
  BY <1>1 DEF UnsignedMin, UnsignedMax, Members, Contains, IsFullSet, IsWrappedSet, Minus, Moduli, Word
<1>7. ASSUME NEW v \in Members(r)
      PROVE  Signed(m, GetSignedMin(r)) <= Signed(m, v)
  BY <1>1, <1>2 DEF GetSignedMin, Members, Contains, IsFullSet, IsWrappedSet, Minus, Moduli, Word, Signed
<1>8. ASSUME NEW v \in Members(r)
      PROVE  Signed(m, v) <= Signed(m, GetSignedMax(r))
  BY <1>1, <1>2 DEF GetSignedMax, Members, Contains, IsFullSet, IsWrappedSet, Minus, Moduli, Word, Signed, IsNegative
<1>9. QED
  BY <1>3, <1>4, <1>5, <1>6, <1>7, <1>8

(* inverse is the complement.                                              *)
LEMMA InverseMembers ==
    ASSUME NEW m \in Moduli, NEW r \in Ranges(m)
    PROVE  Inverse(r) \in Ranges(m) /\ Members(Inverse(r)) = Word(m) \ Members(r)
BY RangeFacts, EmptyFullLegal
DEF Inverse, Members, Contains, IsFullSet, IsEmptySet, IsWrappedSet, EmptySet, FullSet,
    MkRange, Ranges, Legal, Moduli, Word

(* A range as an arc of the circle of words, given by its ends.            *)
ArcSize(m, l, h) == IF l = h THEN (IF l = 0 THEN 0 ELSE m) ELSE Minus(m, h, l)

OnArc(l, h, v) == IF l = h THEN l # 0 ELSE IF l < h THEN l <= v /\ v < h ELSE l <= v \/ v < h

(* A legal range is the arc between its bounds.                            *)
LEMMA RangeIsArc ==
    ASSUME NEW m \in Moduli, NEW r \in Ranges(m)
    PROVE  /\ SetSize(r) = ArcSize(m, r.lo, r.hi)
           /\ \A v : Contains(r, v) <=> OnArc(r.lo, r.hi, v)
BY RangeFacts DEF SetSize, ArcSize, Contains, OnArc, IsFullSet, IsWrappedSet, Minus, Moduli

(* The ends of three arcs, at which it shows whether one covers the        *)
(* intersection, or the union, of the others.                              *)
Ends(m, al, ah, bl, bh, ol, oh) == {al, Minus(m, ah, 1), bl, Minus(m, bh, 1), oh, Minus(m, ol, 1)}

(* Of two ranges intersectWith takes the one of no more words.             *)
LEMMA SmallerArc ==
    ASSUME NEW m \in Moduli, NEW a \in Ranges(m), NEW b \in Ranges(m)
    PROVE  \/ Smaller(a, b) = a /\ ArcSize(m, a.lo, a.hi) <= ArcSize(m, b.lo, b.hi)
           \/ Smaller(a, b) = b /\ ArcSize(m, b.lo, b.hi) <= ArcSize(m, a.lo, a.hi)
<1>1. ArcSize(m, a.lo, a.hi) \in Int /\ ArcSize(m, b.lo, b.hi) \in Int
  BY RangeFacts DEF ArcSize, Minus, Moduli
<1>2. QED
  BY <1>1, RangeIsArc DEF Smaller

(* intersectWith of a wrapped range: no smaller range has the common members. *)
LEMMA IntersectWrappedSmallest ==
    ASSUME NEW m \in Moduli, NEW a \in Ranges(m), NEW b \in Ranges(m), NEW o \in Ranges(m),
           a.lo > a.hi, b.lo # b.hi,
           \A c \in Ends(m, a.lo, a.hi, b.lo, b.hi, o.lo, o.hi) :
               Contains(a, c) /\ Contains(b, c) => Contains(o, c)
    PROVE  SetSize(IntersectWrapped(a, b)) <= SetSize(o)
<1> DEFINE al == a.lo
           ah == a.hi
           bl == b.lo
           bh == b.hi
           ol == o.lo
           oh == o.hi
           s == ArcSize(m, ol, oh)
           A == ArcSize(m, al, ah)
           B == ArcSize(m, bl, bh)
<1>1. /\ al \in 0 .. m - 1 /\ ah \in 0 .. m - 1 /\ bl \in 0 .. m - 1 /\ bh \in 0 .. m - 1
      /\ ol \in 0 .. m - 1 /\ oh \in 0 .. m - 1 /\ al > ah /\ bl # bh
      /\ a.m = m /\ b.m = m /\ o.m = m
  BY RangeFacts
<1>2. \A c \in Ends(m, al, ah, bl, bh, ol, oh) :
        OnArc(al, ah, c) /\ OnArc(bl, bh, c) => OnArc(ol, oh, c)
  BY RangeIsArc
<1>3. SetSize(a) = A /\ SetSize(b) = B /\ SetSize(o) = s
  BY RangeIsArc
<1>4. \A l, h \in 0 .. m - 1 : l # h => SetSize(MkRange(m, l, h)) = ArcSize(m, l, h)
  BY DEF SetSize, MkRange, IsFullSet, ArcSize
<1>5. SetSize(EmptySet(m)) = 0
  BY DEF SetSize, MkRange, IsFullSet, EmptySet, Minus, Moduli
<1>6. Smaller(a, b) \in {a, b} /\ SetSize(Smaller(a, b)) <= A /\ SetSize(Smaller(a, b)) <= B
  BY SmallerArc, <1>1, <1>3 DEF ArcSize, Minus, Moduli
<1>7. SetSize(Smaller(a, b)) \in Int
  BY <1>6, <1>3, <1>1 DEF ArcSize, Minus, Moduli
<1> HIDE DEF al, ah, bl, bh, ol, oh
<1>8. CASE bl < bh
  <2>1. IF bl < ah
         THEN IF bh < ah THEN B <= s
              ELSE IF bh <= al THEN bl # ah /\ ArcSize(m, bl, ah) <= s
              ELSE B <= s \/ A <= s
         ELSE IF bl < al
              THEN bh <= al \/ (al # bh /\ ArcSize(m, al, bh) <= s)
              ELSE B <= s
    BY <1>1, <1>2, <1>8 DEF ArcSize, OnArc, Minus, Moduli, Ends
  <2>2. 0 <= s
    BY <1>1 DEF ArcSize, Minus, Moduli
  <2>3. IntersectWrapped(a, b) =
          IF bl < ah
          THEN IF bh < ah THEN b ELSE IF bh <= al THEN MkRange(m, bl, ah) ELSE Smaller(a, b)
          ELSE IF bl < al THEN IF bh <= al THEN EmptySet(m) ELSE MkRange(m, al, bh)
          ELSE b
    BY <1>1, <1>8 DEF IntersectWrapped, IsWrappedSet, al, ah, bl, bh
  <2>4. s \in Int /\ A \in Int /\ B \in Int
    BY <1>1 DEF ArcSize, Minus, Moduli
  <2> HIDE DEF s, A, B
  <2>5. QED
    BY <2>1, <2>2, <2>3, <2>4, <1>1, <1>3, <1>4, <1>5, <1>6, <1>7
<1>9. CASE bl > bh
  <2>1. IF bh < ah
         THEN IF bl < ah THEN A <= s \/ B <= s
              ELSE IF bl < al THEN al # bh /\ ArcSize(m, al, bh) <= s
              ELSE B <= s
         ELSE IF bh <= al
              THEN IF bl < al THEN A <= s ELSE bl # ah /\ ArcSize(m, bl, ah) <= s
              ELSE A <= s \/ B <= s
    BY <1>1, <1>2, <1>9 DEF ArcSize, OnArc, Minus, Moduli, Ends
  <2>2. 0 <= s
    BY <1>1 DEF ArcSize, Minus, Moduli
  <2>3. IntersectWrapped(a, b) =
          IF bh < ah
          THEN IF bl < ah THEN Smaller(a, b) ELSE IF bl < al THEN MkRange(m, al, bh) ELSE b
          ELSE IF bh <= al
               THEN IF bl < al THEN a ELSE MkRange(m, bl, ah)
               ELSE Smaller(a, b)
    BY <1>1, <1>9 DEF IntersectWrapped, IsWrappedSet, al, ah, bl, bh
  <2>4. s \in Int /\ A \in Int /\ B \in Int
    BY <1>1 DEF ArcSize, Minus, Moduli
  <2> HIDE DEF s, A, B
  <2>5. QED
    BY <2>1, <2>2, <2>3, <2>4, <1>1, <1>3, <1>4, <1>5, <1>6, <1>7
<1>10. QED
  BY <1>1, <1>8, <1>9

(* intersectWith is the smallest range of the common members.              *)
LEMMA IntersectSmallest ==
    ASSUME NEW m \in Moduli, NEW a \in Ranges(m), NEW b \in Ranges(m), NEW o \in Ranges(m),
           Members(a) \cap Members(b) \subseteq Members(o)
    PROVE  SetSize(IntersectWith(a, b)) <= SetSize(o)
<1> DEFINE al == a.lo
           ah == a.hi
           bl == b.lo
           bh == b.hi
           ol == o.lo
           oh == o.hi
           s == ArcSize(m, ol, oh)
           i == IntersectWith(a, b)
<1>1. /\ al \in 0 .. m - 1 /\ ah \in 0 .. m - 1 /\ bl \in 0 .. m - 1 /\ bh \in 0 .. m - 1
      /\ ol \in 0 .. m - 1 /\ oh \in 0 .. m - 1
      /\ a.m = m /\ b.m = m /\ o.m = m
      /\ a = MkRange(m, al, ah) /\ b = MkRange(m, bl, bh)
      /\ al = ah => al \in {0, m - 1}
      /\ bl = bh => bl \in {0, m - 1}
      /\ ol = oh => ol \in {0, m - 1}
  BY RangeFacts
<1>2. ASSUME NEW c \in 0 .. m - 1, Contains(a, c), Contains(b, c)
      PROVE  Contains(o, c)
  BY <1>1, <1>2 DEF Members, Word
<1>3. \A c \in Ends(m, al, ah, bl, bh, ol, oh) : Contains(a, c) /\ Contains(b, c) => Contains(o, c)
  <2>1. Ends(m, al, ah, bl, bh, ol, oh) \subseteq 0 .. m - 1
    BY <1>1 DEF Ends, Minus, Moduli
  <2>2. QED
    BY <2>1, <1>2
<1>4. \A c \in Ends(m, al, ah, bl, bh, ol, oh) : OnArc(al, ah, c) /\ OnArc(bl, bh, c) => OnArc(ol, oh, c)
  BY <1>3, RangeIsArc
<1>5. SetSize(i) = ArcSize(m, i.lo, i.hi) /\ SetSize(o) = s
  BY IntersectSound, RangeIsArc
<1>6. CASE al = ah \/ bl = bh
  <2>1. <<i.lo, i.hi>> = IF (al = ah /\ al = 0) \/ (bl = bh /\ bl = m - 1) THEN <<al, ah>> ELSE <<bl, bh>>
    BY <1>6, <1>1 DEF IntersectWith, IsFullSet, IsEmptySet
  <2> HIDE DEF i, al, ah, bl, bh, ol, oh
  <2>2. ArcSize(m, i.lo, i.hi) <= s
    BY <2>1, <1>1, <1>4, <1>6 DEF ArcSize, OnArc, Ends, Minus, Moduli
  <2>3. QED
    BY <2>2, <1>5 DEF i
<1>7. CASE al < ah /\ bl < bh
  <2>1. <<i.lo, i.hi>> =
          IF al < bl
          THEN IF ah <= bl THEN <<0, 0>> ELSE IF ah < bh THEN <<bl, ah>> ELSE <<bl, bh>>
          ELSE IF ah < bh THEN <<al, ah>> ELSE IF al < bh THEN <<al, bh>> ELSE <<0, 0>>
    BY <1>7, <1>1
    DEF IntersectWith, IntersectPlain, IsFullSet, IsEmptySet, IsWrappedSet, EmptySet, MkRange
  <2> HIDE DEF i, al, ah, bl, bh, ol, oh
  <2>2. ArcSize(m, i.lo, i.hi) <= s
    BY <2>1, <1>1, <1>4, <1>7 DEF ArcSize, OnArc, Ends, Minus, Moduli
  <2>3. QED
    BY <2>2, <1>5 DEF i
<1>8. CASE al > ah /\ bl # bh
  <2>1. i = IntersectWrapped(a, b)
    BY <1>8, <1>1 DEF IntersectWith, IsEmptySet, IsFullSet, IsWrappedSet, Moduli
  <2>2. QED
    BY <2>1, <1>8, <1>3, IntersectWrappedSmallest
<1>9. CASE al < ah /\ bl > bh
  <2>1. i = IntersectWrapped(b, a)
    BY <1>9, <1>1 DEF IntersectWith, IsEmptySet, IsFullSet, IsWrappedSet, Moduli
  <2>2. Ends(m, al, ah, bl, bh, ol, oh) = Ends(m, bl, bh, al, ah, ol, oh)
    BY DEF Ends
  <2>3. a.lo # a.hi /\ b.lo > b.hi
    BY <1>9, <1>1
  <2>4. QED
    BY <2>1, <2>2, <2>3, <1>3, IntersectWrappedSmallest
<1>10. QED
  BY <1>1, <1>6, <1>7, <1>8, <1>9

(* unionWith is a legal range of the members of both.                      *)
LEMMA UnionSound ==
    ASSUME NEW m \in Moduli, NEW a \in Ranges(m), NEW b \in Ranges(m)
    PROVE  /\ UnionWith(a, b) \in Ranges(m)
           /\ Members(a) \cup Members(b) \subseteq Members(UnionWith(a, b))
<1>1. /\ a.m = m /\ a.lo \in 0 .. m - 1 /\ a.hi \in 0 .. m - 1
      /\ a.lo = a.hi => a.lo = 0 \/ a.lo = m - 1
  BY RangeFacts
<1>2. /\ b.m = m /\ b.lo \in 0 .. m - 1 /\ b.hi \in 0 .. m - 1
      /\ b.lo = b.hi => b.lo = 0 \/ b.lo = m - 1
  BY RangeFacts
<1>3. UnionWith(a, b) \in Ranges(m)
  BY <1>1, <1>2, MkRangeLegal, EmptyFullLegal, SMTT(60)
  DEF UnionWith, UnionPlain, UnionWrapped, UnionBothWrapped, Bridge, Legal, Word,
      IsEmptySet, IsFullSet, IsWrappedSet, Moduli, Minus
<1>4. ASSUME NEW x \in Word(m), Contains(a, x) \/ Contains(b, x)
      PROVE  Contains(UnionWith(a, b), x)
  <2>1. CASE IsEmptySet(a) \/ IsFullSet(b) \/ IsEmptySet(b) \/ IsFullSet(a)
    BY <2>1, <1>1, <1>2, <1>4
    DEF UnionWith, Contains, IsEmptySet, IsFullSet, IsWrappedSet
  <2>2. CASE a.lo < a.hi /\ b.lo < b.hi
    BY <2>2, <1>1, <1>2, <1>4
    DEF UnionWith, UnionPlain, Bridge, FullSet, MkRange, Word,
        Contains, IsEmptySet, IsFullSet, IsWrappedSet, Moduli, Minus
  <2>3. CASE a.lo > a.hi /\ b.lo < b.hi
    BY <2>3, <1>1, <1>2, <1>4
    DEF UnionWith, UnionWrapped, Bridge, FullSet, MkRange, Word,
        Contains, IsEmptySet, IsFullSet, IsWrappedSet, Moduli, Minus
  <2>4. CASE a.lo < a.hi /\ b.lo > b.hi
    BY <2>4, <1>1, <1>2, <1>4
    DEF UnionWith, UnionWrapped, Bridge, FullSet, MkRange, Word,
        Contains, IsEmptySet, IsFullSet, IsWrappedSet, Moduli, Minus
  <2>5. CASE a.lo > a.hi /\ b.lo > b.hi
    BY <2>5, <1>1, <1>2, <1>4
    DEF UnionWith, UnionBothWrapped, Bridge, FullSet, MkRange, Word,
        Contains, IsEmptySet, IsFullSet, IsWrappedSet, Moduli, Minus
  <2>6. QED
    BY <2>1, <2>2, <2>3, <2>4, <2>5, <1>1, <1>2 DEF IsEmptySet, IsFullSet
<1>5. QED
  BY <1>3, <1>4, <1>1, <1>2, RangeFacts DEF Members

(* unionWith is the smallest range of the members of both.                 *)
LEMMA UnionSmallest ==
    ASSUME NEW m \in Moduli, NEW a \in Ranges(m), NEW b \in Ranges(m), NEW o \in Ranges(m),
           Members(a) \cup Members(b) \subseteq Members(o)
    PROVE  SetSize(UnionWith(a, b)) <= SetSize(o)
<1> DEFINE al == a.lo
           ah == a.hi
           bl == b.lo
           bh == b.hi
           ol == o.lo
           oh == o.hi
           s == ArcSize(m, ol, oh)
           u == UnionWith(a, b)
<1>1. /\ al \in 0 .. m - 1 /\ ah \in 0 .. m - 1 /\ bl \in 0 .. m - 1 /\ bh \in 0 .. m - 1
      /\ ol \in 0 .. m - 1 /\ oh \in 0 .. m - 1
      /\ a.m = m /\ b.m = m /\ o.m = m
      /\ a = MkRange(m, al, ah) /\ b = MkRange(m, bl, bh)
      /\ al = ah => al \in {0, m - 1}
      /\ bl = bh => bl \in {0, m - 1}
      /\ ol = oh => ol \in {0, m - 1}
  BY RangeFacts
<1>2. ASSUME NEW c \in 0 .. m - 1, OnArc(al, ah, c) \/ OnArc(bl, bh, c)
      PROVE  OnArc(ol, oh, c)
  BY <1>1, <1>2, RangeIsArc DEF Members, Word
<1>3. \A c \in Ends(m, al, ah, bl, bh, ol, oh) :
        OnArc(al, ah, c) \/ OnArc(bl, bh, c) => OnArc(ol, oh, c)
  <2>1. Ends(m, al, ah, bl, bh, ol, oh) \subseteq 0 .. m - 1
    BY <1>1 DEF Ends, Minus, Moduli
  <2>2. QED
    BY <2>1, <1>2
<1>4. SetSize(u) = ArcSize(m, u.lo, u.hi) /\ SetSize(o) = s
  BY UnionSound, RangeIsArc
<1> SUFFICES ArcSize(m, u.lo, u.hi) <= s
  BY <1>4
<1> HIDE DEF al, ah, bl, bh, ol, oh
<1>5. CASE al = ah \/ bl = bh
  <2>1. u = IF (al = ah /\ al = m - 1) \/ (bl = bh /\ bl = 0) THEN a ELSE IF (bl = bh /\ bl = m - 1) \/ (al = ah /\ al = 0) THEN b ELSE u
    BY <1>1 DEF UnionWith, IsFullSet, IsEmptySet, al, ah, bl, bh
  <2>2. <<u.lo, u.hi>> = IF (al = ah /\ al = m - 1) \/ (bl = bh /\ bl = 0) THEN <<al, ah>> ELSE <<bl, bh>>
    BY <2>1, <1>5, <1>1 DEF al, ah, bl, bh
  <2> HIDE DEF u
  <2>3. QED
    BY <2>2, <1>1, <1>3, <1>5 DEF ArcSize, OnArc, Ends, Minus, Moduli
<1>6. CASE al < ah /\ bl < bh
  <2>1. u = IF bh < al \/ ah < bl
            THEN IF Minus(m, bl, ah) < Minus(m, al, bh) THEN MkRange(m, al, bh) ELSE MkRange(m, bl, ah)
            ELSE MkRange(m, IF bl < al THEN bl ELSE al, IF bh > ah THEN bh ELSE ah)
    BY <1>1, <1>6 DEF UnionWith, UnionPlain, Bridge, IsFullSet, IsEmptySet, IsWrappedSet, Minus, Moduli, al, ah, bl, bh
  <2>2. <<u.lo, u.hi>> = IF bh < al \/ ah < bl
            THEN IF Minus(m, bl, ah) < Minus(m, al, bh) THEN <<al, bh>> ELSE <<bl, ah>>
            ELSE <<IF bl < al THEN bl ELSE al, IF bh > ah THEN bh ELSE ah>>
    BY <2>1 DEF MkRange
  <2> HIDE DEF u
  <2>3. QED
    BY <2>2, <1>1, <1>3, <1>6 DEF ArcSize, OnArc, Ends, Minus, Moduli
<1> DEFINE Around(cl, ch, dl, dh) ==
        IF dh <= ch \/ dl >= cl THEN <<cl, ch>>
        ELSE IF dl <= ch /\ cl <= dh THEN <<m - 1, m - 1>>
        ELSE IF ch <= dl /\ dh <= cl
             THEN IF Minus(m, dl, ch) < Minus(m, cl, dh) THEN <<cl, dh>> ELSE <<dl, ch>>
        ELSE IF ch < dl /\ cl < dh THEN <<dl, ch>> ELSE <<cl, dh>>
<1>7. CASE al > ah /\ bl < bh
  <2>1. <<u.lo, u.hi>> = Around(al, ah, bl, bh)
    BY <1>1, <1>7 DEF UnionWith, UnionWrapped, Bridge, IsFullSet, IsEmptySet, IsWrappedSet, Moduli, FullSet, MkRange, al, ah, bl, bh
  <2> HIDE DEF u
  <2>3. QED
    BY <2>1, <1>1, <1>3, <1>7 DEF ArcSize, OnArc, Ends, Minus, Moduli
<1>8. CASE al < ah /\ bl > bh
  <2>1. <<u.lo, u.hi>> = Around(bl, bh, al, ah)
    BY <1>1, <1>8 DEF UnionWith, UnionWrapped, Bridge, IsFullSet, IsEmptySet, IsWrappedSet, Moduli, FullSet, MkRange, al, ah, bl, bh
  <2> HIDE DEF u
  <2>3. QED
    BY <2>1, <1>1, <1>3, <1>8 DEF ArcSize, OnArc, Ends, Minus, Moduli
<1>9. CASE al > ah /\ bl > bh
  <2>1. <<u.lo, u.hi>> = IF bl <= ah \/ al <= bh THEN <<m - 1, m - 1>>
                         ELSE <<IF bl < al THEN bl ELSE al, IF bh > ah THEN bh ELSE ah>>
    BY <1>1, <1>9 DEF UnionWith, UnionBothWrapped, IsFullSet, IsEmptySet, IsWrappedSet, Moduli, FullSet, MkRange, al, ah, bl, bh
  <2> HIDE DEF u
  <2>3. QED
    BY <2>1, <1>1, <1>3, <1>9 DEF ArcSize, OnArc, Ends, Minus, Moduli
<1>10. QED
  BY <1>1, <1>5, <1>6, <1>7, <1>8, <1>9

(* The words below, up to, above and from c on, in either reading.         *)
LEMMA RegionMembers ==
    ASSUME NEW m \in Moduli, NEW c \in Word(m)
    PROVE  \A v \in Word(m) :
             /\ Contains(UpTo(m, 0, c), v) <=> v < c
             /\ Contains(Through(m, 0, c), v) <=> v <= c
             /\ Contains(Beyond(m, 0, c), v) <=> v > c
             /\ Contains(Onward(m, 0, c), v) <=> v >= c
             /\ Contains(UpTo(m, SignedMin(m), c), v) <=> Signed(m, v) < Signed(m, c)
             /\ Contains(Through(m, SignedMin(m), c), v) <=> Signed(m, v) <= Signed(m, c)
             /\ Contains(Beyond(m, SignedMin(m), c), v) <=> Signed(m, v) > Signed(m, c)
             /\ Contains(Onward(m, SignedMin(m), c), v) <=> Signed(m, v) >= Signed(m, c)
<1>1. PICK s \in Int : m = 2 * s /\ SignedMin(m) = s
  BY DEF Moduli, SignedMin
<1> SUFFICES ASSUME NEW v \in Word(m)
             PROVE  /\ Contains(UpTo(m, 0, c), v) <=> v < c
                    /\ Contains(Through(m, 0, c), v) <=> v <= c
                    /\ Contains(Beyond(m, 0, c), v) <=> v > c
                    /\ Contains(Onward(m, 0, c), v) <=> v >= c
                    /\ Contains(UpTo(m, s, c), v) <=> Signed(m, v) < Signed(m, c)
                    /\ Contains(Through(m, s, c), v) <=> Signed(m, v) <= Signed(m, c)
                    /\ Contains(Beyond(m, s, c), v) <=> Signed(m, v) > Signed(m, c)
                    /\ Contains(Onward(m, s, c), v) <=> Signed(m, v) >= Signed(m, c)
  BY <1>1
<1> USE DEF Moduli, Contains, MkRange, IsFullSet, IsWrappedSet, EmptySet, FullSet, Plus, Word, Signed
<1>2. Contains(UpTo(m, 0, c), v) <=> v < c
  BY <1>1 DEF UpTo
<1>3. Contains(Through(m, 0, c), v) <=> v <= c
  BY <1>1 DEF Through
<1>4. Contains(Beyond(m, 0, c), v) <=> v > c
  BY <1>1 DEF Beyond
<1>5. Contains(Onward(m, 0, c), v) <=> v >= c
  BY <1>1 DEF Onward
<1>6. Contains(UpTo(m, s, c), v) <=> Signed(m, v) < Signed(m, c)
  BY <1>1 DEF UpTo
<1>7. Contains(Through(m, s, c), v) <=> Signed(m, v) <= Signed(m, c)
  BY <1>1 DEF Through
<1>8. Contains(Beyond(m, s, c), v) <=> Signed(m, v) > Signed(m, c)
  BY <1>1 DEF Beyond
<1>9. Contains(Onward(m, s, c), v) <=> Signed(m, v) >= Signed(m, c)
  BY <1>1 DEF Onward
<1>10. QED
  BY <1>2, <1>3, <1>4, <1>5, <1>6, <1>7, <1>8, <1>9

(* The regions of the comparisons are legal ranges.                        *)
LEMMA RegionLegal ==
    ASSUME NEW m \in Moduli, NEW c \in Word(m), NEW base \in {0, SignedMin(m)}
    PROVE  /\ UpTo(m, base, c) \in Ranges(m) /\ Through(m, base, c) \in Ranges(m)
           /\ Beyond(m, base, c) \in Ranges(m) /\ Onward(m, base, c) \in Ranges(m)
<1>1. base \in Word(m) /\ base # m - 1
  BY DEF Moduli, SignedMin, Word
<1>2. QED
  BY <1>1, EmptyFullLegal, MkRangeLegal DEF UpTo, Through, Beyond, Onward, Moduli, Plus, Legal, Word

(* subtract moves every member by the constant.                            *)
LEMMA SubtractSound ==
    ASSUME NEW m \in Moduli, NEW r \in Ranges(m), NEW v \in Word(m)
    PROVE  /\ Subtract(r, v) \in Ranges(m)
           /\ \A x \in Word(m) : Contains(r, x) => Contains(Subtract(r, v), Minus(m, x, v))
<1>1. r.m = m /\ r.lo \in 0 .. m - 1 /\ r.hi \in 0 .. m - 1
  BY RangeFacts
<1>2. Subtract(r, v) \in Ranges(m)
  BY <1>1, MkRangeLegal DEF Subtract, Minus, Moduli, Legal, Word
<1>3. ASSUME NEW x \in Word(m), Contains(r, x)
      PROVE  Contains(Subtract(r, v), Minus(m, x, v))
  BY <1>1, <1>3 DEF Subtract, Minus, Contains, IsFullSet, IsWrappedSet, MkRange, Moduli, Word
<1>4. QED
  BY <1>2, <1>3

(* The range between a lowest and a highest word, in either reading.       *)
LEMMA OrFullSound ==
    ASSUME NEW m \in Moduli, NEW l \in Word(m), NEW h \in Word(m)
    PROVE  /\ OrFull(m, l, h) \in Ranges(m)
           /\ \A x \in Word(m) : l <= x /\ x <= h => Contains(OrFull(m, l, h), x)
           /\ \A x \in Word(m) :
                Signed(m, l) <= Signed(m, x) /\ Signed(m, x) <= Signed(m, h) => Contains(OrFull(m, l, h), x)
<1>1. OrFull(m, l, h) \in Ranges(m)
  BY EmptyFullLegal, MkRangeLegal DEF OrFull, Plus, Moduli, Legal, Word
<1>2. ASSUME NEW x \in Word(m),
             \/ l <= x /\ x <= h
             \/ Signed(m, l) <= Signed(m, x) /\ Signed(m, x) <= Signed(m, h)
      PROVE  Contains(OrFull(m, l, h), x)
  BY <1>2 DEF OrFull, Plus, Contains, Signed, FullSet, IsFullSet, IsWrappedSet, MkRange, Moduli, Word
<1>3. QED
  BY <1>1, <1>2

(* umax and smax keep the larger of a member of each operand.              *)
LEMMA MaxSound ==
    ASSUME NEW m \in Moduli, NEW a \in Ranges(m), NEW b \in Ranges(m),
           NEW x \in Members(a), NEW y \in Members(b)
    PROVE  /\ UMax(a, b) \in Ranges(m) /\ Contains(UMax(a, b), Greater(x, y))
           /\ SMax(a, b) \in Ranges(m) /\ Contains(SMax(a, b), SGreater(m, x, y))
<1>1. /\ a.m = m /\ b.m = m /\ x \in Word(m) /\ y \in Word(m)
      /\ Members(a) \subseteq Word(m) /\ Members(b) \subseteq Word(m)
      /\ ~IsEmptySet(a) /\ ~IsEmptySet(b)
  BY RangeFacts, EmptyHasNoMember DEF Members
<1> DEFINE al == UnsignedMin(a)
           ah == UnsignedMax(a)
           bl == UnsignedMin(b)
           bh == UnsignedMax(b)
           asl == GetSignedMin(a)
           ash == GetSignedMax(a)
           bsl == GetSignedMin(b)
           bsh == GetSignedMax(b)
<1>2. /\ al \in Word(m) /\ ah \in Word(m) /\ al <= x /\ x <= ah
      /\ asl \in Word(m) /\ ash \in Word(m)
      /\ Signed(m, asl) <= Signed(m, x) /\ Signed(m, x) <= Signed(m, ash)
  BY <1>1, BoundsOfRange
<1>3. /\ bl \in Word(m) /\ bh \in Word(m) /\ bl <= y /\ y <= bh
      /\ bsl \in Word(m) /\ bsh \in Word(m)
      /\ Signed(m, bsl) <= Signed(m, y) /\ Signed(m, y) <= Signed(m, bsh)
  BY <1>1, BoundsOfRange
<1>4. /\ UMax(a, b) = OrFull(m, Greater(al, bl), Greater(ah, bh))
      /\ SMax(a, b) = OrFull(m, SGreater(m, asl, bsl), SGreater(m, ash, bsh))
  BY <1>1 DEF UMax, SMax
<1> HIDE DEF al, ah, bl, bh, asl, ash, bsl, bsh
<1>5. /\ Greater(al, bl) \in Word(m) /\ Greater(ah, bh) \in Word(m) /\ Greater(x, y) \in Word(m)
      /\ Greater(al, bl) <= Greater(x, y) /\ Greater(x, y) <= Greater(ah, bh)
  BY <1>1, <1>2, <1>3 DEF Greater, Word, Moduli
<1>6. \A v \in Word(m) : Signed(m, v) \in Int
  BY DEF Signed, Word, Moduli
<1>7. /\ SGreater(m, asl, bsl) \in Word(m) /\ SGreater(m, ash, bsh) \in Word(m)
      /\ SGreater(m, x, y) \in Word(m)
      /\ Signed(m, SGreater(m, asl, bsl)) <= Signed(m, SGreater(m, x, y))
      /\ Signed(m, SGreater(m, x, y)) <= Signed(m, SGreater(m, ash, bsh))
  BY <1>1, <1>2, <1>3, <1>6 DEF SGreater
<1>8. QED
  BY <1>4, <1>5, <1>7, OrFullSound

(* The words of d are a whole number of turns of the words of m.           *)
Wraps(m, d) == m \in Moduli /\ d \in Moduli /\ m < d /\ d % m = 0

(* The larger modulus is at least twice the smaller.                       *)
LEMMA WrapsFacts ==
    ASSUME NEW m, NEW d, Wraps(m, d)
    PROVE  \E q \in Int : d = m * q /\ q >= 2
<1> DEFINE q == d \div m
<1>1. m \in Nat /\ m >= 4 /\ d \in Nat /\ m < d /\ d % m = 0
  BY DEF Wraps, Moduli
<1>2. d = m * q + (d % m) /\ q \in Nat
  BY <1>1
<1> HIDE DEF q
<1>3. d = m * q
  BY <1>1, <1>2
<1>4. q # 0 /\ q # 1
  BY <1>1, <1>3
<1>5. QED
  BY <1>2, <1>3, <1>4

(* Reduction of a word that is congruent to one of m.                      *)
LEMMA ModOfDifference ==
    ASSUME NEW m, NEW d, Wraps(m, d), NEW w \in Word(m)
    PROVE  w % m = w /\ (d - m + w) % m = w
<1>1. PICK q \in Int : d = m * q /\ q >= 2
  BY WrapsFacts
<1>2. m \in Moduli /\ m \in Nat /\ m < d /\ d \in Nat /\ w \in 0 .. m - 1
  BY DEF Wraps, Moduli, Word
<1>3. w % m = w
  <2>1. w - m * 0 \in 0 .. m - 1 /\ w \in Nat
    BY <1>2
  <2>2. QED
    BY <2>1, <1>2, ModUnique
<1>4. (d - m + w) % m = w
  <2> DEFINE n == d - m + w
             e == q - 1
  <2>1. n - m * e = w /\ n \in Nat /\ e \in Int
    BY <1>1, <1>2
  <2> HIDE DEF n, e
  <2>2. n % m = n - m * e
    BY <2>1, <1>2, ModUnique
  <2>3. QED
    BY <2>1, <2>2 DEF n
<1>5. QED
  BY <1>3, <1>4

(* truncate of a range that does not wrap is what multiply is modelled by. *)
LEMMA PartIsProduct ==
    ASSUME NEW m \in Moduli, NEW l \in Nat, NEW h \in Nat
    PROVE  TruncatePart(l, h, m) = TruncateProduct(m, l, h)
<1> DEFINE div == IF l >= m - 1 THEN l \div m ELSE 0
           lo  == IF l >= m - 1 THEN l % m ELSE l
<1>1. lo = l - m * div /\ lo \in Nat /\ div \in Nat /\ m * div \in Nat
  BY DivMod DEF Moduli
<1>2. h - (l - lo) = h - m * div
  BY <1>1 DEF Moduli
<1>3. QED
  BY <1>1, <1>2 DEF TruncatePart, TruncateProduct

(* truncate keeps the low bits of every member.                            *)
LEMMA NarrowSound ==
    ASSUME NEW m, NEW d, Wraps(m, d), NEW r \in Ranges(d)
    PROVE  /\ Truncate(r, m) \in Ranges(m)
           /\ \A x \in Word(d) : Contains(r, x) => Contains(Truncate(r, m), x % m)
<1> DEFINE part == TruncatePart(r.lo, d - 1, m)
           rest == MkRange(m, m - 1, r.hi)
<1>1. /\ m \in Moduli /\ d \in Moduli /\ m \in Nat /\ d \in Nat /\ m >= 4 /\ m < d
      /\ r.m = d /\ r.lo \in 0 .. d - 1 /\ r.hi \in 0 .. d - 1
      /\ r.lo = r.hi => r.lo \in {0, d - 1}
  BY RangeFacts DEF Wraps, Moduli
<1>2. CASE IsEmptySet(r)
  BY <1>2, <1>1, EmptyHasNoMember, EmptyFullLegal DEF Truncate
<1>3. CASE Truncate(r, m) = FullSet(m)
  BY <1>3, <1>1, EmptyFullLegal, FullContains
<1>4. CASE r.lo < r.hi
  <2>1. Truncate(r, m) = TruncateProduct(m, r.lo, r.hi)
    BY <1>4, <1>1, PartIsProduct DEF Truncate, IsEmptySet, IsFullSet, IsWrappedSet
  <2>2. \A x \in Word(d) : Contains(r, x) => x \in Nat /\ r.lo <= x /\ x < r.hi
    BY <1>4, <1>1 DEF Contains, IsWrappedSet, Word
  <2>3. QED
    BY <2>1, <2>2, <1>1, <1>4, TruncateSound
<1>5. CASE r.lo > r.hi /\ r.hi < m - 1
  <2>1. \A x \in Word(d) : Contains(r, x) <=> r.lo <= x \/ x < r.hi
    BY <1>5, <1>1 DEF Contains, IsWrappedSet, Word
  <2>2. \A x \in Word(d) : x < r.hi => x % m = x /\ Contains(rest, x % m)
    <3>1. \A x \in 0 .. m - 1 : x % m = x
      BY ModOfDifference DEF Word
    <3>2. QED
      BY <3>1, <1>1, <1>5 DEF Word, Contains, MkRange, IsWrappedSet
  <2>3. (d - 1) % m = m - 1 /\ Contains(rest, m - 1)
    <3>1. m - 1 \in Word(m) /\ d - m + (m - 1) = d - 1
      BY <1>1 DEF Word
    <3>2. (d - 1) % m = m - 1
      BY <3>1, ModOfDifference
    <3>3. QED
      BY <3>2, <1>1, <1>5 DEF Contains, MkRange, IsWrappedSet
  <2>4. rest \in Ranges(m)
    BY <1>1, <1>5, MkRangeLegal DEF Legal, Word
  <2>5. CASE r.lo = d - 1
    <3>1. Truncate(r, m) = rest
      BY <2>5, <1>1, <1>5 DEF Truncate, IsEmptySet, IsFullSet, IsWrappedSet
    <3>2. \A x \in Word(d) : Contains(r, x) => x = d - 1 \/ x < r.hi
      BY <2>1, <2>5, <1>1 DEF Word
    <3>3. QED
      BY <3>1, <3>2, <2>2, <2>3, <2>4
  <2>6. CASE r.lo # d - 1
    <3>1. Truncate(r, m) = UnionWith(part, rest)
      BY <2>6, <1>1, <1>5 DEF Truncate, IsEmptySet, IsFullSet, IsWrappedSet
    <3>2. /\ part \in Ranges(m)
          /\ \A x \in Nat : r.lo <= x /\ x < d - 1 => Contains(part, x % m)
      <4>1. r.lo \in Nat /\ d - 1 \in Nat /\ r.lo < d - 1
        BY <2>6, <1>1
      <4>2. part = TruncateProduct(m, r.lo, d - 1)
        BY <4>1, <1>1, PartIsProduct
      <4>3. QED
        BY <4>1, <4>2, <1>1, TruncateSound
    <3>3. \A x \in Word(d) : x % m \in Word(m)
      BY <1>1 DEF Word
    <3>4. \A x \in Word(d) : Contains(r, x) => x % m \in Members(part) \cup Members(rest)
      <4>1. \A x \in Word(d) : /\ x \in Nat
                               /\ Contains(r, x) => x = d - 1 \/ (r.lo <= x /\ x < d - 1) \/ x < r.hi
        BY <2>1, <1>1 DEF Word
      <4>2. part.m = m /\ rest.m = m
        BY <3>2, <2>4, <1>1, RangeFacts
      <4>3. QED
        BY <4>1, <4>2, <3>2, <3>3, <2>2, <2>3 DEF Members
    <3>5. QED
      BY <3>1, <3>2, <3>4, <2>4, <1>1, UnionSound DEF Members
  <2>7. QED
    BY <2>5, <2>6
<1>6. QED
  BY <1>1, <1>2, <1>3, <1>4, <1>5 DEF Truncate, IsEmptySet, IsFullSet, IsWrappedSet

(* zeroExtend keeps every member, signExtend every member as a number.     *)
LEMMA WidenSound ==
    ASSUME NEW m, NEW d, Wraps(m, d), NEW r \in Ranges(m)
    PROVE  /\ ZeroExtend(r, d) \in Ranges(d) /\ SignExtend(r, d) \in Ranges(d)
           /\ \A x \in Word(m) :
                Contains(r, x) =>
                    /\ x \in Word(d) /\ Contains(ZeroExtend(r, d), x)
                    /\ SignExtended(m, d, x) \in Word(d)
                    /\ Contains(SignExtend(r, d), SignExtended(m, d, x))
<1>1. PICK q \in Int : d = m * q /\ q >= 2
  BY WrapsFacts
<1>2. PICK s \in Int : m = 2 * s /\ SignedMin(m) = s /\ SignedMax(m) = s - 1
  BY DEF Wraps, Moduli, SignedMin, SignedMax
<1>3. /\ m \in Moduli /\ d \in Moduli /\ m \in Nat /\ d \in Nat /\ m >= 4 /\ 2 * m <= d
      /\ r.m = m /\ r.lo \in 0 .. m - 1 /\ r.hi \in 0 .. m - 1
      /\ r.lo = r.hi => r.lo \in {0, m - 1}
  BY <1>1, RangeFacts DEF Wraps, Moduli
<1>4. ZeroExtend(r, d) \in Ranges(d)
  BY <1>3, EmptyFullLegal, MkRangeLegal
  DEF ZeroExtend, Legal, Word, IsEmptySet, IsFullSet, IsWrappedSet
<1>5. SignExtend(r, d) \in Ranges(d)
  BY <1>2, <1>3, EmptyFullLegal, MkRangeLegal
  DEF SignExtend, SignExtended, FromSigned, Signed, Legal, Word, IsEmptySet, IsFullSet, IsWrappedSet,
      IsSignWrappedSet, Contains
<1>6. ASSUME NEW x \in Word(m), Contains(r, x)
      PROVE  /\ x \in Word(d) /\ Contains(ZeroExtend(r, d), x)
             /\ SignExtended(m, d, x) \in Word(d)
  BY <1>2, <1>3, <1>6
  DEF ZeroExtend, SignExtended, FromSigned, Signed, Word, Contains, EmptySet, MkRange,
      IsEmptySet, IsFullSet, IsWrappedSet
<1>7. ASSUME NEW x \in Word(m), Contains(r, x)
      PROVE  Contains(SignExtend(r, d), SignExtended(m, d, x))
  BY <1>2, <1>3, <1>7
  DEF SignExtend, SignExtended, FromSigned, Signed, Word, Contains, EmptySet, MkRange,
      IsEmptySet, IsFullSet, IsWrappedSet, IsSignWrappedSet
<1>8. QED
  BY <1>4, <1>5, <1>6, <1>7

(* A wider sum reduced is the sum reduced.                                 *)
LEMMA PlusReduces ==
    ASSUME NEW m, NEW d, Wraps(m, d), NEW x \in Word(d), NEW y \in Word(d)
    PROVE  Plus(d, x, y) \in Word(d) /\ Plus(d, x, y) % m = (x + y) % m
<1>1. PICK q \in Int : d = m * q /\ q >= 2
  BY WrapsFacts
<1>2. /\ m \in Moduli /\ m \in Nat /\ d \in Nat /\ m < d
      /\ x \in Nat /\ x < d /\ y \in Nat /\ y < d
  BY DEF Wraps, Moduli, Word
<1> DEFINE t == x + y
           n == t - d
<1>3. CASE t < d
  BY <1>3, <1>2 DEF Plus, Word
<1>4. CASE t >= d
  <2>1. n \in Nat /\ n < d /\ t = n + m * q /\ t \in Nat
    BY <1>1, <1>2, <1>4
  <2>2. Plus(d, x, y) = n
    BY <1>2, <1>4 DEF Plus
  <2> HIDE DEF n, t
  <2> DEFINE e == n \div m
  <2>3. e \in Int /\ n - m * e = n % m /\ n % m \in 0 .. m - 1
    BY <2>1, <1>2, DivMod DEF Moduli
  <2> HIDE DEF e
  <2>4. t - m * (e + q) = n - m * e
    BY <2>1, <2>3, <1>1, <1>2
  <2> DEFINE f == e + q
  <2>5. f \in Int /\ t - m * f \in 0 .. m - 1
    BY <2>3, <2>4, <1>1
  <2> HIDE DEF f
  <2>6. t % m = t - m * f
    BY <2>1, <2>5, <1>2, ModUnique
  <2>7. QED
    BY <2>1, <2>2, <2>3, <2>4, <2>6, <1>2 DEF Word, f, t
<1>5. QED
  BY <1>2, <1>3, <1>4

(* Widened and narrowed again, a range that does not wrap in the reading   *)
(* it was extended in is what it was.                                      *)
LEMMA RoundTrip ==
    ASSUME NEW m, NEW d, Wraps(m, d), NEW r \in Ranges(m)
    PROVE  /\ ~IsWrappedSet(r) => Truncate(ZeroExtend(r, d), m) = r
           /\ ~IsSignWrappedSet(r) => Truncate(SignExtend(r, d), m) = r
<1>1. PICK q \in Int : d = m * q /\ q >= 2
  BY WrapsFacts
<1>2. PICK s \in Int : m = 2 * s /\ SignedMin(m) = s /\ SignedMax(m) = s - 1
  BY DEF Wraps, Moduli, SignedMin, SignedMax
<1>3. /\ m \in Moduli /\ d \in Moduli /\ m \in Nat /\ d \in Nat /\ m >= 4 /\ 2 * m <= d
      /\ r.m = m /\ r.lo \in 0 .. m - 1 /\ r.hi \in 0 .. m - 1
      /\ r.lo = r.hi => r.lo \in {0, m - 1}
      /\ r = MkRange(m, r.lo, r.hi)
  BY <1>1, RangeFacts DEF Wraps, Moduli
<1>4. \A w \in 0 .. m - 1 : (d - m + w) % m = w /\ w % m = w
  BY ModOfDifference DEF Word
<1>5. Truncate(EmptySet(d), m) = EmptySet(m)
  BY DEF Truncate, EmptySet, IsEmptySet, MkRange
<1>6. ASSUME ~IsWrappedSet(r) PROVE Truncate(ZeroExtend(r, d), m) = r
  <2>1. CASE IsEmptySet(r)
    BY <2>1, <1>3, <1>5 DEF ZeroExtend, IsEmptySet, EmptySet
  <2>2. CASE IsFullSet(r)
    <3>1. ZeroExtend(r, d) = MkRange(d, 0, m)
      BY <2>2, <1>3 DEF ZeroExtend, IsEmptySet, IsFullSet
    <3>2. r = FullSet(m)
      BY <2>2, <1>3 DEF IsFullSet, FullSet
    <3>3. QED
      BY <3>1, <3>2, <1>3
      DEF Truncate, TruncatePart, MkRange, IsEmptySet, IsFullSet, IsWrappedSet
  <2>3. CASE r.lo < r.hi
    <3>1. ZeroExtend(r, d) = MkRange(d, r.lo, r.hi)
      BY <2>3, <1>3 DEF ZeroExtend, IsEmptySet, IsFullSet, IsWrappedSet
    <3>2. Truncate(MkRange(d, r.lo, r.hi), m) = TruncatePart(r.lo, r.hi, m)
      BY <2>3, <1>3 DEF Truncate, MkRange, IsEmptySet, IsFullSet, IsWrappedSet
    <3>3. TruncatePart(r.lo, r.hi, m) = MkRange(m, r.lo, r.hi)
      BY <2>3, <1>3 DEF TruncatePart
    <3>4. QED
      BY <3>1, <3>2, <3>3, <1>3
  <2>4. QED
    BY <2>1, <2>2, <2>3, <1>6, <1>3 DEF IsEmptySet, IsFullSet, IsWrappedSet
<1>7. ASSUME ~IsSignWrappedSet(r) PROVE Truncate(SignExtend(r, d), m) = r
  <2>1. CASE IsEmptySet(r)
    BY <2>1, <1>3, <1>5 DEF SignExtend, IsEmptySet, EmptySet
  <2>2. CASE ~IsEmptySet(r)
    <3> DEFINE l == SignExtended(m, d, r.lo)
               h == IF r.hi = s THEN s ELSE SignExtended(m, d, r.hi)
    <3>1. SignExtend(r, d) = MkRange(d, l, h)
      BY <2>2, <1>2, <1>3, <1>7
      DEF SignExtend, IsFullSet, IsSignWrappedSet, Contains, IsWrappedSet
    <3>2. r.lo # r.hi
      BY <2>2, <1>2, <1>3, <1>7 DEF IsSignWrappedSet, Contains, IsFullSet, IsEmptySet
    <3>3. \/ 0 <= r.lo /\ r.lo < r.hi /\ r.hi <= s /\ l = r.lo /\ h = r.hi
          \/ s <= r.lo /\ r.lo < r.hi /\ l = d - m + r.lo /\ h = d - m + r.hi
          \/ s <= r.lo /\ r.hi <= s /\ r.hi < r.lo /\ l = d - m + r.lo /\ h = r.hi
      BY <3>2, <1>2, <1>3, <1>7
      DEF SignExtended, FromSigned, Signed, IsSignWrappedSet, Contains, IsWrappedSet
    <3> HIDE DEF l, h
    <3>4. CASE 0 <= r.lo /\ r.lo < r.hi /\ r.hi <= s /\ l = r.lo /\ h = r.hi
      <4>1. Truncate(MkRange(d, l, h), m) = TruncatePart(l, h, m)
        BY <3>4, <1>2, <1>3 DEF Truncate, MkRange, IsEmptySet, IsFullSet, IsWrappedSet
      <4>2. TruncatePart(l, h, m) = MkRange(m, r.lo, r.hi)
        BY <3>4, <1>2, <1>3 DEF TruncatePart
      <4>3. QED
        BY <4>1, <4>2, <3>1, <1>3
    <3>5. CASE s <= r.lo /\ r.lo < r.hi /\ l = d - m + r.lo /\ h = d - m + r.hi
      <4>1. Truncate(MkRange(d, l, h), m) = TruncatePart(l, h, m)
        BY <3>5, <1>2, <1>3 DEF Truncate, MkRange, IsEmptySet, IsFullSet, IsWrappedSet
      <4>2. l % m = r.lo
        BY <3>5, <1>3, <1>4
      <4>3. l >= m - 1 /\ h - (l - r.lo) = r.hi /\ r.hi <= m - 1
        BY <3>5, <1>2, <1>3
      <4>4. TruncatePart(l, h, m) = MkRange(m, r.lo, r.hi)
        BY <4>2, <4>3 DEF TruncatePart
      <4>5. QED
        BY <4>1, <4>4, <3>1, <1>3
    <3>6. CASE s <= r.lo /\ r.hi <= s /\ r.hi < r.lo /\ l = d - m + r.lo /\ h = r.hi
      <4>1. Truncate(MkRange(d, l, h), m) =
              IF l = d - 1 THEN MkRange(m, m - 1, h)
              ELSE UnionWith(TruncatePart(l, d - 1, m), MkRange(m, m - 1, h))
        BY <3>6, <1>2, <1>3 DEF Truncate, MkRange, IsEmptySet, IsFullSet, IsWrappedSet
      <4>2. CASE l = d - 1
        BY <4>1, <4>2, <3>1, <3>6, <1>3
      <4>3. CASE l # d - 1
        <5>1. l % m = r.lo
          BY <3>6, <1>3, <1>4
        <5>2. l >= m - 1 /\ d - 1 - (l - r.lo) = m - 1 /\ m - 1 <= m - 1
          BY <3>6, <1>2, <1>3
        <5>3. TruncatePart(l, d - 1, m) = MkRange(m, r.lo, m - 1)
          BY <5>1, <5>2 DEF TruncatePart
        <5>4. r.lo < m - 1
          BY <4>3, <3>6, <1>3
        <5>5. UnionWith(MkRange(m, r.lo, m - 1), MkRange(m, m - 1, r.hi)) = MkRange(m, r.lo, r.hi)
          BY <5>4, <3>6, <1>2, <1>3
          DEF UnionWith, UnionWrapped, Bridge, MkRange, Minus, IsEmptySet, IsFullSet, IsWrappedSet
        <5>6. QED
          BY <4>1, <4>3, <5>3, <5>5, <3>1, <3>6, <1>3
      <4>4. QED
        BY <4>2, <4>3
    <3>7. QED
      BY <3>3, <3>4, <3>5, <3>6
  <2>3. QED
    BY <2>1, <2>2
<1>8. QED
  BY <1>6, <1>7

(* multiply is truncate of the product range at twice the width.           *)
LEMMA MultiplyTruncates ==
    ASSUME NEW m \in Moduli, NEW a \in Ranges(m), NEW b \in Ranges(m), ~IsEmptySet(a), ~IsEmptySet(b)
    PROVE  Multiply(a, b) =
               Truncate(MkRange(m * m, UnsignedMin(a) * UnsignedMin(b), UnsignedMax(a) * UnsignedMax(b) + 1), m)
<1> DEFINE l == UnsignedMin(a) * UnsignedMin(b)
           h == UnsignedMax(a) * UnsignedMax(b) + 1
           r == MkRange(m * m, l, h)
<1>1. a.m = m /\ b.m = m
  BY RangeFacts
<1>2. /\ UnsignedMin(a) \in 0 .. m - 1 /\ UnsignedMax(a) \in 0 .. m - 1 /\ UnsignedMin(a) <= UnsignedMax(a)
      /\ UnsignedMin(b) \in 0 .. m - 1 /\ UnsignedMax(b) \in 0 .. m - 1 /\ UnsignedMin(b) <= UnsignedMax(b)
  <2>1. ASSUME NEW c \in Ranges(m), ~IsEmptySet(c)
        PROVE  UnsignedMin(c) \in 0 .. m - 1 /\ UnsignedMax(c) \in 0 .. m - 1 /\ UnsignedMin(c) <= UnsignedMax(c)
    BY <2>1, RangeFacts DEF UnsignedMin, UnsignedMax, Minus, IsEmptySet, IsFullSet, IsWrappedSet, Moduli
  <2>2. QED
    BY <2>1
<1>3. l \in Nat /\ h \in Nat /\ l < h
  BY <1>2, ProductMonotone DEF Moduli
<1>4. Truncate(r, m) = TruncatePart(l, h, m)
  <2> HIDE DEF l, h
  <2>1. r.m = m * m /\ r.lo = l /\ r.hi = h
    BY DEF MkRange
  <2>2. QED
    BY <2>1, <1>3 DEF Truncate, IsEmptySet, IsFullSet, IsWrappedSet
<1>5. QED
  BY <1>1, <1>3, <1>4, PartIsProduct DEF Multiply

(* Remainders of numbers of either sign.                                   *)
LEMMA IntMod ==
    ASSUME NEW m \in Moduli, NEW n \in Int
    PROVE  /\ n % m \in Word(m)
           /\ \E q \in Int : n = m * q + (n % m)
<1>1. n % m \in 0 .. m - 1 /\ n = m * (n \div m) + (n % m) /\ n \div m \in Int
  BY DEF Moduli
<1>2. QED
  BY <1>1 DEF Word

(* Sums and differences of remainders.                                     *)
LEMMA ModOfSum ==
    ASSUME NEW m \in Moduli, NEW a \in Int, NEW b \in Int
    PROVE  /\ (a + b) % m = Plus(m, a % m, b % m)
           /\ (a - b) % m = Minus(m, a % m, b % m)
<1>1. PICK q \in Int : a = m * q + (a % m)
  BY IntMod
<1>2. PICK e \in Int : b = m * e + (b % m)
  BY IntMod
<1> DEFINE x == a % m
           y == b % m
<1>3. x \in 0 .. m - 1 /\ y \in 0 .. m - 1 /\ a = m * q + x /\ b = m * e + y
  BY <1>1, <1>2, IntMod DEF Word
<1> HIDE DEF x, y
<1>4. (a + b) % m = Plus(m, x, y)
  <2> DEFINE n == a + b
             k == IF x + y < m THEN q + e ELSE q + e + 1
  <2>1. k \in Int /\ n \in Int /\ n - m * k = Plus(m, x, y)
    BY <1>3 DEF Plus, Moduli
  <2>2. Plus(m, x, y) \in 0 .. m - 1
    BY <1>3 DEF Plus, Moduli
  <2> HIDE DEF n, k
  <2>3. n % m = n - m * k
    BY <2>1, <2>2, ModUnique
  <2>4. QED
    BY <2>1, <2>3 DEF n
<1>5. (a - b) % m = Minus(m, x, y)
  <2> DEFINE n == a - b
             k == IF x >= y THEN q - e ELSE q - e - 1
  <2>1. k \in Int /\ n \in Int /\ n - m * k = Minus(m, x, y)
    BY <1>3 DEF Minus, Moduli
  <2>2. Minus(m, x, y) \in 0 .. m - 1
    BY <1>3 DEF Minus, Moduli
  <2> HIDE DEF n, k
  <2>3. n % m = n - m * k
    BY <2>1, <2>2, ModUnique
  <2>4. QED
    BY <2>1, <2>3 DEF n
<1>6. QED
  BY <1>4, <1>5 DEF x, y

(* Products of remainders.                                                 *)
LEMMA ModOfProduct ==
    ASSUME NEW m \in Moduli, NEW a \in Int, NEW b \in Int
    PROVE  (a * b) % m = ((a % m) * (b % m)) % m
<1>1. PICK q \in Int : a = m * q + (a % m)
  BY IntMod
<1>2. PICK e \in Int : b = m * e + (b % m)
  BY IntMod
<1> DEFINE x == a % m
           y == b % m
           n == a * b
           t == x * y
           k == m * q * e + q * y + x * e
<1>3. x \in Nat /\ y \in Nat /\ a = m * q + x /\ b = m * e + y /\ m \in Nat
  BY <1>1, <1>2, IntMod DEF Word, Moduli
<1> HIDE DEF x, y
<1>4. n = m * k + t
  <2>1. n = (m * q + x) * (m * e + y)
    BY <1>3
  <2>2. QED
    BY <2>1, <1>3
<1>5. n \in Int /\ t \in Int /\ k \in Int
  BY <1>3
<1> HIDE DEF n, t, k
<1>6. PICK f \in Int : t = m * f + (t % m)
  BY <1>5, IntMod
<1>7. t % m \in 0 .. m - 1
  BY <1>5, IntMod DEF Word
<1> DEFINE g == k + f
<1>8. g \in Int /\ n - m * g = t % m
  BY <1>3, <1>4, <1>5, <1>6, <1>7
<1> HIDE DEF g
<1>9. n % m = n - m * g
  BY <1>5, <1>7, <1>8, ModUnique
<1>10. QED
  BY <1>8, <1>9 DEF n, t, x, y

(* A number of a width is the signed reading of its low bits.              *)
LEMMA SignedOfMod ==
    ASSUME NEW m \in Moduli, NEW n \in -SignedMin(m) .. SignedMax(m)
    PROVE  /\ n \in Int /\ Signed(m, n % m) = n
           /\ n % m = FromSigned(m, n)
           /\ n >= 0 => n % m = n
<1>1. PICK s \in Int : m = 2 * s /\ SignedMin(m) = s /\ SignedMax(m) = s - 1
  BY DEF Moduli, SignedMin, SignedMax
<1> DEFINE k == IF n >= 0 THEN 0 ELSE -1
<1>2. n \in Int /\ k \in Int /\ n - m * k = FromSigned(m, n) /\ FromSigned(m, n) \in 0 .. m - 1
  BY <1>1 DEF Moduli, FromSigned
<1> HIDE DEF k
<1>3. n % m = FromSigned(m, n)
  BY <1>2, ModUnique
<1>4. QED
  BY <1>1, <1>2, <1>3 DEF FromSigned, Signed, Moduli

(* The signed reading of a word is a number of its width.                  *)
LEMMA SignedOfWord ==
    ASSUME NEW m \in Moduli, NEW n \in Int
    PROVE  Signed(m, n % m) \in -SignedMin(m) .. SignedMax(m)
<1>1. PICK s \in Int : m = 2 * s /\ SignedMin(m) = s /\ SignedMax(m) = s - 1
  BY DEF Moduli, SignedMin, SignedMax
<1>2. n % m \in 0 .. m - 1
  BY IntMod DEF Word
<1>3. QED
  BY <1>1, <1>2 DEF Signed, Moduli

(* A multiple of a modulus is one.                                         *)
LEMMA MultipleWraps ==
    ASSUME NEW m \in Moduli, NEW d \in Nat, d > m, d % m = 0
    PROVE  Wraps(m, d)
<1> DEFINE s == m \div 2
           q == d \div m
<1>1. s \in Int /\ m = 2 * s
  BY DEF Moduli
<1>2. q \in Int /\ d = m * q
  BY DEF Moduli
<1> HIDE DEF s, q
<1> DEFINE h == s * q
<1>3. h \in Int /\ d = 2 * h
  BY <1>1, <1>2
<1> HIDE DEF h
<1>4. d % 2 = 0
  BY <1>3
<1>5. QED
  BY <1>4 DEF Wraps, Moduli

(* The product of two ranges is legal, whatever their widths.              *)
LEMMA MultiplyLegal ==
    ASSUME NEW m \in Moduli, NEW n \in Moduli, NEW a \in Ranges(m), NEW b \in Ranges(n)
    PROVE  Multiply(a, b) \in Ranges(m)
<1>1. CASE IsEmptySet(a) \/ IsEmptySet(b)
  BY <1>1, RangeFacts, EmptyFullLegal DEF Multiply
<1>2. CASE ~IsEmptySet(a) /\ ~IsEmptySet(b)
  <2> DEFINE al == UnsignedMin(a)
             ah == UnsignedMax(a)
             bl == UnsignedMin(b)
             bh == UnsignedMax(b)
  <2>1. al \in 0 .. m - 1 /\ ah \in 0 .. m - 1 /\ al <= ah
    <3>1. a.lo \in Word(m) /\ Contains(a, a.lo)
      BY <1>2, LowerMember
    <3>2. al \in Word(m) /\ ah \in Word(m) /\ al <= a.lo /\ a.lo <= ah
      BY <3>1, UnsignedBounds
    <3>3. QED
      BY <3>1, <3>2 DEF Word, Moduli
  <2>2. bl \in 0 .. n - 1 /\ bh \in 0 .. n - 1 /\ bl <= bh
    <3>1. b.lo \in Word(n) /\ Contains(b, b.lo)
      BY <1>2, LowerMember
    <3>2. bl \in Word(n) /\ bh \in Word(n) /\ bl <= b.lo /\ b.lo <= bh
      BY <3>1, UnsignedBounds
    <3>3. QED
      BY <3>1, <3>2 DEF Word, Moduli
  <2>3. Multiply(a, b) = TruncateProduct(m, al * bl, ah * bh + 1)
    BY <1>2, RangeFacts DEF Multiply
  <2> HIDE DEF al, ah, bl, bh
  <2>4. al \in Nat /\ ah \in Nat /\ bl \in Nat /\ bh \in Nat
    BY <2>1, <2>2
  <2>5. al * bl <= ah * bh
    BY <2>1, <2>2, <2>4, ProductMonotone
  <2>6. al * bl \in Nat /\ ah * bh + 1 \in Nat /\ al * bl < ah * bh + 1
    BY <2>4, <2>5
  <2>7. QED
    BY <2>3, <2>6, TruncateSound
<1>3. QED
  BY <1>1, <1>2

(* The quotient of two ranges is legal, whatever their widths.             *)
LEMMA UDivLegal ==
    ASSUME NEW m \in Moduli, NEW n \in Moduli, NEW a \in Ranges(m), NEW b \in Ranges(n)
    PROVE  UDiv(a, b) \in Ranges(m)
<1> DEFINE al == UnsignedMin(a)
           ah == UnsignedMax(a)
           bh == UnsignedMax(b)
           umin == IF UnsignedMin(b) # 0 THEN UnsignedMin(b) ELSE IF b.hi = 1 THEN b.lo ELSE 1
           l == al \div bh
           h == Plus(m, ah \div umin, 1)
<1>1. CASE IsEmptySet(a) \/ IsEmptySet(b) \/ bh = 0 \/ IsFullSet(b) \/ l = h
  BY <1>1, RangeFacts, EmptyFullLegal DEF UDiv
<1>2. CASE ~IsEmptySet(a) /\ ~IsEmptySet(b) /\ bh # 0 /\ ~IsFullSet(b) /\ l # h
  <2>1. al \in 0 .. m - 1 /\ ah \in 0 .. m - 1
    <3>1. a.lo \in Word(m) /\ Contains(a, a.lo)
      BY <1>2, LowerMember
    <3>2. al \in Word(m) /\ ah \in Word(m)
      BY <3>1, UnsignedBounds
    <3>3. QED
      BY <3>2 DEF Word, Moduli
  <2>2. bh \in Nat /\ bh >= 1 /\ UnsignedMin(b) \in Nat
    <3>1. b.lo \in Word(n) /\ Contains(b, b.lo)
      BY <1>2, LowerMember
    <3>2. UnsignedMin(b) \in Word(n) /\ bh \in Word(n)
      BY <3>1, UnsignedBounds
    <3>3. QED
      BY <1>2, <3>2 DEF Word, Moduli
  <2>3. umin \in Nat /\ umin >= 1
    <3>1. n \in Nat /\ n >= 4
      BY DEF Moduli
    <3>2. b.m = n /\ b.lo \in 0 .. n - 1 /\ b.hi \in 0 .. n - 1
      BY RangeFacts
    <3>3. ~(b.lo = 0 /\ b.hi = 1)
      BY <1>2, <3>1, <3>2 DEF UnsignedMax, IsFullSet, IsWrappedSet, Minus
    <3>4. QED
      BY <2>2, <3>1, <3>2, <3>3
  <2>4. UDiv(a, b) = MkRange(m, l, h)
    BY <1>2, RangeFacts DEF UDiv
  <2> HIDE DEF al, ah, bh, umin
  <2>5. m \in Nat /\ m >= 4
    BY DEF Moduli
  <2>6. l \in Nat /\ l <= al
    BY <2>1, <2>2, <2>5, QuotientBelow
  <2>7. ah \div umin \in Nat /\ ah \div umin <= ah
    BY <2>1, <2>3, <2>5, QuotientBelow
  <2> DEFINE k == ah \div umin
  <2> HIDE DEF k
  <2>8. h \in Word(m) /\ l \in Word(m)
    BY <2>1, <2>5, <2>6, <2>7 DEF Plus, Word, k
  <2>9. QED
    BY <1>2, <2>4, <2>8, MkRangeLegal DEF Legal
<1>3. QED
  BY <1>1, <1>2

(* One value, as a range.                                                  *)
Single(r) == r.hi = Plus(r.m, r.lo, 1)

(* A range of one value is neither empty nor full, contains that value     *)
(* alone, and has it for both bounds.                                      *)
LEMMA SingleFacts ==
    ASSUME NEW m \in Moduli, NEW r \in Ranges(m), Single(r)
    PROVE  /\ ~IsEmptySet(r) /\ ~IsFullSet(r) /\ r.lo # r.hi
           /\ UnsignedMin(r) = r.lo /\ UnsignedMax(r) = r.lo
           /\ SetSize(r) = 1
           /\ \A x \in Word(m) : Contains(r, x) <=> x = r.lo
<1>1. m \in Nat /\ m >= 4 /\ r.m = m /\ r.lo \in 0 .. m - 1 /\ r.hi \in 0 .. m - 1
  BY RangeFacts DEF Moduli
<1> DEFINE l == r.lo
           h == r.hi
<1>2. h = IF l + 1 < m THEN l + 1 ELSE 0
  BY <1>1 DEF Single, Plus
<1>3. QED
  BY <1>1, <1>2 DEF IsEmptySet, IsFullSet, IsWrappedSet, UnsignedMin, UnsignedMax, SetSize, Contains, Minus, Word

(* Arithmetic on two values yields one value.                              *)
LEMMA SingleSum ==
    ASSUME NEW m \in Moduli, NEW a \in Ranges(m), NEW b \in Ranges(m), Single(a), Single(b)
    PROVE  Single(Add(a, b)) /\ Single(Sub(a, b))
<1>1. m \in Nat /\ m >= 4 /\ a.m = m /\ a.lo \in 0 .. m - 1 /\ b.lo \in 0 .. m - 1
      /\ a.hi = Plus(m, a.lo, 1) /\ b.hi = Plus(m, b.lo, 1)
  BY RangeFacts DEF Moduli, Single
<1>2. /\ ~IsEmptySet(a) /\ ~IsFullSet(a) /\ SetSize(a) = 1
      /\ ~IsEmptySet(b) /\ ~IsFullSet(b) /\ SetSize(b) = 1
  BY SingleFacts
<1>3. ASSUME NEW l \in 0 .. m - 1, NEW h, h = Plus(m, l, 1)
      PROVE  Single(SpreadOrFull(a, b, l, h))
  <2>1. l # h /\ h \in 0 .. m - 1 /\ Minus(m, h, l) = 1
    BY <1>1, <1>3 DEF Plus, Minus
  <2>2. SetSize(MkRange(m, l, h)) = 1
    BY <2>1 DEF SetSize, IsFullSet, MkRange
  <2>3. SpreadOrFull(a, b, l, h) = MkRange(m, l, h)
    BY <1>1, <1>2, <2>1, <2>2 DEF SpreadOrFull
  <2>4. QED
    BY <1>3, <2>3 DEF Single, MkRange
<1> DEFINE x == a.lo
           y == b.lo
<1>4. Add(a, b) = SpreadOrFull(a, b, Plus(m, x, y), Minus(m, Plus(m, a.hi, b.hi), 1))
  BY <1>1, <1>2 DEF Add
<1>5. Sub(a, b) = SpreadOrFull(a, b, Plus(m, Minus(m, x, b.hi), 1), Minus(m, a.hi, y))
  BY <1>1, <1>2 DEF Sub
<1>6. x \in 0 .. m - 1 /\ y \in 0 .. m - 1 /\ a.hi = Plus(m, x, 1) /\ b.hi = Plus(m, y, 1)
  BY <1>1
<1> HIDE DEF x, y
<1>7. /\ Plus(m, x, y) \in 0 .. m - 1
      /\ Minus(m, Plus(m, a.hi, b.hi), 1) = Plus(m, Plus(m, x, y), 1)
  BY <1>1, <1>6 DEF Plus, Minus
<1>8. /\ Plus(m, Minus(m, x, b.hi), 1) \in 0 .. m - 1
      /\ Minus(m, a.hi, y) = Plus(m, Plus(m, Minus(m, x, b.hi), 1), 1)
  <2> DEFINE u == Minus(m, x, Plus(m, y, 1))
  <2>1. u \in 0 .. m - 1 /\ Plus(m, u, 1) = Minus(m, x, y)
    BY <1>1, <1>6 DEF Plus, Minus
  <2>2. Minus(m, Plus(m, x, 1), y) = Plus(m, Minus(m, x, y), 1)
    BY <1>1, <1>6 DEF Plus, Minus
  <2>3. Minus(m, x, y) \in 0 .. m - 1
    BY <1>1, <1>6 DEF Minus
  <2>4. QED
    BY <1>6, <2>1, <2>2, <2>3
<1>9. QED
  BY <1>3, <1>4, <1>5, <1>7, <1>8

(* So does a product, of whatever widths.                                  *)
LEMMA SingleProduct ==
    ASSUME NEW m \in Moduli, NEW n \in Moduli, NEW a \in Ranges(m), NEW b \in Ranges(n), Single(a), Single(b)
    PROVE  Single(Multiply(a, b))
<1>1. m \in Nat /\ m >= 4 /\ n \in Nat /\ a.m = m /\ a.lo \in 0 .. m - 1 /\ b.lo \in 0 .. n - 1
  BY RangeFacts DEF Moduli
<1> DEFINE p == a.lo * b.lo
           div == IF p >= m - 1 THEN p \div m ELSE 0
           l == p - m * div
           h == (p + 1) - m * div
<1>2. Multiply(a, b) = TruncateProduct(m, p, p + 1)
  BY <1>1, SingleFacts DEF Multiply
<1>3. p \in Nat
  BY <1>1
<1> HIDE DEF p
<1>4. div \in Int /\ l \in 0 .. m - 1 /\ h = l + 1
  <2>1. CASE p >= m - 1
    <3>1. p \div m \in Nat /\ p % m \in 0 .. m - 1 /\ p = m * (p \div m) + (p % m)
      BY <1>3, DivMod
    <3>2. QED
      BY <1>1, <1>3, <2>1, <3>1
  <2>2. CASE p < m - 1
    BY <1>1, <1>3, <2>2
  <2>3. QED
    BY <1>1, <1>3, <2>1, <2>2
<1>5. TruncateProduct(m, p, p + 1) =
          IF h <= m - 1 THEN MkRange(m, l, h) ELSE IF h - m < l THEN MkRange(m, l, h - m) ELSE FullSet(m)
  BY DEF TruncateProduct
<1> HIDE DEF l, h
<1>6. Multiply(a, b) = MkRange(m, l, Plus(m, l, 1))
  BY <1>1, <1>2, <1>4, <1>5 DEF Plus
<1>7. QED
  BY <1>6 DEF Single, MkRange

(* And a quotient.                                                         *)
LEMMA SingleQuotient ==
    ASSUME NEW m \in Moduli, NEW a \in Ranges(m), NEW b \in Ranges(m), Single(a), Single(b), b.lo # 0
    PROVE  Single(UDiv(a, b))
<1>1. m \in Nat /\ m >= 4 /\ a.m = m /\ a.lo \in 0 .. m - 1 /\ b.lo \in 0 .. m - 1
  BY RangeFacts DEF Moduli
<1> DEFINE k == a.lo \div b.lo
<1>2. k \in Nat /\ k <= a.lo
  BY <1>1, QuotientBelow
<1>3. UDiv(a, b) = IF k = Plus(m, k, 1) THEN FullSet(m) ELSE MkRange(m, k, Plus(m, k, 1))
  BY <1>1, SingleFacts DEF UDiv
<1> HIDE DEF k
<1>4. k # Plus(m, k, 1)
  BY <1>1, <1>2 DEF Plus
<1>5. QED
  BY <1>3, <1>4 DEF Single, MkRange
-----------------------------------------------------------------------------
(* The texts.                                                              *)

(* int and long are moduli, and a long is a whole number of ints.          *)
LEMMA Widths ==
    /\ N \in Moduli /\ W \in Moduli /\ Wraps(N, W)
    /\ N \in Nat /\ W \in Nat /\ N >= 4 /\ W >= 2 * N
<1>1. N \in Moduli /\ W \in Nat /\ W > N /\ W % N = 0
  BY WidthAssumption DEF Moduli
<1>2. Wraps(N, W)
  BY <1>1, MultipleWraps
<1>3. PICK q \in Int : W = N * q /\ q >= 2
  BY <1>2, WrapsFacts
<1>4. N \in Nat /\ N >= 4
  BY <1>1 DEF Moduli
<1> DEFINE k == q - 2
<1>5. k \in Nat /\ N * k \in Nat /\ W = N * k + 2 * N
  BY <1>3, <1>4
<1>6. QED
  BY <1>1, <1>2, <1>4, <1>5 DEF Wraps

(* Half an int and half a long, by which the signed numbers are bounded.   *)
LEMMA Halves ==
    \E s, S \in Int :
        /\ N = 2 * s /\ SignedMin(N) = s /\ SignedMax(N) = s - 1
        /\ W = 2 * S /\ SignedMin(W) = S /\ SignedMax(W) = S - 1
        /\ s >= 2 /\ S >= 2 * s
<1>1. PICK s \in Int : N = 2 * s /\ SignedMin(N) = s /\ SignedMax(N) = s - 1
  BY Widths DEF Moduli, SignedMin, SignedMax
<1>2. PICK S \in Int : W = 2 * S /\ SignedMin(W) = S /\ SignedMax(W) = S - 1
  BY Widths DEF Moduli, SignedMin, SignedMax
<1>3. s >= 2 /\ S >= 2 * s
  BY <1>1, <1>2, Widths
<1>4. QED
  BY <1>1, <1>2, <1>3

(* Numbers of an int are numbers of a long.                                *)
LEMMA NumbersOfLong ==
    ASSUME NEW m \in {N, W}
    PROVE  /\ m \in Moduli
           /\ -SignedMin(m) .. SignedMax(m) \subseteq -SignedMin(W) .. SignedMax(W)
<1>1. PICK s, S \in Int :
        /\ N = 2 * s /\ SignedMin(N) = s /\ SignedMax(N) = s - 1
        /\ W = 2 * S /\ SignedMin(W) = S /\ SignedMax(W) = S - 1
        /\ s >= 2 /\ S >= 2 * s
  BY Halves
<1>2. CASE m = N
  BY <1>1, <1>2, Widths
<1>3. CASE m = W
  BY <1>1, <1>3, Widths
<1>4. QED
  BY <1>2, <1>3

(* The text that the propagation pass writes for a range is read as a      *)
(* legal range that holds of every number the range contained, unless it   *)
(* is the one text whose two ends are read as the same number.  The        *)
(* smallest long is lost only when the text begins with it.                *)
LEMMA EmitRead ==
    ASSUME NEW m \in {N, W}, NEW r \in Ranges(m),
           EmitRange(r) # TextIn(-SignedMax(W) + 1, -SignedMin(W))
    PROVE  /\ GetConstantRange(EmitRange(r)) \in Ranges(W)
           /\ \A x \in (-SignedMin(m) .. SignedMax(m)) \ {-SignedMin(W)} :
                Contains(r, x % m) => Holds(GetConstantRange(EmitRange(r)), x)
           /\ EmitRange(r).lo # -SignedMin(W) =>
                \A x \in -SignedMin(m) .. SignedMax(m) :
                    Contains(r, x % m) => Holds(GetConstantRange(EmitRange(r)), x)
<1>1. PICK s, S \in Int :
        /\ N = 2 * s /\ SignedMin(N) = s /\ SignedMax(N) = s - 1
        /\ W = 2 * S /\ SignedMin(W) = S /\ SignedMax(W) = S - 1
        /\ s >= 2 /\ S >= 2 * s
  BY Halves
<1>2. m \in Moduli /\ -SignedMin(m) .. SignedMax(m) \subseteq -SignedMin(W) .. SignedMax(W)
  BY NumbersOfLong
<1> DEFINE al == r.lo
           ah == r.hi
           low == Signed(m, al)
           top == Signed(m, ah)
           high == IF top = -S THEN S - 1 ELSE top - 1
           rl == ReadInteger(low)
           rh == ReadInteger(high)
           l == FromSigned(W, rl)
           h == Plus(W, FromSigned(W, rh), 1)
<1>3. r = MkRange(m, al, ah) /\ al \in 0 .. m - 1 /\ ah \in 0 .. m - 1
      /\ (al = ah => al = 0 \/ al = m - 1)
  BY <1>2, RangeFacts
<1>4. EmitRange(r) = TextIn(low, high)
  BY <1>1, <1>3 DEF EmitRange, MkRange
<1>5. GetConstantRange(EmitRange(r)) = MkRange(W, l, h)
  BY <1>1, <1>4 DEF GetConstantRange, TextIn, Word64
<1>6. low # -S + 2 \/ high # -S
  <2>1. TextIn(low, high) # TextIn(-SignedMax(W) + 1, -SignedMin(W))
    BY <1>4
  <2>2. -SignedMax(W) + 1 = -S + 2 /\ -SignedMin(W) = -S
    BY <1>1
  <2>3. QED
    BY <2>1, <2>2 DEF TextIn
<1> HIDE DEF al, ah
<1>7. l \in 0 .. W - 1 /\ h \in 0 .. W - 1 /\ (l = h => l = 0 \/ l = W - 1)
  <2>1. CASE m = N
    BY <1>1, <1>3, <1>6, <2>1 DEF Signed, ReadInteger, FromSigned, Plus
  <2>2. CASE m = W
    BY <1>1, <1>3, <1>6, <2>2 DEF Signed, ReadInteger, FromSigned, Plus
  <2>3. QED
    BY <2>1, <2>2
<1>8. MkRange(W, l, h) \in Ranges(W)
  BY <1>7, Widths, MkRangeLegal DEF Word, Legal
<1>9. ASSUME NEW x \in -SignedMin(m) .. SignedMax(m), Contains(r, x % m), x # -S \/ low # -S
      PROVE  Holds(MkRange(W, l, h), x)
  <2>1. x % m = FromSigned(m, x)
    BY <1>2, SignedOfMod
  <2>2. x % W = FromSigned(W, x)
    BY <1>2, Widths, SignedOfMod
  <2> DEFINE v == FromSigned(m, x)
             w == FromSigned(W, x)
  <2>3. IF al = ah THEN al = m - 1 ELSE IF al > ah THEN al <= v \/ v < ah ELSE al <= v /\ v < ah
    BY <1>2, <1>3, <1>9, <2>1 DEF Contains, IsFullSet, IsWrappedSet, MkRange, Moduli
  <2>4. IF l = h THEN l = W - 1 ELSE IF l > h THEN l <= w \/ w < h ELSE l <= w /\ w < h
    <3>1. CASE m = N
      BY <1>1, <1>3, <1>6, <1>9, <2>3, <3>1 DEF Signed, ReadInteger, FromSigned, Plus
    <3>2. CASE m = W
      BY <1>1, <1>3, <1>6, <1>9, <2>3, <3>2 DEF Signed, ReadInteger, FromSigned, Plus
    <3>3. QED
      BY <3>1, <3>2
  <2> HIDE DEF l, h, w
  <2>5. Contains(MkRange(W, l, h), w)
    BY <1>7, <2>4 DEF Contains, IsFullSet, IsWrappedSet, MkRange
  <2>6. QED
    BY <2>2, <2>5 DEF Holds, MkRange, w
<1>10. -SignedMin(W) = -S /\ EmitRange(r).lo = low
  BY <1>1, <1>4 DEF TextIn
<1>11. QED
  BY <1>5, <1>8, <1>9, <1>10

(* A literal is known as the range of itself, at 64 bits.                  *)
LEMMA LiteralRange ==
    ASSUME NEW c \in (-SignedMin(W) .. SignedMax(W)),
           NEW r, r = MkRange(W, FromSigned(W, c), Plus(W, FromSigned(W, c), 1))
    PROVE  /\ r \in Ranges(W) /\ Holds(r, c)
           /\ r.hi = Plus(W, r.lo, 1) /\ r.lo = FromSigned(W, c)
<1> DEFINE l == FromSigned(W, c)
           h == Plus(W, l, 1)
<1>1. W \in Moduli /\ c % W = l
  BY Widths, SignedOfMod
<1>2. l \in Word(W)
  BY <1>1, IntMod
<1> HIDE DEF l
<1>3. W \in Nat /\ W >= 4 /\ l \in 0 .. W - 1
  BY <1>2, Widths DEF Word
<1>4. h \in 0 .. W - 1 /\ l # h /\ (IF l > h THEN l <= l \/ l < h ELSE l <= l /\ l < h)
  BY <1>3 DEF Plus
<1>5. r = MkRange(W, l, h)
  BY DEF l
<1> HIDE DEF h
<1>6. r \in Ranges(W)
  BY <1>1, <1>3, <1>4, <1>5, MkRangeLegal DEF Word, Legal
<1>7. Contains(r, l) /\ r.m = W /\ r.lo = l /\ r.hi = h
  BY <1>3, <1>4, <1>5 DEF Contains, IsFullSet, IsWrappedSet, MkRange
<1>8. QED
  BY <1>1, <1>6, <1>7 DEF Holds, h, l

(* An equality is read as the one-word range of its number, at 32 bits.    *)
LEMMA EqualityRange ==
    ASSUME NEW t, t.kind = "eq", t.lo \in Int
    PROVE  /\ GetConstantRange(t) \in Ranges(N) /\ Single(GetConstantRange(t))
           /\ GetConstantRange(t).lo = ReadInteger(t.lo) % N
           /\ \A x \in Int : x % N = ReadInteger(t.lo) % N => Holds(GetConstantRange(t), x)
<1> DEFINE c == t.lo
           l == Word32(c)
           h == (l + 1) % N
           r == GetConstantRange(t)
<1>1. PICK s, S \in Int :
        /\ N = 2 * s /\ SignedMin(N) = s /\ SignedMax(N) = s - 1
        /\ W = 2 * S /\ SignedMin(W) = S /\ SignedMax(W) = S - 1
        /\ s >= 2 /\ S >= 2 * s
  BY Halves
<1>2. ReadInteger(c) \in Int
  BY <1>1 DEF ReadInteger
<1>3. l \in 0 .. N - 1 /\ l = ReadInteger(c) % N
  BY <1>2, Widths, IntMod DEF Word32, Word
<1>4. r = MkRange(N, l, h)
  BY DEF GetConstantRange
<1> HIDE DEF l, r, c
<1>5. h = Plus(N, l, 1)
  <2>1. CASE l + 1 < N
    <3>1. h = l + 1
      BY <1>1, <1>3, <2>1
    <3>2. QED
      BY <2>1, <3>1 DEF Plus
  <2>2. CASE l + 1 = N
    <3>1. h = 0
      BY <1>1, <1>3, <2>2
    <3>2. QED
      BY <1>1, <1>3, <2>2, <3>1 DEF Plus
  <2>3. QED
    BY <1>1, <1>3, <2>1, <2>2
<1>6. h \in 0 .. N - 1 /\ l # h /\ (IF l > h THEN l <= l \/ l < h ELSE l <= l /\ l < h)
  BY <1>1, <1>3, <1>5 DEF Plus
<1> HIDE DEF h
<1>7. r \in Ranges(N)
  BY <1>3, <1>4, <1>6, Widths, MkRangeLegal DEF Word, Legal
<1>8. Contains(r, l) /\ r.m = N /\ r.lo = l /\ r.hi = h
  BY <1>1, <1>3, <1>4, <1>6 DEF Contains, IsFullSet, IsWrappedSet, MkRange
<1>9. \A x \in Int : x % N = ReadInteger(c) % N => Holds(r, x)
  BY <1>3, <1>8 DEF Holds
<1>10. QED
  BY <1>3, <1>5, <1>7, <1>8, <1>9 DEF r, c, Single

(* An interval is always read at 64 bits.                                  *)
LEMMA IntervalRange ==
    ASSUME NEW t \in [kind : {"in"}, lo : Int, hi : Int]
    PROVE  GetConstantRange(t) = MkRange(W, Word64(t.lo), Plus(W, Word64(t.hi), 1))
           /\ Word64(t.lo) \in Word(W) /\ Plus(W, Word64(t.hi), 1) \in Word(W)
<1>1. PICK s, S \in Int :
        /\ N = 2 * s /\ SignedMin(N) = s /\ SignedMax(N) = s - 1
        /\ W = 2 * S /\ SignedMin(W) = S /\ SignedMax(W) = S - 1
        /\ s >= 2 /\ S >= 2 * s
  BY Halves
<1>2. \A n \in Int : Word64(n) \in 0 .. W - 1
  BY <1>1 DEF Word64, ReadInteger, FromSigned
<1>3. \A u \in 0 .. W - 1 : Plus(W, u, 1) \in 0 .. W - 1
  BY <1>1 DEF Plus
<1>4. QED
  BY <1>2, <1>3 DEF GetConstantRange, Word

(* The predicates of comparisons.                                          *)
AllPredicates == {"eq", "ne"} \cup Below \cup Above

(* A signed reading is an integer of which the word is the residue.        *)
LEMMA SignedFacts ==
    ASSUME NEW m \in Moduli, NEW x \in Word(m)
    PROVE  /\ Signed(m, x) \in -SignedMin(m) .. SignedMax(m)
           /\ Signed(m, x) \in Int /\ x \in Int
           /\ Signed(m, x) % m = x
<1>1. PICK s \in Int : m = 2 * s /\ SignedMin(m) = s /\ SignedMax(m) = s - 1
  BY DEF Moduli, SignedMin, SignedMax
<1>2. m \in Int /\ m >= 4 /\ x \in 0 .. m - 1
  BY DEF Moduli, Word
<1>3. Signed(m, x) = x \/ Signed(m, x) = x - m
  BY <1>1, <1>2 DEF Signed
<1>4. Signed(m, x) \in -SignedMin(m) .. SignedMax(m)
  BY <1>1, <1>2 DEF Signed
<1>5. CASE Signed(m, x) = x
  <2>1. x - m * 0 \in 0 .. m - 1
    BY <1>2
  <2>2. QED
    BY <1>2, <1>4, <1>5, <2>1, ModUnique
<1>6. CASE Signed(m, x) = x - m
  <2>1. (x - m) - m * (-1) \in 0 .. m - 1 /\ (x - m) - m * (-1) = x
    BY <1>2
  <2>2. (x - m) % m = x
    BY <1>2, <2>1, ModUnique
  <2>3. QED
    BY <1>2, <1>4, <1>6, <2>2
<1>7. QED
  BY <1>3, <1>5, <1>6

(* Operands and predicate change sides together.                           *)
LEMMA SwapTruth ==
    ASSUME NEW p \in AllPredicates, NEW m \in Moduli, NEW x \in Word(m), NEW y \in Word(m)
    PROVE  /\ Swapped(p) \in AllPredicates
           /\ Compare(Swapped(p), m, y, x) = Compare(p, m, x, y)
<1>1. Signed(m, x) \in Int /\ Signed(m, y) \in Int /\ x \in Int /\ y \in Int
  BY SignedFacts
<1>2. CASE p = "eq"
  BY <1>2 DEF Swapped, Compare, AllPredicates
<1>3. CASE p = "ne"
  BY <1>3 DEF Swapped, Compare, AllPredicates
<1>4. CASE p \in {"slt", "sle"}
  BY <1>1, <1>4 DEF Swapped, Compare, AllPredicates, Above
<1>5. CASE p \in {"ult", "ule"}
  BY <1>1, <1>5 DEF Swapped, Compare, AllPredicates, Above
<1>6. CASE p \in {"sgt", "sge"}
  BY <1>1, <1>6 DEF Swapped, Compare, AllPredicates, Below
<1>7. CASE p \in {"ugt", "uge"}
  BY <1>1, <1>7 DEF Swapped, Compare, AllPredicates, Below
<1>8. QED
  BY <1>2, <1>3, <1>4, <1>5, <1>6, <1>7 DEF AllPredicates, Below, Above

(* A predicate and its inverse never agree.                                *)
LEMMA InvertTruth ==
    ASSUME NEW p \in AllPredicates, NEW m \in Moduli, NEW x \in Word(m), NEW y \in Word(m)
    PROVE  /\ Inverted(p) \in AllPredicates
           /\ Compare(p, m, x, y) \in BOOLEAN
           /\ Compare(Inverted(p), m, x, y) <=> ~Compare(p, m, x, y)
<1>1. Signed(m, x) \in Int /\ Signed(m, y) \in Int /\ x \in Int /\ y \in Int
  BY SignedFacts
<1>2. Inverted(p) \in AllPredicates
  BY DEF Inverted, AllPredicates, Below, Above
<1>3. SUFFICES /\ Compare(p, m, x, y) \in BOOLEAN
              /\ Compare(Inverted(p), m, x, y) <=> ~Compare(p, m, x, y)
  BY <1>2
<1>4. CASE p = "eq"
  BY <1>1, <1>4 DEF Inverted, Compare
<1>5. CASE p = "ne"
  BY <1>1, <1>5 DEF Inverted, Compare
<1>6. CASE p = "slt"
  BY <1>1, <1>6 DEF Inverted, Compare
<1>7. CASE p = "sle"
  BY <1>1, <1>7 DEF Inverted, Compare
<1>8. CASE p = "sgt"
  BY <1>1, <1>8 DEF Inverted, Compare
<1>9. CASE p = "sge"
  BY <1>1, <1>9 DEF Inverted, Compare
<1>10. CASE p = "ult"
  BY <1>1, <1>10 DEF Inverted, Compare
<1>11. CASE p = "ule"
  BY <1>1, <1>11 DEF Inverted, Compare
<1>12. CASE p = "ugt"
  BY <1>1, <1>12 DEF Inverted, Compare
<1>13. CASE p = "uge"
  BY <1>1, <1>13 DEF Inverted, Compare
<1>14. QED
  BY <1>4, <1>5, <1>6, <1>7, <1>8, <1>9, <1>10, <1>11, <1>12, <1>13 DEF AllPredicates, Below, Above

(* A predicate compares the numbers it reads.                              *)
LEMMA CompareNumbers ==
    ASSUME NEW p \in Below \cup Above, NEW m \in Moduli, NEW x \in Word(m), NEW y \in Word(m)
    PROVE  /\ Number(p, m, x) \in Int /\ Number(p, m, y) \in Int
           /\ Number(p, m, x) = Number(p, m, y) => x = y
           /\ p \in {"slt", "ult"} => (Compare(p, m, x, y) <=> Number(p, m, x) < Number(p, m, y))
           /\ p \in {"sle", "ule"} => (Compare(p, m, x, y) <=> Number(p, m, x) <= Number(p, m, y))
           /\ p \in {"sgt", "ugt"} => (Compare(p, m, x, y) <=> Number(p, m, x) > Number(p, m, y))
           /\ p \in {"sge", "uge"} => (Compare(p, m, x, y) <=> Number(p, m, x) >= Number(p, m, y))
<1>1. Signed(m, x) \in Int /\ Signed(m, y) \in Int /\ x \in Int /\ y \in Int
  BY SignedFacts
<1>2. Signed(m, x) = Signed(m, y) => x = y
  BY SignedFacts
<1>3. CASE p \in {"slt", "sle"}
  BY <1>1, <1>2, <1>3 DEF Number, SignedPredicates, Compare
<1>4. CASE p \in {"sgt", "sge"}
  BY <1>1, <1>2, <1>4 DEF Number, SignedPredicates, Compare
<1>5. CASE p \in {"ult", "ule"}
  BY <1>1, <1>5 DEF Number, SignedPredicates, Compare
<1>6. CASE p \in {"ugt", "uge"}
  BY <1>1, <1>6 DEF Number, SignedPredicates, Compare
<1>7. QED
  BY <1>3, <1>4, <1>5, <1>6 DEF Below, Above

(* Words in the reading of a predicate: its extremes, and the words next   *)
(* to each other.                                                          *)
LEMMA ReadingFacts ==
    ASSUME NEW p \in Below \cup Above, NEW m \in Moduli, NEW x \in Word(m)
    PROVE  /\ Least(p, m) \in Word(m) /\ Greatest(p, m) \in Word(m)
           /\ Number(p, m, Greatest(p, m)) = Number(p, m, Least(p, m)) + m - 1
           /\ Number(p, m, Least(p, m)) <= Number(p, m, x)
           /\ Number(p, m, x) <= Number(p, m, Greatest(p, m))
           /\ Minus(m, x, 1) \in Word(m) /\ Plus(m, x, 1) \in Word(m)
           /\ IF x = Least(p, m) THEN Minus(m, x, 1) = Greatest(p, m)
              ELSE Number(p, m, Minus(m, x, 1)) = Number(p, m, x) - 1
           /\ IF x = Greatest(p, m) THEN Plus(m, x, 1) = Least(p, m)
              ELSE Number(p, m, Plus(m, x, 1)) = Number(p, m, x) + 1
<1>1. PICK s \in Int : m = 2 * s /\ SignedMin(m) = s /\ SignedMax(m) = s - 1 /\ s >= 2
  BY DEF Moduli, SignedMin, SignedMax
<1>2. m \in Int /\ x \in 0 .. m - 1 /\ Word(m) = 0 .. m - 1
  BY DEF Moduli, Word
<1>3. QED
  BY <1>1, <1>2 DEF Least, Greatest, Number, Minus, Plus, Signed

(* makeConstantRange has exactly the words that compare.                   *)
LEMMA RegionTruth ==
    ASSUME NEW p \in AllPredicates, NEW m \in Moduli, NEW c \in Word(m)
    PROVE  /\ MakeConstantRange(p, m, c) \in Ranges(m)
           /\ \A v \in Word(m) : Contains(MakeConstantRange(p, m, c), v) <=> Compare(p, m, v, c)
<1> DEFINE r == MakeConstantRange(p, m, c)
<1>1. m \in Nat /\ m >= 4 /\ c \in 0 .. m - 1 /\ SignedMin(m) \in {0, SignedMin(m)}
  BY DEF Moduli, Word
<1>2. CASE p = "eq"
  <2>1. r = MkRange(m, c, Plus(m, c, 1))
    BY <1>2 DEF MakeConstantRange
  <2>2. r \in Ranges(m)
    BY <2>1, <1>1, MkRangeLegal DEF Plus, Legal, Word
  <2>3. \A v \in Word(m) : Contains(r, v) <=> v = c
    BY <2>1, <1>1 DEF Contains, MkRange, IsWrappedSet, IsFullSet, Plus, Word
  <2>4. QED
    BY <2>2, <2>3, <1>2 DEF Compare
<1>3. CASE p = "ne"
  <2>1. r = MkRange(m, Plus(m, c, 1), c)
    BY <1>3 DEF MakeConstantRange
  <2>2. r \in Ranges(m)
    BY <2>1, <1>1, MkRangeLegal DEF Plus, Legal, Word
  <2>3. \A v \in Word(m) : Contains(r, v) <=> v # c
    BY <2>1, <1>1 DEF Contains, MkRange, IsWrappedSet, IsFullSet, Plus, Word
  <2>4. QED
    BY <2>2, <2>3, <1>3 DEF Compare
<1>4. CASE p \in {"ult", "slt"}
  BY <1>4, <1>1, RegionMembers, RegionLegal DEF MakeConstantRange, Compare
<1>5. CASE p \in {"ule", "sle"}
  BY <1>5, <1>1, RegionMembers, RegionLegal DEF MakeConstantRange, Compare
<1>6. CASE p \in {"ugt", "sgt"}
  BY <1>6, <1>1, RegionMembers, RegionLegal DEF MakeConstantRange, Compare
<1>7. CASE p \in {"uge", "sge"}
  BY <1>7, <1>1, RegionMembers, RegionLegal DEF MakeConstantRange, Compare
<1>8. QED
  BY <1>2, <1>3, <1>4, <1>5, <1>6, <1>7 DEF AllPredicates, Below, Above
(* The numbers of a long, and those of an int.                             *)
Longs == -SignedMin(W) .. SignedMax(W)

Ints == -SignedMin(N) .. SignedMax(N)

(* What the parser makes of digits is a long, and not the smallest one.    *)
LEMMA ReadFacts ==
    ASSUME NEW n \in Int
    PROVE  /\ ReadInteger(n) \in -SignedMax(W) .. SignedMax(W) /\ ReadInteger(n) \in Int
           /\ ReadInteger(ReadInteger(n)) = ReadInteger(n)
           /\ n \in -SignedMax(W) .. SignedMax(W) => ReadInteger(n) = n
           /\ Word64(n) \in Word(W) /\ Signed(W, Word64(n)) = ReadInteger(n)
           /\ Word32(n) \in Word(N)
<1>1. PICK S \in Int : W = 2 * S /\ SignedMin(W) = S /\ SignedMax(W) = S - 1 /\ S >= 4
  BY Halves
<1>2. PICK v : v = ReadInteger(n)
  OBVIOUS
<1>3. v \in -(S - 1) .. S - 1 /\ v \in Int
  BY <1>1, <1>2 DEF ReadInteger
<1>4. ReadInteger(v) = v /\ (n \in -(S - 1) .. S - 1 => v = n)
  BY <1>1, <1>2, <1>3 DEF ReadInteger
<1>5. Word64(n) \in Word(W) /\ Signed(W, Word64(n)) = v
  BY <1>1, <1>2, <1>3 DEF Word64, Word, FromSigned, Signed
<1>6. Word32(n) \in Word(N)
  BY <1>2, <1>3, Widths, IntMod DEF Word32
<1>7. QED
  BY <1>1, <1>2, <1>3, <1>4, <1>5, <1>6

(* The three forms and the range for none of them, in words.               *)
LEMMA WordsOfNumbers ==
    /\ \A n \in Int : Word64(n) \in Word(W) /\ Plus(W, Word64(n), 1) \in Word(W)
    /\ \A n \in Int : ToInt(n) \in Int /\ FromSigned(W, ToInt(n)) \in Word(W)
    /\ 0 \in Word(W) /\ 1 \in Word(W)
<1>1. PICK s, S \in Int :
        /\ N = 2 * s /\ SignedMin(N) = s /\ SignedMax(N) = s - 1
        /\ W = 2 * S /\ SignedMin(W) = S /\ SignedMax(W) = S - 1
        /\ s >= 2 /\ S >= 2 * s
  BY Halves
<1>2. ASSUME NEW n \in Int PROVE Word64(n) \in Word(W) /\ Plus(W, Word64(n), 1) \in Word(W)
  <2>1. PICK w : w = Word64(n) /\ w \in 0 .. W - 1
    BY ReadFacts DEF Word
  <2>2. Plus(W, w, 1) \in 0 .. W - 1
    BY <1>1, <2>1 DEF Plus
  <2>3. QED
    BY <2>1, <2>2 DEF Word
<1>3. ASSUME NEW n \in Int PROVE ToInt(n) \in Int /\ FromSigned(W, ToInt(n)) \in Word(W)
  <2>1. Word32(n) \in Word(N)
    BY ReadFacts
  <2>2. ToInt(n) \in -s .. s - 1
    BY <1>1, <2>1, Widths, SignedFacts DEF ToInt
  <2>3. QED
    BY <1>1, <2>2 DEF FromSigned, Word
<1>4. QED
  BY <1>1, <1>2, <1>3 DEF Word

(* The value x, and what a text of it says of it.                          *)
SaysOf(t, x) ==
    /\ t.kind \in {"eq", "in"} /\ t.lo \in Int /\ t.hi \in Int
    /\ Accepted(GetConstantRange(t)) /\ Holds(GetConstantRange(t), x)
    /\ t.kind = "eq" => x \in Ints

(* An interval as the mapping pass reads it, printed and read again.       *)
LEMMA IntervalPrinted ==
    ASSUME NEW lo \in Longs, NEW hi \in Longs, lo + 1 < hi, hi >= 0, lo < 0 => hi < SignedMax(W) - 1,
           NEW r, r = MkRange(W, FromSigned(W, ReadInteger(lo)), FromSigned(W, ReadInteger(hi))),
           NEW x \in lo .. hi
    PROVE  Accepted(r) /\ SaysOf(GetAnnotation(r), x) /\ x \in Longs
<1>1. PICK S \in Int : W = 2 * S /\ SignedMin(W) = S /\ SignedMax(W) = S - 1 /\ S >= 4
  BY Halves
<1>2. lo \in -S .. S - 1 /\ hi \in 0 .. S - 1 /\ x \in -S .. S - 1 /\ x \in Int
  BY <1>1 DEF Longs
<1>3. ReadInteger(hi) = hi
  BY <1>1, <1>2 DEF ReadInteger
<1>4. PICK a : a = ReadInteger(lo)
  OBVIOUS
<1>5. a \in -(S - 1) .. S - 1 /\ (a = lo \/ (lo = -S /\ a = -S + 1))
  BY <1>1, <1>2, <1>4 DEF ReadInteger
<1>6. PICK l : l = FromSigned(W, a) /\ l \in Int
  BY <1>1, <1>5 DEF FromSigned
<1>7. r = MkRange(W, l, hi) /\ l # hi
  BY <1>1, <1>2, <1>3, <1>4, <1>5, <1>6 DEF FromSigned
<1>8. Accepted(r)
  BY <1>7 DEF Accepted, Legal, MkRange
<1>9. l # Minus(W, hi, 1)
  BY <1>1, <1>2, <1>5, <1>6 DEF FromSigned, Minus
<1>10. GetAnnotation(r) = TextIn(l, hi)
  BY <1>7, <1>9 DEF GetAnnotation, MkRange
<1>11. PICK b, h : b = Word64(l) /\ h = Plus(W, Word64(hi), 1)
  OBVIOUS
<1>12. h = hi + 1 /\ b = IF lo >= 0 THEN lo ELSE S - 1
  BY <1>1, <1>2, <1>3, <1>5, <1>6, <1>11 DEF Word64, FromSigned, Plus, ReadInteger
<1>13. GetConstantRange(TextIn(l, hi)) = MkRange(W, b, h)
  BY <1>11 DEF GetConstantRange, TextIn
<1>14. b \in Int /\ h \in Int /\ b # h
  BY <1>1, <1>2, <1>12
<1>15. Accepted(MkRange(W, b, h))
  BY <1>14 DEF Accepted, Legal, MkRange
<1>16. PICK w : w = x % W
  OBVIOUS
<1>17. w = IF x >= 0 THEN x ELSE x + W
  <2>1. w = FromSigned(W, x)
    BY <1>1, <1>2, <1>16, Widths, SignedOfMod
  <2>2. QED
    BY <2>1 DEF FromSigned
<1>18. Contains(MkRange(W, b, h), w)
  BY <1>1, <1>2, <1>12, <1>14, <1>17 DEF Contains, IsFullSet, IsWrappedSet, MkRange
<1>19. Holds(MkRange(W, b, h), x)
  BY <1>16, <1>18 DEF Holds, MkRange
<1>20. TextIn(l, hi).kind = "in" /\ TextIn(l, hi).lo = l /\ TextIn(l, hi).hi = hi
  BY DEF TextIn
<1>21. SaysOf(TextIn(l, hi), x)
  BY <1>2, <1>6, <1>13, <1>15, <1>19, <1>20 DEF SaysOf
<1>22. QED
  BY <1>1, <1>2, <1>8, <1>10, <1>21 DEF Longs

LEMMA EqualityPrinted ==
    ASSUME NEW c \in 0 .. SignedMax(N), NEW r, r = RangePair(TextEq(c))
    PROVE  Accepted(r) /\ SaysOf(GetAnnotation(r), c) /\ c \in Longs
<1>1. PICK s, S \in Int :
        /\ N = 2 * s /\ SignedMin(N) = s /\ SignedMax(N) = s - 1
        /\ W = 2 * S /\ SignedMin(W) = S /\ SignedMax(W) = S - 1
        /\ s >= 2 /\ S >= 2 * s
  BY Halves
<1>2. c \in 0 .. s - 1 /\ c \in Int /\ c \in -SignedMax(W) .. SignedMax(W)
  BY <1>1
<1>3. ReadInteger(c) = c /\ TextEq(c).kind = "eq" /\ TextEq(c).lo = c /\ TextEq(c).hi = c
  BY <1>2, ReadFacts DEF TextEq
<1>4. r = MkRange(W, c, c + 1)
  BY <1>1, <1>2, <1>3 DEF RangePair, Word64, FromSigned, Plus
<1>5. Accepted(r)
  BY <1>2, <1>4 DEF Accepted, Legal, MkRange
<1>6. GetAnnotation(r) = TextEq(c)
  BY <1>1, <1>2, <1>4 DEF GetAnnotation, Minus, MkRange
<1>7. GetConstantRange(TextEq(c)) \in Ranges(N) /\ Holds(GetConstantRange(TextEq(c)), c)
  BY <1>2, <1>3, EqualityRange
<1>8. Accepted(GetConstantRange(TextEq(c)))
  BY <1>7, Widths, RangeFacts DEF Accepted, Ranges
<1>9. QED
  BY <1>1, <1>2, <1>3, <1>5, <1>6, <1>7, <1>8 DEF SaysOf, Ints, Longs

(* Such a text is mapped, printed and read as a range that holds of the    *)
(* values the claim allows.                                                *)
LEMMA TextPrinted ==
    ASSUME NEW t, t.kind \in {"eq", "in", "oneof"}, t.lo \in Int, t.hi \in Int,
           Printable(t), NEW x \in t.lo .. t.hi
    PROVE  /\ Accepted(RangePair(t)) /\ SaysOf(GetAnnotation(RangePair(t)), x)
           /\ x \in Longs
<1>1. PICK r : r = RangePair(t)
  OBVIOUS
<1>2. PICK lo, hi \in Int : lo = t.lo /\ hi = t.hi
  OBVIOUS
<1>3. CASE t.kind = "eq"
  <2>1. lo \in 0 .. SignedMax(N) /\ x = lo
    BY <1>2, <1>3 DEF Printable
  <2>2. r = RangePair(TextEq(lo))
    BY <1>1, <1>2, <1>3 DEF RangePair, TextEq
  <2>3. QED
    BY <1>1, <2>1, <2>2, EqualityPrinted
<1>4. CASE t.kind \in {"in", "oneof"}
  <2>3. /\ lo + 1 < hi /\ hi >= 0 /\ (lo < 0 => hi < SignedMax(W) - 1)
        /\ t.kind = "in" => lo \in Longs /\ hi \in Longs
        /\ t.kind = "oneof" => lo \in Ints /\ hi \in Ints
    BY <1>2, <1>4 DEF Printable, Longs, Ints
  <2>4. Ints \subseteq Longs
    BY NumbersOfLong DEF Ints, Longs
  <2>5. lo \in Longs /\ hi \in Longs
    BY <1>4, <2>3, <2>4
  <2>6. r = MkRange(W, FromSigned(W, ReadInteger(lo)), FromSigned(W, ReadInteger(hi)))
    <3>1. CASE t.kind = "in"
      BY <1>1, <1>2, <3>1 DEF RangePair, Word64
    <3>2. CASE t.kind = "oneof"
      <4>1. \A n \in Ints : n \in Int /\ ReadInteger(n) = n /\ ToInt(n) = n
        <5>1. TAKE n \in Ints
        <5>2. n \in -SignedMin(N) .. SignedMax(N)
          BY DEF Ints
        <5>3. n \in Int /\ Signed(N, n % N) = n
          BY <5>2, Widths, SignedOfMod
        <5>4. n \in -SignedMax(W) .. SignedMax(W)
          BY <5>2, Halves
        <5>5. ReadInteger(n) = n
          BY <5>3, <5>4, ReadFacts
        <5>6. QED
          BY <5>3, <5>5 DEF ToInt, Word32
      <4>2. QED
        BY <1>1, <1>2, <2>3, <3>2, <4>1 DEF RangePair
    <3>3. QED
      BY <1>4, <3>1, <3>2
  <2>7. QED
    BY <1>1, <1>2, <2>3, <2>5, <2>6, IntervalPrinted
<1>5. QED
  BY <1>3, <1>4
=============================================================================
