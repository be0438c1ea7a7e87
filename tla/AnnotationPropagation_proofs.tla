-------------------- MODULE AnnotationPropagation_proofs --------------------
(***************************************************************************)
(* What the propagation pass guarantees, for every width of int and long,  *)
(* every set of annotated loads and of literals, and programs of any       *)
(* length.                                                                 *)
(***************************************************************************)
EXTENDS AnnotationPropagation, Ranges_proofs

(* An operand known from an equality is an int of that value.              *)
Exactly(a) ==
    /\ a.ty = N /\ a.range \in Ranges(N) /\ Single(a.range)
    /\ a.range.lo \in 0 .. SignedMax(N)

(* What the pass may rely on when it looks up an operand.                  *)
Operand(a) ==
    /\ a.ty \in {N, W} /\ a.val \in Numbers(a.ty)
    /\ a.clean \in BOOLEAN /\ a.known \in BOOLEAN
    /\ a.known /\ Accepted(a.range) =>
         /\ a.range \in Ranges(W) \/ Exactly(a)
         /\ a.clean => Holds(a.range, a.val)

(* Two operands of one operation that the pass knows, in the conditions    *)
(* under which it goes on.                                                 *)
Ready(op, a, b) ==
    /\ op \in BinOps /\ Operand(a) /\ Operand(b) /\ a.ty = b.ty
    /\ a.known /\ b.known /\ Accepted(a.range) /\ Accepted(b.range)
    /\ ~WidthsClash(op, a.range, b.range)

(* The width of an operand's range: 32 bits only for an int.               *)
LEMMA OperandWidth ==
    ASSUME NEW a, Operand(a), a.known, Accepted(a.range)
    PROVE  \E m \in {N, W} :
             /\ a.range \in Ranges(m) /\ a.range.m = m /\ m \in Moduli
             /\ m = N => a.ty = N /\ Exactly(a)
             /\ a.val \in -SignedMin(m) .. SignedMax(m)
             /\ a.clean => Contains(a.range, a.val % m)
<1>1. N \in Moduli /\ W \in Moduli /\ N # W
  BY Widths
<1>2. a.val \in Numbers(a.ty) /\ a.ty \in {N, W}
  BY DEF Operand
<1>3. CASE a.range \in Ranges(W)
  <2>1. a.range.m = W
    BY <1>1, <1>3, RangeFacts
  <2>2. a.val \in -SignedMin(W) .. SignedMax(W)
    BY <1>2, NumbersOfLong DEF Numbers
  <2>3. a.clean => Contains(a.range, a.val % W)
    BY <2>1 DEF Operand, Holds
  <2>4. QED
    BY <1>1, <1>3, <2>1, <2>2, <2>3
<1>4. CASE Exactly(a)
  <2>1. a.range \in Ranges(N) /\ a.ty = N
    BY <1>4 DEF Exactly
  <2>2. a.range.m = N
    BY <1>1, <2>1, RangeFacts
  <2>3. a.val \in -SignedMin(N) .. SignedMax(N)
    BY <1>2, <2>1 DEF Numbers
  <2>4. a.clean => Contains(a.range, a.val % N)
    BY <2>2 DEF Operand, Holds
  <2>5. QED
    BY <1>1, <1>4, <2>1, <2>2, <2>3, <2>4
<1>5. QED
  BY <1>3, <1>4 DEF Operand

(* The range of each operation, and when the widths of its operands clash. *)
LEMMA ResultOf ==
    ASSUME NEW a, NEW b
    PROVE  /\ Result("Add", a, b) = Add(a, b) /\ Result("Sub", a, b) = Sub(a, b)
           /\ Result("Mul", a, b) = Multiply(a, b)
           /\ \A op \in Quotients : Result(op, a, b) = UDiv(a, b)
           /\ \A op \in Remainders : Result(op, a, b) = MkRange(b.m, 0, b.hi)
           /\ \A op \in {"Add", "Sub"} : WidthsClash(op, a, b) <=> AddAsserts(a, b)
           /\ WidthsClash("Mul", a, b) <=> MultiplyAsserts(a, b)
           /\ \A op \in Quotients : WidthsClash(op, a, b) <=> UDivAsserts(a, b)
<1>1. /\ Result("Add", a, b) = Add(a, b) /\ Result("Sub", a, b) = Sub(a, b)
      /\ Result("Mul", a, b) = Multiply(a, b)
  BY DEF Result, Quotients, Remainders
<1>2. Result("UDiv", a, b) = UDiv(a, b) /\ Result("SDiv", a, b) = UDiv(a, b)
  BY DEF Result, Quotients, Remainders
<1>3. Result("URem", a, b) = MkRange(b.m, 0, b.hi) /\ Result("SRem", a, b) = MkRange(b.m, 0, b.hi)
  BY DEF Result, Quotients, Remainders
<1>4. /\ WidthsClash("Add", a, b) <=> AddAsserts(a, b)
      /\ WidthsClash("Sub", a, b) <=> AddAsserts(a, b)
      /\ WidthsClash("Mul", a, b) <=> MultiplyAsserts(a, b)
  BY DEF WidthsClash, Quotients, Remainders
<1>5. /\ WidthsClash("UDiv", a, b) <=> UDivAsserts(a, b)
      /\ WidthsClash("SDiv", a, b) <=> UDivAsserts(a, b)
  BY DEF WidthsClash, Quotients, Remainders
<1>6. QED
  BY <1>1, <1>2, <1>3, <1>4, <1>5 DEF Quotients, Remainders

(* The result of an operation the pass knows the operands of is a legal    *)
(* range, of 32 bits only for an int.                                      *)
LEMMA ResultLegal ==
    ASSUME NEW op, NEW a, NEW b, Ready(op, a, b)
    PROVE  \E m \in {N, W} :
             /\ Result(op, a.range, b.range) \in Ranges(m)
             /\ m = N => a.ty = N
<1>1. PICK m \in {N, W} : a.range \in Ranges(m) /\ a.range.m = m /\ m \in Moduli /\ (m = N => a.ty = N)
  BY OperandWidth DEF Ready
<1>2. PICK n \in {N, W} : b.range \in Ranges(n) /\ b.range.m = n /\ n \in Moduli /\ (n = N => b.ty = N)
  BY OperandWidth DEF Ready
<1> DEFINE r == Result(op, a.range, b.range)
<1>3. CASE op \in {"Add", "Sub"}
  <2>1. r \in {Add(a.range, b.range), Sub(a.range, b.range)}
    BY <1>3, ResultOf
  <2>2. CASE m = n
    BY <1>1, <1>2, <2>1, <2>2, AddSound, SubSound
  <2>3. CASE m # n
    <3>1. ~AddAsserts(a.range, b.range)
      BY <1>3, ResultOf DEF Ready
    <3>2. r \in {EmptySet(m), FullSet(m)}
      BY <1>1, <1>2, <2>1, <2>3, <3>1 DEF AddAsserts, Add, Sub
    <3>3. QED
      BY <1>1, <3>2, EmptyFullLegal
  <2>4. QED
    BY <2>2, <2>3
<1>4. CASE op = "Mul"
  <2>1. r = Multiply(a.range, b.range)
    BY <1>4, ResultOf
  <2>2. QED
    BY <1>1, <1>2, <2>1, MultiplyLegal
<1>5. CASE op \in Quotients
  <2>1. r = UDiv(a.range, b.range)
    BY <1>5, ResultOf
  <2>2. QED
    BY <1>1, <1>2, <2>1, UDivLegal
<1>6. CASE op \in Remainders
  <2>1. r = MkRange(n, 0, b.range.hi)
    BY <1>2, <1>6, ResultOf
  <2>2. b.range.hi \in Word(n) /\ 0 \in Word(n)
    BY <1>2, RangeFacts DEF Word, Moduli
  <2>3. r \in Ranges(n)
    BY <1>2, <2>1, <2>2, MkRangeLegal DEF Legal
  <2>4. QED
    BY <1>2, <2>3 DEF Ready
<1>7. QED
  BY <1>3, <1>4, <1>5, <1>6 DEF Ready, BinOps, Quotients, Remainders

(* Numbers that are not negative are their own words, at every width they  *)
(* fit.                                                                    *)
LEMMA NaturalWord ==
    ASSUME NEW m \in {N, W}, NEW n \in -SignedMin(m) .. SignedMax(m), n >= 0
    PROVE  n % m = n /\ n % W = n /\ n \in Word(m) /\ n \in Nat /\ n <= SignedMax(m)
<1>1. m \in Moduli /\ W \in Moduli /\ n \in -SignedMin(W) .. SignedMax(W)
  BY NumbersOfLong
<1>2. n % m = n /\ n % W = n /\ n \in Int
  BY <1>1, SignedOfMod
<1>3. n % m \in Word(m)
  BY <1>1, <1>2, IntMod
<1>4. n <= SignedMax(m)
  <2>1. PICK s \in Int : m = 2 * s /\ SignedMin(m) = s /\ SignedMax(m) = s - 1
    BY <1>1 DEF Moduli, SignedMin, SignedMax
  <2>2. QED
    BY <2>1
<1>5. QED
  BY <1>2, <1>3, <1>4

(* The exact quotient and remainder of numbers that are not negative, for  *)
(* the signed operation and the unsigned one.                              *)
LEMMA ExactOfNaturals ==
    ASSUME NEW m \in {N, W}, NEW x \in -SignedMin(m) .. SignedMax(m), NEW y \in -SignedMin(m) .. SignedMax(m),
           x >= 0, y > 0, NEW op \in Quotients \cup Remainders
    PROVE  /\ op \in Quotients => Exact(op, m, x, y) = x \div y
           /\ op \in Remainders => Exact(op, m, x, y) \in 0 .. y - 1
<1>0. y \in Int /\ x \in Int
  BY NumbersOfLong, SignedOfMod
<1>1. x \in Nat /\ y \in Nat /\ y >= 1 /\ x % m = x /\ y % m = y
  BY <1>0, NaturalWord
<1>2. x \div y \in Nat /\ x % y \in 0 .. y - 1 /\ x = y * (x \div y) + (x % y)
  BY <1>1
<1>3. Quotient(x, y) = x \div y
  BY <1>1, <1>2 DEF Quotient, Magnitude, Sign
<1> DEFINE q == x \div y
           r == x % y
<1>4. CASE op = "UDiv"
  BY <1>1, <1>4 DEF Exact, Quotients, Remainders
<1>5. CASE op = "SDiv"
  BY <1>3, <1>5 DEF Exact, Quotients, Remainders
<1>6. CASE op = "URem"
  BY <1>1, <1>2, <1>6 DEF Exact, Quotients, Remainders
<1>7. CASE op = "SRem"
  <2>1. Exact(op, m, x, y) = x - y * (x \div y)
    BY <1>3, <1>7 DEF Exact
  <2>2. Exact(op, m, x, y) = x % y
    BY <1>1, <1>2, <2>1
  <2>3. QED
    BY <1>2, <1>7, <2>2 DEF Quotients, Remainders
<1>8. QED
  BY <1>4, <1>5, <1>6, <1>7 DEF Quotients, Remainders

(* A value known at 32 bits multiplies a range of 64 as it would at 64.    *)
LEMMA ExactlyWidened ==
    ASSUME NEW r, NEW b, Operand(b), b.known, Accepted(b.range), b.clean, Exactly(b)
    PROVE  \E w \in Ranges(W) :
             Single(w) /\ Contains(w, b.val % W) /\ Multiply(r, w) = Multiply(r, b.range)
<1>1. PICK s, S \in Int :
        /\ N = 2 * s /\ SignedMin(N) = s /\ SignedMax(N) = s - 1
        /\ W = 2 * S /\ SignedMin(W) = S /\ SignedMax(W) = S - 1
        /\ s >= 2 /\ S >= 2 * s
  BY Halves
<1> DEFINE c == b.range.lo
           w == MkRange(W, c, c + 1)
<1>2. b.range \in Ranges(N) /\ N \in Moduli /\ W \in Moduli /\ Single(b.range) /\ c \in 0 .. s - 1
  BY <1>1, Widths DEF Exactly
<1>3. b.range.m = N /\ b.val \in -SignedMin(N) .. SignedMax(N) /\ Contains(b.range, b.val % N)
  BY <1>2, RangeFacts DEF Operand, Exactly, Numbers, Holds
<1>4. b.val % N \in Word(N) /\ b.val % N = FromSigned(N, b.val) /\ b.val \in Int
  BY <1>2, <1>3, SignedOfMod, IntMod
<1>5. b.val % N = c
  BY <1>2, <1>3, <1>4, SingleFacts
<1> HIDE DEF c
<1>6. b.val = c
  BY <1>1, <1>2, <1>3, <1>4, <1>5 DEF FromSigned
<1>7. b.val % W = c
  BY <1>2, <1>3, <1>6, NaturalWord
<1>8. c \in Word(W) /\ c + 1 \in Word(W) /\ c # c + 1 /\ Plus(W, c, 1) = c + 1
  BY <1>1, <1>2 DEF Word, Plus
<1>9. w \in Ranges(W) /\ w.lo = c /\ w.hi = c + 1 /\ w.m = W
  BY <1>2, <1>8, MkRangeLegal DEF Legal, MkRange
<1> HIDE DEF w
<1>10. Single(w)
  BY <1>8, <1>9 DEF Single
<1>11. Multiply(r, w) = Multiply(r, b.range)
  <2>1. /\ ~IsEmptySet(w) /\ UnsignedMin(w) = c /\ UnsignedMax(w) = c
        /\ ~IsEmptySet(b.range) /\ UnsignedMin(b.range) = c /\ UnsignedMax(b.range) = c
    BY <1>2, <1>9, <1>10, SingleFacts DEF c
  <2>2. QED
    BY <2>1 DEF Multiply
<1>12. Contains(w, b.val % W)
  BY <1>2, <1>7, <1>8, <1>9, <1>10, SingleFacts
<1>13. QED
  BY <1>9, <1>10, <1>11, <1>12

(* The operands of a clean operation contain their values; they are of one *)
(* width, unless the second factor of a product is known exactly, or the   *)
(* first operand of a sum is the full set.                                 *)
LEMMA CleanOperands ==
    ASSUME NEW op, NEW a, NEW b, Ready(op, a, b), Clean(op, a, b)
    PROVE  \E m, n \in {N, W} :
             /\ a.range \in Ranges(m) /\ a.range.m = m /\ m \in Moduli /\ (m = N => a.ty = N)
             /\ b.range \in Ranges(n) /\ b.range.m = n /\ n \in Moduli /\ (n = N => a.ty = N)
             /\ a.val \in -SignedMin(m) .. SignedMax(m) /\ Contains(a.range, a.val % m)
             /\ b.val \in -SignedMin(n) .. SignedMax(n) /\ Contains(b.range, b.val % n)
             /\ \/ m = n
                \/ op \in {"Add", "Sub"} /\ IsFullSet(a.range)
                \/ op \in {"Add", "Sub"} /\ IsFullSet(b.range)
                \/ op = "Mul" /\ m = W /\ Exactly(b)
                \/ op \in Quotients /\ IsFullSet(b.range)
                \/ op \in Remainders
<1>1. PICK m \in {N, W} : /\ a.range \in Ranges(m) /\ a.range.m = m /\ m \in Moduli
                          /\ m = N => a.ty = N
                          /\ a.val \in -SignedMin(m) .. SignedMax(m)
                          /\ a.clean => Contains(a.range, a.val % m)
  BY OperandWidth DEF Ready
<1>2. PICK n \in {N, W} : /\ b.range \in Ranges(n) /\ b.range.m = n /\ n \in Moduli
                          /\ n = N => b.ty = N /\ Exactly(b)
                          /\ b.val \in -SignedMin(n) .. SignedMax(n)
                          /\ b.clean => Contains(b.range, b.val % n)
  BY OperandWidth DEF Ready
<1>3. a.clean /\ b.clean /\ a.ty = b.ty
  BY DEF Clean, Ready
<1>4. ~IsEmptySet(a.range) /\ ~IsEmptySet(b.range)
  BY <1>1, <1>2, <1>3, EmptyHasNoMember
<1>5. \/ m = n
      \/ op \in {"Add", "Sub"} /\ IsFullSet(a.range)
      \/ op \in {"Add", "Sub"} /\ IsFullSet(b.range)
      \/ op = "Mul" /\ m = W /\ Exactly(b)
      \/ op \in Quotients /\ IsFullSet(b.range)
      \/ op \in Remainders
  <2>1. CASE op \in {"Add", "Sub"}
    BY <1>1, <1>2, <1>4, <2>1, ResultOf DEF Ready, AddAsserts
  <2>2. CASE op = "Mul"
    <3>1. ~MultiplyAsserts(a.range, b.range)
      BY <2>2, ResultOf DEF Ready
    <3>2. ~(m < n)
      BY <1>1, <1>2, <1>4, <3>1 DEF MultiplyAsserts
    <3>3. N < W
      BY Widths
    <3>4. m = n \/ (m = W /\ n = N)
      BY <3>2, <3>3
    <3>5. QED
      BY <1>2, <2>2, <3>4
  <2>3. CASE op \in Quotients /\ m # n
    <3>1. ~UDivAsserts(a.range, b.range)
      BY <2>3, ResultOf DEF Ready
    <3>2. UnsignedMax(b.range) = 0 \/ IsFullSet(b.range)
      BY <1>1, <1>2, <1>4, <2>3, <3>1 DEF UDivAsserts
    <3>3. b.val \in Int /\ b.val > 0
      BY <1>2, <2>3, SignedOfMod DEF Clean
    <3>4. b.val % n = b.val /\ b.val \in Word(n)
      BY <1>2, <3>3, NaturalWord
    <3>5. b.val <= UnsignedMax(b.range) /\ UnsignedMax(b.range) \in Word(n)
      BY <1>2, <1>3, <3>4, UnsignedBounds
    <3>6. UnsignedMax(b.range) # 0
      BY <3>3, <3>5
    <3>7. QED
      BY <2>3, <3>2, <3>6
  <2>4. QED
    BY <2>1, <2>2, <2>3 DEF Ready, BinOps, Quotients, Remainders
<1>6. QED
  BY <1>1, <1>2, <1>3, <1>5

(* A remainder is below the end of a divisor range that is ordered.        *)
LEMMA RemainderBelow ==
    ASSUME NEW m \in Moduli, NEW r \in Ranges(m), NEW y \in 0 .. SignedMax(m), NEW v \in 0 .. y - 1,
           Contains(r, y), Ordered(r)
    PROVE  Contains(MkRange(m, 0, r.hi), v)
<1>1. PICK s \in Int : m = 2 * s /\ SignedMin(m) = s /\ SignedMax(m) = s - 1
  BY DEF Moduli, SignedMin, SignedMax
<1> DEFINE l == r.lo
           h == r.hi
<1>2. m \in Nat /\ m >= 4 /\ r = MkRange(m, l, h) /\ l \in 0 .. m - 1 /\ h \in 0 .. m - 1
  BY RangeFacts DEF Moduli
<1> HIDE DEF l, h
<1>3. Signed(m, l) <= Signed(m, Minus(m, h, 1))
  BY <1>2 DEF Ordered, MkRange
<1>4. IF l = h THEN l = m - 1 ELSE IF l > h THEN l <= y \/ y < h ELSE l <= y /\ y < h
  BY <1>2 DEF Contains, IsFullSet, IsWrappedSet, MkRange
<1>5. h # 0 /\ v < h
  BY <1>1, <1>2, <1>3, <1>4 DEF Signed, Minus
<1>6. Contains(MkRange(m, 0, h), v)
  BY <1>2, <1>5 DEF Contains, IsFullSet, IsWrappedSet, MkRange
<1>7. QED
  BY <1>6 DEF h

(* The range of a clean operation contains the exact result.               *)
LEMMA ResultSound ==
    ASSUME NEW op, NEW a, NEW b, Ready(op, a, b), Clean(op, a, b)
    PROVE  \E m \in {N, W} :
             /\ Result(op, a.range, b.range) \in Ranges(m)
             /\ m = N => a.ty = N
             /\ Contains(Result(op, a.range, b.range), Exact(op, a.ty, a.val, b.val) % m)
<1>1. PICK m, n \in {N, W} :
        /\ a.range \in Ranges(m) /\ a.range.m = m /\ m \in Moduli /\ (m = N => a.ty = N)
        /\ b.range \in Ranges(n) /\ b.range.m = n /\ n \in Moduli /\ (n = N => a.ty = N)
        /\ a.val \in -SignedMin(m) .. SignedMax(m) /\ Contains(a.range, a.val % m)
        /\ b.val \in -SignedMin(n) .. SignedMax(n) /\ Contains(b.range, b.val % n)
        /\ \/ m = n
           \/ op \in {"Add", "Sub"} /\ IsFullSet(a.range)
           \/ op \in {"Add", "Sub"} /\ IsFullSet(b.range)
           \/ op = "Mul" /\ m = W /\ Exactly(b)
           \/ op \in Quotients /\ IsFullSet(b.range)
           \/ op \in Remainders
  BY CleanOperands
<1>2. a.val \in Int /\ b.val \in Int
  BY <1>1, SignedOfMod
<1>3. a.val % m \in Word(m) /\ b.val % n \in Word(n) /\ b.val % m \in Word(m)
  BY <1>1, <1>2, IntMod
<1> DEFINE r == Result(op, a.range, b.range)
           e == Exact(op, a.ty, a.val, b.val)
<1>4. CASE op \in {"Add", "Sub"}
  <2>1. \/ op = "Add" /\ r = Add(a.range, b.range) /\ e = a.val + b.val
        \/ op = "Sub" /\ r = Sub(a.range, b.range) /\ e = a.val - b.val
    BY <1>4, ResultOf DEF Exact
  <2>2. CASE m = n
    <3>1. e % m = IF op = "Add" THEN Plus(m, a.val % m, b.val % m) ELSE Minus(m, a.val % m, b.val % m)
      BY <1>1, <1>2, <2>1, ModOfSum
    <3>2. r \in Ranges(m) /\ Contains(r, e % m)
      BY <1>1, <1>3, <2>1, <2>2, <3>1, AddSound, SubSound
    <3>3. QED
      BY <1>1, <3>2
  <2>3. CASE m # n
    <3>1. ~IsEmptySet(a.range) /\ ~IsEmptySet(b.range)
      BY <1>1, EmptyHasNoMember
    <3>2. IsFullSet(a.range) \/ IsFullSet(b.range)
      BY <1>1, <1>4, <2>3 DEF Quotients, Remainders
    <3>3. r = FullSet(m)
      BY <1>1, <2>1, <3>1, <3>2 DEF Add, Sub
    <3>4. QED
      BY <1>1, <3>3, FullContains, EmptyFullLegal
  <2>4. QED
    BY <2>2, <2>3
<1>5. CASE op = "Mul"
  <2>1. r = Multiply(a.range, b.range) /\ e = a.val * b.val
    BY <1>5, ResultOf DEF Exact
  <2>2. e % m = ((a.val % m) * (b.val % m)) % m
    <3>1. (a.val * b.val) % m = ((a.val % m) * (b.val % m)) % m
      BY <1>1, <1>2, ModOfProduct, Zenon
    <3>2. QED
      BY <2>1, <3>1, Zenon
  <2>3. PICK w \in Ranges(m) : Contains(w, b.val % m) /\ Multiply(a.range, w) = r
    <3>1. CASE m = n
      BY <1>1, <2>1, <3>1
    <3>2. CASE m # n
      <4>1. m = W /\ Exactly(b) /\ Operand(b) /\ b.known /\ Accepted(b.range) /\ b.clean
        BY <1>1, <1>5, <3>2 DEF Quotients, Remainders, Ready, Clean
      <4>2. QED
        BY <2>1, <4>1, ExactlyWidened
    <3>3. QED
      BY <3>1, <3>2
  <2>4. r \in Ranges(m) /\ Contains(r, e % m)
    BY <1>1, <1>3, <2>2, <2>3, MultiplySound
  <2>5. QED
    BY <1>1, <2>4
<1>6. CASE op \in Quotients
  <2>1. a.val >= 0 /\ b.val > 0 /\ a.ty = b.ty /\ a.ty \in {N, W}
        /\ a.val \in Numbers(a.ty) /\ b.val \in Numbers(a.ty)
    BY <1>6 DEF Clean, Ready, Operand
  <2>2. r = UDiv(a.range, b.range) /\ e = a.val \div b.val
    BY <1>6, <2>1, ResultOf, ExactOfNaturals DEF Numbers
  <2>3. a.val \in Word(m) /\ a.val % m = a.val /\ a.val \in Nat
    BY <1>1, <2>1, NaturalWord
  <2>4. b.val \in Word(n) /\ b.val % n = b.val /\ b.val \in Nat /\ b.val >= 1
    BY <1>1, <1>2, <2>1, NaturalWord
  <2>5. e \in Nat /\ e <= a.val
    BY <2>2, <2>3, <2>4, QuotientBelow
  <2>6. e \in -SignedMin(m) .. SignedMax(m) /\ e >= 0
    <3>1. PICK s \in Int : m = 2 * s /\ SignedMin(m) = s /\ SignedMax(m) = s - 1
      BY <1>1 DEF Moduli, SignedMin, SignedMax
    <3>2. m \in Nat
      BY <1>1 DEF Moduli
    <3> HIDE DEF e
    <3>3. QED
      BY <1>1, <2>3, <2>5, <3>1, <3>2
  <2>7. e % m = e
    BY <2>6, NaturalWord
  <2>8. CASE m = n
    <3>1. r \in Ranges(m) /\ Contains(r, e)
      BY <1>1, <2>2, <2>3, <2>4, <2>8, UDivSound
    <3>2. QED
      BY <1>1, <2>7, <3>1
  <2>9. CASE m # n
    <3>1. ~IsEmptySet(a.range) /\ ~IsEmptySet(b.range)
      BY <1>1, EmptyHasNoMember
    <3>2. IsFullSet(b.range)
      BY <1>1, <1>6, <2>9 DEF Quotients, Remainders
    <3>3. UnsignedMax(b.range) # 0
      BY <1>1, <2>4, UnsignedBounds
    <3>4. r = FullSet(m)
      BY <1>1, <2>2, <3>1, <3>2, <3>3 DEF UDiv
    <3>5. QED
      BY <1>1, <3>4, FullContains, EmptyFullLegal
  <2>10. QED
    BY <2>8, <2>9
<1>7. CASE op \in Remainders
  <2>1. a.val >= 0 /\ b.val > 0 /\ a.ty = b.ty /\ a.ty \in {N, W} /\ Ordered(b.range)
        /\ a.val \in Numbers(a.ty) /\ b.val \in Numbers(a.ty)
    BY <1>7 DEF Clean, Ready, Operand
  <2>2. r = MkRange(n, 0, b.range.hi) /\ e \in 0 .. b.val - 1
    <3>1. r = MkRange(n, 0, b.range.hi)
      BY <1>1, <1>7, ResultOf
    <3>2. e \in 0 .. b.val - 1
      BY <1>7, <2>1, ExactOfNaturals DEF Numbers
    <3>3. QED
      BY <3>1, <3>2
  <2>3. b.val % n = b.val /\ b.val \in Nat /\ b.val <= SignedMax(n)
    BY <1>1, <2>1, NaturalWord
  <2>4. b.val \in 0 .. SignedMax(n) /\ e \in -SignedMin(n) .. SignedMax(n) /\ e >= 0
    <3>1. PICK s \in Int : n = 2 * s /\ SignedMin(n) = s /\ SignedMax(n) = s - 1
      BY <1>1 DEF Moduli, SignedMin, SignedMax
    <3>2. n \in Nat
      BY <1>1 DEF Moduli
    <3> HIDE DEF e
    <3>3. QED
      BY <2>2, <2>3, <3>1, <3>2
  <2>5. Contains(r, e)
    BY <1>1, <2>1, <2>2, <2>3, <2>4, RemainderBelow
  <2>6. e % n = e
    BY <2>4, NaturalWord
  <2>7. b.range.hi \in Word(n) /\ 0 \in Word(n)
    BY <1>1, RangeFacts DEF Word, Moduli
  <2>8. r \in Ranges(n)
    BY <1>1, <2>2, <2>7, MkRangeLegal DEF Legal
  <2>9. QED
    BY <1>1, <2>5, <2>6, <2>8
<1>8. QED
  BY <1>4, <1>5, <1>6, <1>7 DEF Ready, BinOps, Quotients, Remainders

(* Two operands that are known exactly give a result that is.              *)
LEMMA ResultSingle ==
    ASSUME NEW op, NEW a, NEW b, Ready(op, a, b), Clean(op, a, b),
           op \notin Remainders, Single(a.range), Single(b.range)
    PROVE  Single(Result(op, a.range, b.range))
<1>1. PICK m, n \in {N, W} :
        /\ a.range \in Ranges(m) /\ a.range.m = m /\ m \in Moduli /\ (m = N => a.ty = N)
        /\ b.range \in Ranges(n) /\ b.range.m = n /\ n \in Moduli /\ (n = N => a.ty = N)
        /\ a.val \in -SignedMin(m) .. SignedMax(m) /\ Contains(a.range, a.val % m)
        /\ b.val \in -SignedMin(n) .. SignedMax(n) /\ Contains(b.range, b.val % n)
        /\ \/ m = n
           \/ op \in {"Add", "Sub"} /\ IsFullSet(a.range)
           \/ op \in {"Add", "Sub"} /\ IsFullSet(b.range)
           \/ op = "Mul" /\ m = W /\ Exactly(b)
           \/ op \in Quotients /\ IsFullSet(b.range)
           \/ op \in Remainders
  BY CleanOperands
<1>2. ~IsFullSet(a.range) /\ ~IsFullSet(b.range)
  BY <1>1, SingleFacts
<1>3. m = n \/ op = "Mul"
  BY <1>1, <1>2
<1>4. CASE op \in {"Add", "Sub"}
  BY <1>1, <1>3, <1>4, ResultOf, SingleSum
<1>5. CASE op = "Mul"
  BY <1>1, <1>5, ResultOf, SingleProduct
<1>6. CASE op \in Quotients
  <2>1. b.val \in Int /\ b.val > 0
    BY <1>1, <1>6, SignedOfMod DEF Clean
  <2>2. b.val % n = b.val /\ b.val \in Word(n)
    BY <1>1, <2>1, NaturalWord
  <2>3. b.range.lo # 0
    BY <1>1, <2>1, <2>2, SingleFacts
  <2>4. m = n
    BY <1>3, <1>6 DEF Quotients
  <2>5. QED
    BY <1>1, <1>6, <2>3, <2>4, ResultOf, SingleQuotient
<1>7. QED
  BY <1>4, <1>5, <1>6 DEF Ready, BinOps, Quotients, Remainders

-----------------------------------------------------------------------------
Instructions ==
    [op : BinOps \cup Casts \cup {"Load", "Store", "Other"}, ty : {N, W},
     val : Numbers(W), md : Texts, clean : BOOLEAN, from : {"nothing", "ranges", "constants"}]

(* What holds of an instruction visited: its text is read as a legal range *)
(* of the width its form has, which holds of the value of a clean          *)
(* execution; an equality that can be an operand stands on an int.         *)
Legible(i) ==
    i.md \notin {NoText, Collapsed} =>
        /\ i.md.kind = "eq" => GetConstantRange(i.md) \in Ranges(N)
        /\ i.md.kind = "in" => GetConstantRange(i.md) \in Ranges(W)
        /\ i.clean => Holds(GetConstantRange(i.md), i.val)

ExactLoad(i) ==
    i.op # "Store" /\ i.md.kind = "eq" =>
        i.op = "Load" /\ i.ty = N /\ Single(GetConstantRange(i.md))
        /\ GetConstantRange(i.md).lo \in 0 .. SignedMax(N)

FoldedInto(i) ==
    /\ i.op \in {"Add", "Sub", "Mul", "UDiv", "SDiv"}
    /\ i.from = "constants" /\ i.clean /\ i.val # SignedMax(N)
    => i.md.lo = i.md.hi

Believed(i) ==
    /\ i \in Instructions /\ i.val \in Numbers(i.ty)
    /\ Legible(i) /\ ExactLoad(i) /\ FoldedInto(i)

IInv ==
    /\ code \in Seq(Instructions)
    /\ \A j \in DOMAIN code : Believed(code[j])
    /\ status \in {"running", "aborted"}
    /\ AbortNeedsExactLoad

(* The invariant's conjuncts are, or imply, the properties of the pass.    *)
LEMMA InvariantImplies ==
    ASSUME IInv
    PROVE  TypeOK /\ Sound /\ Rereadable /\ Folded /\ AbortNeedsExactLoad
<1>1. TypeOK
  BY DEF IInv, TypeOK, Instructions, Believed
<1>2. Sound
  <2>1. ASSUME NEW i \in DOMAIN code, code[i].clean, code[i].md \notin {NoText, Collapsed}
        PROVE  Holds(GetConstantRange(code[i].md), code[i].val)
    BY <2>1 DEF IInv, Believed, Legible
  <2>2. QED
    BY <2>1 DEF Sound
<1>3. Rereadable
  <2>1. ASSUME NEW i \in DOMAIN code, code[i].md \notin {NoText, Collapsed}
        PROVE  Accepted(GetConstantRange(code[i].md))
    <3>1. code[i].md \in Texts /\ Legible(code[i])
      BY DEF IInv, Believed, Instructions
    <3>2. code[i].md.kind \in {"eq", "in"}
      BY <2>1, <3>1 DEF Texts
    <3>3. \E m \in {N, W} : GetConstantRange(code[i].md) \in Ranges(m)
      BY <2>1, <3>1, <3>2 DEF Legible
    <3>4. QED
      BY <3>3 DEF Ranges, Accepted
  <2>2. QED
    BY <2>1 DEF Rereadable
<1>4. Folded
  <2>1. ASSUME NEW i \in DOMAIN code PROVE FoldedInto(code[i])
    BY DEF IInv, Believed
  <2>2. QED
    BY <2>1 DEF Folded, FoldedInto
<1>5. QED
  BY <1>1, <1>2, <1>3, <1>4 DEF IInv

(* An operand that is an instruction visited.                              *)
LEMMA VisitedOperand ==
    ASSUME IInv, NEW a \in Visited
    PROVE  /\ Operand(a)
           /\ a.known /\ ~Accepted(a.range) => \E j \in DOMAIN code : code[j].md = Collapsed
           /\ a.known /\ Accepted(a.range) /\ a.range \notin Ranges(W) =>
                \E j \in DOMAIN code : code[j].op = "Load" /\ code[j].md.kind = "eq"
<1>1. PICK j \in DOMAIN code : code[j].op # "Store" /\ a = OfInstruction(code[j])
  BY DEF Visited
<1> DEFINE i == code[j]
<1>2. Believed(i)
  BY DEF IInv
<1> HIDE DEF i
<1>3. /\ a.ty = i.ty /\ a.val = i.val /\ a.clean = i.clean /\ a.known = (i.md # NoText)
      /\ i.md # NoText => a.range = GetConstantRange(i.md)
  BY <1>1 DEF OfInstruction, i
<1>4. /\ a.ty \in {N, W} /\ a.val \in Numbers(a.ty) /\ a.clean \in BOOLEAN /\ a.known \in BOOLEAN
      /\ i.md \in Texts /\ Legible(i) /\ ExactLoad(i) /\ i.op # "Store"
  BY <1>1, <1>2, <1>3 DEF Believed, Instructions, i
<1>5. CASE i.md \in {NoText, Collapsed}
  <2>1. i.md = Collapsed => ~Accepted(GetConstantRange(i.md))
    <3>1. PICK s, S \in Int :
            /\ N = 2 * s /\ SignedMin(N) = s /\ SignedMax(N) = s - 1
            /\ W = 2 * S /\ SignedMin(W) = S /\ SignedMax(W) = S - 1
            /\ s >= 2 /\ S >= 2 * s
      BY Halves
    <3>2. GetConstantRange(Collapsed) = MkRange(W, Word64(-S + 2), Plus(W, Word64(-S), 1))
      BY <3>1 DEF GetConstantRange, Collapsed, TextIn
    <3>3. Word64(-S + 2) = S + 2 /\ Plus(W, Word64(-S), 1) = S + 2
      BY <3>1 DEF Word64, ReadInteger, FromSigned, Plus
    <3>4. ~Accepted(MkRange(W, S + 2, S + 2))
      BY <3>1 DEF Accepted, Legal, MkRange
    <3>5. QED
      BY <3>2, <3>3, <3>4
  <2>2. a.known => i.md = Collapsed /\ ~Accepted(a.range)
    BY <1>3, <1>5, <2>1
  <2>3. QED
    BY <1>1, <1>4, <2>2 DEF Operand, i
<1>6. CASE i.md \notin {NoText, Collapsed}
  <2>1. a.range = GetConstantRange(i.md) /\ i.md.kind \in {"eq", "in"}
        /\ (a.clean => Holds(a.range, a.val))
    BY <1>3, <1>4, <1>6 DEF Texts, Legible
  <2>2. CASE i.md.kind = "eq"
    <3>1. a.range \in Ranges(N) /\ Exactly(a) /\ i.op = "Load"
      BY <1>3, <1>4, <1>6, <2>1, <2>2 DEF Legible, ExactLoad, Exactly
    <3>2. QED
      BY <1>1, <1>4, <2>1, <2>2, <3>1 DEF Operand, i, Ranges, Accepted
  <2>3. CASE i.md.kind = "in"
    <3>1. a.range \in Ranges(W)
      BY <1>4, <1>6, <2>1, <2>3 DEF Legible
    <3>2. QED
      BY <1>4, <2>1, <3>1 DEF Operand, Ranges, Accepted
  <2>4. QED
    BY <2>1, <2>2, <2>3
<1>7. QED
  BY <1>5, <1>6

(* An operand that is a literal.                                           *)
LEMMA LiteralOperand ==
    ASSUME NEW a \in Literals
    PROVE  /\ Operand(a) /\ a.known /\ Accepted(a.range) /\ a.range \in Ranges(W) /\ a.clean
           /\ a.val \in Readable(W)
<1>1. PICK ty \in {N, W}, c \in Constants : c \in Numbers(ty) /\ a = OfConstant(ty, c)
  BY DEF Literals
<1>2. c \in Readable(W) /\ c \in -SignedMin(W) .. SignedMax(W)
  BY ConstantsAssumption DEF Readable, Numbers
<1>3. /\ a.ty = ty /\ a.val = c /\ a.clean /\ a.known /\ a.clean \in BOOLEAN /\ a.known \in BOOLEAN
      /\ a.range = MkRange(W, FromSigned(W, c), Plus(W, FromSigned(W, c), 1))
  BY <1>1 DEF OfConstant
<1>4. a.range \in Ranges(W) /\ Holds(a.range, c)
  BY <1>2, <1>3, LiteralRange
<1>5. QED
  BY <1>1, <1>2, <1>3, <1>4 DEF Operand, Ranges, Accepted

(* Any operand.                                                            *)
LEMMA AnyOperand ==
    ASSUME IInv, NEW a \in Operands
    PROVE  /\ Operand(a)
           /\ a.known /\ ~Accepted(a.range) => \E j \in DOMAIN code : code[j].md = Collapsed
           /\ a.known /\ Accepted(a.range) /\ a.range \notin Ranges(W) =>
                \E j \in DOMAIN code : code[j].op = "Load" /\ code[j].md.kind = "eq"
<1>1. CASE a \in Visited
  BY <1>1, VisitedOperand
<1>2. CASE a \in Literals
  BY <1>2, LiteralOperand
<1>3. QED
  BY <1>1, <1>2 DEF Operands

(* One more instruction keeps the invariant if all of it holds of that     *)
(* instruction.                                                            *)
LEMMA VisitKeeps ==
    ASSUME IInv, status = "running", NEW i, Believed(i), Visit(i)
    PROVE  IInv'
<1>1. code \in Seq(Instructions) /\ i \in Instructions /\ code' = Append(code, i) /\ status' = "running"
  BY DEF IInv, Believed, Visit
<1>2. code' \in Seq(Instructions) /\ Len(code') = Len(code) + 1
  BY <1>1
<1>3. \A j \in DOMAIN code' : code'[j] = i \/ (j \in DOMAIN code /\ code'[j] = code[j])
  BY <1>1
<1>4. \A j \in DOMAIN code' : Believed(code'[j])
  BY <1>3 DEF IInv
<1>5. QED
  BY <1>1, <1>2, <1>4 DEF IInv, AbortNeedsExactLoad

(* An assertion keeps the invariant if an exact load or the unreadable     *)
(* text is among the instructions visited.                                 *)
LEMMA AbortKeeps ==
    ASSUME IInv, Abort,
           \E j \in DOMAIN code : (code[j].op = "Load" /\ code[j].md.kind = "eq") \/ code[j].md = Collapsed
    PROVE  IInv'
BY DEF IInv, Abort, AbortNeedsExactLoad

(* What an execution computes is a number of its type.                     *)
LEMMA ExecuteTyped ==
    ASSUME NEW op \in BinOps, NEW m \in {N, W}, NEW x \in Numbers(m), NEW y \in Numbers(m),
           op \in Quotients \cup Remainders => y # 0
    PROVE  /\ Exact(op, m, x, y) \in Int /\ Execute(op, m, x, y) \in Numbers(m)
           /\ Exact(op, m, x, y) \in Numbers(m) => Execute(op, m, x, y) = Exact(op, m, x, y)
<1>1. m \in Moduli /\ x \in Int /\ y \in Int
  BY NumbersOfLong, SignedOfMod DEF Numbers
<1>2. Exact(op, m, x, y) \in Int
  <2>1. CASE op \in {"Add", "Sub", "Mul"}
    BY <1>1, <2>1 DEF Exact
  <2>2. CASE op \in Quotients \cup Remainders
    <3>1. y # 0 /\ y % m # 0
      <4>1. y % m = FromSigned(m, y) /\ Signed(m, y % m) = y
        BY <1>1, SignedOfMod DEF Numbers
      <4>2. y # 0
        BY <2>2
      <4>3. m \in Nat /\ m >= 4
        BY <1>1 DEF Moduli
      <4>4. QED
        BY <1>1, <4>1, <4>2, <4>3 DEF Signed
    <3>2. x % m \in Nat /\ y % m \in Nat /\ y % m >= 1
      BY <1>1, <3>1, IntMod DEF Word, Moduli
    <3>3. (x % m) \div (y % m) \in Int /\ (x % m) % (y % m) \in Int
      BY <3>2
    <3>4. /\ Magnitude(x) \in Nat /\ Magnitude(y) \in Nat /\ Magnitude(y) >= 1
          /\ Sign(x) \in {-1, 1} /\ Sign(y) \in {-1, 1}
      BY <1>1, <3>1 DEF Magnitude, Sign
    <3>5. Magnitude(x) \div Magnitude(y) \in Int
      BY <3>4
    <3>6. Quotient(x, y) \in Int
      BY <3>4, <3>5 DEF Quotient
    <3>7. x - y * Quotient(x, y) \in Int
      BY <1>1, <3>6
    <3>8. CASE op \in {"UDiv", "URem"}
      BY <2>2, <3>3, <3>8 DEF Exact
    <3>9. CASE op = "SDiv"
      BY <3>6, <3>9 DEF Exact
    <3>10. CASE op = "SRem"
      BY <3>7, <3>10 DEF Exact
    <3>11. QED
      BY <2>2, <3>8, <3>9, <3>10 DEF Quotients, Remainders
  <2>3. QED
    BY <2>1, <2>2 DEF BinOps, Quotients, Remainders
<1>3. Execute(op, m, x, y) \in Numbers(m)
  BY <1>1, <1>2, SignedOfWord DEF Execute, Numbers
<1>4. ASSUME Exact(op, m, x, y) \in Numbers(m)
      PROVE  Execute(op, m, x, y) = Exact(op, m, x, y)
  BY <1>1, <1>4, SignedOfMod DEF Execute, Numbers
<1>5. QED
  BY <1>2, <1>3, <1>4

(* The text of a result is one of the pass's own.                          *)
LEMMA EmittedText ==
    ASSUME NEW m \in {N, W}, NEW r \in Ranges(m)
    PROVE  /\ EmitRange(r) \in [kind : {"in"}, lo : Int, hi : Int] /\ EmitRange(r) \in Texts
           /\ EmitRange(r) # NoText
           /\ \A v \in -SignedMin(m) .. SignedMax(m) :
                Single(r) /\ Contains(r, v % m) /\ v # SignedMax(N) =>
                    EmitRange(r).lo = EmitRange(r).hi
<1>1. PICK s, S \in Int :
        /\ N = 2 * s /\ SignedMin(N) = s /\ SignedMax(N) = s - 1
        /\ W = 2 * S /\ SignedMin(W) = S /\ SignedMax(W) = S - 1
        /\ s >= 2 /\ S >= 2 * s
  BY Halves
<1>2. m \in Moduli
  BY NumbersOfLong
<1> DEFINE l == r.lo
           h == r.hi
           low == Signed(m, l)
           high == IF Signed(m, h) = -S THEN S - 1 ELSE Signed(m, h) - 1
<1>3. r.m = m /\ l \in 0 .. m - 1 /\ h \in 0 .. m - 1 /\ m \in Nat
  BY <1>2, RangeFacts DEF Moduli
<1>4. EmitRange(r) = TextIn(low, high)
  BY <1>1, <1>3 DEF EmitRange
<1> HIDE DEF l, h
<1>5. low \in Int /\ high \in Int
  BY <1>1, <1>3 DEF Signed
<1> HIDE DEF low, high
<1>6. TextIn(low, high) \in [kind : {"in"}, lo : Int, hi : Int]
      /\ TextIn(low, high).kind = "in" /\ TextIn(low, high).lo = low /\ TextIn(low, high).hi = high
  BY <1>5 DEF TextIn
<1>7. TextIn(low, high) \in Texts /\ TextIn(low, high) # NoText
  BY <1>5 DEF TextIn, Texts, NoText
<1>8. ASSUME NEW v \in -SignedMin(m) .. SignedMax(m), Single(r), Contains(r, v % m), v # SignedMax(N)
      PROVE  low = high
  <2>1. v \in Int /\ v % m \in Word(m) /\ v % m = FromSigned(m, v)
    BY <1>2, SignedOfMod, IntMod
  <2>2. v % m = l
    BY <1>2, <1>8, <2>1, SingleFacts DEF l
  <2>3. h = Plus(m, l, 1) /\ l = FromSigned(m, v)
    BY <1>3, <1>8, <2>1, <2>2 DEF Single, l, h
  <2>4. CASE m = N
    BY <1>1, <1>3, <1>8, <2>1, <2>3, <2>4 DEF low, high, Signed, Plus, FromSigned
  <2>5. CASE m = W
    BY <1>1, <1>3, <1>8, <2>1, <2>3, <2>5 DEF low, high, Signed, Plus, FromSigned
  <2>6. QED
    BY <2>4, <2>5
<1>9. QED
  BY <1>4, <1>6, <1>7, <1>8

(* Each action keeps the invariant.  An operation stops only at an operand *)
(* that cannot be read or at two widths; otherwise its text is legible.    *)
LEMMA BinOpKeeps ==
    ASSUME IInv, status = "running", NEW op \in BinOps, NEW a \in Operands, NEW b \in Operands, BinOp(op, a, b)
    PROVE  IInv'
<1> DEFINE from == Knowledge({a, b})
           result == Result(op, a.range, b.range)
           md == IF from = "nothing" THEN NoText ELSE EmitRange(result)
           i == Instruction(op, a.ty, Execute(op, a.ty, a.val, b.val), md, Clean(op, a, b), from)
           stops == Unreadable({a, b}) \/ (from # "nothing" /\ WidthsClash(op, a.range, b.range))
<1>1. /\ a.ty = b.ty
      /\ op \in Quotients \cup Remainders => b.val # 0
      /\ IF stops THEN Abort ELSE Visit(i)
  BY DEF BinOp
<1>2. Operand(a) /\ Operand(b)
  BY AnyOperand
<1>3. a.ty \in {N, W} /\ a.val \in Numbers(a.ty) /\ b.val \in Numbers(a.ty)
  BY <1>1, <1>2 DEF Operand
<1>4. from \in {"nothing", "ranges", "constants"} /\ (from # "nothing" => a.known /\ b.known)
  BY DEF Knowledge
<1>5. CASE stops
  <2>1. \E j \in DOMAIN code : (code[j].op = "Load" /\ code[j].md.kind = "eq") \/ code[j].md = Collapsed
    <3>1. CASE Unreadable({a, b})
      <4>1. (a.known /\ ~Accepted(a.range)) \/ (b.known /\ ~Accepted(b.range))
        BY <3>1 DEF Unreadable
      <4>2. QED
        BY <4>1, AnyOperand
    <3>2. CASE ~Unreadable({a, b}) /\ from # "nothing" /\ WidthsClash(op, a.range, b.range)
      <4>1. a.known /\ b.known /\ Accepted(a.range) /\ Accepted(b.range)
        BY <1>4, <3>2 DEF Unreadable
      <4>2. ~(a.range \in Ranges(W) /\ b.range \in Ranges(W))
        <5>1. ASSUME a.range \in Ranges(W), b.range \in Ranges(W) PROVE FALSE
          <6>1. a.range.m = W /\ b.range.m = W /\ W \in Nat
            BY <5>1, Widths, RangeFacts
          <6>2. CASE op \in {"Add", "Sub"}
            BY <3>2, <6>1, <6>2, ResultOf DEF AddAsserts
          <6>3. CASE op = "Mul"
            BY <3>2, <6>1, <6>3, ResultOf DEF MultiplyAsserts
          <6>4. CASE op \in Quotients
            BY <3>2, <6>1, <6>4, ResultOf DEF UDivAsserts
          <6>5. CASE op \in Remainders
            BY <3>2, <6>5 DEF WidthsClash, Remainders, Quotients
          <6>6. QED
            BY <6>2, <6>3, <6>4, <6>5 DEF BinOps, Quotients, Remainders
        <5>2. QED
          BY <5>1
      <4>3. QED
        BY <4>1, <4>2, AnyOperand
    <3>3. QED
      BY <1>5, <3>1, <3>2
  <2>2. QED
    BY <1>1, <1>5, <2>1, AbortKeeps
<1>6. CASE ~stops
  <2>1. /\ Exact(op, a.ty, a.val, b.val) \in Int /\ Execute(op, a.ty, a.val, b.val) \in Numbers(a.ty)
        /\ Exact(op, a.ty, a.val, b.val) \in Numbers(a.ty) =>
              Execute(op, a.ty, a.val, b.val) = Exact(op, a.ty, a.val, b.val)
    BY <1>1, <1>3, ExecuteTyped
  <2>2. Execute(op, a.ty, a.val, b.val) \in Numbers(W)
    BY <1>3, <2>1, NumbersOfLong DEF Numbers
  <2>3. Clean(op, a, b) \in BOOLEAN /\ (Clean(op, a, b) => Exact(op, a.ty, a.val, b.val) \in Readable(a.ty))
    BY <1>2 DEF Clean, Operand
  <2>4. /\ i.op = op /\ i.ty = a.ty /\ i.val = Execute(op, a.ty, a.val, b.val) /\ i.md = md
        /\ i.clean = Clean(op, a, b) /\ i.from = from
    BY DEF Instruction
  <2>5. i.clean => i.val = Exact(op, a.ty, a.val, b.val) /\ i.val \in Readable(a.ty)
    BY <2>1, <2>3, <2>4 DEF Readable
  <2>6. md \in Texts => i \in Instructions
    BY <1>3, <1>4, <2>2, <2>3 DEF Instruction, Instructions
  <2>7. ExactLoad(i) <=> (md.kind # "eq")
    BY <2>4 DEF ExactLoad, BinOps
  <2>8. CASE from = "nothing"
    <3>1. md = NoText
      BY <2>8
    <3>2. md \in Texts /\ md.kind # "eq"
      BY <3>1 DEF Texts, NoText
    <3>3. Legible(i) /\ FoldedInto(i)
      BY <2>4, <2>8, <3>1 DEF Legible, FoldedInto, NoText
    <3>4. Believed(i)
      BY <2>1, <2>4, <2>6, <2>7, <3>2, <3>3 DEF Believed
    <3>5. QED
      BY <1>1, <1>6, <3>4, VisitKeeps
  <2>9. CASE from # "nothing"
    <3>1. Ready(op, a, b)
      BY <1>1, <1>2, <1>4, <1>6, <2>9 DEF Ready, Unreadable
    <3>2. PICK m \in {N, W} :
            /\ result \in Ranges(m) /\ (m = N => a.ty = N)
            /\ Clean(op, a, b) => Contains(result, Exact(op, a.ty, a.val, b.val) % m)
      BY <3>1, ResultLegal, ResultSound
    <3>3. md = EmitRange(result)
      BY <2>9
    <3>4. md \in Texts /\ md.kind = "in" /\ md # NoText
      BY <3>2, <3>3, EmittedText
    <3>5. i.clean => i.val \in (-SignedMin(m) .. SignedMax(m)) \ {-SignedMin(W)}
      <4>1. ASSUME i.clean PROVE i.val \in (-SignedMin(m) .. SignedMax(m)) \ {-SignedMin(W)}
        <5>1. i.val \in Readable(a.ty)
          BY <2>5, <4>1
        <5>2. i.val \in Numbers(m)
          BY <1>3, <3>2, <5>1, NumbersOfLong DEF Readable, Numbers
        <5>3. QED
          BY <5>1, <5>2 DEF Readable, Numbers
      <4>2. QED
        BY <4>1
    <3>6. Legible(i)
      <4>1. ASSUME md # Collapsed
            PROVE  /\ GetConstantRange(md) \in Ranges(W)
                   /\ i.clean => Holds(GetConstantRange(md), i.val)
        BY <2>4, <2>5, <3>2, <3>3, <3>5, <4>1, EmitRead DEF Collapsed
      <4>2. QED
        BY <2>4, <3>4, <4>1 DEF Legible
    <3>7. FoldedInto(i)
      <4>1. ASSUME i.op \in {"Add", "Sub", "Mul", "UDiv", "SDiv"}, i.from = "constants",
                   i.clean, i.val # SignedMax(N)
            PROVE  md.lo = md.hi
        <5>1. Single(a.range) /\ Single(b.range)
          BY <2>4, <4>1 DEF Knowledge, Single
        <5>2. Single(result)
          BY <2>4, <3>1, <4>1, <5>1, ResultSingle DEF Remainders
        <5>3. Contains(result, i.val % m)
          BY <2>4, <2>5, <3>2, <4>1
        <5>4. i.val \in -SignedMin(m) .. SignedMax(m)
          BY <3>5, <4>1
        <5>5. QED
          BY <3>2, <3>3, <4>1, <5>2, <5>3, <5>4, EmittedText
      <4>2. QED
        BY <2>4, <4>1 DEF FoldedInto
    <3>8. Believed(i)
      BY <2>1, <2>4, <2>6, <2>7, <3>4, <3>6, <3>7 DEF Believed
    <3>9. QED
      BY <1>1, <1>6, <3>8, VisitKeeps
  <2>10. QED
    BY <2>8, <2>9
<1>7. QED
  BY <1>5, <1>6

(* What AnnotationMapping left on a load stays on it.                      *)
LEMMA LoadKeeps ==
    ASSUME IInv, status = "running", NEW l \in Loads, NEW v \in l.vals, SkipAnnotated(l, v)
    PROVE  IInv'
<1> DEFINE i == Instruction("Load", l.ty, v, l.md, TRUE, "nothing")
<1>1. /\ l.ty \in {N, W}
      /\ l.md \in [kind : {"eq", "in"}, lo : Int, hi : Int]
      /\ l.md.kind = "eq" => l.ty = N /\ l.md.lo \in 0 .. SignedMax(N)
      /\ Accepted(GetConstantRange(l.md))
      /\ v \in Readable(l.ty) /\ Holds(GetConstantRange(l.md), v)
  BY LoadsAssumption
<1>2. i.op = "Load" /\ i.ty = l.ty /\ i.val = v /\ i.md = l.md /\ i.clean = TRUE /\ i.from = "nothing"
  BY DEF Instruction
<1>3. v \in Numbers(l.ty) /\ v \in Numbers(W)
  BY <1>1, NumbersOfLong DEF Readable, Numbers
<1>4. i \in Instructions
  BY <1>1, <1>3 DEF Instruction, Instructions, Texts
<1>5. l.md.kind = "eq" =>
          /\ GetConstantRange(l.md) \in Ranges(N) /\ Single(GetConstantRange(l.md))
          /\ GetConstantRange(l.md).lo \in 0 .. SignedMax(N)
  <2>1. ASSUME l.md.kind = "eq"
        PROVE  /\ GetConstantRange(l.md) \in Ranges(N) /\ Single(GetConstantRange(l.md))
               /\ GetConstantRange(l.md).lo \in 0 .. SignedMax(N)
    <3>1. PICK s, S \in Int :
            /\ N = 2 * s /\ SignedMin(N) = s /\ SignedMax(N) = s - 1
            /\ W = 2 * S /\ SignedMin(W) = S /\ SignedMax(W) = S - 1
            /\ s >= 2 /\ S >= 2 * s
      BY Halves
    <3>2. l.md.lo \in 0 .. s - 1
      BY <1>1, <2>1, <3>1
    <3>3. ReadInteger(l.md.lo) = l.md.lo
      BY <3>1, <3>2 DEF ReadInteger
    <3>4. l.md.lo % N = l.md.lo
      BY <3>1, <3>2, NaturalWord
    <3>5. /\ GetConstantRange(l.md) \in Ranges(N) /\ Single(GetConstantRange(l.md))
          /\ GetConstantRange(l.md).lo = ReadInteger(l.md.lo) % N
      BY <2>1, <3>2, EqualityRange
    <3>6. QED
      BY <3>1, <3>2, <3>3, <3>4, <3>5
  <2>2. QED
    BY <2>1
<1>6. l.md.kind = "in" => GetConstantRange(l.md) \in Ranges(W)
  <2>1. ASSUME l.md.kind = "in" PROVE GetConstantRange(l.md) \in Ranges(W)
    <3> DEFINE u == Word64(l.md.lo)
               w == Plus(W, Word64(l.md.hi), 1)
    <3>1. l.md \in [kind : {"in"}, lo : Int, hi : Int]
      BY <1>1, <2>1
    <3>2. GetConstantRange(l.md) = MkRange(W, u, w) /\ u \in Word(W) /\ w \in Word(W)
      BY <3>1, IntervalRange
    <3>3. Legal(W, u, w)
      BY <1>1, <3>2 DEF Accepted, MkRange
    <3>4. QED
      BY <3>2, <3>3, Widths, MkRangeLegal
  <2>2. QED
    BY <2>1
<1>7. Legible(i) /\ ExactLoad(i) /\ FoldedInto(i)
  BY <1>1, <1>2, <1>5, <1>6 DEF Legible, ExactLoad, FoldedInto
<1>8. Believed(i)
  BY <1>2, <1>3, <1>4, <1>7 DEF Believed
<1>9. QED
  BY <1>8, VisitKeeps DEF SkipAnnotated

(* An instruction without metadata needs only a value of its type.         *)
LEMMA SilentKeeps ==
    ASSUME IInv, status = "running", NEW op \in Casts \cup {"Store", "Other"}, NEW ty \in {N, W},
           NEW v \in Numbers(ty), NEW clean \in BOOLEAN, NEW from \in {"nothing", "ranges", "constants"},
           Visit(Instruction(op, ty, v, NoText, clean, from))
    PROVE  IInv'
<1> DEFINE i == Instruction(op, ty, v, NoText, clean, from)
<1>1. /\ i.op = op /\ i.ty = ty /\ i.val = v /\ i.md = NoText /\ i.from = from
      /\ i.md.kind = "none" /\ i.md.lo = i.md.hi
  BY DEF Instruction, NoText
<1>2. v \in Numbers(W)
  BY NumbersOfLong DEF Numbers
<1>3. i \in Instructions
  BY <1>2 DEF Instruction, Instructions, Texts
<1>4. Believed(i)
  BY <1>1, <1>3 DEF Believed, Legible, ExactLoad, FoldedInto
<1>5. QED
  BY <1>4, VisitKeeps

(* A cast and the store of a value leave no text.                          *)
LEMMA CastKeeps ==
    ASSUME IInv, status = "running", NEW op \in Casts, NEW a \in Visited, Cast(op, a)
    PROVE  IInv'
<1>1. Operand(a) /\ a.ty = N
  BY VisitedOperand DEF Cast
<1>2. CASE Unreadable({a})
  <2>1. Abort /\ a.known /\ ~Accepted(a.range)
    BY <1>2 DEF Cast, Unreadable
  <2>2. QED
    BY <2>1, VisitedOperand, AbortKeeps
<1>3. CASE ~Unreadable({a})
  <2> DEFINE v == IF op = "SExt" THEN a.val ELSE a.val % N
  <2>1. Visit(Instruction(op, W, v, NoText, a.clean, Knowledge({a})))
    BY <1>3 DEF Cast
  <2>2. a.val \in Numbers(N) /\ a.val \in Numbers(W) /\ a.val \in Int /\ a.clean \in BOOLEAN
    BY <1>1, Widths, NumbersOfLong, SignedOfMod DEF Operand, Numbers
  <2>3. a.val % N \in Numbers(W)
    <3>1. a.val % N \in 0 .. N - 1
      BY <2>2, Widths, IntMod DEF Word
    <3>2. PICK s, S \in Int :
            /\ N = 2 * s /\ SignedMin(N) = s /\ SignedMax(N) = s - 1
            /\ W = 2 * S /\ SignedMin(W) = S /\ SignedMax(W) = S - 1
            /\ s >= 2 /\ S >= 2 * s
      BY Halves
    <3>3. QED
      BY <3>1, <3>2 DEF Numbers
  <2>4. v \in Numbers(W) /\ Knowledge({a}) \in {"nothing", "ranges", "constants"}
    BY <2>2, <2>3 DEF Knowledge
  <2> HIDE DEF v
  <2>5. QED
    BY <2>1, <2>2, <2>4, SilentKeeps
<1>4. QED
  BY <1>2, <1>3

(* The store of a value is looked up, and not annotated.                   *)
LEMMA StoreValueKeeps ==
    ASSUME IInv, status = "running", NEW a \in Visited, StoreValue(a)
    PROVE  IInv'
<1>1. Operand(a)
  BY VisitedOperand
<1>2. CASE Unreadable({a})
  <2>1. Abort /\ a.known /\ ~Accepted(a.range)
    BY <1>2 DEF StoreValue, Unreadable
  <2>2. QED
    BY <2>1, VisitedOperand, AbortKeeps
<1>3. CASE ~Unreadable({a})
  <2>1. Visit(Instruction("Store", a.ty, a.val, NoText, a.clean, Knowledge({a})))
    BY <1>3 DEF StoreValue
  <2>2. a.ty \in {N, W} /\ a.val \in Numbers(a.ty) /\ a.clean \in BOOLEAN
    BY <1>1 DEF Operand
  <2>3. Knowledge({a}) \in {"nothing", "ranges", "constants"}
    BY DEF Knowledge
  <2>4. QED
    BY <2>1, <2>2, <2>3, SilentKeeps
<1>4. QED
  BY <1>2, <1>3

(* The store of a literal is annotated with it.                            *)
LEMMA StoreLiteralKeeps ==
    ASSUME IInv, status = "running", NEW a \in Literals, StoreLiteral(a)
    PROVE  IInv'
<1> DEFINE i == Instruction("Store", a.ty, a.val, TextEq(a.val), a.clean, "constants")
           t == TextEq(a.val)
<1>1. Operand(a) /\ a.clean /\ a.val \in Readable(W)
  BY LiteralOperand
<1>2. a.ty \in {N, W} /\ a.val \in Numbers(a.ty) /\ a.val \in Numbers(W) /\ a.clean \in BOOLEAN
  BY <1>1 DEF Operand, Readable
<1>3. PICK s, S \in Int :
        /\ N = 2 * s /\ SignedMin(N) = s /\ SignedMax(N) = s - 1
        /\ W = 2 * S /\ SignedMin(W) = S /\ SignedMax(W) = S - 1
        /\ s >= 2 /\ S >= 2 * s
  BY Halves
<1>4. a.val \in Int /\ ReadInteger(a.val) = a.val
  BY <1>1, <1>3 DEF Readable, Numbers, ReadInteger
<1>5. t.kind = "eq" /\ t.lo = a.val /\ t \in Texts
  BY <1>4 DEF TextEq, Texts
<1>6. GetConstantRange(t) \in Ranges(N) /\ Holds(GetConstantRange(t), a.val)
  BY <1>4, <1>5, EqualityRange
<1>7. i.op = "Store" /\ i.ty = a.ty /\ i.val = a.val /\ i.md = t
  BY DEF Instruction
<1>8. i \in Instructions
  BY <1>2, <1>5 DEF Instruction, Instructions
<1>9. Legible(i) /\ ExactLoad(i) /\ FoldedInto(i)
  BY <1>5, <1>6, <1>7 DEF Legible, ExactLoad, FoldedInto
<1>10. Believed(i)
  BY <1>2, <1>7, <1>8, <1>9 DEF Believed
<1>11. QED
  BY <1>10, VisitKeeps DEF StoreLiteral

(* The invariant is inductive.                                             *)
THEOREM Inductive == Spec => []IInv
<1>1. Init => IInv
  BY DEF Init, IInv, AbortNeedsExactLoad
<1>2. IInv /\ [Next]_vars => IInv'
  <2>1. ASSUME IInv, Next PROVE IInv'
    <3>1. status = "running" /\ VisitNext
      BY <2>1 DEF Next
    <3>2. CASE \E op \in BinOps : \E a, b \in Operands : BinOp(op, a, b)
      BY <2>1, <3>1, <3>2, BinOpKeeps
    <3>3. CASE \E l \in Loads : \E v \in l.vals : SkipAnnotated(l, v)
      BY <2>1, <3>1, <3>3, LoadKeeps
    <3>4. CASE \E op \in Casts : \E a \in Visited : Cast(op, a)
      BY <2>1, <3>1, <3>4, CastKeeps
    <3>5. CASE \E a \in Literals : StoreLiteral(a)
      BY <2>1, <3>1, <3>5, StoreLiteralKeeps
    <3>6. CASE \E a \in Visited : StoreValue(a)
      BY <2>1, <3>1, <3>6, StoreValueKeeps
    <3>7. CASE \E ty \in {N, W} : \E v \in Constants \cap Numbers(ty) : Other(ty, v)
      BY <2>1, <3>1, <3>7, SilentKeeps DEF Other
    <3>8. QED
      BY <3>1, <3>2, <3>3, <3>4, <3>5, <3>6, <3>7 DEF VisitNext
  <2>2. ASSUME IInv, UNCHANGED vars PROVE IInv'
    BY <2>2 DEF vars, IInv, AbortNeedsExactLoad
  <2>3. QED
    BY <2>1, <2>2
<1>3. QED
  BY <1>1, <1>2, PTL DEF Spec

(* Values stay in their types and every text is of a shape the pass writes.*)
THEOREM TypeCorrect == Spec => []TypeOK
  BY Inductive, InvariantImplies, PTL

(* Every range the pass derives holds of the value that a clean execution  *)
(* computes (propagateBinOp, propagateStore).                              *)
THEOREM PropagationSound == Spec => []Sound
  BY Inductive, InvariantImplies, PTL

(* Every text it writes can be read back, but one.                         *)
THEOREM TextsReread == Spec => []Rereadable
  BY Inductive, InvariantImplies, PTL

(* Operations on constants give one value.                                 *)
THEOREM ConstantsFold == Spec => []Folded
  BY Inductive, InvariantImplies, PTL

(* The pass stops only at the operands named.                              *)
THEOREM AbortsExplained == Spec => []AbortNeedsExactLoad
  BY Inductive, InvariantImplies, PTL
=============================================================================
