-------------------------- MODULE LoopFold_proofs --------------------------
(***************************************************************************)
(* The trip count claimed of a loop with an annotated bound is the number  *)
(* of its turns, for every width and every loop whose bound is read as the *)
(* word it is (Counted).                                                   *)
(*                                                                         *)
(* The inductive invariant puts the state of the analysis beside the       *)
(* program: the condition says of a word what the program's comparison     *)
(* says of it, however often it was rewritten, and the claim is what       *)
(* getNumIterationsInRange answers for that condition.  The execution is   *)
(* where first + step * taken puts it.  The rest is arithmetic: the answer *)
(* is the first turn after which the variable is outside the region.       *)
(***************************************************************************)
EXTENDS LoopFold, Ranges_proofs, WellFoundedInduction

-----------------------------------------------------------------------------
(* What a condition of the analysis says of a word of the variable.        *)
Meets(p, m, x, v) == p = Always \/ (p # Never /\ Compare(p, m, x, v))

(* "Or equal" to a word is strict of the next one.                         *)
LEMMA StrictMeets ==
    ASSUME NEW p \in OrEqual, NEW m \in Moduli, NEW v \in Word(m), NEW x \in Word(m)
    PROVE  /\ Strict(p) \in AllPredicates /\ (Strict(p) \in Below <=> p \in Below)
           /\ p \in Below /\ v # Greatest(p, m) =>
                (Meets(Strict(p), m, x, Plus(m, v, 1)) <=> Compare(p, m, x, v))
           /\ p \notin Below /\ v # Least(p, m) =>
                (Meets(Strict(p), m, x, Minus(m, v, 1)) <=> Compare(p, m, x, v))
           /\ p \in Below /\ x # Least(p, m) =>
                (Meets(Strict(p), m, Minus(m, x, 1), v) <=> Compare(p, m, x, v))
           /\ p \notin Below /\ x # Greatest(p, m) =>
                (Meets(Strict(p), m, Plus(m, x, 1), v) <=> Compare(p, m, x, v))
<1> DEFINE t == Strict(p)
<1>1. /\ p \in Below \cup Above /\ t \in Below \cup Above
      /\ t # Always /\ t # Never
      /\ p \in Below => p \in {"sle", "ule"} /\ t \in {"slt", "ult"}
      /\ p \notin Below => p \in {"sge", "uge"} /\ t \in {"sgt", "ugt"}
      /\ t \in Below <=> p \in Below
      /\ p \in SignedPredicates <=> t \in SignedPredicates
  BY DEF OrEqual, Strict, Below, Above, Always, Never, SignedPredicates
<1>2. \A w : Number(t, m, w) = Number(p, m, w)
  BY <1>1 DEF Number
<1>3. \A w \in Word(m), z \in Word(m) : Meets(t, m, w, z) <=> Compare(t, m, w, z)
  BY <1>1 DEF Meets
<1>4. Plus(m, v, 1) \in Word(m) /\ Minus(m, v, 1) \in Word(m)
      /\ Plus(m, x, 1) \in Word(m) /\ Minus(m, x, 1) \in Word(m)
  BY <1>1, ReadingFacts
<1>5. ASSUME NEW w \in Word(m), NEW z \in Word(m)
      PROVE  /\ Number(p, m, w) \in Int /\ Number(p, m, z) \in Int
             /\ p \in Below => (Compare(p, m, w, z) <=> Number(p, m, w) <= Number(p, m, z))
             /\ p \in Below => (Compare(t, m, w, z) <=> Number(p, m, w) < Number(p, m, z))
             /\ p \notin Below => (Compare(p, m, w, z) <=> Number(p, m, w) >= Number(p, m, z))
             /\ p \notin Below => (Compare(t, m, w, z) <=> Number(p, m, w) > Number(p, m, z))
  BY <1>1, <1>2, CompareNumbers
<1>6. /\ v # Least(p, m) => Number(p, m, Minus(m, v, 1)) = Number(p, m, v) - 1
      /\ x # Least(p, m) => Number(p, m, Minus(m, x, 1)) = Number(p, m, x) - 1
      /\ v # Greatest(p, m) => Number(p, m, Plus(m, v, 1)) = Number(p, m, v) + 1
      /\ x # Greatest(p, m) => Number(p, m, Plus(m, x, 1)) = Number(p, m, x) + 1
  BY <1>1, ReadingFacts
<1> HIDE DEF t
<1>7. QED
  <2>1. t \in AllPredicates
    BY <1>1 DEF AllPredicates
  <2>2. ASSUME p \in Below, v # Greatest(p, m)
        PROVE  Meets(t, m, x, Plus(m, v, 1)) <=> Compare(p, m, x, v)
    <3>1. Meets(t, m, x, Plus(m, v, 1)) <=> Number(p, m, x) < Number(p, m, Plus(m, v, 1))
      BY <2>2, <1>3, <1>4, <1>5
    <3>2. /\ Number(p, m, x) \in Int /\ Number(p, m, v) \in Int
          /\ Compare(p, m, x, v) <=> Number(p, m, x) <= Number(p, m, v)
      BY <2>2, <1>5
    <3>3. QED
      BY <3>1, <3>2, <2>2, <1>6
  <2>3. ASSUME p \notin Below, v # Least(p, m)
        PROVE  Meets(t, m, x, Minus(m, v, 1)) <=> Compare(p, m, x, v)
    <3>1. Meets(t, m, x, Minus(m, v, 1)) <=> Number(p, m, x) > Number(p, m, Minus(m, v, 1))
      BY <2>3, <1>3, <1>4, <1>5
    <3>2. /\ Number(p, m, x) \in Int /\ Number(p, m, v) \in Int
          /\ Compare(p, m, x, v) <=> Number(p, m, x) >= Number(p, m, v)
      BY <2>3, <1>5
    <3>3. QED
      BY <3>1, <3>2, <2>3, <1>6
  <2>4. ASSUME p \in Below, x # Least(p, m)
        PROVE  Meets(t, m, Minus(m, x, 1), v) <=> Compare(p, m, x, v)
    <3>1. Meets(t, m, Minus(m, x, 1), v) <=> Number(p, m, Minus(m, x, 1)) < Number(p, m, v)
      BY <2>4, <1>3, <1>4, <1>5
    <3>2. /\ Number(p, m, x) \in Int /\ Number(p, m, v) \in Int
          /\ Compare(p, m, x, v) <=> Number(p, m, x) <= Number(p, m, v)
      BY <2>4, <1>5
    <3>3. QED
      BY <3>1, <3>2, <2>4, <1>6
  <2>5. ASSUME p \notin Below, x # Greatest(p, m)
        PROVE  Meets(t, m, Plus(m, x, 1), v) <=> Compare(p, m, x, v)
    <3>1. Meets(t, m, Plus(m, x, 1), v) <=> Number(p, m, Plus(m, x, 1)) > Number(p, m, v)
      BY <2>5, <1>3, <1>4, <1>5
    <3>2. /\ Number(p, m, x) \in Int /\ Number(p, m, v) \in Int
          /\ Compare(p, m, x, v) <=> Number(p, m, x) >= Number(p, m, v)
      BY <2>5, <1>5
    <3>3. QED
      BY <3>1, <3>2, <2>5, <1>6
  <2>6. QED
    BY <2>1, <2>2, <2>3, <2>4, <2>5, <1>1 DEF t

(* One simplification with a constant bound says the same of every word.   *)
LEMMA SimplifiedTruth ==
    ASSUME NEW p \in AllPredicates, NEW m \in Moduli, NEW v \in Word(m)
    PROVE  /\ Simplified(p, m, v)[1] \in AllPredicates \cup {Always, Never}
           /\ Simplified(p, m, v)[2] \in Word(m)
           /\ \A x \in Word(m) :
                Meets(Simplified(p, m, v)[1], m, x, Simplified(p, m, v)[2]) <=> Compare(p, m, x, v)
<1> DEFINE q == Simplified(p, m, v)
           up == Plus(m, v, 1)
           down == Minus(m, v, 1)
           least == Least(p, m)
           greatest == Greatest(p, m)
           Num(w) == Number(p, m, w)
           Right(r) == /\ r[1] \in AllPredicates \cup {Always, Never} /\ r[2] \in Word(m)
                       /\ \A x \in Word(m) : Meets(r[1], m, x, r[2]) <=> Compare(p, m, x, v)
<1>1. CASE p \in {"eq", "ne"}
  <2>1. q = <<p, v>>
    BY <1>1 DEF Simplified
  <2>2. p # Always /\ p # Never
    BY <1>1 DEF Always, Never
  <2>3. q[1] = p /\ q[2] = v
    BY <2>1
  <2>4. QED
    BY <2>2, <2>3 DEF Meets
<1>2. CASE p \in Below \cup Above
  <2>1. /\ least \in Word(m) /\ greatest \in Word(m) /\ up \in Word(m) /\ down \in Word(m)
        /\ m \in Int /\ m >= 4
        /\ Num(greatest) = Num(least) + m - 1
        /\ IF v = least THEN down = greatest ELSE Num(down) = Num(v) - 1
        /\ IF v = greatest THEN up = least ELSE Num(up) = Num(v) + 1
    BY <1>2, ReadingFacts DEF Moduli
  <2>2. /\ down = least => v # least
        /\ up = greatest => v # greatest
    BY <2>1, <1>2, CompareNumbers
  <2>3. ASSUME NEW x \in Word(m)
        PROVE  /\ v = greatest => /\ x # v <=> Num(x) < Num(v)
                                  /\ x = v <=> Num(x) >= Num(v)
                                  /\ Num(x) <= Num(v) /\ ~(Num(x) > Num(v))
               /\ v = least => /\ x # v <=> Num(x) > Num(v)
                               /\ x = v <=> Num(x) <= Num(v)
                               /\ Num(x) >= Num(v) /\ ~(Num(x) < Num(v))
               /\ down = least => /\ x = down <=> Num(x) < Num(v)
                                  /\ x # down <=> Num(x) >= Num(v)
               /\ up = greatest => /\ x = up <=> Num(x) > Num(v)
                                   /\ x # up <=> Num(x) <= Num(v)
    <3>1. /\ Num(x) \in Int /\ Num(v) \in Int /\ Num(least) \in Int /\ Num(greatest) \in Int
          /\ Num(least) <= Num(x) /\ Num(x) <= Num(greatest)
          /\ Num(x) = Num(v) <=> x = v
          /\ Num(x) = Num(down) <=> x = down
          /\ Num(x) = Num(up) <=> x = up
      <4>1. /\ Num(x) \in Int /\ Num(v) \in Int /\ Num(least) \in Int /\ Num(greatest) \in Int
        BY <2>1, <1>2, CompareNumbers
      <4>2. Num(least) <= Num(x) /\ Num(x) <= Num(greatest)
        BY <1>2, ReadingFacts
      <4>3. \A w \in Word(m) : Num(x) = Num(w) => x = w
        BY <1>2, CompareNumbers
      <4>4. QED
        BY <4>1, <4>2, <4>3, <2>1
    <3> HIDE DEF up, down, least, greatest, Num
    <3>2. QED
      BY <2>1, <2>2, <3>1
  <2>4. ASSUME NEW w \in Word(m)
        PROVE  /\ Right(<<"eq", w>>) <=> \A x \in Word(m) : x = w <=> Compare(p, m, x, v)
               /\ Right(<<"ne", w>>) <=> \A x \in Word(m) : x # w <=> Compare(p, m, x, v)
               /\ Right(<<Always, w>>) <=> \A x \in Word(m) : Compare(p, m, x, v)
               /\ Right(<<Never, w>>) <=> \A x \in Word(m) : ~Compare(p, m, x, v)
               /\ Right(<<p, v>>)
    <3>1. p # Always /\ p # Never /\ Always # Never /\ Always # "eq" /\ Always # "ne"
          /\ Never # "eq" /\ Never # "ne"
      BY <1>2 DEF Always, Never, Below, Above
    <3>2. \A x : /\ Meets("eq", m, x, w) <=> x = w
                 /\ Meets("ne", m, x, w) <=> x # w
                 /\ Meets(Always, m, x, w) /\ ~Meets(Never, m, x, w)
                 /\ Meets(p, m, x, v) <=> Compare(p, m, x, v)
      BY <3>1 DEF Meets, Compare
    <3>3. QED
      BY <3>2, <1>2 DEF AllPredicates
  <2>5. CASE p \in {"ult", "slt"}
    <3>1. \A x \in Word(m) : Compare(p, m, x, v) <=> Num(x) < Num(v)
      BY <2>5, <1>2, CompareNumbers
    <3>2. q = IF v = greatest THEN <<"ne", v>> ELSE IF down = least THEN <<"eq", down>>
              ELSE IF v = least THEN <<Never, v>> ELSE <<p, v>>
      BY <2>5 DEF Simplified
    <3> HIDE DEF q, up, down, least, greatest, Num, Right
    <3>3. Right(q)
      <4>1. CASE v = greatest
        <5>1. q = <<"ne", v>>
          BY <4>1, <3>2
        <5>2. QED
          BY <5>1, <4>1, <2>1, <2>3, <2>4, <3>1
      <4>2. CASE down = least /\ ~(v = greatest)
        <5>1. q = <<"eq", down>>
          BY <4>2, <3>2
        <5>2. QED
          BY <5>1, <4>2, <2>1, <2>3, <2>4, <3>1
      <4>3. CASE v = least /\ ~(v = greatest) /\ ~(down = least)
        <5>1. q = <<Never, v>>
          BY <4>3, <3>2
        <5>2. \A x \in Word(m) : ~(Num(x) < Num(v))
          BY <4>3, <2>3
        <5>3. \A x \in Word(m) : ~Compare(p, m, x, v)
          BY <5>2, <3>1
        <5>4. QED
          BY <5>1, <5>3, <2>4
      <4>4. CASE ~(v = greatest) /\ ~(down = least) /\ ~(v = least)
        BY <4>4, <3>2, <2>1, <2>4
      <4>5. QED
        BY <4>1, <4>2, <4>3, <4>4
    <3>4. QED
      BY <3>3 DEF Right, q
  <2>6. CASE p \in {"ugt", "sgt"}
    <3>1. \A x \in Word(m) : Compare(p, m, x, v) <=> Num(x) > Num(v)
      BY <2>6, <1>2, CompareNumbers
    <3>2. q = IF v = least THEN <<"ne", v>> ELSE IF up = greatest THEN <<"eq", up>>
              ELSE IF v = greatest THEN <<Never, v>> ELSE <<p, v>>
      BY <2>6 DEF Simplified
    <3> HIDE DEF q, up, down, least, greatest, Num, Right
    <3>3. Right(q)
      <4>1. CASE v = least
        <5>1. q = <<"ne", v>>
          BY <4>1, <3>2
        <5>2. QED
          BY <5>1, <4>1, <2>1, <2>3, <2>4, <3>1
      <4>2. CASE up = greatest /\ ~(v = least)
        <5>1. q = <<"eq", up>>
          BY <4>2, <3>2
        <5>2. QED
          BY <5>1, <4>2, <2>1, <2>3, <2>4, <3>1
      <4>3. CASE v = greatest /\ ~(v = least) /\ ~(up = greatest)
        <5>1. q = <<Never, v>>
          BY <4>3, <3>2
        <5>2. \A x \in Word(m) : ~(Num(x) > Num(v))
          BY <4>3, <2>3
        <5>3. \A x \in Word(m) : ~Compare(p, m, x, v)
          BY <5>2, <3>1
        <5>4. QED
          BY <5>1, <5>3, <2>4
      <4>4. CASE ~(v = least) /\ ~(up = greatest) /\ ~(v = greatest)
        BY <4>4, <3>2, <2>1, <2>4
      <4>5. QED
        BY <4>1, <4>2, <4>3, <4>4
    <3>4. QED
      BY <3>3 DEF Right, q
  <2>7. CASE p \in {"ule", "sle"}
    <3>1. \A x \in Word(m) : Compare(p, m, x, v) <=> Num(x) <= Num(v)
      BY <2>7, <1>2, CompareNumbers
    <3>2. q = IF up = greatest THEN <<"ne", up>> ELSE IF v = least THEN <<"eq", v>>
              ELSE IF v = greatest THEN <<Always, v>> ELSE <<Strict(p), up>>
      BY <2>7 DEF Simplified
    <3>3. v # greatest => Right(<<Strict(p), up>>)
      <4>1. p \in OrEqual /\ (p \in Below <=> p \in {"ule", "sle"})
        BY <2>7 DEF OrEqual, Below
      <4>2. Strict(p) \in AllPredicates
        BY <4>1, StrictMeets
      <4>3. ASSUME v # greatest, NEW x \in Word(m)
            PROVE  Meets(Strict(p), m, x, up) <=> Compare(p, m, x, v)
        BY <4>1, <4>3, <2>7, StrictMeets
      <4>4. QED
        BY <4>2, <4>3, <2>1
    <3> HIDE DEF q, up, down, least, greatest, Num, Right
    <3>4. Right(q)
      <4>1. CASE up = greatest
        <5>1. q = <<"ne", up>>
          BY <4>1, <3>2
        <5>2. QED
          BY <5>1, <4>1, <2>1, <2>3, <2>4, <3>1
      <4>2. CASE v = least /\ ~(up = greatest)
        <5>1. q = <<"eq", v>>
          BY <4>2, <3>2
        <5>2. QED
          BY <5>1, <4>2, <2>1, <2>3, <2>4, <3>1
      <4>3. CASE v = greatest /\ ~(up = greatest) /\ ~(v = least)
        <5>1. q = <<Always, v>>
          BY <4>3, <3>2
        <5>2. QED
          BY <5>1, <4>3, <2>1, <2>3, <2>4, <3>1
      <4>4. CASE ~(up = greatest) /\ ~(v = least) /\ ~(v = greatest)
        BY <4>4, <3>2, <3>3
      <4>5. QED
        BY <4>1, <4>2, <4>3, <4>4
    <3>5. QED
      BY <3>4 DEF Right, q
  <2>8. CASE p \in {"uge", "sge"}
    <3>1. \A x \in Word(m) : Compare(p, m, x, v) <=> Num(x) >= Num(v)
      BY <2>8, <1>2, CompareNumbers
    <3>2. q = IF down = least THEN <<"ne", down>> ELSE IF v = greatest THEN <<"eq", v>>
              ELSE IF v = least THEN <<Always, v>> ELSE <<Strict(p), down>>
      BY <2>8 DEF Simplified
    <3>3. v # least => Right(<<Strict(p), down>>)
      <4>1. p \in OrEqual /\ (p \in Below <=> p \in {"ule", "sle"})
        BY <2>8 DEF OrEqual, Below
      <4>2. Strict(p) \in AllPredicates
        BY <4>1, StrictMeets
      <4>3. ASSUME v # least, NEW x \in Word(m)
            PROVE  Meets(Strict(p), m, x, down) <=> Compare(p, m, x, v)
        BY <4>1, <4>3, <2>8, StrictMeets
      <4>4. QED
        BY <4>2, <4>3, <2>1
    <3> HIDE DEF q, up, down, least, greatest, Num, Right
    <3>4. Right(q)
      <4>1. CASE down = least
        <5>1. q = <<"ne", down>>
          BY <4>1, <3>2
        <5>2. QED
          BY <5>1, <4>1, <2>1, <2>3, <2>4, <3>1
      <4>2. CASE v = greatest /\ ~(down = least)
        <5>1. q = <<"eq", v>>
          BY <4>2, <3>2
        <5>2. QED
          BY <5>1, <4>2, <2>1, <2>3, <2>4, <3>1
      <4>3. CASE v = least /\ ~(down = least) /\ ~(v = greatest)
        <5>1. q = <<Always, v>>
          BY <4>3, <3>2
        <5>2. QED
          BY <5>1, <4>3, <2>1, <2>3, <2>4, <3>1
      <4>4. CASE ~(down = least) /\ ~(v = greatest) /\ ~(v = least)
        BY <4>4, <3>2, <3>3
      <4>5. QED
        BY <4>1, <4>2, <4>3, <4>4
    <3>5. QED
      BY <3>4 DEF Right, q
  <2>9. QED
    BY <1>2, <2>5, <2>6, <2>7, <2>8 DEF Below, Above
<1>3. QED
  BY <1>1, <1>2 DEF AllPredicates

(* subtract moves exactly the members.                                     *)
LEMMA SubtractExact ==
    ASSUME NEW m \in Moduli, NEW r \in Ranges(m), NEW v \in Word(m), NEW x \in Word(m)
    PROVE  /\ Subtract(r, v) \in Ranges(m)
           /\ Contains(Subtract(r, v), Minus(m, x, v)) <=> Contains(r, x)
<1>1. r.m = m /\ r.lo \in 0 .. m - 1 /\ r.hi \in 0 .. m - 1
  BY RangeFacts
<1>2. Subtract(r, v) \in Ranges(m)
  BY SubtractSound
<1>3. QED
  BY <1>1, <1>2 DEF Subtract, Minus, Contains, IsFullSet, IsWrappedSet, MkRange, Moduli, Word

(* A word of the variable, after j turns, against the range moved to zero. *)
LEMMA MovedValue ==
    ASSUME NEW m \in Moduli, NEW r \in Ranges(m), NEW start \in Word(m), NEW step \in Nat, NEW j \in Nat
    PROVE  /\ (step * j) % m \in Word(m) /\ (start + step * j) % m \in Word(m)
           /\ Contains(Subtract(r, start), (step * j) % m) <=> Contains(r, (start + step * j) % m)
<1> DEFINE k == step * j
           x == (start + k) % m
<1>1. k \in Int /\ start \in Int /\ start \in 0 .. m - 1 /\ m \in Nat
  BY DEF Word, Moduli
<1> HIDE DEF k
<1>2. x \in Word(m) /\ k % m \in Word(m)
  <2>1. start + k \in Int
    BY <1>1
  <2>2. QED
    BY <2>1, <1>1, IntMod
<1>3. start % m = start
  <2>1. start - m * 0 \in 0 .. m - 1 /\ start - m * 0 = start
    BY <1>1
  <2>2. QED
    BY <2>1, <1>1, ModUnique
<1>4. ((start + k) - start) % m = Minus(m, x, start)
  <2>1. start + k \in Int
    BY <1>1
  <2>2. ((start + k) - start) % m = Minus(m, (start + k) % m, start % m)
    BY <2>1, <1>1, ModOfSum
  <2>3. QED
    BY <2>2, <1>3
<1>5. (start + k) - start = k
  BY <1>1
<1>6. k % m = Minus(m, x, start)
  BY <1>4, <1>5
<1>7. Contains(Subtract(r, start), Minus(m, x, start)) <=> Contains(r, x)
  BY <1>2, SubtractExact
<1>8. QED
  BY <1>2, <1>6, <1>7 DEF k

(* How many steps of c end below h: the division of getNumIterationsInRange.*)
LEMMA StepsBelow ==
    ASSUME NEW c \in Nat \ {0}, NEW h \in Nat \ {0}
    PROVE  LET n == (h - 1 + c) \div c
           IN  /\ n \in Nat \ {0} /\ n <= h - 1 + c
               /\ c * n >= h /\ c * n <= h - 1 + c
               /\ \A j \in 0 .. n - 1 : c * j \in 0 .. h - 1
               /\ c = 1 => n = h
<1> DEFINE t == h - 1 + c
           n == t \div c
<1>1. t \in Nat /\ t >= c
  OBVIOUS
<1>2. n \in Nat /\ t % c \in 0 .. c - 1 /\ t = c * n + (t % c)
  <2> HIDE DEF t
  <2>1. QED
    BY <1>1
<1> DEFINE e == t % c
<1> HIDE DEF n, e
<1>3. c * n <= t /\ c * n >= h
  BY <1>2 DEF e
<1>4. n # 0
  BY <1>3, <1>2
<1>5. n <= t
  <2>1. 1 * n <= c * n
    BY <1>2, ProductMonotone
  <2>2. QED
    BY <2>1, <1>2, <1>3
<1>6. ASSUME NEW j \in 0 .. n - 1
      PROVE  c * j \in 0 .. h - 1
  <2>1. n - 1 \in Nat /\ j \in Nat /\ j <= n - 1
    BY <1>2, <1>4
  <2>2. c * j \in Nat /\ c * j <= c * (n - 1)
    BY <2>1, ProductMonotone
  <2>3. c * (n - 1) = c * n - c
    BY <1>2
  <2> DEFINE p == c * n
             w == c * j
             z == c * (n - 1)
  <2>4. p \in Nat /\ p <= h - 1 + c /\ w \in Nat /\ w <= z /\ z = p - c
    BY <2>2, <2>3, <1>2, <1>3
  <2> HIDE DEF p, w, z
  <2>5. w \in 0 .. h - 1
    BY <2>4
  <2>6. QED
    BY <2>5 DEF w
<1>7. c = 1 => n = h
  BY <1>3, <1>2
<1>8. QED
  BY <1>2, <1>3, <1>4, <1>5, <1>6, <1>7 DEF n

(* Beyond half of the words, one step suffices.                            *)
LEMMA StepBack ==
    ASSUME NEW c \in Nat \ {0}, NEW t \in Nat, t < 2 * c
    PROVE  t \div c = IF t < c THEN 0 ELSE 1
<1> DEFINE n == t \div c
<1>1. n \in Nat /\ t % c \in 0 .. c - 1 /\ t = c * n + (t % c)
  OBVIOUS
<1> HIDE DEF n
<1>2. n < 2
  <2>1. CASE n >= 2
    <3>1. c * 2 <= c * n
      BY <2>1, <1>1, ProductMonotone
    <3>2. QED
      BY <3>1, <1>1
  <2>2. QED
    BY <2>1, <1>1
<1>3. n = 0 \/ n = 1
  BY <1>1, <1>2
<1>4. QED
  BY <1>1, <1>3 DEF n

(* getNumIterationsInRange counts the turns after which the variable leaves *)
(* the range for the first time, and its assertion holds.                  *)
LEMMA IterationsRight ==
    ASSUME NEW m \in Moduli, NEW r \in Ranges(m), NEW start \in Word(m), NEW step \in Word(m) \ {0},
           ~IsFullSet(r),
           NEW n \in {Iterations(m, start, step, r)}
    PROVE  /\ n # OffInABadWay
           /\ n # Unknown =>
                /\ n \in Word(m)
                /\ \A j \in 0 .. n - 1 : Contains(r, (start + step * j) % m)
                /\ ~Contains(r, (start + step * n) % m)
           /\ step = 1 => n # Unknown
<1> DEFINE s     == Subtract(r, start)
           last  == IF Signed(m, step) >= 1 THEN Minus(m, s.hi, 1) ELSE s.lo
           leave == Plus(m, last, step) \div step
           value(k) == (step * k) % m
<1>1. /\ m \in Nat /\ m >= 4 /\ Word(m) = 0 .. m - 1 /\ step \in Nat \ {0} /\ step < m
      /\ r.m = m /\ r.lo \in 0 .. m - 1 /\ r.hi \in 0 .. m - 1 /\ start \in 0 .. m - 1
  BY RangeFacts DEF Moduli, Word
<1>2. s \in Ranges(m) /\ s.m = m /\ s.lo \in 0 .. m - 1 /\ s.hi \in 0 .. m - 1
  BY SubtractSound, RangeFacts
<1>3. ~IsFullSet(s)
  BY <1>1 DEF IsFullSet, Subtract, MkRange, Minus
<1>4. n = IF ~Contains(s, 0) THEN 0
          ELSE IF Contains(s, value(leave)) THEN Unknown
          ELSE IF ~Contains(s, value(Minus(m, leave, 1))) THEN OffInABadWay
          ELSE leave
  BY DEF Iterations
<1>5. ASSUME NEW j \in Nat
      PROVE  Contains(s, value(j)) <=> Contains(r, (start + step * j) % m)
  BY <1>1, MovedValue
<1>6. ASSUME NEW v \in 0 .. m - 1
      PROVE  v % m = v
  <2>1. v - m * 0 \in 0 .. m - 1 /\ v - m * 0 = v
    BY <1>1
  <2>2. QED
    BY <2>1, <1>1, ModUnique
<1>7. value(0) = 0
  BY <1>1, <1>6
<1>8. SUFFICES /\ n # OffInABadWay
               /\ n # Unknown =>
                    /\ n \in 0 .. m - 1
                    /\ \A j \in 0 .. n - 1 : Contains(s, value(j))
                    /\ ~Contains(s, value(n))
               /\ step = 1 => n # Unknown
  <2>1. ASSUME n \in 0 .. m - 1
        PROVE  /\ \A j \in 0 .. n - 1 : Contains(s, value(j)) <=> Contains(r, (start + step * j) % m)
               /\ Contains(s, value(n)) <=> Contains(r, (start + step * n) % m)
    <3>1. n \in Nat /\ \A j \in 0 .. n - 1 : j \in Nat
      BY <2>1
    <3> HIDE DEF s, value
    <3>2. QED
      BY <3>1, <1>5
  <2> HIDE DEF s, value
  <2>2. QED
    BY <2>1, <1>1
<1>9. CASE ~Contains(s, 0)
  BY <1>9, <1>4, <1>7, <1>1 DEF Unknown, OffInABadWay
<1>10. CASE Contains(s, 0)
  <2>1. s.hi >= 1 /\ (s.lo = 0 \/ s.lo > s.hi)
    BY <1>10, <1>2, <1>3 DEF Contains, IsWrappedSet
  <2>2. \A v \in 0 .. s.hi - 1 : Contains(s, v)
    BY <2>1, <1>2 DEF Contains, IsWrappedSet
  <2>3. CASE Signed(m, step) >= 1
    <3>1. last = s.hi - 1
      BY <2>3, <2>1, <1>2 DEF Minus
    <3>2. CASE s.hi - 1 + step < m
      <4>1. leave = (s.hi - 1 + step) \div step
        BY <3>1, <3>2 DEF Plus
      <4>2. /\ leave \in Nat \ {0} /\ leave <= s.hi - 1 + step
            /\ step * leave >= s.hi /\ step * leave <= s.hi - 1 + step
            /\ \A j \in 0 .. leave - 1 : step * j \in 0 .. s.hi - 1
            /\ step = 1 => leave = s.hi
        <5> DEFINE h == s.hi
        <5>1. h \in Nat \ {0} /\ step \in Nat \ {0}
          BY <2>1, <1>1, <1>2
        <5> HIDE DEF h
        <5>2. /\ (h - 1 + step) \div step \in Nat \ {0} /\ (h - 1 + step) \div step <= h - 1 + step
              /\ step * ((h - 1 + step) \div step) >= h
              /\ step * ((h - 1 + step) \div step) <= h - 1 + step
              /\ \A j \in 0 .. (h - 1 + step) \div step - 1 : step * j \in 0 .. h - 1
              /\ step = 1 => (h - 1 + step) \div step = h
          BY <5>1, StepsBelow
        <5>3. leave = (h - 1 + step) \div step
          BY <4>1 DEF h
        <5> HIDE DEF leave
        <5>4. QED
          BY <5>2, <5>3 DEF h
      <4> HIDE DEF leave
      <4>3. ASSUME NEW j \in 0 .. leave - 1
            PROVE  Contains(s, value(j))
        <5>1. step * j \in 0 .. s.hi - 1
          BY <4>2
        <5> DEFINE k == step * j
        <5>2. k \in 0 .. s.hi - 1
          BY <5>1
        <5> HIDE DEF k
        <5>3. k \in 0 .. m - 1
          BY <5>2, <1>1, <1>2
        <5>4. k % m = k
          BY <5>3, <1>6
        <5>5. QED
          BY <5>2, <5>4, <2>2 DEF k
      <4>4. Minus(m, leave, 1) = leave - 1 /\ leave - 1 \in 0 .. leave - 1
        BY <4>2 DEF Minus
      <4>5. n = IF Contains(s, value(leave)) THEN Unknown ELSE leave
        BY <4>3, <4>4, <1>4, <1>10
      <4>6. leave \in 0 .. m - 1
        BY <4>2, <3>2, <1>2, <1>1
      <4>7. ASSUME step = 1
            PROVE  ~Contains(s, value(leave))
        <5>1. step * leave = s.hi /\ value(leave) = s.hi
          BY <4>2, <4>7, <1>2, <1>6
        <5>2. QED
          BY <5>1, <2>1, <1>2 DEF Contains, IsWrappedSet
      <4>8. leave # Unknown /\ leave # OffInABadWay /\ Unknown # OffInABadWay
        BY <4>6 DEF Unknown, OffInABadWay
      <4>9. QED
        BY <4>3, <4>5, <4>6, <4>7, <4>8
    <3>3. CASE s.hi - 1 + step >= m
      <4>1. Plus(m, last, step) = s.hi - 1 + step - m
        BY <3>1, <3>3, <1>1, <1>2 DEF Plus
      <4> DEFINE t == s.hi - 1 + step - m
      <4>2. t \in Nat /\ t < step /\ t < 2 * step
        BY <3>3, <1>1, <1>2
      <4> HIDE DEF t
      <4>3. leave = 0
        <5>1. t \div step = 0
          BY <4>2, <1>1, StepBack
        <5>2. QED
          BY <5>1, <4>1 DEF t
      <4> HIDE DEF leave
      <4>4. n = Unknown
        BY <4>3, <1>4, <1>7, <1>10
      <4>5. step # 1
        BY <3>3, <1>1, <1>2
      <4>6. QED
        BY <4>4, <4>5 DEF Unknown, OffInABadWay
    <3>4. QED
      BY <3>2, <3>3, <1>1, <1>2
  <2>4. CASE ~(Signed(m, step) >= 1)
    <3>1. last = s.lo /\ 2 * step >= m
      BY <2>4, <1>1 DEF Signed
    <3>2. Plus(m, last, step) = IF s.lo + step < m THEN s.lo + step ELSE s.lo + step - m
      BY <3>1 DEF Plus
    <3> DEFINE t == Plus(m, last, step)
    <3>3. t \in Nat /\ t < 2 * step /\ step # 1
      BY <3>1, <3>2, <1>1, <1>2
    <3> HIDE DEF t
    <3>4. leave \in {0, 1}
      <4>1. t \div step \in {0, 1}
        BY <3>3, <1>1, StepBack
      <4>2. QED
        BY <4>1 DEF t
    <3> HIDE DEF leave
    <3>5. CASE leave = 0
      BY <3>3, <3>5, <1>4, <1>7, <1>10 DEF Unknown, OffInABadWay
    <3>6. CASE leave = 1
      <4>1. Minus(m, leave, 1) = 0
        BY <3>6 DEF Minus
      <4>2. n = IF Contains(s, value(1)) THEN Unknown ELSE 1
        BY <4>1, <3>6, <1>4, <1>7, <1>10
      <4>3. QED
        BY <4>2, <3>3, <1>1, <1>7, <1>10 DEF Unknown, OffInABadWay
    <3>7. QED
      BY <3>4, <3>5, <3>6
  <2>5. QED
    BY <2>3, <2>4
<1>11. QED
  BY <1>9, <1>10

(* A loop of the program.                                                  *)
LEMMA LoopFacts ==
    ASSUME NEW l \in Loops
    PROVE  /\ l.m \in {N, W} /\ l.m \in Moduli /\ l.m \in Nat /\ l.m >= 4 /\ l.m % 4 = 0
           /\ l.first \in Word(l.m) /\ l.step \in Word(l.m) /\ l.step # 0
           /\ l.constant \in BOOLEAN /\ l.nsw \in BOOLEAN
           /\ l.boundFirst \in BOOLEAN /\ l.leavesOnTrue \in BOOLEAN
           /\ l.pred \in AllPredicates /\ l.bound \in Bounds(l.m)
           /\ l.bound.word \in Word(l.m)
<1>1. l.m \in Moduli
  BY LoopsAssumption, Widths
<1>2. QED
  BY <1>1, LoopsAssumption DEF Moduli, AllPredicates, Bounds

(* The predicate with the bound on the right says when the loop goes on.   *)
LEMMA OrientedTruth ==
    ASSUME NEW l \in Loops, NEW x \in Word(l.m), NEW b \in Word(l.m)
    PROVE  /\ Oriented(l) \in AllPredicates
           /\ Compare(l.pred, l.m, IF l.boundFirst THEN b ELSE x, IF l.boundFirst THEN x ELSE b) # l.leavesOnTrue
                <=> Compare(Oriented(l), l.m, x, b)
<1> DEFINE p == IF l.leavesOnTrue THEN Inverted(l.pred) ELSE l.pred
           u == IF l.boundFirst THEN b ELSE x
           w == IF l.boundFirst THEN x ELSE b
<1>1. u \in Word(l.m) /\ w \in Word(l.m) /\ l.m \in Moduli /\ l.pred \in AllPredicates
      /\ l.boundFirst \in BOOLEAN /\ l.leavesOnTrue \in BOOLEAN
  BY LoopFacts
<1>2. /\ p \in AllPredicates
      /\ Compare(l.pred, l.m, u, w) # l.leavesOnTrue <=> Compare(p, l.m, u, w)
  <2>1. CASE l.leavesOnTrue
    BY <2>1, <1>1, InvertTruth
  <2>2. CASE ~l.leavesOnTrue
    BY <2>2, <1>1, InvertTruth
  <2>3. QED
    BY <2>1, <2>2
<1> HIDE DEF p
<1>3. Oriented(l) = IF l.boundFirst THEN Swapped(p) ELSE p
  BY DEF Oriented, p
<1>4. CASE l.boundFirst
  BY <1>4, <1>1, <1>2, <1>3, SwapTruth
<1>5. CASE ~l.boundFirst
  BY <1>5, <1>1, <1>2, <1>3
<1>6. QED
  BY <1>1, <1>4, <1>5

(* What getConstantRange makes of a text has words for bounds.             *)
LEMMA TextFacts ==
    ASSUME NEW t \in [kind : {"eq", "in"}, lo : Int, hi : Int]
    PROVE  /\ GetConstantRange(t).m \in {N, W} /\ GetConstantRange(t).m \in Moduli
           /\ GetConstantRange(t).lo \in Word(GetConstantRange(t).m)
<1>1. CASE t.kind = "eq"
  <2>1. GetConstantRange(t) \in Ranges(N)
    BY <1>1, EqualityRange
  <2>2. QED
    BY <2>1, Widths, RangeFacts DEF Word
<1>2. CASE t.kind = "in"
  <2>1. t \in [kind : {"in"}, lo : Int, hi : Int]
    BY <1>2
  <2>2. GetConstantRange(t) = MkRange(W, Word64(t.lo), Plus(W, Word64(t.hi), 1)) /\ Word64(t.lo) \in Word(W)
    BY <2>1, IntervalRange
  <2>3. QED
    BY <2>2, Widths DEF MkRange
<1>3. QED
  BY <1>1, <1>2

(* What the bound is to the analysis.                                      *)
LEMMA SCEVFacts ==
    ASSUME NEW l \in Loops, NEW b \in {CreateSCEV(l.m, l.bound)}
    PROVE  /\ DOMAIN b = {"constant", "m", "word"} /\ b.constant \in BOOLEAN
           /\ b = [constant |-> b.constant, m |-> b.m, word |-> b.word]
           /\ b.constant => b.m \in {N, W} /\ b.m \in Moduli /\ b.word \in Word(b.m)
           /\ b.constant =>
                \/ l.bound.from = "constant" /\ b.m = l.m /\ b.word = l.bound.word
                \/ /\ l.bound.from = "load" /\ Exact(l.bound.md)
                   /\ b.m = GetConstantRange(l.bound.md).m /\ b.word = GetConstantRange(l.bound.md).lo
<1>1. l.bound \in Bounds(l.m) /\ l.m \in {N, W} /\ l.m \in Moduli /\ l.bound.word \in Word(l.m)
  BY LoopFacts
<1>2. Exact(l.bound.md) => l.bound.md \in [kind : {"eq", "in"}, lo : Int, hi : Int]
  BY <1>1 DEF Exact, Bounds
<1> DEFINE r == GetConstantRange(l.bound.md)
<1>3. Exact(l.bound.md) => r.m \in {N, W} /\ r.m \in Moduli /\ r.lo \in Word(r.m)
  BY <1>2, TextFacts
<1> HIDE DEF r
<1>4. b = IF l.bound.from = "constant" THEN [constant |-> TRUE, m |-> l.m, word |-> l.bound.word]
          ELSE IF l.bound.from = "load" /\ Exact(l.bound.md)
               THEN [constant |-> TRUE, m |-> r.m, word |-> r.lo]
          ELSE [constant |-> FALSE, m |-> 0, word |-> 0]
  BY DEF CreateSCEV, Constant, Variable, r
<1>5. QED
  BY <1>1, <1>3, <1>4 DEF r

(* The words of a variable have the divisor in common that its first word, *)
(* its step and the modulus have.                                          *)
LEMMA ProductMod ==
    ASSUME NEW g \in Nat \ {0}, NEW q \in Int
    PROVE  (g * q) % g = 0
<1> DEFINE n == g * q
           e == n \div g
<1>1. n \in Int
  OBVIOUS
<1> HIDE DEF n
<1>2. e \in Int /\ n % g \in 0 .. g - 1 /\ n = g * e + (n % g)
  BY <1>1
<1> HIDE DEF e
<1>3. g * (q - e) = n % g
  BY <1>2 DEF n
<1>4. q - e < 1
  <2>1. CASE q - e >= 1
    <3>1. g * 1 <= g * (q - e)
      BY <2>1, <1>2, ProductMonotone
    <3>2. QED
      BY <3>1, <1>2, <1>3
  <2>2. QED
    BY <2>1, <1>2
<1>5. q - e > -1
  <2>1. CASE q - e <= -1
    <3>1. g * 1 <= g * (e - q)
      BY <2>1, <1>2, ProductMonotone
    <3>2. g * (e - q) = -(g * (q - e))
      BY <1>2
    <3>3. QED
      BY <3>1, <3>2, <1>2, <1>3
  <2>2. QED
    BY <2>1, <1>2
<1>6. q - e = 0
  BY <1>2, <1>4, <1>5
<1>7. QED
  BY <1>3, <1>6 DEF n

LEMMA ModZero ==
    ASSUME NEW g \in Nat \ {0}, NEW n \in Int, n % g = 0
    PROVE  \E q \in Int : n = g * q
<1>1. n = g * (n \div g) + (n % g) /\ n \div g \in Int
  OBVIOUS
<1>2. QED
  BY <1>1

LEMMA SharedByWords ==
    ASSUME NEW m \in Moduli, NEW g \in Nat \ {0}, NEW v \in Word(m), NEW step \in Word(m), NEW k \in Nat,
           m % g = 0, v % g = 0, step % g = 0
    PROVE  ((v + step * k) % m) % g = 0
<1>1. m \in Nat /\ v \in Int /\ step \in Int
  BY DEF Moduli, Word
<1>2. PICK a \in Int : v = g * a
  BY <1>1, ModZero
<1>3. PICK b \in Int : step = g * b
  BY <1>1, ModZero
<1>4. PICK c \in Int : m = g * c
  BY <1>1, ModZero
<1> DEFINE n == v + step * k
<1>5. n \in Int
  BY <1>1
<1>6. PICK j \in Int : n = m * j + (n % m)
  BY <1>5, IntMod
<1> DEFINE x == n % m
<1>7. x \in Int
  BY <1>5, IntMod DEF Word, Moduli
<1> HIDE DEF x
<1>8. n = g * (a + b * k)
  BY <1>2, <1>3
<1>9. m * j = g * (c * j)
  BY <1>4
<1>10. x = g * (a + b * k) - g * (c * j)
  BY <1>6, <1>7, <1>8, <1>9, <1>1 DEF x
<1>11. x = g * ((a + b * k) - c * j)
  BY <1>10
<1>12. x % g = 0
  BY <1>11, ProductMod
<1>13. QED
  BY <1>12 DEF x

(* A multiple below a bound is not above the last multiple below it.       *)
LEMMA LastMultiple ==
    ASSUME NEW g \in Nat \ {0}, NEW x \in Nat, NEW h \in Nat, x % g = 0, x <= h
    PROVE  h % g \in 0 .. g - 1 /\ h - (h % g) >= x
<1> DEFINE e == h \div g
<1>1. h = g * e + (h % g) /\ e \in Int /\ h % g \in 0 .. g - 1
  OBVIOUS
<1> HIDE DEF e
<1>2. PICK q \in Int : x = g * q
  BY ModZero
<1>3. q <= e
  <2>1. CASE q >= e + 1
    <3>1. g * (q - e) >= g * 1
      BY <2>1, <1>1, ProductMonotone
    <3>2. g * (q - e) = g * q - g * e
      BY <1>1
    <3>3. QED
      BY <3>1, <3>2, <1>1, <1>2
  <2>2. QED
    BY <2>1, <1>1
<1>4. g * (e - q) >= g * 0
  BY <1>1, <1>3, ProductMonotone
<1>5. QED
  BY <1>1, <1>2, <1>4

LEMMA GrainFacts ==
    ASSUME NEW l \in Loops, NEW v \in Word(l.m)
    PROVE  /\ Grain(l, v) \in 1 .. l.m /\ l.m % Grain(l, v) = 0
           /\ l.constant => v % Grain(l, v) = 0 /\ l.step % Grain(l, v) = 0
<1> DEFINE m == l.m
           S == Shared(m, v, l.step)
           T == {k \in Nat : m - k \in S}
<1>1. m \in Nat /\ m >= 4 /\ v \in Nat /\ l.step \in Nat /\ l.constant \in BOOLEAN
  BY LoopFacts DEF Word
<1>2. m - 1 \in T
  BY <1>1 DEF Shared
<1>3. PICK k \in T : \A j \in T : ~(<<j, k>> \in OpToRel(<, Nat))
  <2>1. T \subseteq Nat /\ T # {}
    BY <1>2
  <2> HIDE DEF T
  <2>2. QED
    BY <2>1, NatLessThanWellFounded, WFMin
<1>4. ASSUME NEW e \in S
      PROVE  e <= m - k
  <2>1. m - e \in T /\ m - e \in Nat
    BY <1>1 DEF Shared
  <2>2. ~(m - e < k)
    BY <2>1, <1>3 DEF OpToRel
  <2>3. e \in Int /\ k \in Int /\ m \in Int
    <3>1. e \in 1 .. m
      BY <1>4 DEF Shared
    <3>2. k \in Nat
      BY <1>3
    <3>3. QED
      BY <3>1, <3>2, <1>1
  <2> HIDE DEF m, S, T
  <2>4. QED
    BY <2>2, <2>3
<1>5. m - k \in S
  BY <1>3
<1>6. (CHOOSE d \in S : \A e \in S : e <= d) \in S
  <2> HIDE DEF S, T
  <2>1. QED
    BY <1>4, <1>5
<1>7. CASE l.constant
  BY <1>6, <1>7, <1>1 DEF Grain, Shared
<1>8. CASE ~l.constant
  BY <1>8, <1>1 DEF Grain
<1>9. QED
  BY <1>1, <1>7, <1>8

(* The range that SimplifyICmpOperands reads of the variable has every     *)
(* word the variable comes to.                                             *)
LEMMA VariableSound ==
    ASSUME NEW l \in Loops, NEW k \in Nat, NEW x \in {(l.first + l.step * k) % l.m},
           Contains(KeptSign(l, l.first), x), Contains(KeptAbove(l, l.first), x), NEW p \in Below \cup Above
    PROVE  /\ x \in Word(l.m)
           /\ VariableRange(p, l, l.first) \in Ranges(l.m)
           /\ Contains(VariableRange(p, l, l.first), x)
<1> DEFINE m == l.m
           g == Grain(l, l.first)
           whole == IF g = 1 THEN FullSet(m) ELSE Multiples(m, g, 0, m - 1)
           kept == IF g = 1 THEN FullSet(m) ELSE Multiples(m, g, SignedMin(m), SignedMax(m))
<1>1. /\ m \in Moduli /\ m \in Nat /\ m >= 4 /\ m % 4 = 0 /\ l.first \in Word(m) /\ l.step \in Word(m)
      /\ l.constant \in BOOLEAN /\ Word(m) = 0 .. m - 1
  BY LoopFacts DEF Word
<1>2. PICK s \in Int : m = 2 * s /\ SignedMin(m) = s /\ SignedMax(m) = s - 1 /\ s >= 2 /\ s % 2 = 0
  <2> DEFINE q == m \div 4
  <2>1. m = 4 * q /\ q \in Int
    BY <1>1
  <2> HIDE DEF q
  <2>2. m \div 2 = 2 * q /\ (2 * q) % 2 = 0 /\ q >= 1
    BY <2>1, <1>1
  <2>3. QED
    BY <2>1, <2>2 DEF SignedMin, SignedMax
<1>3. x \in 0 .. m - 1
  <2>1. l.first + l.step * k \in Int
    BY <1>1
  <2>2. QED
    BY <2>1, <1>1, IntMod
<1>4. g \in 1 .. m /\ m % g = 0 /\ (g # 1 => x % g = 0)
  <2>1. g \in 1 .. m /\ m % g = 0 /\ (l.constant => l.first % g = 0 /\ l.step % g = 0)
    BY <1>1, GrainFacts
  <2>2. g # 1 => l.constant
    BY <1>1 DEF Grain
  <2> HIDE DEF g
  <2>3. g \in Nat \ {0}
    BY <2>1, <1>1
  <2>4. ASSUME g # 1
        PROVE  ((l.first + l.step * k) % m) % g = 0
    <3>1. /\ m \in Moduli /\ l.first \in Word(m) /\ l.step \in Word(m)
          /\ m % g = 0 /\ l.first % g = 0 /\ l.step % g = 0
      BY <2>1, <2>2, <2>4, <1>1
    <3>2. QED
      BY <3>1, <2>3, SharedByWords, Zenon
  <2>5. QED
    BY <2>1, <2>4
<1> HIDE DEF g
<1>5. whole \in Ranges(m) /\ Contains(whole, x)
  <2>1. CASE g = 1
    BY <2>1, <1>1, EmptyFullLegal, FullContains
  <2>2. CASE g # 1
    <3>1. (m - 1) % g \in 0 .. g - 1 /\ (m - 1) - ((m - 1) % g) >= x
      <4>1. g \in Nat \ {0} /\ x \in Nat /\ m - 1 \in Nat /\ x % g = 0 /\ x <= m - 1
        BY <1>1, <1>3, <1>4, <2>2
      <4>2. QED
        BY <4>1, LastMultiple
    <3>2. (m - 1) % g # 0
      <4>1. ASSUME (m - 1) % g = 0
            PROVE  FALSE
        <5> g \in Nat \ {0} /\ m - 1 \in Int /\ m \in Int
          BY <1>1, <1>4
        <5>1. PICK a \in Int : m - 1 = g * a
          BY <4>1, ModZero
        <5>2. PICK b \in Int : m = g * b
          BY <1>4, ModZero
        <5>3. g * (b - a) = 1
          BY <5>1, <5>2, <1>1, <1>4
        <5>4. b - a >= 1
          <6>1. CASE b - a <= 0
            <7>1. g * (a - b) >= g * 0
              BY <6>1, <1>4, ProductMonotone
            <7>2. g * (a - b) = -(g * (b - a))
              BY <1>4
            <7>3. QED
              BY <7>1, <7>2, <5>3, <1>4
          <6>2. QED
            BY <6>1
        <5>5. g * (b - a) >= g * 1
          BY <5>4, <1>4, ProductMonotone
        <5>6. QED
          BY <5>3, <5>5, <1>4, <2>2
      <4>2. QED
        BY <4>1
    <3>3. whole = MkRange(m, 0, Plus(m, (m - 1) - ((m - 1) % g), 1))
      BY <2>2 DEF Multiples
    <3> DEFINE d == (m - 1) % g
               h == (m - 1) - d + 1
    <3>4. d \in Int /\ d >= 1 /\ m - 1 - d >= x
      BY <3>1, <3>2, <1>4
    <3> HIDE DEF d
    <3>5. h \in 1 .. m - 1 /\ x < h /\ Plus(m, (m - 1) - d, 1) = h
      <4>1. m \in Int /\ x \in Int /\ x >= 0
        BY <1>1, <1>3
      <4>2. h \in Int /\ h <= m - 1 /\ x < h
        BY <3>4, <4>1
      <4>3. Plus(m, (m - 1) - d, 1) = h
        BY <3>4, <4>1, <4>2 DEF Plus
      <4>4. QED
        BY <4>1, <4>2, <4>3
    <3>6. whole = MkRange(m, 0, h)
      BY <3>3, <3>5 DEF d
    <3> HIDE DEF h, whole
    <3>7. MkRange(m, 0, h) \in Ranges(m) /\ Contains(MkRange(m, 0, h), x)
      BY <3>5, <1>1, <1>3, MkRangeLegal DEF Legal, Word, Contains, MkRange, IsWrappedSet
    <3>8. QED
      BY <3>6, <3>7
  <2>3. QED
    BY <2>1, <2>2
<1>6. kept \in Ranges(m) /\ Contains(kept, x)
  <2>1. CASE g = 1
    BY <2>1, <1>1, EmptyFullLegal, FullContains
  <2>2. CASE g # 1
    <3> DEFINE d == (s - 1) % g
               h == (s - 1) - d + 1
    <3>1. d \in Int /\ d >= 0 /\ d <= s - 1 /\ (x <= s - 1 => s - 1 - d >= x)
      <4>1. s - 1 \in Nat /\ g \in Nat \ {0} /\ x \in Nat /\ 0 % g = 0
        BY <1>2, <1>3, <1>4
      <4>2. d \in 0 .. g - 1 /\ s - 1 - d >= 0
        <5>1. 0 <= s - 1 /\ 0 \in Nat
          BY <1>2
        <5>2. (s - 1) % g \in 0 .. g - 1 /\ s - 1 - ((s - 1) % g) >= 0
          BY <4>1, <5>1, LastMultiple
        <5>3. QED
          BY <5>2
      <4>3. x <= s - 1 => s - 1 - d >= x
        BY <4>1, <1>4, <2>2, LastMultiple
      <4>4. QED
        BY <4>1, <4>2, <4>3
    <3>2. d # 0
      <4>1. ASSUME d = 0
            PROVE  FALSE
        <5> g \in Nat \ {0} /\ s - 1 \in Int /\ m \in Int
          BY <1>1, <1>2, <1>4
        <5>1. PICK a \in Int : s - 1 = g * a
          BY <4>1, ModZero
        <5>2. PICK b \in Int : m = g * b
          BY <1>4, ModZero
        <5>3. g * (b - 2 * a) = 2
          BY <5>1, <5>2, <1>2, <1>4
        <5>4. b - 2 * a >= 1
          <6>1. CASE b - 2 * a <= 0
            <7>1. g * (2 * a - b) >= g * 0
              BY <6>1, <1>4, ProductMonotone
            <7>2. g * (2 * a - b) = -(g * (b - 2 * a))
              BY <1>4
            <7>3. QED
              BY <7>1, <7>2, <5>3, <1>4
          <6>2. QED
            BY <6>1
        <5>5. g * (b - 2 * a) >= g * 1
          BY <5>4, <1>4, ProductMonotone
        <5>6. g = 2
          BY <5>3, <5>5, <1>4, <2>2
        <5>7. QED
          BY <5>1, <5>6, <1>2
      <4>2. QED
        BY <4>1
    <3> HIDE DEF d
    <3>3. h \in 1 .. s - 1 /\ (x <= s - 1 => x < h) /\ Plus(m, (s - 1) - d, 1) = h
      BY <3>1, <3>2, <1>2, <1>3 DEF Plus
    <3>4. kept = MkRange(m, s, h)
      BY <3>3, <2>2, <1>2 DEF Multiples, d
    <3> HIDE DEF h, kept
    <3>5. MkRange(m, s, h) \in Ranges(m) /\ Contains(MkRange(m, s, h), x)
      BY <3>3, <1>1, <1>2, <1>3, MkRangeLegal DEF Legal, Word, Contains, MkRange, IsWrappedSet
    <3>6. QED
      BY <3>4, <3>5
  <2>3. QED
    BY <2>1, <2>2
<1>7. KeptSign(l, l.first) \in Ranges(m)
  BY <1>1, <1>2, EmptyFullLegal, MkRangeLegal DEF KeptSign, Legal, Word
<1>8. SignedRange(l, l.first) = IntersectWith(kept, KeptSign(l, l.first))
  BY DEF SignedRange, g
<1>9. UnsignedRange(l, l.first) = IntersectWith(whole, KeptAbove(l, l.first))
  BY DEF UnsignedRange, g
<1>10. KeptAbove(l, l.first) \in Ranges(m)
  BY <1>1, EmptyFullLegal, MkRangeLegal DEF KeptAbove, Legal, Word
<1> HIDE DEF kept, whole
<1>11. UnsignedRange(l, l.first) \in Ranges(m) /\ Contains(UnsignedRange(l, l.first), x)
  BY <1>1, <1>3, <1>5, <1>9, <1>10, IntersectSound
<1>12. SignedRange(l, l.first) \in Ranges(m) /\ Contains(SignedRange(l, l.first), x)
  BY <1>1, <1>3, <1>6, <1>7, <1>8, IntersectSound
<1>13. QED
  BY <1>1, <1>3, <1>11, <1>12 DEF VariableRange

(* Where the variable may be moved, it never is at the word beyond which   *)
(* the move would carry it.                                                *)
LEMMA MovableNever ==
    ASSUME NEW p \in OrEqual, NEW m \in Moduli, NEW r \in Ranges(m), NEW x \in Word(m),
           Contains(r, x), VariableMovable(p, r)
    PROVE  x # IF p \in Below THEN Least(p, m) ELSE Greatest(p, m)
<1>1. r.m = m /\ ~IsEmptySet(r) /\ x \in Members(r)
  BY RangeFacts, EmptyHasNoMember DEF Members
<1>2. /\ \A c \in {UnsignedMin(r), UnsignedMax(r), GetSignedMin(r), GetSignedMax(r)} : c \in Word(m)
      /\ UnsignedMin(r) <= x /\ x <= UnsignedMax(r)
      /\ Signed(m, GetSignedMin(r)) <= Signed(m, x)
      /\ Signed(m, x) <= Signed(m, GetSignedMax(r))
  BY <1>1, BoundsOfRange DEF Members
<1>3. PICK s \in Int : m = 2 * s /\ SignedMin(m) = s /\ SignedMax(m) = s - 1 /\ s >= 2
  BY DEF Moduli, SignedMin, SignedMax
<1>4. m \in Int /\ Word(m) = 0 .. m - 1
  BY DEF Moduli, Word
<1>5. CASE p = "sle"
  BY <1>1, <1>2, <1>3, <1>4, <1>5 DEF VariableMovable, Bottom, Least, Below, SignedPredicates, Signed
<1>6. CASE p = "ule"
  BY <1>1, <1>2, <1>3, <1>4, <1>6 DEF VariableMovable, Bottom, Least, Below, SignedPredicates, Signed
<1>7. CASE p = "sge"
  BY <1>1, <1>2, <1>3, <1>4, <1>7 DEF VariableMovable, Top, Greatest, Below, SignedPredicates, Signed
<1>8. CASE p = "uge"
  BY <1>1, <1>2, <1>3, <1>4, <1>8 DEF VariableMovable, Top, Greatest, Below, SignedPredicates, Signed
<1>9. QED
  BY <1>5, <1>6, <1>7, <1>8 DEF OrEqual

-----------------------------------------------------------------------------
(* The execution: where the variable is after so many turns, the sign it   *)
(* keeps and the value it stays above.                                     *)
Setting ==
    /\ loop \in Loops
    /\ at = (loop.first + loop.step * taken) % loop.m
    /\ Contains(KeptSign(loop, loop.first), at)
    /\ Contains(KeptAbove(loop, loop.first), at)

(* The condition of the analysis, beside the comparison of the program: a  *)
(* constant bound is simplified to one that says the same of every word; a *)
(* bound that is none is moved at most once, or the variable is.           *)
Rewritten ==
    LET p == Oriented(loop)
        b == CreateSCEV(loop.m, loop.bound)
    IN  IF b.constant
        THEN /\ bound = [b EXCEPT !.word = bound.word]
             /\ first = loop.first
             /\ cond \in AllPredicates \cup {Always, Never}
             /\ \A x \in Word(b.m) : Meets(cond, b.m, x, bound.word) <=> Compare(p, b.m, x, b.word)
        ELSE /\ bound = b
             /\ \/ cond = p /\ first = loop.first
                \/ /\ p \in OrEqual /\ cond = Strict(p) /\ first = loop.first
                   /\ BoundMovable(p, loop.bound.known)
                \/ /\ p \in OrEqual /\ cond = Strict(p)
                   /\ VariableMovable(p, VariableRange(p, loop, loop.first))
                   /\ first = IF p \in Below THEN Minus(loop.m, loop.first, 1)
                              ELSE Plus(loop.m, loop.first, 1)

Untouched == cond = loop.pred /\ first = loop.first /\ bound = CreateSCEV(loop.m, loop.bound)

Turns == Iterations(loop.m, first, loop.step, Region)

Decided == Asks /\ ~IsFullSet(Region) /\ loop.constant /\ ~WidthsClash(Region)

(* What was claimed, from the condition it was claimed for.                *)
Claimed ==
    /\ claim = "known" =>
          \/ cond = Never /\ count = 0
          \/ Decided /\ count = Turns /\ Turns \notin {Unknown, OffInABadWay}
    /\ claim = "unknown" =>
          \/ cond # Never /\ ~Asks
          \/ Asks /\ (IsFullSet(Region) \/ ~loop.constant)
          \/ Decided /\ Turns = Unknown
    /\ claim = "aborted" => WidthsClash(Region)

Staged ==
    /\ phase = "orient" => Untouched
    /\ phase # "orient" => Rewritten
    /\ phase \in {"orient", "simplify", "decide"} => claim = "none" /\ taken = 0
    /\ phase \in {"run", "left"} => claim \in {"known", "unknown"}
    /\ phase = "left" => ~GoesOn

IInv == TypeOK /\ Setting /\ Staged /\ Claimed

-----------------------------------------------------------------------------
(* The width of the region the analysis asks for, and the word it ends at. *)
Width == IF bound.constant THEN bound.m ELSE GetConstantRange(loop.bound.md).m

End == IF bound.constant THEN bound.word ELSE GetConstantRange(loop.bound.md).lo

(* What the bound and the condition are while the analysis goes on.        *)
LEMMA RewrittenFacts ==
    ASSUME TypeOK, loop \in Loops, Rewritten
    PROVE  LET b == CreateSCEV(loop.m, loop.bound)
           IN  /\ bound.constant = b.constant /\ bound.m = b.m
               /\ bound = [constant |-> bound.constant, m |-> bound.m, word |-> bound.word]
               /\ bound.constant \in BOOLEAN
               /\ bound.constant => /\ bound.m \in {N, W} /\ bound.m \in Moduli
                                   /\ bound.word \in Word(bound.m) /\ b.word \in Word(bound.m)
               /\ cond \in AllPredicates \cup {Always, Never}
               /\ ~bound.constant => cond \in AllPredicates
<1> DEFINE b == CreateSCEV(loop.m, loop.bound)
           p == Oriented(loop)
<1>1. PICK c : c = b
  OBVIOUS
<1>2. /\ c.constant \in BOOLEAN /\ DOMAIN c = {"constant", "m", "word"}
      /\ c = [constant |-> c.constant, m |-> c.m, word |-> c.word]
      /\ c.constant => c.m \in {N, W} /\ c.m \in Moduli /\ c.word \in Word(c.m)
  BY <1>1, SCEVFacts
<1>3. p \in AllPredicates
  BY LoopFacts, OrientedTruth
<1>4. p \in OrEqual => Strict(p) \in AllPredicates
  <2>1. loop.m \in Moduli /\ loop.first \in Word(loop.m)
    BY LoopFacts
  <2>2. QED
    BY <2>1, StrictMeets
<1>5. CASE c.constant
  <2>1. bound = [c EXCEPT !.word = bound.word] /\ cond \in AllPredicates \cup {Always, Never}
    BY <1>1, <1>5 DEF Rewritten
  <2>2. bound.constant = c.constant /\ bound.m = c.m
        /\ bound = [constant |-> bound.constant, m |-> bound.m, word |-> bound.word]
    BY <2>1, <1>2
  <2>3. bound.word \in Word(bound.m)
    BY <2>2, <1>5 DEF TypeOK
  <2>4. QED
    BY <1>1, <1>2, <1>5, <2>1, <2>2, <2>3
<1>6. CASE ~c.constant
  <2>1. bound = c /\ (cond = p \/ (p \in OrEqual /\ cond = Strict(p)))
    BY <1>1, <1>6 DEF Rewritten
  <2>2. QED
    BY <1>1, <1>2, <1>3, <1>4, <1>6, <2>1
<1>7. QED
  BY <1>2, <1>5, <1>6

(* The region of the words for which the condition holds.                  *)
LEMMA RegionFacts ==
    ASSUME TypeOK, loop \in Loops, Rewritten, Asks
    PROVE  /\ cond \in AllPredicates /\ Width \in Moduli /\ End \in Word(Width)
           /\ Region \in Ranges(Width) /\ Region.m = Width
           /\ \A v \in Word(Width) : Contains(Region, v) <=> Compare(cond, Width, v, End)
<1>1. cond \in AllPredicates
  BY RewrittenFacts DEF Asks
<1>2. Width \in Moduli /\ End \in Word(Width)
  <2>1. CASE bound.constant
    BY <2>1, RewrittenFacts DEF Width, End
  <2>2. CASE ~bound.constant
    <3>1. Exact(loop.bound.md) /\ loop.bound \in Bounds(loop.m)
      BY <2>2, LoopFacts DEF Asks, Annotated
    <3>2. loop.bound.md \in [kind : {"eq", "in"}, lo : Int, hi : Int]
      BY <3>1 DEF Exact, Bounds
    <3>3. QED
      BY <2>2, <3>2, TextFacts DEF Width, End
  <2>3. QED
    BY <2>1, <2>2
<1>3. Region = MakeConstantRange(cond, Width, End)
  BY DEF Region, Width, End
<1>4. Region \in Ranges(Width) /\ \A v \in Word(Width) : Contains(Region, v) <=> Compare(cond, Width, v, End)
  BY <1>1, <1>2, <1>3, RegionTruth
<1>5. QED
  BY <1>1, <1>2, <1>4, RangeFacts

(* What getNumIterationsInRange answers: where the widths differ and do not *)
(* clash, that the loop is left at once.                                   *)
LEMMA TurnsFacts ==
    ASSUME TypeOK, loop \in Loops, Rewritten, Asks, ~IsFullSet(Region), ~WidthsClash(Region)
    PROVE  /\ Turns # OffInABadWay
           /\ Turns # Unknown => Turns \in Word(loop.m)
           /\ Width = loop.m =>
                /\ Turns # Unknown =>
                     /\ \A j \in 0 .. Turns - 1 : Contains(Region, (first + loop.step * j) % loop.m)
                     /\ ~Contains(Region, (first + loop.step * Turns) % loop.m)
                /\ loop.step = 1 => Turns # Unknown
           /\ Width # loop.m => Turns = 0 /\ \A v \in Word(Width) : ~Contains(Region, v)
<1>1. /\ Width \in Moduli /\ Region \in Ranges(Width) /\ Region.m = Width
  BY RegionFacts
<1>2. /\ loop.m \in Moduli /\ loop.m \in Nat /\ loop.m >= 4 /\ loop.step \in Word(loop.m) \ {0}
      /\ first \in Word(loop.m)
  BY LoopFacts DEF TypeOK
<1>3. PICK t : t = Turns
  OBVIOUS
<1>4. CASE Width = loop.m
  <2>1. t \in {Iterations(loop.m, first, loop.step, Region)}
    BY <1>3 DEF Turns
  <2>2. /\ t # OffInABadWay
        /\ t # Unknown =>
             /\ t \in Word(loop.m)
             /\ \A j \in 0 .. t - 1 : Contains(Region, (first + loop.step * j) % loop.m)
             /\ ~Contains(Region, (first + loop.step * t) % loop.m)
        /\ loop.step = 1 => t # Unknown
    BY <2>1, <1>1, <1>2, <1>4, IterationsRight
  <2>3. QED
    BY <2>2, <1>3, <1>4
<1>5. CASE Width # loop.m
  <2>1. first = 0 /\ Region.lo = 0 /\ Region.hi = 0 /\ Region.m # 1
    BY <1>1, <1>5 DEF WidthsClash, IsEmptySet, Moduli
  <2>2. \A v : ~Contains(Region, v)
    BY <2>1 DEF Contains, IsFullSet
  <2>3. Subtract(Region, first) = Region
    BY <2>1 DEF Subtract
  <2>4. Turns = 0
    BY <2>2, <2>3 DEF Turns, Iterations
  <2>5. QED
    BY <2>2, <2>4, <1>2, <1>5 DEF Unknown, OffInABadWay, Word
<1>6. QED
  BY <1>4, <1>5

-----------------------------------------------------------------------------
LEMMA InitIInv == Init => IInv
<1> SUFFICES ASSUME Init PROVE IInv
  OBVIOUS
<1>1. /\ loop \in Loops /\ loop.first \in Word(loop.m) /\ loop.m \in Moduli /\ loop.m \in Nat /\ loop.m >= 4
      /\ loop.step \in Word(loop.m)
  BY LoopFacts DEF Init
<1>2. bound.constant => bound.word \in Word(bound.m)
  BY <1>1, SCEVFacts DEF Init
<1>3. TypeOK
  BY <1>1, <1>2 DEF Init, TypeOK, Word
<1>4. at = (loop.first + loop.step * taken) % loop.m
  <2>1. loop.first + loop.step * taken = loop.first
    BY <1>1 DEF Init, Word
  <2>2. loop.first - loop.m * 0 \in 0 .. loop.m - 1 /\ loop.first - loop.m * 0 = loop.first /\ loop.first \in Int
    BY <1>1 DEF Word
  <2>3. loop.first % loop.m = loop.first
    BY <2>2, <1>1, ModUnique
  <2>4. QED
    BY <2>1, <2>3 DEF Init
<1>5. Contains(KeptSign(loop, loop.first), loop.first)
  <2>1. PICK s \in Int : loop.m = 2 * s /\ SignedMin(loop.m) = s /\ s >= 2
    BY <1>1 DEF Moduli, SignedMin
  <2>2. QED
    BY <2>1, <1>1, FullContains
    DEF KeptSign, IsNegative, Contains, MkRange, IsWrappedSet, IsFullSet, Signed, Word
<1>6. Contains(KeptAbove(loop, loop.first), loop.first)
  BY <1>1, FullContains DEF KeptAbove, Contains, MkRange, IsWrappedSet, IsFullSet, Word
<1>7. Setting
  BY <1>1, <1>4, <1>5, <1>6 DEF Init, Setting
<1>8. Staged /\ Claimed
  BY DEF Init, Staged, Untouched, Claimed
<1>9. QED
  BY <1>3, <1>7, <1>8 DEF IInv

(* What a step leaves alone when it touches neither condition nor loop,    *)
LEMMA AnalysisFrame ==
    ASSUME loop' = loop, cond' = cond, first' = first, bound' = bound
    PROVE  /\ Rewritten' <=> Rewritten
           /\ Asks' <=> Asks
           /\ Region' = Region /\ Turns' = Turns
           /\ WidthsClash(Region)' <=> WidthsClash(Region)
           /\ Decided' <=> Decided
<1>1. Rewritten' <=> Rewritten
  BY DEF Rewritten
<1>2. (Annotated' <=> Annotated) /\ (Asks' <=> Asks)
  BY DEF Asks, Annotated
<1>3. Region' = Region
  BY DEF Region
<1>4. Turns' = Turns
  BY <1>3 DEF Turns
<1>5. WidthsClash(Region)' <=> WidthsClash(Region)
  BY <1>3 DEF WidthsClash
<1>6. Decided' <=> Decided
  BY <1>2, <1>3, <1>5 DEF Decided
<1>7. QED
  BY <1>1, <1>2, <1>3, <1>4, <1>5, <1>6

(* and when the loop does not move.                                        *)
LEMMA ExecutionFrame ==
    ASSUME loop' = loop, at' = at, taken' = taken
    PROVE  (Setting' <=> Setting) /\ (GoesOn' <=> GoesOn)
BY DEF Setting, GoesOn

(* The first step of the analysis.                                         *)
LEMMA OrientIInv == IInv /\ Orient => IInv'
<1> SUFFICES ASSUME IInv, Orient PROVE IInv'
  OBVIOUS
<1>1. /\ phase = "orient" /\ phase' = "simplify" /\ cond' = Oriented(loop)
      /\ loop' = loop /\ first' = first /\ bound' = bound /\ depth' = depth
      /\ claim' = claim /\ count' = count /\ at' = at /\ taken' = taken
  BY DEF Orient, execution
<1>2. TypeOK /\ loop \in Loops /\ first = loop.first /\ bound = CreateSCEV(loop.m, loop.bound)
      /\ claim = "none" /\ taken = 0
  BY <1>1 DEF IInv, Setting, Staged, Untouched
<1>3. TypeOK'
  BY <1>1, <1>2 DEF TypeOK
<1>4. Setting'
  BY <1>1, ExecutionFrame DEF IInv
<1>5. Rewritten'
  <2>1. PICK b : b = bound
    OBVIOUS
  <2>2. DOMAIN b = {"constant", "m", "word"} /\ b = [constant |-> b.constant, m |-> b.m, word |-> b.word]
    BY <2>1, <1>2, SCEVFacts
  <2>3. b = [b EXCEPT !.word = b.word]
    BY <2>2
  <2>4. Oriented(loop) \in AllPredicates
    BY <1>2, LoopFacts, OrientedTruth
  <2>5. Oriented(loop) # Always /\ Oriented(loop) # Never
    BY <2>4 DEF AllPredicates, Always, Never, Below, Above
  <2>6. \A x, v : Meets(Oriented(loop), b.m, x, v) <=> Compare(Oriented(loop), b.m, x, v)
    BY <2>5 DEF Meets
  <2>7. CASE b.constant
    BY <1>1, <1>2, <2>1, <2>3, <2>4, <2>6, <2>7 DEF Rewritten
  <2>8. CASE ~b.constant
    BY <1>1, <1>2, <2>1, <2>8 DEF Rewritten
  <2>9. QED
    BY <2>7, <2>8
<1>6. Staged' /\ Claimed'
  BY <1>1, <1>2, <1>5 DEF Staged, Claimed
<1>7. QED
  BY <1>3, <1>4, <1>6 DEF IInv

(* A step of the simplification: no claim is made yet.                     *)
LEMMA SimplifyStaged ==
    ASSUME IInv, phase = "simplify", phase' = "simplify", Rewritten', TypeOK',
           loop' = loop, claim' = claim, at' = at, taken' = taken
    PROVE  IInv'
<1>1. claim = "none" /\ taken = 0
  BY DEF IInv, Staged
<1>2. Setting'
  BY ExecutionFrame DEF IInv
<1>3. Staged' /\ Claimed'
  BY <1>1 DEF Staged, Claimed
<1>4. QED
  BY <1>2, <1>3 DEF IInv

LEMMA SimplifyConstantIInv == IInv /\ SimplifyConstant => IInv'
<1> SUFFICES ASSUME IInv, SimplifyConstant PROVE IInv'
  OBVIOUS
<1>1. /\ phase = "simplify" /\ phase' = phase /\ cond \notin {Always, Never} /\ depth < 3
      /\ bound.constant /\ cond' = NewBound[1] /\ bound' = [bound EXCEPT !.word = NewBound[2]]
      /\ loop' = loop /\ first' = first /\ depth' = depth + 1
      /\ claim' = claim /\ count' = count /\ at' = at /\ taken' = taken
  BY DEF SimplifyConstant, Simplifying, execution
<1>2. TypeOK /\ loop \in Loops /\ Rewritten
  BY <1>1 DEF IInv, Setting, Staged
<1>3. PICK b : b = CreateSCEV(loop.m, loop.bound)
  OBVIOUS
<1>4. /\ b.constant /\ bound.m = b.m
      /\ bound = [constant |-> bound.constant, m |-> bound.m, word |-> bound.word]
      /\ b.m \in Moduli /\ bound.word \in Word(b.m) /\ b.word \in Word(b.m)
      /\ cond \in AllPredicates
  BY <1>1, <1>2, <1>3, RewrittenFacts
<1>5. /\ bound = [b EXCEPT !.word = bound.word] /\ first = loop.first
      /\ \A x \in Word(b.m) : Meets(cond, b.m, x, bound.word) <=> Compare(Oriented(loop), b.m, x, b.word)
  BY <1>2, <1>3, <1>4 DEF Rewritten
<1>6. PICK n : n = NewBound
  OBVIOUS
<1>7. /\ n[1] \in AllPredicates \cup {Always, Never} /\ n[2] \in Word(b.m)
      /\ \A x \in Word(b.m) : Meets(n[1], b.m, x, n[2]) <=> Compare(cond, b.m, x, bound.word)
  BY <1>4, <1>6, SimplifiedTruth DEF NewBound
<1>8. \A x \in Word(b.m) : Meets(cond, b.m, x, bound.word) <=> Compare(cond, b.m, x, bound.word)
  BY <1>1 DEF Meets
<1>9. \A x \in Word(b.m) : Meets(n[1], b.m, x, n[2]) <=> Compare(Oriented(loop), b.m, x, b.word)
  BY <1>5, <1>7, <1>8
<1>10. /\ bound' = [b EXCEPT !.word = n[2]] /\ bound'.word = n[2]
       /\ bound'.m = b.m
  <2>1. bound' = [bound EXCEPT !.word = n[2]]
    BY <1>1, <1>6
  <2>2. bound'.word = n[2] /\ bound'.m = bound.m
    BY <2>1, <1>4
  <2>3. bound' = [b EXCEPT !.word = n[2]]
    BY <2>1, <1>5
  <2>4. QED
    BY <2>2, <2>3, <1>4
<1>11. Rewritten'
  BY <1>1, <1>3, <1>4, <1>5, <1>6, <1>7, <1>9, <1>10 DEF Rewritten
<1>12. TypeOK'
  BY <1>1, <1>2, <1>7, <1>10 DEF TypeOK
<1>13. QED
  BY <1>1, <1>11, <1>12, SimplifyStaged

(* A bound that is no constant has not been moved while the condition is   *)
(* still "or equal".                                                       *)
LEMMA NotMoved ==
    ASSUME TypeOK, loop \in Loops, Rewritten, ~bound.constant, cond \in OrEqual
    PROVE  /\ ~CreateSCEV(loop.m, loop.bound).constant
           /\ bound = CreateSCEV(loop.m, loop.bound)
           /\ cond = Oriented(loop) /\ first = loop.first
<1>1. ~CreateSCEV(loop.m, loop.bound).constant
  BY RewrittenFacts
<1>2. \A p \in OrEqual : Strict(p) \notin OrEqual
  BY DEF OrEqual, Strict
<1>3. QED
  BY <1>1, <1>2 DEF Rewritten

LEMMA MoveBoundIInv == IInv /\ MoveBound => IInv'
<1> SUFFICES ASSUME IInv, MoveBound PROVE IInv'
  OBVIOUS
<1>1. /\ phase = "simplify" /\ phase' = phase /\ depth < 3
      /\ ~bound.constant /\ cond \in OrEqual /\ BoundMovable(cond, loop.bound.known)
      /\ cond' = Strict(cond) /\ bound' = bound /\ loop' = loop /\ first' = first /\ depth' = depth + 1
      /\ claim' = claim /\ count' = count /\ at' = at /\ taken' = taken
  BY DEF MoveBound, Simplifying, execution
<1>2. TypeOK /\ loop \in Loops /\ Rewritten
  BY <1>1 DEF IInv, Setting, Staged
<1>3. Rewritten'
  BY <1>1, <1>2, NotMoved DEF Rewritten
<1>4. TypeOK'
  BY <1>1, <1>2 DEF TypeOK
<1>5. QED
  BY <1>1, <1>3, <1>4, SimplifyStaged

LEMMA MoveVariableIInv == IInv /\ MoveVariable => IInv'
<1> SUFFICES ASSUME IInv, MoveVariable PROVE IInv'
  OBVIOUS
<1>1. /\ phase = "simplify" /\ phase' = phase /\ depth < 3
      /\ ~bound.constant /\ cond \in OrEqual /\ VariableMovable(cond, VariableRange(cond, loop, first))
      /\ first' = IF cond \in Below THEN Minus(loop.m, first, 1) ELSE Plus(loop.m, first, 1)
      /\ cond' = Strict(cond) /\ bound' = bound /\ loop' = loop /\ depth' = depth + 1
      /\ claim' = claim /\ count' = count /\ at' = at /\ taken' = taken
  BY DEF MoveVariable, Simplifying, execution
<1>2. TypeOK /\ loop \in Loops /\ Rewritten
  BY <1>1 DEF IInv, Setting, Staged
<1>3. Rewritten'
  BY <1>1, <1>2, NotMoved DEF Rewritten
<1>4. first' \in Word(loop.m)
  BY <1>1, <1>2, LoopFacts DEF TypeOK, Moduli, Word, Minus, Plus
<1>5. TypeOK'
  BY <1>1, <1>2, <1>4 DEF TypeOK
<1>6. QED
  BY <1>1, <1>3, <1>5, SimplifyStaged

LEMMA EndSimplifyIInv == IInv /\ EndSimplify => IInv'
<1> SUFFICES ASSUME IInv, EndSimplify PROVE IInv'
  OBVIOUS
<1>1. /\ phase = "simplify" /\ phase' = "decide" /\ loop' = loop
      /\ cond' = cond /\ first' = first /\ bound' = bound /\ depth' = depth
      /\ claim' = claim /\ count' = count /\ at' = at /\ taken' = taken
  BY DEF EndSimplify, analysis, execution
<1>2. Setting' /\ Rewritten' /\ claim = "none" /\ taken = 0
  BY <1>1, ExecutionFrame, AnalysisFrame DEF IInv, Staged
<1>3. TypeOK' /\ Staged' /\ Claimed'
  BY <1>1, <1>2 DEF IInv, TypeOK, Staged, Claimed
<1>4. QED
  BY <1>2, <1>3 DEF IInv

(* A claim, for a condition that justifies it.                             *)
LEMMA ClaimIInv ==
    ASSUME NEW c \in {"known", "unknown", "aborted"}, NEW n, IInv, Claim(c, n), n \in Word(loop.m),
           c = "known" =>
              \/ cond = Never /\ n = 0
              \/ Decided /\ n = Turns /\ Turns \notin {Unknown, OffInABadWay},
           c = "unknown" =>
              \/ cond # Never /\ ~Asks
              \/ Asks /\ (IsFullSet(Region) \/ ~loop.constant)
              \/ Decided /\ Turns = Unknown,
           c = "aborted" => WidthsClash(Region)
    PROVE  IInv'
<1>1. /\ phase = "decide" /\ claim' = c /\ count' = n
      /\ phase' = IF c = "aborted" THEN "aborted" ELSE "run"
      /\ loop' = loop /\ cond' = cond /\ first' = first /\ bound' = bound /\ depth' = depth
      /\ at' = at /\ taken' = taken
  BY DEF Claim, execution
<1>2. Setting' /\ Rewritten' /\ taken = 0
  BY <1>1, ExecutionFrame, AnalysisFrame DEF IInv, Staged
<1>3. TypeOK'
  BY <1>1 DEF IInv, TypeOK
<1>4. Staged'
  BY <1>1, <1>2 DEF Staged
<1>5. Claimed'
  BY <1>1, AnalysisFrame DEF Claimed
<1>6. QED
  BY <1>2, <1>3, <1>4, <1>5 DEF IInv

LEMMA ClaimsIInv == IInv /\ (ClaimNever \/ ClaimFromRange \/ ClaimUnknown) => IInv'
<1> SUFFICES ASSUME IInv, ClaimNever \/ ClaimFromRange \/ ClaimUnknown PROVE IInv'
  OBVIOUS
<1>1. 0 \in Word(loop.m)
  BY LoopFacts DEF IInv, Setting, Word
<1>2. CASE ClaimNever
  BY <1>1, <1>2, ClaimIInv DEF ClaimNever
<1>3. CASE ClaimUnknown
  BY <1>1, <1>3, ClaimIInv DEF ClaimUnknown
<1>4. CASE ClaimFromRange
  <2>1. phase = "decide" /\ Asks
    BY <1>4 DEF ClaimFromRange
  <2>2. CASE IsFullSet(Region) \/ ~loop.constant
    <3>1. Claim("unknown", 0)
      BY <1>4, <2>2 DEF ClaimFromRange
    <3>2. QED
      BY <1>1, <2>1, <2>2, <3>1, ClaimIInv
  <2>3. CASE ~(IsFullSet(Region) \/ ~loop.constant) /\ WidthsClash(Region)
    <3>1. Claim("aborted", 0)
      BY <1>4, <2>3 DEF ClaimFromRange
    <3>2. QED
      BY <1>1, <2>3, <3>1, ClaimIInv
  <2>4. CASE ~(IsFullSet(Region) \/ ~loop.constant) /\ ~WidthsClash(Region)
    <3>1. Decided
      BY <2>1, <2>4 DEF Decided
    <3>2. Turns # OffInABadWay /\ (Turns # Unknown => Turns \in Word(loop.m))
      BY <2>1, <2>4, TurnsFacts DEF IInv, Setting, Staged
    <3>3. IF Turns = Unknown THEN Claim("unknown", 0) ELSE Claim("known", Turns)
      BY <1>4, <2>4, <3>2 DEF ClaimFromRange, Turns
    <3>4. QED
      BY <1>1, <3>1, <3>2, <3>3, ClaimIInv
  <2>5. QED
    BY <2>2, <2>3, <2>4
<1>5. QED
  BY <1>2, <1>3, <1>4

(* One turn of the loop.                                                   *)
LEMMA TurnIInv == IInv /\ Turn => IInv'
<1> SUFFICES ASSUME IInv, Turn PROVE IInv'
  OBVIOUS
<1>1. /\ phase = "run" /\ phase' = phase /\ GoesOn /\ ~(loop.nsw /\ StepOverflows) /\ taken < loop.m
      /\ at' = Plus(loop.m, at, loop.step) /\ taken' = taken + 1
      /\ loop' = loop /\ cond' = cond /\ first' = first /\ bound' = bound /\ depth' = depth
      /\ claim' = claim /\ count' = count
  BY DEF Turn, analysis
<1>2. /\ loop \in Loops /\ at = (loop.first + loop.step * taken) % loop.m
      /\ Contains(KeptSign(loop, loop.first), at) /\ Contains(KeptAbove(loop, loop.first), at) /\ TypeOK /\ taken \in Nat /\ at \in Word(loop.m)
  BY DEF IInv, Setting, TypeOK
<1>3. PICK m : m = loop.m
  OBVIOUS
<1>4. /\ m \in Moduli /\ m \in Nat /\ m >= 4 /\ loop.first \in Word(m) /\ loop.step \in Word(m)
      /\ loop.step # 0 /\ loop.nsw \in BOOLEAN /\ loop.constant \in BOOLEAN /\ Word(m) = 0 .. m - 1
  BY <1>2, <1>3, LoopFacts DEF Word
<1>5. at' = (loop.first + loop.step * (taken + 1)) % m
  <2> DEFINE n == loop.first + loop.step * taken
  <2>1. n \in Int /\ loop.step \in Int /\ loop.step \in 0 .. m - 1
    BY <1>2, <1>4
  <2>2. loop.first + loop.step * (taken + 1) = n + loop.step
    BY <1>2, <1>4
  <2>3. loop.step % m = loop.step
    <3>1. loop.step - m * 0 \in 0 .. m - 1 /\ loop.step - m * 0 = loop.step
      BY <2>1, <1>4
    <3>2. QED
      BY <3>1, <2>1, <1>4, ModUnique
  <2> HIDE DEF n
  <2>4. (n + loop.step) % m = Plus(m, n % m, loop.step % m)
    BY <2>1, <1>4, ModOfSum
  <2>5. n % m = at
    BY <1>2, <1>3 DEF n
  <2>6. QED
    BY <2>2, <2>3, <2>4, <2>5, <1>1, <1>3
<1>6. Plus(m, at, loop.step) \in Word(m)
  <2>1. PICK c, d : c = at /\ d = loop.step
    OBVIOUS
  <2>2. c \in 0 .. m - 1 /\ d \in 0 .. m - 1 /\ m \in Nat /\ Word(m) = 0 .. m - 1
    BY <1>2, <1>3, <1>4, <2>1
  <2>3. Plus(m, c, d) \in Word(m)
    BY <2>2 DEF Plus
  <2>4. QED
    BY <2>1, <2>3
<1>7. Contains(KeptSign(loop, loop.first), Plus(m, at, loop.step))
  <2>1. PICK s \in Int : m = 2 * s /\ SignedMin(m) = s /\ SignedMax(m) = s - 1 /\ s >= 2
    BY <1>4 DEF Moduli, SignedMin, SignedMax
  <2>2. CASE ~loop.nsw
    BY <2>2, <1>3, <1>4, FullContains DEF KeptSign
  <2>3. CASE loop.nsw
    <3>1. Signed(m, at) + Signed(m, loop.step) \in -s .. s - 1
      BY <1>1, <1>3, <2>1, <2>3 DEF StepOverflows
    <3>2. at \in 0 .. 2 * s - 1 /\ loop.step \in 0 .. 2 * s - 1 /\ loop.step # 0
      BY <1>2, <1>3, <1>4, <2>1
    <3>3. PICK d : d = loop.step
      OBVIOUS
    <3>4. PICK K : K = KeptSign(loop, loop.first)
      OBVIOUS
    <3>5. \/ K = FullSet(m)
          \/ (K = MkRange(m, 0, s) /\ d < s)
          \/ (K = MkRange(m, s, 1) /\ Signed(m, d) <= 0)
      <4>1. ~IsNegative(m, d) => d < s
        BY <2>1, <3>2, <3>3 DEF IsNegative
      <4>2. \/ K = FullSet(m)
            \/ (K = MkRange(m, 0, s) /\ ~IsNegative(m, d))
            \/ (K = MkRange(m, s, 1) /\ Signed(m, d) <= 0)
        BY <1>3, <2>1, <3>3, <3>4 DEF KeptSign
      <4>3. QED
        BY <4>1, <4>2
    <3>6. Contains(K, at)
      BY <1>2, <3>4
    <3>7. CASE K = FullSet(m)
      BY <3>3, <3>4, <3>7, <1>4, FullContains
    <3>8. CASE K = MkRange(m, 0, s) /\ d < s
      <4>1. at < s
        BY <3>2, <3>6, <3>8, <2>1 DEF Contains, MkRange, IsWrappedSet, IsFullSet
      <4>2. at + d < s /\ at + d >= 0
        BY <4>1, <3>1, <3>2, <3>3, <3>8, <2>1 DEF Signed
      <4>3. Plus(m, at, d) = at + d
        BY <4>2, <2>1, <3>2, <3>3 DEF Plus
      <4>4. Contains(K, at + d)
        BY <4>2, <2>1, <3>2, <3>3, <3>8 DEF Contains, MkRange, IsWrappedSet, IsFullSet
      <4>5. QED
        BY <4>3, <4>4, <3>3, <3>4
    <3>9. CASE K = MkRange(m, s, 1) /\ Signed(m, d) <= 0
      <4>1. at = 0 \/ at >= s
        BY <3>2, <3>6, <3>9, <2>1 DEF Contains, MkRange, IsWrappedSet, IsFullSet
      <4>2. d >= s
        BY <3>2, <3>3, <3>9, <2>1 DEF Signed
      <4>3. (at = 0 /\ Plus(m, at, d) = d) \/ (at >= s /\ Plus(m, at, d) >= s)
        BY <4>1, <4>2, <3>1, <3>2, <3>3, <2>1 DEF Signed, Plus
      <4>4. Plus(m, at, d) >= s /\ Plus(m, at, d) \in Int /\ Plus(m, at, d) < m
        BY <4>2, <4>3, <2>1, <3>2, <3>3 DEF Plus
      <4>5. Contains(K, Plus(m, at, d))
        BY <4>4, <2>1, <3>9 DEF Contains, MkRange, IsWrappedSet, IsFullSet
      <4>6. QED
        BY <4>5, <3>3, <3>4
    <3>10. QED
      BY <3>5, <3>7, <3>8, <3>9
  <2>4. QED
    BY <2>2, <2>3, <1>4
<1>8. Contains(KeptAbove(loop, loop.first), Plus(m, at, loop.step))
  <2>1. PICK s \in Int : m = 2 * s /\ SignedMin(m) = s /\ SignedMax(m) = s - 1 /\ s >= 2
    BY <1>4 DEF Moduli, SignedMin, SignedMax
  <2>2. PICK d, v : d = loop.step /\ v = loop.first
    OBVIOUS
  <2>3. at \in 0 .. 2 * s - 1 /\ d \in 0 .. 2 * s - 1 /\ v \in 0 .. 2 * s - 1
    BY <1>2, <1>3, <1>4, <2>1, <2>2
  <2>4. CASE KeptAbove(loop, v) = FullSet(m)
    BY <2>2, <2>4, <1>4, FullContains
  <2>5. CASE NoUnsignedWrap(loop, v) /\ loop.constant /\ v # 0
    <3>1. loop.nsw /\ v < s /\ d < s
      BY <1>3, <2>1, <2>2, <2>3, <2>5 DEF NoUnsignedWrap, IsNegative
    <3>2. KeptSign(loop, v) = MkRange(m, 0, s) /\ KeptAbove(loop, v) = MkRange(m, v, 0)
      BY <1>3, <2>1, <2>2, <2>5 DEF NoUnsignedWrap, KeptSign, KeptAbove
    <3>3. at < s /\ at >= v
      BY <1>2, <2>1, <2>2, <2>3, <2>5, <3>2 DEF Contains, MkRange, IsWrappedSet, IsFullSet
    <3>4. Signed(m, at) + Signed(m, d) \in -s .. s - 1
      BY <1>1, <1>3, <2>1, <2>2, <3>1 DEF StepOverflows
    <3>5. at + d < s
      BY <2>1, <2>3, <3>1, <3>3, <3>4 DEF Signed
    <3>6. Plus(m, at, d) = at + d
      BY <2>1, <2>3, <3>5 DEF Plus
    <3>7. Contains(MkRange(m, v, 0), at + d)
      BY <2>1, <2>3, <2>5, <3>3, <3>5 DEF Contains, MkRange, IsWrappedSet, IsFullSet
    <3>8. QED
      BY <2>2, <3>2, <3>6, <3>7
  <2>6. QED
    BY <1>3, <2>2, <2>4, <2>5 DEF KeptAbove
<1>9. Setting'
  BY <1>1, <1>2, <1>3, <1>5, <1>7, <1>8 DEF Setting
<1>10. TypeOK'
  BY <1>1, <1>2, <1>3, <1>4, <1>6 DEF TypeOK
<1>11. Rewritten' /\ Claimed'
  BY <1>1, AnalysisFrame DEF IInv, Staged, Claimed
<1>12. Staged'
  BY <1>1, <1>11 DEF IInv, Staged
<1>13. QED
  BY <1>9, <1>10, <1>11, <1>12 DEF IInv

LEMMA LeaveIInv == IInv /\ Leave => IInv'
<1> SUFFICES ASSUME IInv, Leave PROVE IInv'
  OBVIOUS
<1>1. /\ phase = "run" /\ phase' = "left" /\ ~GoesOn
      /\ loop' = loop /\ cond' = cond /\ first' = first /\ bound' = bound /\ depth' = depth
      /\ claim' = claim /\ count' = count /\ at' = at /\ taken' = taken
  BY DEF Leave, analysis, execution
<1>2. Setting' /\ Rewritten' /\ ~GoesOn' /\ Claimed'
  BY <1>1, ExecutionFrame, AnalysisFrame DEF IInv, Staged, Claimed
<1>3. TypeOK' /\ Staged'
  BY <1>1, <1>2 DEF IInv, TypeOK, Staged
<1>4. QED
  BY <1>2, <1>3 DEF IInv

LEMMA NextIInv == IInv /\ [Next]_vars => IInv'
<1> SUFFICES ASSUME IInv, [Next]_vars PROVE IInv'
  OBVIOUS
<1>1. CASE Orient
  BY <1>1, OrientIInv
<1>2. CASE SimplifyConstant
  BY <1>2, SimplifyConstantIInv
<1>3. CASE MoveBound
  BY <1>3, MoveBoundIInv
<1>4. CASE MoveVariable
  BY <1>4, MoveVariableIInv
<1>5. CASE EndSimplify
  BY <1>5, EndSimplifyIInv
<1>6. CASE ClaimNever \/ ClaimFromRange \/ ClaimUnknown
  BY <1>6, ClaimsIInv
<1>7. CASE Turn
  BY <1>7, TurnIInv
<1>8. CASE Leave
  BY <1>8, LeaveIInv
<1>9. CASE UNCHANGED vars
  <2>1. /\ phase' = phase /\ loop' = loop /\ cond' = cond /\ first' = first /\ bound' = bound
        /\ depth' = depth /\ claim' = claim /\ count' = count /\ at' = at /\ taken' = taken
    BY <1>9 DEF vars, analysis, execution
  <2>2. Setting' /\ (Rewritten' <=> Rewritten) /\ (GoesOn' <=> GoesOn) /\ Claimed'
    BY <2>1, ExecutionFrame, AnalysisFrame DEF IInv, Claimed
  <2>3. TypeOK' /\ Staged'
    BY <2>1, <2>2 DEF IInv, TypeOK, Staged, Untouched
  <2>4. QED
    BY <2>2, <2>3 DEF IInv
<1>10. QED
  BY <1>1, <1>2, <1>3, <1>4, <1>5, <1>6, <1>7, <1>8, <1>9 DEF Next

LEMMA Inductive == Spec => []IInv
BY InitIInv, NextIInv, PTL DEF Spec

-----------------------------------------------------------------------------
(* The program's comparison, with the bound on the right.                  *)
LEMMA GoesOnOriented ==
    ASSUME TypeOK, loop \in Loops
    PROVE  GoesOn <=> Compare(Oriented(loop), loop.m, at, loop.bound.word)
BY OrientedTruth, LoopFacts DEF TypeOK, GoesOn

(* A predicate that holds for no word is "less than zero", or asks beyond  *)
(* an extreme.                                                             *)
LEMMA NeverHolds ==
    ASSUME NEW p \in AllPredicates, NEW m \in Moduli, NEW v \in Word(m),
           \A x \in Word(m) : ~Compare(p, m, x, v)
    PROVE  (p = "ult" /\ v = 0) \/ v \in {SignedMin(m), SignedMax(m), m - 1}
<1>1. PICK s \in Int : m = 2 * s /\ SignedMin(m) = s /\ SignedMax(m) = s - 1 /\ s >= 2
  BY DEF Moduli, SignedMin, SignedMax
<1>2. m \in Int /\ v \in 0 .. m - 1 /\ Word(m) = 0 .. m - 1
  BY DEF Moduli, Word
<1>3. CASE p \in {"eq", "ne"}
  <2>1. Compare("eq", m, v, v) /\ (v # 0 => Compare("ne", m, 0, v)) /\ (v # 1 => Compare("ne", m, 1, v))
    BY DEF Compare
  <2>2. 0 \in Word(m) /\ 1 \in Word(m)
    BY <1>1, <1>2
  <2>3. QED
    BY <2>1, <2>2, <1>3
<1>4. CASE p \in Below \cup Above
  <2>1. /\ Least(p, m) \in Word(m) /\ Greatest(p, m) \in Word(m)
        /\ Number(p, m, Least(p, m)) <= Number(p, m, v)
        /\ Number(p, m, v) <= Number(p, m, Greatest(p, m))
        /\ \A x \in Word(m) :
              /\ Number(p, m, x) \in Int /\ (Number(p, m, x) = Number(p, m, v) => x = v)
              /\ p \in {"slt", "ult"} => (Compare(p, m, x, v) <=> Number(p, m, x) < Number(p, m, v))
              /\ p \in {"sle", "ule"} => (Compare(p, m, x, v) <=> Number(p, m, x) <= Number(p, m, v))
              /\ p \in {"sgt", "ugt"} => (Compare(p, m, x, v) <=> Number(p, m, x) > Number(p, m, v))
              /\ p \in {"sge", "uge"} => (Compare(p, m, x, v) <=> Number(p, m, x) >= Number(p, m, v))
    BY <1>4, ReadingFacts, CompareNumbers
  <2>2. p \in {"slt", "ult"} \/ p \in {"sgt", "ugt"}
    BY <2>1, <1>4 DEF Below, Above
  <2>3. p \in {"slt", "ult"} => v = Least(p, m)
    BY <2>1
  <2>4. p \in {"sgt", "ugt"} => v = Greatest(p, m)
    BY <2>1
  <2>5. QED
    BY <2>2, <2>3, <2>4 DEF Least, Greatest, SignedPredicates
<1>5. QED
  BY <1>3, <1>4 DEF AllPredicates

(* A variable that starts one further is one further after every turn.     *)
LEMMA MovedTurns ==
    ASSUME NEW m \in Moduli, NEW a \in Word(m), NEW n \in Nat
    PROVE  /\ (Plus(m, a, 1) + n) % m = Plus(m, (a + n) % m, 1)
           /\ (Minus(m, a, 1) + n) % m = Minus(m, (a + n) % m, 1)
<1>1. m \in Nat /\ m >= 4 /\ a \in 0 .. m - 1 /\ a + n \in Nat /\ a + n \in Int
  BY DEF Moduli, Word
<1>2. PICK q \in Int, v \in Int : a + n = m * q + v /\ v \in 0 .. m - 1 /\ v = (a + n) % m
  <2>1. /\ (a + n) \div m \in Int /\ (a + n) % m \in 0 .. m - 1
        /\ a + n = m * ((a + n) \div m) + ((a + n) % m)
    BY <1>1, DivMod
  <2>2. (a + n) % m \in Int
    BY <1>1, <2>1
  <2>3. QED
    BY <2>1, <2>2
<1>3. ASSUME NEW x \in Int, NEW y \in 0 .. m - 1, NEW k \in Int, x = m * k + y
      PROVE  x % m = y
  <2>1. x - m * k = y
    BY <1>1, <1>3
  <2>2. QED
    BY <2>1, <1>1, <1>3, ModUnique
<1>4. m * (q + 1) = m * q + m /\ m * (q - 1) = m * q - m /\ m * q \in Int
  BY <1>1
<1>5. PICK k \in {q - 1, q, q + 1} : Plus(m, a, 1) + n = m * k + Plus(m, v, 1)
  BY <1>1, <1>2, <1>4 DEF Plus
<1>6. PICK j \in {q - 1, q, q + 1} : Minus(m, a, 1) + n = m * j + Minus(m, v, 1)
  BY <1>1, <1>2, <1>4 DEF Minus
<1>7. /\ Plus(m, v, 1) \in 0 .. m - 1 /\ Minus(m, v, 1) \in 0 .. m - 1 /\ k \in Int /\ j \in Int
      /\ Plus(m, a, 1) + n \in Int /\ Minus(m, a, 1) + n \in Int
  BY <1>1, <1>2 DEF Plus, Minus
<1>8. QED
  BY <1>2, <1>3, <1>5, <1>6, <1>7

-----------------------------------------------------------------------------
(* A bound that is a constant of the width of the variable is the word the *)
(* program compares with.                                                  *)
LEMMA ConstantTruth ==
    ASSUME TypeOK, Setting, Rewritten, Counted(loop), bound.constant, bound.m = loop.m
    PROVE  Meets(cond, loop.m, at, bound.word) <=> GoesOn
<1>1. PICK b : b = CreateSCEV(loop.m, loop.bound)
  OBVIOUS
<1>2. loop \in Loops
  BY DEF Setting
<1>3. b.constant /\ b.m = loop.m
  BY <1>1, <1>2, RewrittenFacts
<1>4. b.word = loop.bound.word
  <2>1. loop.bound.from = "constant" \/ (loop.bound.from = "load" /\ Exact(loop.bound.md))
    BY <1>1, <1>3 DEF CreateSCEV, Variable
  <2>2. CASE loop.bound.from = "constant"
    BY <1>1, <2>2 DEF CreateSCEV, Constant
  <2>3. CASE loop.bound.from = "load" /\ Exact(loop.bound.md)
    <3>1. b.m = GetConstantRange(loop.bound.md).m /\ b.word = GetConstantRange(loop.bound.md).lo
      BY <1>1, <2>3 DEF CreateSCEV, Constant
    <3>2. QED
      BY <3>1, <1>3, <2>3 DEF Counted
  <2>4. QED
    BY <2>1, <2>2, <2>3
<1>5. Meets(cond, loop.m, at, bound.word) <=> Compare(Oriented(loop), loop.m, at, b.word)
  BY <1>1, <1>3 DEF Rewritten, TypeOK
<1>6. QED
  BY <1>2, <1>4, <1>5, GoesOnOriented

(* A constant of another width that is compared to settle the condition    *)
(* says that the loop is left.                                             *)
LEMMA OtherWidthTruth ==
    ASSUME TypeOK, Setting, Rewritten, Counted(loop), bound.constant, bound.m # loop.m,
           \A x \in Word(bound.m) : ~Meets(cond, bound.m, x, bound.word)
    PROVE  ~GoesOn
<1>1. PICK b : b = CreateSCEV(loop.m, loop.bound)
  OBVIOUS
<1>2. loop \in Loops
  BY DEF Setting
<1>3. b.constant /\ b.m = bound.m /\ b.m \in Moduli /\ b.word \in Word(b.m)
  BY <1>1, <1>2, RewrittenFacts
<1>4. /\ loop.bound.from = "load" /\ Exact(loop.bound.md)
      /\ b.m = GetConstantRange(loop.bound.md).m /\ b.word = GetConstantRange(loop.bound.md).lo
  BY <1>1, <1>3 DEF CreateSCEV, Constant, Variable
<1>5. /\ b.word \notin {SignedMin(b.m), SignedMax(b.m), b.m - 1}
      /\ b.word = 0 => loop.bound.word = 0
  BY <1>3, <1>4 DEF Counted
<1>6. \A x \in Word(b.m) : ~Compare(Oriented(loop), b.m, x, b.word)
  BY <1>1, <1>3 DEF Rewritten
<1>7. Oriented(loop) \in AllPredicates
  BY <1>2, LoopFacts, OrientedTruth
<1>8. Oriented(loop) = "ult" /\ loop.bound.word = 0
  BY <1>3, <1>5, <1>6, <1>7, NeverHolds
<1>9. at \in Nat
  BY <1>2, LoopFacts DEF TypeOK, Word
<1>10. ~Compare("ult", loop.m, at, 0)
  BY <1>9 DEF Compare
<1>11. QED
  BY <1>2, <1>8, <1>10, GoesOnOriented

(* What the region is asked for has the width of the variable, where it is *)
(* an operation.                                                           *)
LEMMA AnnotatedFacts ==
    ASSUME Counted(loop), ~bound.constant, Annotated
    PROVE  Width = loop.m /\ End = loop.bound.word
           /\ (Oriented(loop) \in OrEqual => ~BoundMovable(Oriented(loop), loop.bound.known))
BY DEF Counted, Annotated, Width, End

(* The condition asked for the value in the comparison says whether the    *)
(* loop goes on.                                                           *)
LEMMA ConditionTruth ==
    ASSUME TypeOK, Setting, Rewritten, Counted(loop), Asks, Width = loop.m
    PROVE  Compare(cond, Width, (first + loop.step * taken) % loop.m, End) <=> GoesOn
<1>1. /\ loop \in Loops /\ loop.m \in Moduli /\ loop.first \in Word(loop.m) /\ loop.step \in Nat
      /\ at = (loop.first + loop.step * taken) % loop.m /\ taken \in Nat /\ at \in Word(loop.m)
      /\ Contains(KeptSign(loop, loop.first), at) /\ Contains(KeptAbove(loop, loop.first), at)
      /\ loop.bound.word \in Word(loop.m)
  BY LoopFacts DEF Setting, TypeOK, Word
<1>2. CASE bound.constant
  <2>1. first = loop.first
    BY <1>1, <1>2, RewrittenFacts DEF Rewritten
  <2>2. Meets(cond, loop.m, at, bound.word) <=> Compare(cond, loop.m, at, bound.word)
    BY DEF Meets, Asks
  <2>3. QED
    BY <1>1, <1>2, <2>1, <2>2, ConstantTruth DEF Width, End
<1>3. CASE ~bound.constant
  <2>1. Annotated
    BY <1>3 DEF Asks
  <2>2. /\ End = loop.bound.word
        /\ Oriented(loop) \in OrEqual => ~BoundMovable(Oriented(loop), loop.bound.known)
    BY <1>3, <2>1, AnnotatedFacts
  <2>3. PICK p : p = Oriented(loop)
    OBVIOUS
  <2>4. GoesOn <=> Compare(p, loop.m, at, loop.bound.word)
    BY <1>1, <2>3, GoesOnOriented
  <2>5. ~CreateSCEV(loop.m, loop.bound).constant
    BY <1>1, <1>3, RewrittenFacts
  <2>6. CASE cond = p /\ first = loop.first
    BY <1>1, <2>2, <2>4, <2>6
  <2>7. CASE ~(cond = p /\ first = loop.first)
    <3>1. /\ p \in OrEqual /\ cond = Strict(p)
          /\ VariableMovable(p, VariableRange(p, loop, loop.first))
          /\ first = IF p \in Below THEN Minus(loop.m, loop.first, 1) ELSE Plus(loop.m, loop.first, 1)
      BY <2>2, <2>3, <2>5, <2>7 DEF Rewritten
    <3>2. p \in Below \cup Above
      BY <3>1 DEF OrEqual, Below, Above
    <3>3. /\ VariableRange(p, loop, loop.first) \in Ranges(loop.m)
          /\ Contains(VariableRange(p, loop, loop.first), at)
      BY <1>1, <3>2, VariableSound
    <3>4. at # IF p \in Below THEN Least(p, loop.m) ELSE Greatest(p, loop.m)
      BY <1>1, <3>1, <3>3, MovableNever
    <3>5. (first + loop.step * taken) % loop.m
            = IF p \in Below THEN Minus(loop.m, at, 1) ELSE Plus(loop.m, at, 1)
      <4>1. loop.step * taken \in Nat
        BY <1>1
      <4>2. QED
        BY <4>1, <1>1, <3>1, MovedTurns
    <3>6. Meets(cond, loop.m, (first + loop.step * taken) % loop.m, loop.bound.word)
            <=> Compare(p, loop.m, at, loop.bound.word)
      <4>1. CASE p \in Below
        <5>1. Meets(Strict(p), loop.m, Minus(loop.m, at, 1), loop.bound.word)
                <=> Compare(p, loop.m, at, loop.bound.word)
          BY <1>1, <3>1, <3>4, <4>1, StrictMeets
        <5>2. QED
          BY <3>1, <3>5, <4>1, <5>1
      <4>2. CASE p \notin Below
        <5>1. Meets(Strict(p), loop.m, Plus(loop.m, at, 1), loop.bound.word)
                <=> Compare(p, loop.m, at, loop.bound.word)
          BY <1>1, <3>1, <3>4, <4>2, StrictMeets
        <5>2. QED
          BY <3>1, <3>5, <4>2, <5>1
      <4>3. QED
        BY <4>1, <4>2
    <3>7. QED
      BY <2>2, <2>4, <3>6 DEF Meets, Asks
  <2>8. QED
    BY <2>6, <2>7
<1>4. QED
  BY <1>2, <1>3

-----------------------------------------------------------------------------
(* While the loop runs it goes on as long as the claim is not reached.     *)
LEMMA GoesOnUntilCount ==
    ASSUME IInv, Counted(loop), claim = "known", phase = "run", taken <= count
    PROVE  GoesOn <=> taken # count
<1>1. TypeOK /\ Setting /\ Rewritten /\ loop \in Loops /\ taken \in Nat
  BY DEF IInv, Staged, Setting, TypeOK
<1>2. CASE cond = Never /\ count = 0
  <2>1. taken = count
    BY <1>1, <1>2
  <2>2. bound.constant
    BY <1>1, <1>2, RewrittenFacts DEF Never, AllPredicates, Below, Above
  <2>3. \A m, x, v : ~Meets(cond, m, x, v)
    BY <1>2 DEF Meets, Always, Never
  <2>4. CASE bound.m = loop.m
    BY <1>1, <2>1, <2>2, <2>3, <2>4, ConstantTruth
  <2>5. CASE bound.m # loop.m
    BY <1>1, <2>1, <2>2, <2>3, <2>5, OtherWidthTruth
  <2>6. QED
    BY <2>4, <2>5
<1>3. CASE Decided /\ count = Turns /\ Turns \notin {Unknown, OffInABadWay}
  <2>1. Asks /\ ~IsFullSet(Region) /\ ~WidthsClash(Region)
    BY <1>3 DEF Decided
  <2>2. PICK x : x = (first + loop.step * taken) % loop.m
    OBVIOUS
  <2>3. CASE Width = loop.m
    <3>1. x \in Word(loop.m)
      <4>1. first + loop.step * taken \in Int /\ loop.m \in Nat /\ loop.m >= 4
        BY <1>1, LoopFacts DEF TypeOK, Word
      <4>2. QED
        BY <4>1, <2>2 DEF Word
    <3>2. Contains(Region, x) <=> GoesOn
      BY <1>1, <2>1, <2>2, <2>3, <3>1, RegionFacts, ConditionTruth
    <3>3. /\ \A j \in 0 .. count - 1 : Contains(Region, (first + loop.step * j) % loop.m)
          /\ ~Contains(Region, (first + loop.step * count) % loop.m)
          /\ count \in Int
      BY <1>1, <1>3, <2>1, <2>3, TurnsFacts, LoopFacts DEF Word
    <3>4. taken # count => taken \in 0 .. count - 1
      BY <1>1, <3>3
    <3>5. QED
      BY <2>2, <3>2, <3>3, <3>4
  <2>4. CASE Width # loop.m
    <3>1. count = 0 /\ \A v \in Word(Width) : ~Contains(Region, v)
      BY <1>1, <1>3, <2>1, <2>4, TurnsFacts
    <3>2. bound.constant /\ Width = bound.m /\ End = bound.word
      BY <2>1, <2>4, AnnotatedFacts DEF Asks, Width, End
    <3>3. \A v \in Word(bound.m) : ~Compare(cond, bound.m, v, bound.word)
      BY <1>1, <2>1, <3>1, <3>2, RegionFacts
    <3>4. \A v \in Word(bound.m) : ~Meets(cond, bound.m, v, bound.word)
      BY <2>1, <3>3 DEF Meets, Asks
    <3>5. ~GoesOn
      BY <1>1, <2>4, <3>2, <3>4, OtherWidthTruth
    <3>6. QED
      BY <1>1, <3>1, <3>5
  <2>5. QED
    BY <2>3, <2>4
<1>4. QED
  BY <1>2, <1>3 DEF IInv, Claimed

LEMMA NextCount ==
    ASSUME \A l \in Loops : Counted(l), IInv, IInv', CountExact, [Next]_vars
    PROVE  CountExact'
<1>1. Counted(loop) /\ taken \in Nat /\ count \in Int
  BY LoopFacts DEF IInv, Setting, TypeOK, Word
<1>2. count' \in Nat
  BY LoopFacts DEF IInv, Setting, TypeOK, Word
<1>3. CASE phase \in {"orient", "simplify", "decide"} /\ taken' = taken /\ phase' # "left"
  BY <1>2, <1>3 DEF IInv, Staged, CountExact
<1>4. CASE Turn
  <2>1. /\ phase = "run" /\ GoesOn /\ taken' = taken + 1 /\ phase' = phase
        /\ claim' = claim /\ count' = count
    BY <1>4 DEF Turn, analysis
  <2>2. claim = "known" => taken # count /\ taken <= count
    BY <1>1, <2>1, GoesOnUntilCount DEF CountExact
  <2>3. QED
    BY <1>1, <2>1, <2>2 DEF CountExact
<1>5. CASE Leave
  <2>1. /\ phase = "run" /\ ~GoesOn /\ taken' = taken
        /\ claim' = claim /\ count' = count
    BY <1>5 DEF Leave, analysis, execution
  <2>2. claim = "known" => taken = count /\ taken <= count
    BY <1>1, <2>1, GoesOnUntilCount DEF CountExact
  <2>3. QED
    BY <2>1, <2>2 DEF CountExact
<1>6. CASE UNCHANGED vars
  BY <1>6 DEF vars, analysis, execution, CountExact
<1>7. CASE Orient
  BY <1>3, <1>7 DEF Orient, execution
<1>8. CASE SimplifyConstant \/ MoveBound \/ MoveVariable
  BY <1>3, <1>8 DEF SimplifyConstant, MoveBound, MoveVariable, Simplifying, execution
<1>9. CASE EndSimplify
  BY <1>3, <1>9 DEF EndSimplify, execution
<1>10. CASE ClaimNever \/ ClaimFromRange \/ ClaimUnknown
  <2>1. \A c, n : Claim(c, n) => phase = "decide" /\ taken' = taken /\ phase' # "left"
    BY DEF Claim, execution
  <2>2. \E c, n : Claim(c, n)
    BY <1>10 DEF ClaimNever, ClaimFromRange, ClaimUnknown
  <2>3. QED
    BY <2>1, <2>2, <1>3
<1>11. QED
  BY <1>4, <1>5, <1>6, <1>7, <1>8, <1>9, <1>10 DEF Next

-----------------------------------------------------------------------------
(* What the analysis keeps of a loop is always a word, and it simplifies a *)
(* condition at most three times (SimplifyICmpOperands).                   *)
THEOREM TypeCorrect == Spec => []TypeOK
<1>1. IInv => TypeOK
  BY DEF IInv
<1>2. QED
  BY <1>1, Inductive, PTL

(* The assertion that the value before the exit is in the range never      *)
(* fails (getNumIterationsInRange): only widths abort the analysis.        *)
THEOREM AssertionHolds == Spec => []LinearComputation
<1>1. IInv => LinearComputation
  BY DEF IInv, Claimed, LinearComputation
<1>2. QED
  BY <1>1, Inductive, PTL

(* A known trip count is the number of times the backedge is taken         *)
(* (ComputeExitLimitFromICmp), for loops whose bounds are read as the      *)
(* words they are.                                                         *)
THEOREM TripCountExact ==
    ASSUME \A l \in Loops : Counted(l)
    PROVE  Spec => []CountExact
<1>1. Init => CountExact
  BY DEF Init, CountExact
<1>2. IInv /\ IInv' /\ CountExact /\ [Next]_vars => CountExact'
  BY NextCount
<1>3. QED
  BY <1>1, <1>2, Inductive, PTL DEF Spec

(* With a step of one, a bound known exactly and of the width of the       *)
(* variable always gives a count (getNumIterationsInRange).                *)
THEOREM UnitStepCounted ==
    ASSUME \A l \in Loops : Counted(l)
    PROVE  Spec => []UnitStepDecided
<1>1. IInv => UnitStepDecided
  <2> SUFFICES ASSUME IInv, phase = "left", loop.constant, loop.step = 1,
                      Annotated \/ (bound.constant /\ bound.m = loop.m), claim # "known"
               PROVE  FALSE
    BY DEF UnitStepDecided
  <2>1. /\ TypeOK /\ Setting /\ Rewritten /\ loop \in Loops /\ ~GoesOn /\ claim = "unknown"
        /\ Counted(loop)
    BY DEF IInv, Setting, Staged
  <2>2. Annotated => ~bound.constant
    BY DEF Annotated
  <2>3. Asks => Width = loop.m
    BY <2>1, <2>2, AnnotatedFacts DEF Width
  <2>4. CASE cond # Never /\ ~Asks
    <3>1. cond = Always
      BY <2>4 DEF Asks
    <3>2. bound.constant /\ bound.m = loop.m
      BY <2>1, <2>2, <3>1, RewrittenFacts DEF Always, AllPredicates, Below, Above
    <3>3. QED
      BY <2>1, <3>1, <3>2, ConstantTruth DEF Meets
  <2>5. CASE Asks /\ IsFullSet(Region)
    <3>1. PICK x : x = (first + loop.step * taken) % loop.m
      OBVIOUS
    <3>2. x \in Word(loop.m)
      <4>1. first + loop.step * taken \in Int /\ loop.m \in Nat /\ loop.m >= 4
        BY <2>1, LoopFacts DEF TypeOK, Word
      <4>2. QED
        BY <4>1, <3>1 DEF Word
    <3>3. Contains(Region, x)
      BY <2>5 DEF Contains, IsFullSet
    <3>4. QED
      BY <2>1, <2>3, <2>5, <3>1, <3>2, <3>3, RegionFacts, ConditionTruth
  <2>6. CASE Decided /\ Turns = Unknown
    BY <2>1, <2>3, <2>6, TurnsFacts DEF Decided
  <2>7. QED
    BY <2>1, <2>4, <2>5, <2>6 DEF IInv, Claimed
<1>2. QED
  BY <1>1, Inductive, PTL
=============================================================================
