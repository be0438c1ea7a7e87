--------------------- MODULE AnnotationRoundTrip_proofs ---------------------
(***************************************************************************)
(* What an annotation keeps while it is read, printed and parsed any       *)
(* number of times, for any assertions, names and widths of int and long.  *)
(***************************************************************************)
EXTENDS AnnotationRoundTrip, Ranges_proofs

(* A range that some text was read as: neither of its ends is one that the *)
(* parser could not read back.                                             *)
Reread(r) ==
    /\ r \in Ranges(N) \cup Ranges(W)
    /\ EmitRange(r) # TextIn(-SignedMax(W) + 1, -SignedMin(W))
    /\ EmitRange(r).lo # -SignedMin(W)

LEMMA ParsedIsReread ==
    ASSUME NEW t, t.kind \in {"eq", "in"}, t.lo \in Int, t.hi \in Int, Accepted(GetConstantRange(t))
    PROVE  Reread(GetConstantRange(t))
<1>1. PICK s, S \in Int :
        /\ N = 2 * s /\ SignedMin(N) = s /\ SignedMax(N) = s - 1
        /\ W = 2 * S /\ SignedMin(W) = S /\ SignedMax(W) = S - 1
        /\ s >= 2 /\ S >= 2 * s
  BY Halves
<1>2. CASE t.kind = "eq"
  <2>1. PICK r \in Ranges(N) : r = GetConstantRange(t)
    BY <1>2, EqualityRange
  <2>2. PICK l \in 0 .. N - 1, h \in 0 .. N - 1 : r.m = N /\ r.lo = l /\ r.hi = h
    BY <2>1, Widths, RangeFacts
  <2>3. Signed(N, l) \in Int /\ Signed(N, h) \in Int /\ Signed(N, l) >= -s /\ Signed(N, h) >= -s
    BY <1>1, <2>2 DEF Signed
  <2>4. EmitRange(r) = TextIn(Signed(N, l), IF Signed(N, h) = -S THEN S - 1 ELSE Signed(N, h) - 1)
    BY <1>1, <2>2 DEF EmitRange
  <2>5. /\ EmitRange(r).lo = Signed(N, l)
        /\ EmitRange(r).hi = IF Signed(N, h) = -S THEN S - 1 ELSE Signed(N, h) - 1
    BY <2>4 DEF TextIn
  <2>6. TextIn(-SignedMax(W) + 1, -SignedMin(W)).hi = -S /\ -SignedMin(W) = -S
    BY <1>1 DEF TextIn
  <2>7. EmitRange(r).lo # -S /\ EmitRange(r).hi # -S
    BY <1>1, <2>3, <2>5
  <2>8. QED
    BY <2>1, <2>6, <2>7 DEF Reread
<1>3. CASE t.kind = "in"
  <2>1. PICK a, b \in Int : a = ReadInteger(t.lo) /\ b = ReadInteger(t.hi)
    BY ReadFacts
  <2>2. a \in -(S - 1) .. S - 1 /\ b \in -(S - 1) .. S - 1
    BY <1>1, <2>1, ReadFacts
  <2>3. PICK l, h : l = Word64(t.lo) /\ h = Plus(W, Word64(t.hi), 1)
    OBVIOUS
  <2>4. l \in Word(W) /\ Signed(W, l) = a /\ Word64(t.hi) \in 0 .. W - 1 /\ Signed(W, Word64(t.hi)) = b
    BY <2>1, <2>3, ReadFacts DEF Word
  <2>5. h \in Word(W) /\ (IF Signed(W, h) = -S THEN S - 1 ELSE Signed(W, h) - 1) = b
    <3>1. PICK u \in 0 .. W - 1 : u = Word64(t.hi)
      BY <2>4
    <3>2. b = (IF 2 * u < W THEN u ELSE u - W) /\ h = (IF u + 1 < W THEN u + 1 ELSE u + 1 - W)
      BY <2>3, <2>4, <3>1 DEF Plus, Signed
    <3>3. QED
      BY <1>1, <2>2, <3>2 DEF Signed, Word
  <2>6. GetConstantRange(t) = MkRange(W, l, h)
    BY <1>3, <2>3 DEF GetConstantRange
  <2>7. Legal(W, l, h)
    BY <2>6 DEF Accepted, MkRange
  <2>8. GetConstantRange(t) \in Ranges(W)
    BY <2>4, <2>5, <2>6, <2>7, Widths, MkRangeLegal
  <2>9. EmitRange(GetConstantRange(t)) = TextIn(a, b)
    BY <1>1, <2>4, <2>5, <2>6 DEF EmitRange, MkRange
  <2>10. TextIn(a, b).lo = a /\ TextIn(a, b).hi = b /\ TextIn(-SignedMax(W) + 1, -SignedMin(W)).hi = -S
    BY <1>1 DEF TextIn
  <2>11. QED
    BY <1>1, <2>2, <2>8, <2>9, <2>10 DEF Reread
<1>4. QED
  BY <1>2, <1>3

(* What is printed of such a range is read as a range that holds of every  *)
(* number the range held of.                                               *)
LEMMA PrintedHolds ==
    ASSUME NEW r, Reread(r)
    PROVE  /\ r.m \in {N, W} /\ r \in Ranges(r.m) /\ r.m \in Moduli
           /\ EmitRange(r).kind = "in" /\ EmitRange(r).lo \in Int /\ EmitRange(r).hi \in Int
           /\ GetConstantRange(EmitRange(r)) \in Ranges(W)
           /\ \A x \in -SignedMin(r.m) .. SignedMax(r.m) :
                Holds(r, x) => Holds(GetConstantRange(EmitRange(r)), x)
<1>1. PICK m \in {N, W} : r \in Ranges(m)
  BY DEF Reread
<1>2. r.m = m /\ m \in Moduli /\ r.lo \in Word(m) /\ r.hi \in Word(m)
  BY <1>1, Widths, RangeFacts DEF Word
<1>3. /\ GetConstantRange(EmitRange(r)) \in Ranges(W)
      /\ \A x \in -SignedMin(m) .. SignedMax(m) :
            Contains(r, x % m) => Holds(GetConstantRange(EmitRange(r)), x)
  BY <1>1, EmitRead DEF Reread
<1>4. Signed(m, r.lo) \in Int /\ Signed(m, r.hi) \in Int /\ SignedMin(W) \in Int /\ SignedMax(W) \in Int
  BY <1>2, SignedFacts, Halves
<1>5. EmitRange(r).kind = "in" /\ EmitRange(r).lo \in Int /\ EmitRange(r).hi \in Int
  BY <1>2, <1>4 DEF EmitRange, TextIn
<1>6. QED
  BY <1>1, <1>2, <1>3, <1>5 DEF Holds

-----------------------------------------------------------------------------
(* The integers of a tree are integers.                                    *)
IntegerLeaves(t) ==
    \E T : /\ t \in T
           /\ \A u \in T :
                /\ u.node = "integer" => u.value \in Int
                /\ IsBinary(u) => u.lhs \in T /\ u.rhs \in T

(* What can be written down: assertions about integers, stores of them.    *)
Written == Stored \subseteq Int /\ \A f \in Source : IntegerLeaves(f.tree)

(* The operands of a relation.                                             *)
LEMMA LeafFacts ==
    ASSUME NEW t, IntegerLeaves(t)
    PROVE  /\ IsBinary(t) => IntegerLeaves(t.lhs) /\ IntegerLeaves(t.rhs)
           /\ \A op : Relates(t, op) => t.rhs.value \in Int
           /\ IsInterval(t) => t.lhs.rhs.value \in Int /\ t.rhs.rhs.value \in Int
<1>1. \A u : IntegerLeaves(u) /\ IsBinary(u) => IntegerLeaves(u.lhs) /\ IntegerLeaves(u.rhs)
  BY DEF IntegerLeaves
<1>2. \A u : IntegerLeaves(u) /\ u.node = "integer" => u.value \in Int
  BY DEF IntegerLeaves
<1>3. \A u : IntegerLeaves(u) => \A op : Relates(u, op) => u.rhs.value \in Int
  BY <1>1, <1>2 DEF Relates
<1>4. IsInterval(t) => t.lhs.rhs.value \in Int /\ t.rhs.rhs.value \in Int
  BY <1>1, <1>3 DEF IsInterval
<1>5. QED
  BY <1>1, <1>3, <1>4

(* Every range is a legal one, every text one that can be parsed; and a    *)
(* text that was printed again is the one of its range.                    *)
Readings ==
    /\ IntegerLeaves(tree)
    /\ stage = "search" => IsBinary(tree) /\ IsBinary(at) /\ IntegerLeaves(at)
    /\ range \in Ranges(N) \cup Ranges(W)
    /\ stage \in {"written", "search", "mapped"} => range \in Ranges(W)
    /\ stage \in {"printed", "emitted"} => text.kind \in {"eq", "in"} /\ text.lo \in Int /\ text.hi \in Int
    /\ stage = "parsed" => Reread(range)
    /\ stage = "emitted" /\ range # NoRange => Reread(range) /\ text = EmitRange(range)

LEMMA InitReadings == Written /\ Init => Readings
<1>1. SUFFICES ASSUME Written, Init PROVE Readings
  OBVIOUS
<1>2. range = NoRange /\ range \in Ranges(W)
  BY <1>1, Widths, EmptyFullLegal DEF Init, NoRange
<1>3. CASE stage = "written" /\ \E f \in Source : tree = f.tree
  BY <1>1, <1>2, <1>3 DEF Readings, Written
<1>4. CASE stage = "emitted" /\ \E n : \E e \in Env : e[n] \in Stored /\ tree = Identifier(n) /\ text = TextEq(e[n])
  <2>1. PICK n, c : c \in Stored /\ tree = Identifier(n) /\ text = TextEq(c)
    BY <1>4
  <2>2. IntegerLeaves(tree)
    <3>1. tree \in {tree} /\ tree.node = "identifier"
      BY <2>1 DEF Identifier
    <3>2. \A u \in {tree} : u.node # "integer" /\ ~IsBinary(u)
      BY <3>1 DEF IsBinary
    <3>3. QED
      BY <3>1, <3>2 DEF IntegerLeaves
  <2>3. text.kind = "eq" /\ text.lo \in Int /\ text.hi \in Int
    BY <1>1, <2>1 DEF TextEq, Written
  <2>4. QED
    BY <1>2, <1>4, <2>2, <2>3 DEF Readings
<1>5. QED
  BY <1>1, <1>3, <1>4 DEF Init

(* What the mapping pass makes of a tree is a legal range of 64 bits.      *)
LEMMA MappedRange ==
    ASSUME NEW l \in Word(W), NEW h \in Word(W), NEW n, Yield(n, MkRange(W, l, h))
    PROVE  /\ tree' = tree /\ at' = at
           /\ \/ stage' = "mapped" /\ range' = MkRange(W, l, h) /\ range' \in Ranges(W) /\ name' = n
              \/ stage' = "aborted" /\ range' = range /\ name' = name /\ ~Legal(W, l, h)
<1>1. Accepted(MkRange(W, l, h)) <=> Legal(W, l, h)
  BY DEF Accepted, MkRange
<1>2. Legal(W, l, h) => MkRange(W, l, h) \in Ranges(W)
  BY Widths, MkRangeLegal
<1>3. QED
  BY <1>1, <1>2 DEF Yield

(* A step of the mapping pass, as far as ranges are concerned.             *)
LEMMA ReadYields ==
    ASSUME Readings, Read
    PROVE  /\ tree' = tree
           /\ stage \in {"written", "search"}
           /\ \/ stage' = "search" /\ range' = range
                 /\ IsBinary(tree) /\ IsBinary(at') /\ IntegerLeaves(at')
              \/ stage' = "mapped" /\ range' \in Ranges(W)
              \/ stage' = "aborted" /\ range' = range
<1>1. CASE ReadEquality
  <2>1. PICK v : v = tree.rhs.value
    OBVIOUS
  <2>2. v \in Int
    BY <1>1, <2>1, LeafFacts DEF Readings, ReadEquality
  <2>3. Word64(v) \in Word(W) /\ Plus(W, Word64(v), 1) \in Word(W)
    BY <2>2, WordsOfNumbers
  <2>4. QED
    BY <1>1, <2>1, <2>3, MappedRange DEF ReadEquality
<1>2. CASE ReadInterval
  <2>1. Word64(tree.lhs.rhs.value) \in Word(W) /\ Word64(tree.rhs.rhs.value) \in Word(W)
    BY <1>2, LeafFacts, WordsOfNumbers DEF Readings, ReadInterval
  <2>2. QED
    BY <1>2, <2>1, MappedRange DEF ReadInterval
<1>3. CASE ReadNothing
  BY <1>3, WordsOfNumbers, MappedRange DEF ReadNothing, Unread
<1>4. CASE StartSearch
  <2>1. IsBinary(tree) /\ at' = tree.lhs /\ IsBinary(tree.lhs) /\ IntegerLeaves(tree)
    BY <1>4 DEF StartSearch, IsDisjunction, Readings
  <2>2. IntegerLeaves(tree.lhs)
    BY <2>1, LeafFacts
  <2>3. QED
    BY <1>4, <2>1, <2>2 DEF StartSearch
<1>5. CASE Descend
  <2>1. IsBinary(tree) /\ IsBinary(at) /\ IntegerLeaves(at)
    BY <1>5 DEF Descend, Readings
  <2>2. IntegerLeaves(at.lhs)
    BY <2>1, LeafFacts
  <2>3. QED
    BY <1>5, <2>1, <2>2 DEF Descend
<1>6. CASE StopSearch
  <2>1. CASE Found
    <3>1. Relates(at, "==") /\ Relates(tree.rhs, "==") /\ IsBinary(tree)
      BY <1>6, <2>1 DEF Found, StopSearch, Readings
    <3>2. at.rhs.value \in Int /\ tree.rhs.rhs.value \in Int
      BY <1>6, <3>1, LeafFacts DEF StopSearch, Readings
    <3>3. QED
      BY <1>6, <2>1, <3>2, WordsOfNumbers, MappedRange DEF StopSearch
  <2>2. CASE ~Found
    BY <1>6, <2>2, WordsOfNumbers, MappedRange DEF StopSearch, Unread
  <2>3. QED
    BY <2>1, <2>2
<1>7. QED
  BY <1>1, <1>2, <1>3, <1>4, <1>5, <1>6 DEF Read

LEMMA NextReadings == Readings /\ [Next]_vars => Readings'
<1>1. SUFFICES ASSUME Readings, [Next]_vars PROVE Readings'
  OBVIOUS
<1>2. CASE Map
  <2>1. text' = text /\ Read
    BY <1>2 DEF Map
  <2>2. QED
    BY <1>1, <2>1, ReadYields DEF Readings
<1>3. CASE Attach
  <2>1. range \in Ranges(W) /\ range' = range /\ tree' = tree /\ stage' = "printed" /\ text' = GetAnnotation(range)
    BY <1>1, <1>3 DEF Attach, Readings
  <2>2. range.lo \in Int /\ range.hi \in Int
    BY <2>1, Widths, RangeFacts
  <2>3. text'.kind \in {"eq", "in"} /\ text'.lo \in Int /\ text'.hi \in Int
    BY <2>1, <2>2 DEF GetAnnotation, TextEq, TextIn
  <2>4. QED
    BY <1>1, <2>1, <2>3 DEF Readings
<1>4. CASE Parse
  <2>1. CASE Accepted(GetConstantRange(text))
    <3>1. Reread(GetConstantRange(text))
      BY <1>1, <1>4, <2>1, ParsedIsReread DEF Parse, Readings
    <3>2. range' = GetConstantRange(text) /\ stage' = "parsed" /\ tree' = tree
      BY <1>4, <2>1 DEF Parse
    <3>3. QED
      BY <1>1, <3>1, <3>2 DEF Readings, Reread
  <2>2. CASE ~Accepted(GetConstantRange(text))
    BY <1>1, <1>4, <2>2 DEF Parse, Readings
  <2>3. QED
    BY <2>1, <2>2
<1>5. CASE Emit
  <2>1. Reread(range) /\ text' = EmitRange(range) /\ range' = range /\ stage' = "emitted" /\ tree' = tree
    BY <1>1, <1>5 DEF Emit, Readings
  <2>2. text'.kind = "in" /\ text'.lo \in Int /\ text'.hi \in Int
    BY <2>1, PrintedHolds
  <2>3. QED
    BY <1>1, <2>1, <2>2 DEF Readings
<1>6. CASE UNCHANGED vars
  BY <1>1, <1>6 DEF vars, Readings
<1>7. QED
  BY <1>1, <1>2, <1>3, <1>4, <1>5, <1>6 DEF Next

THEOREM ReadingsInvariant ==
    ASSUME Written
    PROVE  Spec => []Readings
BY InitReadings, NextReadings, PTL DEF Spec

(* Printing a range and parsing it back loses no member, but the smallest  *)
(* integer, whatever the assertion was and however often the range has     *)
(* been through it (AnnotationPropagation.cpp:347-364,                     *)
(* ConstantRangeUtils.cpp:106-112).                                        *)
THEOREM PrintingLosesNothing ==
    ASSUME Written
    PROVE  Spec => NothingNarrowed
<1>1. Readings /\ [Next]_vars =>
        [stage = "emitted" /\ range # NoRange => Readable(range) \subseteq Readable(range')]_vars
  <2>1. SUFFICES ASSUME Readings, Next, stage = "emitted", range # NoRange
                 PROVE  Readable(range) \subseteq Readable(range')
    OBVIOUS
  <2>2. Parse
    BY <2>1 DEF Next, Map, Read, ReadEquality, ReadInterval, ReadNothing, StartSearch, Descend, StopSearch,
                Attach, Emit
  <2>3. Reread(range) /\ text = EmitRange(range)
    BY <2>1 DEF Readings
  <2>4. CASE range' = range
    BY <2>4
  <2>5. CASE range' = GetConstantRange(text)
    <3>1. PICK m \in {N, W} : m = range.m /\ range \in Ranges(m) /\ m \in Moduli
      BY <2>3, PrintedHolds
    <3>2. PICK q \in Ranges(W) : q = range'
      BY <2>3, <2>5, PrintedHolds
    <3>3. \A x \in -SignedMin(m) .. SignedMax(m) : Contains(range, x % m) => Contains(q, x % W)
      BY <2>3, <2>5, <3>1, <3>2, Widths, RangeFacts, PrintedHolds DEF Holds
    <3>4. ASSUME NEW v \in Members(range) PROVE Signed(m, v) \in {Signed(W, w) : w \in Members(q)}
      <4>1. v \in Word(m) /\ Contains(range, v)
        BY <3>1 DEF Members
      <4>2. PICK x \in -SignedMin(m) .. SignedMax(m) : x = Signed(m, v) /\ x % m = v
        BY <3>1, <4>1, SignedFacts
      <4>3. x \in -SignedMin(W) .. SignedMax(W) /\ Contains(q, x % W)
        BY <3>1, <3>3, <4>1, <4>2, NumbersOfLong
      <4>4. x \in Int /\ Signed(W, x % W) = x /\ x % W \in Word(W) /\ q.m = W
        BY <3>2, <4>3, Widths, SignedOfMod, IntMod, RangeFacts
      <4>5. x % W \in Members(q)
        BY <4>3, <4>4 DEF Members
      <4>6. QED
        BY <4>2, <4>4, <4>5
    <3>5. q.m = W
      BY <3>2, Widths, RangeFacts
    <3>6. QED
      BY <3>1, <3>2, <3>4, <3>5 DEF Readable
  <2>6. QED
    BY <2>2, <2>4, <2>5 DEF Parse
<1>2. QED
  BY <1>1, ReadingsInvariant, PTL DEF NothingNarrowed, Spec

-----------------------------------------------------------------------------
(* The places where the search in a tree may stand: its left operand, and  *)
(* with a disjunction there the left operand of it.                        *)
SearchIn(t, T) ==
    /\ t.lhs \in T
    /\ \A u \in T : u.op = "||" /\ IsBinary(u.lhs) => u.lhs \in T

(* The name an assertion in one of the three forms is about.               *)
Subject(t) ==
    CASE t.op = "==" -> t.lhs.name
      [] t.op = "&&" -> t.lhs.lhs.name
      [] t.op = "||" -> t.rhs.lhs.name

Equality(f) ==
    \E n, c \in Int :
        /\ f.tree = Binary(Identifier(n), "==", Integer(c))
        /\ f.text = TextEq(c) /\ n # Hash

Interval(f) ==
    \E n, lo, hi \in Int :
        /\ f.tree = Binary(Binary(Identifier(n), ">=", Integer(lo)), "&&",
                           Binary(Identifier(n), "<=", Integer(hi)))
        /\ f.text = TextIn(lo, hi) /\ n # Hash

(* Equalities joined to the left, of which the search ends at the first.   *)
Disjunction(f) ==
    \E n, lo, hi \in Int :
        /\ f.tree.node = "binary" /\ f.tree.op = "||" /\ IsBinary(f.tree.lhs)
        /\ f.tree.rhs = Binary(Identifier(n), "==", Integer(hi))
        /\ \E T : SearchIn(f.tree, T)
                  /\ \A u \in T : u.op = "||" \/ u = Binary(Identifier(n), "==", Integer(lo))
        /\ f.text = TextOneOf(lo, hi) /\ n # Hash

(* A tree in none of the forms; where the search ends, if it does, is not  *)
(* a value of the name of the last one.                                    *)
Formless(f) ==
    /\ f.text = TextOther
    /\ ~Relates(f.tree, "==") /\ ~IsInterval(f.tree)
    /\ IsDisjunction(f.tree) =>
         \E T : SearchIn(f.tree, T)
                /\ \A u \in T :
                     \/ u.op = "||"
                     \/ ~(Relates(f.tree.rhs, "==") /\ Relates(u, "==")
                          /\ u.lhs.name = f.tree.rhs.lhs.name)

(* Every text says of its tree which form it has.                          *)
TextsFit == \A f \in Source : Equality(f) \/ Interval(f) \/ Disjunction(f) \/ Formless(f)

(* The assertion is the one it was, until the mapping pass has read it; a  *)
(* search stands in a place where it may stand; and what was read is the   *)
(* range of the text, for the name it is about.                            *)
Origins ==
    stage \in {"written", "search", "mapped"} =>
        \E f \in Source :
            /\ tree = f.tree /\ text = f.text /\ env \in f.true
            /\ stage = "search" => IsDisjunction(tree) /\ \A T : SearchIn(tree, T) => at \in T
            /\ stage = "mapped" =>
                 IF f.text.kind = "other" THEN name = Hash
                 ELSE name = Subject(tree) /\ name # Hash /\ range = RangePair(f.text)

(* The parts of the trees of the three forms.                              *)
LEMMA NodeFacts ==
    ASSUME NEW l, NEW op, NEW r, NEW n, NEW c \in Int
    PROVE  /\ IsBinary(Binary(l, op, r)) /\ Binary(l, op, r).lhs = l /\ Binary(l, op, r).rhs = r
           /\ Binary(l, op, r).op = op
           /\ Identifier(n).node = "identifier" /\ Identifier(n).name = n
           /\ Integer(c).node = "integer" /\ Integer(c).value = ReadInteger(c)
           /\ ~IsBinary(Identifier(n)) /\ ~IsBinary(Integer(c))
BY DEF Binary, Identifier, Integer, IsBinary

LEMMA EqualityTree ==
    ASSUME NEW f, Equality(f)
    PROVE  /\ Relates(f.tree, "==") /\ f.tree.op = "==" /\ f.text.kind = "eq"
           /\ f.text.lo \in Int /\ f.text.hi = f.text.lo
           /\ ~IsInterval(f.tree) /\ ~IsDisjunction(f.tree)
           /\ Subject(f.tree) = f.tree.lhs.name /\ Subject(f.tree) # Hash
           /\ f.tree.rhs.value = ReadInteger(f.text.lo)
<1>1. PICK n, c \in Int :
        f.tree = Binary(Identifier(n), "==", Integer(c)) /\ f.text = TextEq(c) /\ n # Hash
  BY DEF Equality
<1>2. PICK t : t = f.tree
  OBVIOUS
<1>3. /\ IsBinary(t) /\ t.lhs = Identifier(n) /\ t.rhs = Integer(c) /\ t.op = "=="
      /\ t.lhs.node = "identifier" /\ t.lhs.name = n /\ t.rhs.node = "integer" /\ t.rhs.value = ReadInteger(c)
  BY <1>1, <1>2, NodeFacts
<1>4. f.text.kind = "eq" /\ f.text.lo = c /\ f.text.hi = c
  BY <1>1 DEF TextEq
<1>5. QED
  BY <1>1, <1>2, <1>3, <1>4 DEF Relates, IsInterval, IsDisjunction, Subject

LEMMA IntervalTree ==
    ASSUME NEW f, Interval(f)
    PROVE  /\ ~Relates(f.tree, "==") /\ f.tree.op = "&&" /\ f.text.kind = "in"
           /\ f.text.lo \in Int /\ f.text.hi \in Int
           /\ IsInterval(f.tree) /\ ~IsDisjunction(f.tree)
           /\ Subject(f.tree) = f.tree.lhs.lhs.name /\ Subject(f.tree) # Hash
           /\ f.tree.lhs.rhs.value = ReadInteger(f.text.lo) /\ f.tree.rhs.rhs.value = ReadInteger(f.text.hi)
<1>1. PICK n, lo, hi \in Int :
        /\ f.tree = Binary(Binary(Identifier(n), ">=", Integer(lo)), "&&",
                           Binary(Identifier(n), "<=", Integer(hi)))
        /\ f.text = TextIn(lo, hi) /\ n # Hash
  BY DEF Interval
<1>2. PICK t, l, r : t = f.tree /\ l = Binary(Identifier(n), ">=", Integer(lo))
                     /\ r = Binary(Identifier(n), "<=", Integer(hi))
  OBVIOUS
<1>3. IsBinary(t) /\ t.lhs = l /\ t.rhs = r /\ t.op = "&&"
  BY <1>1, <1>2, NodeFacts
<1>4. /\ IsBinary(l) /\ l.op = ">=" /\ l.lhs.node = "identifier" /\ l.lhs.name = n
      /\ l.rhs.node = "integer" /\ l.rhs.value = ReadInteger(lo)
      /\ IsBinary(r) /\ r.op = "<=" /\ r.lhs.node = "identifier" /\ r.lhs.name = n
      /\ r.rhs.node = "integer" /\ r.rhs.value = ReadInteger(hi)
  BY <1>2, NodeFacts
<1>5. f.text.kind = "in" /\ f.text.lo = lo /\ f.text.hi = hi
  BY <1>1 DEF TextIn
<1>6. QED
  BY <1>1, <1>2, <1>3, <1>4, <1>5 DEF Relates, IsInterval, IsDisjunction, Subject

LEMMA DisjunctionTree ==
    ASSUME NEW f, Disjunction(f)
    PROVE  /\ ~Relates(f.tree, "==") /\ f.tree.op = "||" /\ f.text.kind = "oneof"
           /\ f.text.lo \in Int /\ f.text.hi \in Int
           /\ ~IsInterval(f.tree) /\ IsDisjunction(f.tree) /\ Relates(f.tree.rhs, "==")
           /\ Subject(f.tree) = f.tree.rhs.lhs.name /\ Subject(f.tree) # Hash
           /\ f.tree.rhs.rhs.value = ReadInteger(f.text.hi)
           /\ \E T : SearchIn(f.tree, T)
                     /\ \A u \in T : \/ u.op = "||"
                                     \/ /\ Relates(u, "==") /\ u.lhs.name = Subject(f.tree)
                                        /\ u.rhs.value = ReadInteger(f.text.lo)
<1>1. PICK n, lo, hi \in Int :
        /\ f.tree.node = "binary" /\ f.tree.op = "||" /\ IsBinary(f.tree.lhs)
        /\ f.tree.rhs = Binary(Identifier(n), "==", Integer(hi))
        /\ \E T : SearchIn(f.tree, T)
                  /\ \A u \in T : u.op = "||" \/ u = Binary(Identifier(n), "==", Integer(lo))
        /\ f.text = TextOneOf(lo, hi) /\ n # Hash
  BY DEF Disjunction
<1>2. PICK t, r, e : t = f.tree /\ r = t.rhs /\ e = Binary(Identifier(n), "==", Integer(lo))
  OBVIOUS
<1>3. /\ IsBinary(e) /\ e.op = "==" /\ e.lhs.node = "identifier" /\ e.lhs.name = n
      /\ e.rhs.node = "integer" /\ e.rhs.value = ReadInteger(lo)
      /\ IsBinary(r) /\ r.op = "==" /\ r.lhs.node = "identifier" /\ r.lhs.name = n
      /\ r.rhs.node = "integer" /\ r.rhs.value = ReadInteger(hi)
  BY <1>1, <1>2, NodeFacts
<1>4. f.text.kind = "oneof" /\ f.text.lo = lo /\ f.text.hi = hi
  BY <1>1 DEF TextOneOf
<1>5. IsBinary(t) /\ t.op = "||" /\ IsBinary(t.lhs)
  BY <1>1, <1>2 DEF IsBinary
<1>6. Subject(t) = n
  BY <1>2, <1>3, <1>5 DEF Subject
<1>7. Relates(e, "==") /\ Relates(r, "==") /\ IsDisjunction(t) /\ ~Relates(t, "==") /\ ~IsInterval(t)
  BY <1>2, <1>3, <1>5 DEF Relates, IsDisjunction, IsInterval
<1>8. PICK T : SearchIn(t, T) /\ \A u \in T : u.op = "||" \/ u = e
  BY <1>1, <1>2
<1>9. \A u \in T : u.op = "||" \/ (Relates(u, "==") /\ u.lhs.name = n /\ u.rhs.value = ReadInteger(lo))
  BY <1>3, <1>7, <1>8
<1>10. QED
  BY <1>1, <1>2, <1>3, <1>4, <1>5, <1>6, <1>7, <1>8, <1>9

(* Reading digits twice is reading them once, so that the range made of    *)
(* the tree is the range of the text.                                      *)
LEMMA TextRange ==
    ASSUME NEW t, t.lo \in Int, t.hi \in Int
    PROVE  /\ t.kind = "eq" =>
                RangePair(t) = MkRange(W, Word64(ReadInteger(t.lo)), Plus(W, Word64(ReadInteger(t.lo)), 1))
           /\ t.kind = "in" => RangePair(t) = MkRange(W, Word64(ReadInteger(t.lo)), Word64(ReadInteger(t.hi)))
           /\ t.kind = "oneof" =>
                RangePair(t) = MkRange(W, FromSigned(W, ToInt(ReadInteger(t.lo))),
                                          FromSigned(W, ToInt(ReadInteger(t.hi))))
<1>1. \A n \in Int : Word64(ReadInteger(n)) = Word64(n) /\ ToInt(ReadInteger(n)) = ToInt(n)
  BY ReadFacts DEF Word64, ToInt, Word32
<1>2. QED
  BY <1>1 DEF RangePair

LEMMA InitOrigins == Init => Origins
BY DEF Init, Origins

(* One step of the mapping pass, with the assertion it reads: the search   *)
(* goes on, or the range of the text is the outcome, or that of no form.   *)
LEMMA MapOutcome ==
    ASSUME TextsFit, Origins, Map
    PROVE  \E f \in Source :
             /\ tree = f.tree /\ text = f.text /\ env \in f.true
             /\ \/ /\ stage' = "search" /\ UNCHANGED <<tree, name, range>>
                   /\ IsDisjunction(tree) /\ \A T : SearchIn(tree, T) => at' \in T
                \/ f.text.kind = "other" /\ Yield(Hash, MkRange(W, 0, 1))
                \/ /\ f.text.kind # "other" /\ Subject(tree) # Hash
                   /\ f.text.lo \in Int /\ f.text.hi \in Int
                   /\ Yield(Subject(tree), RangePair(f.text))
<1>1. stage \in {"written", "search"} /\ (stage = "search" <=> Descend \/ StopSearch)
  BY DEF Map, Read, ReadEquality, ReadInterval, ReadNothing, StartSearch, Descend, StopSearch
<1>2. PICK f \in Source :
        /\ tree = f.tree /\ text = f.text /\ env \in f.true
        /\ stage = "search" => IsDisjunction(tree) /\ \A T : SearchIn(tree, T) => at \in T
  BY <1>1 DEF Origins
<1>3. SUFFICES
        \/ /\ stage' = "search" /\ UNCHANGED <<tree, name, range>>
           /\ IsDisjunction(tree) /\ \A T : SearchIn(tree, T) => at' \in T
        \/ f.text.kind = "other" /\ Yield(Hash, MkRange(W, 0, 1))
        \/ /\ f.text.kind # "other" /\ Subject(tree) # Hash
           /\ f.text.lo \in Int /\ f.text.hi \in Int
           /\ Yield(Subject(tree), RangePair(f.text))
  BY <1>2
<1>4. Equality(f) \/ Interval(f) \/ Disjunction(f) \/ Formless(f)
  BY <1>2 DEF TextsFit
<1>5. Formless(f) => f.text.kind = "other"
  BY DEF Formless, TextOther
<1>6. CASE ReadEquality
  <2>1. Relates(tree, "==")
    BY <1>6 DEF ReadEquality
  <2>2. Equality(f)
    BY <1>2, <1>4, <2>1, IntervalTree, DisjunctionTree DEF Formless
  <2>3. PICK v : v = tree.rhs.value
    OBVIOUS
  <2>4. Yield(tree.lhs.name, MkRange(W, Word64(v), Plus(W, Word64(v), 1)))
    BY <1>6, <2>3 DEF ReadEquality
  <2>5. /\ f.text.kind = "eq" /\ v = ReadInteger(f.text.lo) /\ f.text.lo \in Int /\ f.text.hi \in Int
        /\ Subject(tree) = tree.lhs.name /\ Subject(tree) # Hash
    BY <1>2, <2>2, <2>3, EqualityTree
  <2>6. RangePair(f.text) = MkRange(W, Word64(v), Plus(W, Word64(v), 1))
    BY <2>5, TextRange
  <2>7. QED
    BY <2>4, <2>5, <2>6
<1>7. CASE ReadInterval
  <2>1. IsInterval(tree)
    BY <1>7 DEF ReadInterval
  <2>2. Interval(f)
    BY <1>2, <1>4, <2>1, EqualityTree, DisjunctionTree DEF Formless
  <2>3. PICK u, v : u = tree.lhs.rhs.value /\ v = tree.rhs.rhs.value
    OBVIOUS
  <2>4. Yield(tree.lhs.lhs.name, MkRange(W, Word64(u), Word64(v)))
    BY <1>7, <2>3 DEF ReadInterval
  <2>5. /\ f.text.kind = "in" /\ u = ReadInteger(f.text.lo) /\ v = ReadInteger(f.text.hi)
        /\ f.text.lo \in Int /\ f.text.hi \in Int /\ Subject(tree) = tree.lhs.lhs.name /\ Subject(tree) # Hash
    BY <1>2, <2>2, <2>3, IntervalTree
  <2>6. RangePair(f.text) = MkRange(W, Word64(u), Word64(v))
    BY <2>5, TextRange
  <2>7. QED
    BY <2>4, <2>5, <2>6
<1>8. CASE ReadNothing
  <2>1. ~Relates(tree, "==") /\ ~IsInterval(tree) /\ ~IsDisjunction(tree)
    BY <1>8 DEF ReadNothing
  <2>2. Formless(f)
    BY <1>2, <1>4, <2>1, EqualityTree, IntervalTree, DisjunctionTree
  <2>3. QED
    BY <1>5, <1>8, <2>2 DEF ReadNothing, Unread
<1>9. CASE StartSearch
  BY <1>9 DEF StartSearch, SearchIn
<1>10. CASE Descend
  <2>1. /\ stage' = "search" /\ at.op = "||" /\ UNCHANGED <<tree, name, range>>
        /\ IsDisjunction(tree) /\ \A T : SearchIn(tree, T) => at \in T
    BY <1>1, <1>2, <1>10 DEF Descend
  <2>2. at' = IF IsBinary(at.lhs) THEN at.lhs ELSE at
    BY <1>10 DEF Descend
  <2>3. ASSUME NEW T, SearchIn(tree, T) PROVE at' \in T
    BY <2>1, <2>2, <2>3 DEF SearchIn
  <2>4. QED
    BY <2>1, <2>3
<1>11. CASE StopSearch
  <2>1. IsDisjunction(tree) /\ at.op # "||" /\ \A T : SearchIn(tree, T) => at \in T
    BY <1>1, <1>2, <1>11 DEF StopSearch
  <2>2. CASE Disjunction(f)
    <3>1. PICK T : SearchIn(tree, T)
                   /\ \A u \in T : \/ u.op = "||"
                                   \/ /\ Relates(u, "==") /\ u.lhs.name = Subject(tree)
                                      /\ u.rhs.value = ReadInteger(f.text.lo)
      BY <1>2, <2>2, DisjunctionTree
    <3>2. Relates(at, "==") /\ at.lhs.name = Subject(tree) /\ at.rhs.value = ReadInteger(f.text.lo)
      BY <2>1, <3>1
    <3>3. /\ Relates(tree.rhs, "==") /\ tree.rhs.lhs.name = Subject(tree) /\ Subject(tree) # Hash
          /\ tree.rhs.rhs.value = ReadInteger(f.text.hi)
          /\ f.text.kind = "oneof" /\ f.text.lo \in Int /\ f.text.hi \in Int
      BY <1>2, <2>2, DisjunctionTree
    <3>4. Found
      BY <3>2, <3>3 DEF Found
    <3>5. PICK u, v : u = at.rhs.value /\ v = tree.rhs.rhs.value
      OBVIOUS
    <3>6. Yield(at.lhs.name, MkRange(W, FromSigned(W, ToInt(u)), FromSigned(W, ToInt(v))))
      BY <1>11, <3>4, <3>5 DEF StopSearch
    <3>7. RangePair(f.text) = MkRange(W, FromSigned(W, ToInt(u)), FromSigned(W, ToInt(v)))
      BY <3>2, <3>3, <3>5, TextRange
    <3>8. QED
      BY <3>2, <3>3, <3>6, <3>7
  <2>3. CASE Formless(f)
    <3>1. PICK T : SearchIn(tree, T)
                   /\ \A u \in T :
                        \/ u.op = "||"
                        \/ ~(Relates(tree.rhs, "==") /\ Relates(u, "==") /\ u.lhs.name = tree.rhs.lhs.name)
      BY <1>2, <2>1, <2>3 DEF Formless
    <3>2. ~Found
      BY <2>1, <3>1 DEF Found
    <3>3. QED
      BY <1>5, <1>11, <2>3, <3>2 DEF StopSearch, Unread
  <2>4. QED
    BY <1>2, <1>4, <2>1, <2>2, <2>3, EqualityTree, IntervalTree
<1>12. QED
  BY <1>6, <1>7, <1>8, <1>9, <1>10, <1>11 DEF Map, Read

LEMMA ReadOrigins ==
    ASSUME TextsFit, Origins, Map
    PROVE  Origins'
<1>1. text' = text /\ env' = env
  BY DEF Map
<1>2. PICK f \in Source :
        /\ tree = f.tree /\ text = f.text /\ env \in f.true
        /\ \/ /\ stage' = "search" /\ UNCHANGED <<tree, name, range>>
              /\ IsDisjunction(tree) /\ \A T : SearchIn(tree, T) => at' \in T
           \/ f.text.kind = "other" /\ Yield(Hash, MkRange(W, 0, 1))
           \/ /\ f.text.kind # "other" /\ Subject(tree) # Hash
              /\ f.text.lo \in Int /\ f.text.hi \in Int
              /\ Yield(Subject(tree), RangePair(f.text))
  BY MapOutcome
<1>3. tree' = tree /\ stage' \in {"search", "mapped", "aborted"}
  BY <1>2 DEF Yield
<1>4. CASE stage' = "search"
  BY <1>1, <1>2, <1>3, <1>4 DEF Origins, Yield
<1>5. CASE stage' = "mapped"
  <2>1. IF f.text.kind = "other" THEN name' = Hash
        ELSE name' = Subject(tree) /\ name' # Hash /\ range' = RangePair(f.text)
    BY <1>2, <1>5 DEF Yield
  <2>2. QED
    BY <1>1, <1>2, <1>3, <1>5, <2>1 DEF Origins
<1>6. CASE stage' = "aborted"
  BY <1>6 DEF Origins
<1>7. QED
  BY <1>3, <1>4, <1>5, <1>6

THEOREM OriginsInvariant ==
    ASSUME TextsFit
    PROVE  Spec => []Origins
<1>1. Origins /\ [Next]_vars => Origins'
  <2>1. SUFFICES ASSUME Origins, [Next]_vars PROVE Origins'
    OBVIOUS
  <2>2. CASE Map
    BY <2>1, <2>2, ReadOrigins
  <2>3. CASE Attach \/ Parse \/ Emit
    BY <2>3 DEF Attach, Parse, Emit, Origins
  <2>4. CASE UNCHANGED vars
    BY <2>1, <2>4 DEF vars, Origins
  <2>5. QED
    BY <2>1, <2>2, <2>3, <2>4 DEF Next
<1>2. QED
  BY <1>1, InitOrigins, PTL DEF Spec

(* The mapping pass makes of a tree the range of its text, whichever way   *)
(* the disjunction is built and however long the search for its first      *)
(* value is, and of a tree in none of the forms a range no variable gets   *)
(* (getRangePair, AnnotationMapping.cpp:1054-1299).                        *)
THEOREM TreesReadAsTexts ==
    ASSUME TextsFit
    PROVE  Spec => []FormsRead
<1>1. Origins => FormsRead
  BY DEF Origins, FormsRead
<1>2. QED
  BY <1>1, OriginsInvariant, PTL

-----------------------------------------------------------------------------
(* What survives the trip (Printable), of a claim about a name that has a  *)
(* value where the assertion stands.                                       *)
Survives(f) ==
    /\ \A e \in f.true : Subject(f.tree) \in DOMAIN e /\ e[Subject(f.tree)] \in f.text.lo .. f.text.hi
    /\ Printable(f.text)

Kept ==
    /\ Stored \subseteq Ints
    /\ \A d, e \in Env : DOMAIN d = DOMAIN e
    /\ \A f \in Source :
        f.true \subseteq Env /\ IntegerLeaves(f.tree) /\ (f.text.kind # "other" => Survives(f))

(* An assertion in one of the three forms has a text of its form.          *)
LEMMA TextOfTree ==
    ASSUME NEW f, Equality(f) \/ Interval(f) \/ Disjunction(f)
    PROVE  f.text.kind \in {"eq", "in", "oneof"} /\ f.text.lo \in Int /\ f.text.hi \in Int
<1>1. CASE Equality(f)
  <2>1. PICK c \in Int : f.text = TextEq(c)
    BY <1>1 DEF Equality
  <2>2. QED
    BY <2>1 DEF TextEq
<1>2. CASE Interval(f) \/ Disjunction(f)
  BY <1>2, IntervalTree, DisjunctionTree
<1>3. QED
  BY <1>1, <1>2

(* Whatever survives is mapped, printed and read as a range that holds of  *)
(* the value the claim was about.                                          *)
LEMMA ClaimPrinted ==
    ASSUME NEW f, Equality(f) \/ Interval(f) \/ Disjunction(f), Survives(f), NEW e \in f.true
    PROVE  /\ Subject(f.tree) \in DOMAIN e
           /\ LET x == e[Subject(f.tree)]
                  r == RangePair(f.text)
              IN  Accepted(r) /\ SaysOf(GetAnnotation(r), x) /\ x \in Longs
<1>1. PICK x : x = e[Subject(f.tree)]
  OBVIOUS
<1>2. Subject(f.tree) \in DOMAIN e /\ x \in f.text.lo .. f.text.hi /\ Printable(f.text)
  BY <1>1 DEF Survives
<1>3. QED
  BY <1>1, <1>2, TextOfTree, TextPrinted

(* A text that is about to be parsed, and a range that was, say of the     *)
(* value what they should; and no conversion has failed.                   *)
Values ==
    /\ env \in Env
    /\ stage \in {"written", "search", "mapped", "printed", "parsed", "emitted"}
    /\ name \in DOMAIN env \cup {Hash}
    /\ text.kind \in {"eq", "in", "oneof", "other"}
    /\ stage \in {"written", "search"} => name = Hash
    /\ stage \in {"printed", "emitted"} =>
        name \in DOMAIN env /\ env[name] \in Longs /\ SaysOf(text, env[name])
    /\ stage = "parsed" =>
        /\ name \in DOMAIN env /\ env[name] \in Longs /\ Holds(range, env[name])
        /\ range.m = N => env[name] \in Ints

IInv == Readings /\ Origins /\ Values

LEMMA InitValues == Kept /\ TextsFit /\ Init => Values
<1>1. SUFFICES ASSUME Kept, TextsFit, Init PROVE Values
  OBVIOUS
<1>2. CASE stage = "written" /\ name = Hash /\ \E f \in Source : text = f.text /\ env \in f.true
  <2>1. PICK f \in Source : text = f.text /\ env \in f.true
    BY <1>2
  <2>2. env \in Env
    BY <1>1, <2>1 DEF Kept
  <2>3. Equality(f) \/ Interval(f) \/ Disjunction(f) \/ Formless(f)
    BY <1>1 DEF TextsFit
  <2>4. Formless(f) => f.text.kind = "other"
    BY DEF Formless, TextOther
  <2>5. text.kind \in {"eq", "in", "oneof", "other"}
    BY <2>1, <2>3, <2>4, EqualityTree, IntervalTree, DisjunctionTree
  <2>6. QED
    BY <1>2, <2>2, <2>5 DEF Values
<1>3. CASE stage = "emitted" /\ env \in Env /\ \E n : n \in UNION {DOMAIN e : e \in Env}
                             /\ env[n] \in Stored /\ name = n /\ text = TextEq(env[n])
  <2>1. name \in DOMAIN env /\ env[name] \in Ints /\ text = TextEq(env[name])
    BY <1>1, <1>3 DEF Kept
  <2>2. PICK c \in Ints : c = env[name]
    BY <2>1
  <2>3. c \in Int /\ c \in Longs
    BY NumbersOfLong, Halves DEF Ints, Longs
  <2>4. text.kind = "eq" /\ text.lo = c /\ text.hi = c
    BY <2>1, <2>2 DEF TextEq
  <2>5. ReadInteger(c) = c
    BY <2>3, Halves, ReadFacts DEF Ints
  <2>6. GetConstantRange(text) \in Ranges(N) /\ Holds(GetConstantRange(text), c)
    BY <2>3, <2>4, <2>5, EqualityRange
  <2>7. Accepted(GetConstantRange(text))
    BY <2>6, Widths, RangeFacts DEF Accepted, Ranges
  <2>8. SaysOf(text, c)
    BY <2>3, <2>4, <2>6, <2>7 DEF SaysOf
  <2>9. QED
    BY <1>3, <2>1, <2>2, <2>3, <2>4, <2>8 DEF Values
<1>4. QED
  BY <1>1, <1>2, <1>3 DEF Init

LEMMA NextValues == Kept /\ TextsFit /\ IInv /\ [Next]_vars => Values'
<1>1. SUFFICES ASSUME Kept, TextsFit, Readings, Origins, Values, [Next]_vars PROVE Values'
  BY DEF IInv
<1>2. CASE Map
  <2>1. text' = text /\ env' = env /\ name = Hash
    BY <1>1, <1>2 DEF Map, Read, ReadEquality, ReadInterval, ReadNothing, StartSearch, Descend, StopSearch,
                      Values
  <2>2. PICK f \in Source :
          /\ tree = f.tree /\ text = f.text /\ env \in f.true
          /\ \/ stage' = "search" /\ UNCHANGED <<tree, name, range>>
             \/ f.text.kind = "other" /\ Yield(Hash, MkRange(W, 0, 1))
             \/ f.text.kind # "other" /\ Yield(Subject(tree), RangePair(f.text))
    BY <1>1, <1>2, MapOutcome
  <2>3. CASE stage' = "search" /\ UNCHANGED <<tree, name, range>>
    BY <1>1, <2>1, <2>3 DEF Values
  <2>4. CASE Yield(Hash, MkRange(W, 0, 1))
    <3>1. Accepted(MkRange(W, 0, 1))
      BY DEF Accepted, Legal, MkRange
    <3>2. stage' = "mapped" /\ name' = Hash
      BY <2>4, <3>1 DEF Yield
    <3>3. QED
      BY <1>1, <2>1, <3>2 DEF Values
  <2>5. CASE f.text.kind # "other" /\ Yield(Subject(tree), RangePair(f.text))
    <3>1. Equality(f) \/ Interval(f) \/ Disjunction(f)
      BY <1>1, <2>5 DEF TextsFit, Formless, TextOther
    <3>2. Survives(f)
      BY <1>1, <2>5 DEF Kept
    <3>3. Subject(tree) \in DOMAIN env /\ Accepted(RangePair(f.text))
      BY <2>2, <3>1, <3>2, ClaimPrinted
    <3>4. stage' = "mapped" /\ name' = Subject(tree)
      BY <2>5, <3>3 DEF Yield
    <3>5. QED
      BY <1>1, <2>1, <3>3, <3>4 DEF Values
  <2>6. QED
    BY <2>2, <2>3, <2>4, <2>5
<1>3. CASE Attach
  <2>1. stage = "mapped" /\ name # Hash /\ text' = GetAnnotation(range) /\ stage' = "printed"
        /\ UNCHANGED <<tree, at, name, range, env>>
    BY <1>3 DEF Attach
  <2>2. PICK f \in Source :
          /\ tree = f.tree /\ env \in f.true /\ f.text.kind # "other"
          /\ name = Subject(tree) /\ range = RangePair(f.text)
    BY <1>1, <2>1 DEF Origins
  <2>3. Equality(f) \/ Interval(f) \/ Disjunction(f)
    BY <1>1, <2>2 DEF TextsFit, Formless, TextOther
  <2>4. Survives(f)
    BY <1>1, <2>2 DEF Kept
  <2>5. name \in DOMAIN env /\ env[name] \in Longs /\ SaysOf(GetAnnotation(range), env[name])
    BY <2>2, <2>3, <2>4, ClaimPrinted
  <2>6. text'.kind \in {"eq", "in"}
    BY <2>1, <2>5 DEF SaysOf
  <2>7. QED
    BY <1>1, <2>1, <2>5, <2>6 DEF Values
<1>4. CASE Parse
  <2>1. /\ name \in DOMAIN env /\ env[name] \in Longs /\ SaysOf(text, env[name])
        /\ UNCHANGED <<tree, at, name, text, env>>
    BY <1>1, <1>4 DEF Parse, Values
  <2>2. range' = GetConstantRange(text) /\ stage' = "parsed"
    BY <1>4, <2>1 DEF Parse, SaysOf
  <2>3. GetConstantRange(text).m = N => env[name] \in Ints
    <3>1. N # W
      BY Widths
    <3>2. text.kind = "in" => GetConstantRange(text).m = W
      BY DEF GetConstantRange, MkRange
    <3>3. QED
      BY <2>1, <3>1, <3>2 DEF SaysOf
  <2>4. QED
    BY <1>1, <2>1, <2>2, <2>3 DEF Values, SaysOf
<1>5. CASE Emit
  <2>1. stage = "parsed" /\ text' = EmitRange(range) /\ stage' = "emitted"
        /\ UNCHANGED <<tree, at, name, range, env>>
    BY <1>5 DEF Emit
  <2>2. PICK x : x = env[name]
    OBVIOUS
  <2>3. Reread(range) /\ name \in DOMAIN env /\ x \in Longs /\ Holds(range, x) /\ (range.m = N => x \in Ints)
    BY <1>1, <2>1, <2>2 DEF Readings, Values
  <2>4. x \in -SignedMin(range.m) .. SignedMax(range.m)
    BY <2>3, PrintedHolds DEF Longs, Ints
  <2>5. PICK t, q : t = EmitRange(range) /\ q = GetConstantRange(t)
    OBVIOUS
  <2>6. t.kind = "in" /\ t.lo \in Int /\ t.hi \in Int /\ q \in Ranges(W) /\ Holds(q, x)
    BY <2>3, <2>4, <2>5, PrintedHolds
  <2>7. Accepted(q)
    BY <2>6, Widths, RangeFacts DEF Accepted, Ranges
  <2>8. SaysOf(t, x)
    BY <2>5, <2>6, <2>7 DEF SaysOf
  <2>9. QED
    BY <1>1, <2>1, <2>2, <2>3, <2>5, <2>6, <2>8 DEF Values
<1>6. CASE UNCHANGED vars
  BY <1>1, <1>6 DEF vars, Values
<1>7. QED
  BY <1>1, <1>2, <1>3, <1>4, <1>5, <1>6 DEF Next

LEMMA KeptWritten == Kept => Written
<1>1. Ints \subseteq Int
  BY Halves DEF Ints
<1>2. QED
  BY <1>1 DEF Kept, Written

(* The inductive invariant of the life of an annotation.                   *)
THEOREM Inductive ==
    ASSUME Kept, TextsFit
    PROVE  Spec => []IInv
<1>1. Spec => []Readings
  BY KeptWritten, ReadingsInvariant
<1>2. Spec => []Origins
  BY OriginsInvariant
<1>3. Init => Values
  BY InitValues
<1>4. Readings /\ Origins /\ Values /\ [Next]_vars => Values'
  BY NextValues DEF IInv
<1>5. IInv <=> Readings /\ Origins /\ Values
  BY DEF IInv
<1>6. QED
  BY <1>1, <1>2, <1>3, <1>4, <1>5, PTL DEF Spec

(* No conversion fails the assertion of the constructor, and the annotation*)
(* is about a name of the program or about none (getRangePair,             *)
(* getConstantRange).                                                      *)
THEOREM TypeCorrect ==
    ASSUME Kept, TextsFit
    PROVE  Spec => []TypeOK
<1>1. IInv => TypeOK
  BY DEF IInv, Readings, Values, TypeOK
<1>2. QED
  BY <1>1, Inductive, PTL

(* However often an annotation was printed and parsed, the range that a    *)
(* consumer reads holds of the value Frama-C made its claim about          *)
(* (AnnotationMapping.cpp:1054-1299, ConstantRangeUtils.cpp:49-123).        *)
THEOREM AnnotationKeepsValue ==
    ASSUME Kept, TextsFit
    PROVE  Spec => []ValueKept
<1>1. IInv => ValueKept
  BY DEF IInv, Values, ValueKept
<1>2. QED
  BY <1>1, Inductive, PTL
=============================================================================
