-------------------------- MODULE RemoveIOC_proofs --------------------------
(***************************************************************************)
(* What the removal of overflow checks does to the code, for functions of  *)
(* any number of blocks and texts of any intervals.  First the code: the   *)
(* two deques stay in step, nothing that is used is erased, and one walk   *)
(* finds every check the ranges show to be redundant.  Then what executing *)
(* it does: no check is removed that would have failed, the range put on   *)
(* an operation holds of its result, and the execution stays the same at   *)
(* every step of the pass (Elimination).                                   *)
(***************************************************************************)
EXTENDS RemoveIOC, Ranges_proofs, WellFoundedInduction

(* Sums and differences of legal ranges are legal unless the widths clash. *)
LEMMA SumLegal ==
    ASSUME NEW m \in Moduli, NEW n \in Moduli, NEW a \in Ranges(m), NEW b \in Ranges(n), ~AddAsserts(a, b)
    PROVE  Add(a, b) \in Ranges(m) /\ Sub(a, b) \in Ranges(m)
<1>1. a.m = m /\ b.m = n
  BY RangeFacts
<1>2. CASE m = n
  BY <1>2, AddSound, SubSound
<1>3. CASE m # n
  <2>1. Add(a, b) \in {EmptySet(m), FullSet(m)} /\ Sub(a, b) \in {EmptySet(m), FullSet(m)}
    BY <1>1, <1>3 DEF AddAsserts, Add, Sub
  <2>2. QED
    BY <2>1, EmptyFullLegal
<1>4. QED
  BY <1>2, <1>3

Multiplications == {"smul", "umul"}
Additions == {"sadd", "uadd"}
Subtractions == {"ssub", "usub"}

(* The operations are multiplications, additions and subtractions.         *)
LEMMA OperationsSplit ==
    ASSUME NEW op \in Signeds \cup Unsigneds, NEW a, NEW b
    PROVE  /\ op \in Multiplications \/ op \in Additions \/ op \in Subtractions
           /\ op \in Multiplications =>
                ResultRange(op, a, b) = Multiply(a, b) /\ (Asserts(op, a, b) <=> MultiplyAsserts(a, b))
           /\ op \in Additions => ResultRange(op, a, b) = Add(a, b) /\ (Asserts(op, a, b) <=> AddAsserts(a, b))
           /\ op \in Subtractions => ResultRange(op, a, b) = Sub(a, b) /\ (Asserts(op, a, b) <=> AddAsserts(a, b))
<1>1. op \in {"smul", "sadd", "ssub", "umul", "uadd", "usub"}
  BY DEF Signeds, Unsigneds
<1>2. CASE op \in {"smul", "umul"}
  BY <1>2 DEF Multiplications, Additions, Subtractions, ResultRange, Asserts
<1>3. CASE op \in {"sadd", "uadd"}
  BY <1>3 DEF Multiplications, Additions, Subtractions, ResultRange, Asserts
<1>4. CASE op \in {"ssub", "usub"}
  BY <1>4 DEF Multiplications, Additions, Subtractions, ResultRange, Asserts
<1>5. QED
  BY <1>1, <1>2, <1>3, <1>4

(* The range of an operation on legal ranges is legal.                     *)
LEMMA ResultRangeLegal ==
    ASSUME NEW op \in Signeds \cup Unsigneds, NEW m \in Moduli, NEW n \in Moduli,
           NEW a \in Ranges(m), NEW b \in Ranges(n), ~Asserts(op, a, b)
    PROVE  ResultRange(op, a, b) \in Ranges(m)
BY OperationsSplit, SumLegal, MultiplyLegal

(* A range within the limits is not the one whose text cannot be read.     *)
LEMMA WithinLimitsReread ==
    ASSUME NEW op \in Signeds \cup Unsigneds, NEW m \in {N, W}, NEW r \in Ranges(m),
           ContainsRange(Limit(op, m), r)
    PROVE  /\ EmitRange(r) \in [kind : {"in"}, lo : Int, hi : Int]
           /\ EmitRange(r) # TextIn(-SignedMax(W) + 1, -SignedMin(W))
           /\ GetConstantRange(EmitRange(r)) \in Ranges(W)
<1>1. PICK s, S \in Int :
        /\ N = 2 * s /\ SignedMin(N) = s /\ SignedMax(N) = s - 1
        /\ W = 2 * S /\ SignedMin(W) = S /\ SignedMax(W) = S - 1
        /\ s >= 2 /\ S >= 2 * s
  BY Halves
<1> DEFINE l == r.lo
           h == r.hi
           low == Signed(m, l)
           high == IF Signed(m, h) = -S THEN S - 1 ELSE Signed(m, h) - 1
<1>2. m \in Moduli /\ r = MkRange(m, l, h) /\ r.m = m /\ l \in 0 .. m - 1 /\ h \in 0 .. m - 1 /\ m \in Nat
      /\ (l = h => l = 0 \/ l = m - 1)
  BY NumbersOfLong, RangeFacts DEF Moduli
<1>3. EmitRange(r) = TextIn(low, high)
  BY <1>1, <1>2 DEF EmitRange
<1>4. CASE low = -S + 2 /\ high = -S
  <2>1. m = W /\ l = S + 2 /\ h = S + 1
    <3> HIDE DEF l, h
    <3>1. CASE m = N
      BY <1>1, <1>2, <1>4, <3>1 DEF Signed
    <3>2. CASE m = W
      BY <1>1, <1>2, <1>4, <3>2 DEF Signed
    <3>3. QED
      BY <3>1, <3>2
  <2>2. Limit(op, m) = MkRange(W, S, S - 1) \/ Limit(op, m) = MkRange(W, 0, W - 1)
    BY <1>1, <2>1 DEF Limit
  <2>3. ~ContainsRange(MkRange(W, S, S - 1), r) /\ ~ContainsRange(MkRange(W, 0, W - 1), r)
    <3>1. r = MkRange(W, S + 2, S + 1)
      BY <1>2, <2>1
    <3>2. QED
      BY <1>1, <3>1 DEF ContainsRange, IsFullSet, IsEmptySet, IsWrappedSet, MkRange
  <2>4. QED
    BY <2>2, <2>3
<1>5. CASE ~(low = -S + 2 /\ high = -S)
  <2> HIDE DEF l, h
  <2>1. low \in Int /\ high \in Int
    BY <1>1, <1>2 DEF Signed
  <2> HIDE DEF low, high
  <2>2. TextIn(low, high) # TextIn(-S + 2, -S)
    BY <1>5, <2>1 DEF TextIn
  <2>3. -SignedMax(W) + 1 = -S + 2 /\ -SignedMin(W) = -S
    BY <1>1
  <2>4. EmitRange(r) # TextIn(-SignedMax(W) + 1, -SignedMin(W))
    BY <1>3, <2>2, <2>3
  <2>5. EmitRange(r) \in [kind : {"in"}, lo : Int, hi : Int]
    BY <1>3, <2>1 DEF TextIn
  <2>6. QED
    BY <2>4, <2>5, EmitRead
<1>6. QED
  BY <1>4, <1>5

(* The branch of block b of form f, and the jump that takes its place.     *)
Last(f, b) ==
    IF f = "trap" THEN Branch(Continuation(b), OnOverflow(b))
    ELSE Branch(OnOverflow(b), Continuation(b))

Target(f, b) == IF f = "trap" THEN Continuation(b) ELSE OnOverflow(b)

(* Block b of form f once its check is replaced, with n of the four        *)
(* instructions of the check left.                                         *)
Shape(f, b, n) ==
    CASE n = 4 -> <<Operation, Call, Extract, Flag, Last(f, b)>>
      [] n = 3 -> <<Operation, Call, Extract, Flag, Jump(Target(f, b))>>
      [] n = 2 -> <<Operation, Call, Extract, Jump(Target(f, b))>>
      [] n = 1 -> <<Operation, Call, Jump(Target(f, b))>>
      [] n = 0 -> <<Operation, Jump(Target(f, b))>>

(* The four instructions of a check, in the order they are collected.      *)
Piece == <<"call", "value", "flag", "branch">>

Pieces == {"call", "value", "flag", "branch"}

(* The checks of which dequeToDel holds something, the block of the g-th   *)
(* one and how many of its instructions are left.                          *)
Groups == (Len(dequeToDel) + 3) \div 4

Owner(g) == dequeToDel[4 * (g - 1) + 1][1]

Left(g) == IF 4 * g <= Len(dequeToDel) THEN 4 ELSE Len(dequeToDel) - 4 * (g - 1)

(* The checks are those of a function of Functions, with values replaced by*)
(* operations.                                                             *)
Origin ==
    \E f \in Functions :
        /\ Len(checks) = Len(f)
        /\ \A b \in Blocks :
            /\ checks[b].form = f[b].form /\ checks[b].op = f[b].op /\ checks[b].ty = f[b].ty
            /\ \A i \in 1 .. 2 :
                /\ checks[b].args[i].md = f[b].args[i].md
                /\ checks[b].args[i].word = f[b].args[i].word
                /\ checks[b].args[i].block = f[b].args[i].block
                /\ \/ checks[b].args[i].from = f[b].args[i].from
                   \/ checks[b].args[i].from = "operation" /\ f[b].args[i].from = "value"

(* The types, with a legal range behind every text of an operation.        *)
Types ==
    /\ checks \in Seq(Checks) /\ Origin
    /\ DOMAIN body = Blocks
    /\ range \in [Blocks -> {NoText} \cup [kind : {"in"}, lo : Int, hi : Int]]
    /\ \A b \in Blocks : Removed(b) => GetConstantRange(range[b]) \in Ranges(W)
    /\ cursor \in 1 .. Len(checks) + 1
    /\ dequeToDel \in Seq(Blocks \X Pieces) /\ dequeToInsert \in Seq(Int)
    /\ status \in {"walk", "remove", "done", "aborted"}

(* Only checks the walk is past, of the forms whose value follows the call,*)
(* are replaced.                                                           *)
Forms ==
    \A b \in Blocks : Removed(b) => b < cursor /\ checks[b].form \in {"trap", "handler"}

(* What is used is there: an operation that was put in, or a value that    *)
(* stays until the end.                                                    *)
Uses ==
    \A b \in Blocks : \A i \in 1 .. 2 :
        LET o == checks[b].args[i]
        IN  /\ o.from = "operation" => Removed(o.block) /\ checks[o.block].form = "trap"
            /\ o.from = "value" => ~Removed(o.block) \/ checks[o.block].form = "handler"

(* A check is removed if and only if the texts of its operands, which are  *)
(* final once the walk is past it, make it redundant.                      *)
Judged ==
    \A b \in Blocks :
        /\ Removed(b) =>
            /\ Known(b) /\ ~Clash(b)
            /\ \E result \in RangesOf(b) :
                /\ ContainsRange(Limit(checks[b].op, OperandRange(b, 1).m), result)
                /\ range[b] = EmitRange(result)
        /\ b < cursor /\ Known(b) /\ ~Clash(b) /\ Redundant(b) => Removed(b)

(* While the walk lasts the deque holds whole checks; when it is over the  *)
(* walk is past every block.                                               *)
Walked ==
    /\ status = "walk" => Len(dequeToDel) = 4 * Groups
    /\ status \in {"remove", "done"} => cursor = Len(checks) + 1
    /\ status = "done" => dequeToDel = <<>>

(* Every group of dequeToDel is the first instructions of the check of one *)
(* block, which is as the others leave it.                                 *)
Pending ==
    \A g \in 1 .. Groups :
        /\ Owner(g) \in Blocks /\ Removed(Owner(g))
        /\ \A k \in 1 .. 4 :
            4 * (g - 1) + k <= Len(dequeToDel) => dequeToDel[4 * (g - 1) + k] = <<Owner(g), Piece[k]>>
        /\ body[Owner(g)] = Shape(checks[Owner(g)].form, Owner(g), Left(g))
        /\ \A h \in 1 .. Groups : Owner(h) = Owner(g) => h = g

(* dequeToInsert has one jump for each check whose branch is still in      *)
(* dequeToDel, at the same place.                                          *)
Jumps ==
    /\ Len(dequeToInsert) = Len(dequeToDel) \div 4
    /\ \A g \in 1 .. Len(dequeToInsert) : dequeToInsert[g] = Target(checks[Owner(g)].form, Owner(g))

(* A block none of whose instructions waits to be erased is as it was      *)
(* compiled, or has been emptied.                                          *)
Settled ==
    \A b \in Blocks :
        (\A g \in 1 .. Groups : Owner(g) # b) =>
            body[b] = IF Removed(b) THEN Shape(checks[b].form, b, 0) ELSE Compiled(checks[b].form, b)

(* The inductive invariant.                                                *)
IInv == Types /\ Forms /\ Uses /\ Judged /\ Walked /\ Pending /\ Jumps /\ Settled

(* A check of the function and its two operands.                           *)
LEMMA CheckFacts ==
    ASSUME checks \in Seq(Checks), NEW b \in Blocks
    PROVE  /\ Blocks = 1 .. Len(checks) /\ Len(checks) \in Nat /\ b \in 1 .. Len(checks)
           /\ checks[b] \in Checks /\ checks[b].ty \in {N, W} /\ checks[b].op \in Signeds \cup Unsigneds
           /\ checks[b].form \in {"trap", "handler", "builtin", "indirect"}
           /\ \A i \in 1 .. 2 : checks[b].args[i] \in Sources
<1>1. Blocks = 1 .. Len(checks) /\ Len(checks) \in Nat /\ b \in 1 .. Len(checks) /\ checks[b] \in Checks
  BY DEF Blocks
<1> DEFINE c == checks[b]
<1>2. c \in Checks
  BY <1>1
<1> HIDE DEF c
<1>3. /\ c.ty \in {N, W} /\ c.op \in Signeds \cup Unsigneds
      /\ c.form \in {"trap", "handler", "builtin", "indirect"}
      /\ \A i \in 1 .. 2 : c.args[i] \in Sources
  BY <1>2 DEF Checks
<1>4. QED
  BY <1>1, <1>3 DEF c

(* replaceAllUsesWith changes where an operand comes from and nothing else.*)
LEMMA ReplacedFacts ==
    ASSUME checks \in Seq(Checks), NEW b \in Blocks, checks' = Replaced(b)
    PROVE  /\ checks' \in Seq(Checks) /\ Len(checks') = Len(checks) /\ Blocks' = Blocks
           /\ \A c \in Blocks :
                /\ checks'[c].form = checks[c].form /\ checks'[c].op = checks[c].op
                /\ checks'[c].ty = checks[c].ty
                /\ \A i \in 1 .. 2 :
                    /\ checks'[c].args[i].md = checks[c].args[i].md
                    /\ checks'[c].args[i].word = checks[c].args[i].word
                    /\ checks'[c].args[i].block = checks[c].args[i].block
                    /\ checks'[c].args[i].from =
                        IF checks[c].args[i].from = "value" /\ checks[c].args[i].block = b
                                /\ checks[b].form = "trap"
                        THEN "operation" ELSE checks[c].args[i].from
<1> DEFINE source(c, i) ==
        IF checks[c].args[i].from = "value" /\ checks[c].args[i].block = b /\ checks[b].form = "trap"
        THEN [checks[c].args[i] EXCEPT !.from = "operation"] ELSE checks[c].args[i]
           after(c) == [checks[c] EXCEPT !.args = [i \in 1 .. 2 |-> source(c, i)]]
<1>1. checks' = [c \in Blocks |-> after(c)]
  BY DEF Replaced
<1>2. \A c \in Blocks : \A i \in 1 .. 2 :
        /\ source(c, i) \in Sources
        /\ source(c, i).md = checks[c].args[i].md
        /\ source(c, i).word = checks[c].args[i].word
        /\ source(c, i).block = checks[c].args[i].block
        /\ source(c, i).from =
             IF checks[c].args[i].from = "value" /\ checks[c].args[i].block = b /\ checks[b].form = "trap"
             THEN "operation" ELSE checks[c].args[i].from
  <2>1. TAKE c \in Blocks, i \in 1 .. 2
  <2> DEFINE o == checks[c].args[i]
  <2>2. o \in Sources
    BY CheckFacts
  <2>3. CASE o.from = "value" /\ o.block = b /\ checks[b].form = "trap"
    <3>1. source(c, i) = [o EXCEPT !.from = "operation"]
      BY <2>3
    <3> HIDE DEF o, source
    <3>2. source(c, i) \in Sources /\ source(c, i).from = "operation" /\ source(c, i).md = o.md
            /\ source(c, i).word = o.word /\ source(c, i).block = o.block
      BY <2>2, <3>1 DEF Sources
    <3>3. QED
      BY <2>3, <3>2 DEF o
  <2>4. CASE ~(o.from = "value" /\ o.block = b /\ checks[b].form = "trap")
    <3>1. source(c, i) = o
      BY <2>4
    <3> HIDE DEF source
    <3>2. QED
      BY <2>2, <2>4, <3>1
  <2>5. QED
    BY <2>3, <2>4
<1> HIDE DEF source
<1>3. \A c \in Blocks :
        /\ after(c) \in Checks
        /\ after(c).form = checks[c].form /\ after(c).op = checks[c].op /\ after(c).ty = checks[c].ty
        /\ \A i \in 1 .. 2 : after(c).args[i] = source(c, i)
  BY <1>2, CheckFacts DEF Checks
<1> HIDE DEF after
<1>4. Blocks = 1 .. Len(checks) /\ Len(checks) \in Nat
  BY DEF Blocks
<1>5. checks' \in Seq(Checks) /\ Len(checks') = Len(checks)
  BY <1>1, <1>3, <1>4
<1>6. Blocks' = Blocks
  BY <1>4, <1>5 DEF Blocks
<1>7. QED
  BY <1>1, <1>2, <1>3, <1>5, <1>6

(* What an operand is stays within what the function gave the block.       *)
LEMMA OperandFacts ==
    ASSUME checks \in Seq(Checks), Origin, NEW b \in Blocks, NEW i \in 1 .. 2, NEW o, o = checks[b].args[i]
    PROVE  /\ o.from \in {"load", "literal", "value", "operation"}
           /\ o.word \in Word(checks[b].ty)
           /\ o.from \in {"value", "operation"} =>
                /\ o.block \in 1 .. b - 1 /\ o.block \in Blocks
                /\ checks[o.block].ty = checks[b].ty /\ checks[o.block].form # "indirect"
           /\ o.md # NoText =>
                /\ o.from = "load" /\ o.md \in Texts
                /\ Accepted(GetConstantRange(o.md))
                /\ Holds(GetConstantRange(o.md), Signed(checks[b].ty, o.word))
<1>1. PICK f \in Functions :
        /\ Len(checks) = Len(f)
        /\ \A c \in Blocks :
            /\ checks[c].form = f[c].form /\ checks[c].op = f[c].op /\ checks[c].ty = f[c].ty
            /\ \A j \in 1 .. 2 :
                /\ checks[c].args[j].md = f[c].args[j].md
                /\ checks[c].args[j].word = f[c].args[j].word
                /\ checks[c].args[j].block = f[c].args[j].block
                /\ \/ checks[c].args[j].from = f[c].args[j].from
                   \/ checks[c].args[j].from = "operation" /\ f[c].args[j].from = "value"
  BY DEF Origin
<1>2. f \in Seq(Checks) /\ DOMAIN f = Blocks
  BY <1>1, FunctionsAssumption DEF Blocks
<1>3. Usable(f, b, f[b].args[i])
  BY <1>2, FunctionsAssumption
<1>4. o \in Sources /\ b \in 1 .. Len(checks) /\ Blocks = 1 .. Len(checks)
  BY CheckFacts
<1> DEFINE p == f[b].args[i]
<1>5. /\ o.md = p.md /\ o.word = p.word /\ o.block = p.block /\ checks[b].ty = f[b].ty
      /\ o.from = p.from \/ (o.from = "operation" /\ p.from = "value")
  BY <1>1
<1>6. /\ p.from # "operation" /\ p.word \in Word(f[b].ty)
      /\ p.md # NoText =>
             /\ p.from = "load"
             /\ Accepted(GetConstantRange(p.md))
             /\ Holds(GetConstantRange(p.md), Signed(f[b].ty, p.word))
      /\ p.from = "value" =>
             p.block \in 1 .. b - 1 /\ f[p.block].ty = f[b].ty /\ f[p.block].form # "indirect"
  BY <1>3 DEF Usable
<1> HIDE DEF p
<1>7. o.from \in {"value", "operation"} =>
        /\ o.block \in 1 .. b - 1 /\ o.block \in Blocks
        /\ checks[o.block].ty = checks[b].ty /\ checks[o.block].form # "indirect"
  <2>1. SUFFICES ASSUME o.from \in {"value", "operation"}
        PROVE  /\ o.block \in 1 .. b - 1 /\ o.block \in Blocks
               /\ checks[o.block].ty = checks[b].ty /\ checks[o.block].form # "indirect"
    OBVIOUS
  <2>2. p.from = "value"
    BY <1>5, <1>6, <2>1
  <2>3. o.block \in 1 .. b - 1 /\ f[o.block].ty = f[b].ty /\ f[o.block].form # "indirect"
    BY <1>5, <1>6, <2>2
  <2>4. o.block \in Blocks
    BY <1>4, <2>3
  <2>5. QED
    BY <1>1, <2>3, <2>4
<1>8. QED
  BY <1>4, <1>5, <1>6, <1>7 DEF Sources

(* The text of an operand, case by case.                                   *)
LEMMA TextCases ==
    ASSUME NEW o
    PROVE  /\ o.from = "load" => TextOf(o) = o.md
           /\ o.from = "operation" => TextOf(o) = range[o.block]
           /\ o.from \in {"value", "literal"} => TextOf(o) = NoText
BY DEF TextOf

(* A text the pass can read is the text of a legal range.                  *)
LEMMA OperandLegal ==
    ASSUME Types, Uses, NEW b \in Blocks, NEW i \in 1 .. 2, TextOf(checks[b].args[i]) # NoText
    PROVE  \E m \in {N, W} : OperandRange(b, i) \in Ranges(m)
<1> DEFINE o == checks[b].args[i]
           t == TextOf(o)
<1>1. checks \in Seq(Checks) /\ Origin /\ OperandRange(b, i) = GetConstantRange(t) /\ t # NoText
  BY DEF Types, OperandRange
<1>2. /\ o.from \in {"load", "literal", "value", "operation"}
      /\ o.from = "operation" => o.block \in Blocks
      /\ o.md # NoText => o.from = "load" /\ o.md \in Texts /\ Accepted(GetConstantRange(o.md))
  BY <1>1, OperandFacts
<1>3. CASE o.from = "load"
  <2>1. t = o.md /\ t \in Texts /\ Accepted(GetConstantRange(t))
    BY <1>1, <1>2, <1>3, TextCases
  <2> HIDE DEF t
  <2>2. CASE t.kind = "eq"
    <3>1. t.lo \in Int
      BY <1>1, <2>1, <2>2 DEF Texts, NoText
    <3>2. QED
      BY <1>1, <2>2, <3>1, EqualityRange
  <2>3. CASE t.kind = "in"
    <3>1. t \in [kind : {"in"}, lo : Int, hi : Int]
      BY <1>1, <2>1, <2>3 DEF Texts, NoText
    <3>2. /\ GetConstantRange(t) = MkRange(W, Word64(t.lo), Plus(W, Word64(t.hi), 1))
          /\ Word64(t.lo) \in Word(W) /\ Plus(W, Word64(t.hi), 1) \in Word(W)
      BY <3>1, IntervalRange
    <3>3. Legal(W, Word64(t.lo), Plus(W, Word64(t.hi), 1))
      BY <2>1, <3>2 DEF Accepted, MkRange
    <3>4. QED
      BY <1>1, <3>2, <3>3, MkRangeLegal, Widths
  <2>4. QED
    BY <1>1, <2>1, <2>2, <2>3 DEF Texts
<1>4. CASE o.from = "operation"
  <2>1. Removed(o.block) /\ o.block \in Blocks
    BY <1>2, <1>4 DEF Uses
  <2>2. t = range[o.block]
    BY <1>4, TextCases
  <2>3. QED
    BY <1>1, <2>1, <2>2 DEF Types
<1>5. CASE o.from \in {"value", "literal"}
  BY <1>1, <1>5, TextCases
<1>6. QED
  BY <1>2, <1>3, <1>4, <1>5

(* The range of a redundant operation is legal and its text can be read.   *)
LEMMA RedundantFacts ==
    ASSUME Types, Uses, NEW b \in Blocks, Known(b), ~Clash(b)
    PROVE  \E m \in {N, W}, n \in {N, W} :
             LET result == ResultRange(checks[b].op, OperandRange(b, 1), OperandRange(b, 2))
             IN  /\ OperandRange(b, 1) \in Ranges(m) /\ OperandRange(b, 1).m = m
                 /\ OperandRange(b, 2) \in Ranges(n)
                 /\ result \in Ranges(m)
                 /\ RangesOf(b) = {result}
                 /\ ContainsRange(Limit(checks[b].op, m), result) =>
                        /\ EmitRange(result) \in [kind : {"in"}, lo : Int, hi : Int]
                        /\ EmitRange(result) # TextIn(-SignedMax(W) + 1, -SignedMin(W))
                        /\ GetConstantRange(EmitRange(result)) \in Ranges(W)
<1> DEFINE x == OperandRange(b, 1)
           y == OperandRange(b, 2)
           op == checks[b].op
           result == ResultRange(op, x, y)
<1>1. PICK m \in {N, W} : x \in Ranges(m)
  BY OperandLegal DEF Known
<1>2. PICK n \in {N, W} : y \in Ranges(n)
  BY OperandLegal DEF Known
<1>3. m \in Moduli /\ n \in Moduli
  BY NumbersOfLong
<1>4. op \in Signeds \cup Unsigneds
  BY CheckFacts DEF Types
<1>5. ~Asserts(op, x, y)
  BY DEF Clash
<1>6. RangesOf(b) = {result}
  BY DEF RangesOf
<1> HIDE DEF x, y, op
<1>7. result \in Ranges(m) /\ x.m = m
  BY <1>1, <1>2, <1>3, <1>4, <1>5, ResultRangeLegal, RangeFacts
<1> HIDE DEF result
<1>8. ContainsRange(Limit(op, m), result) =>
        /\ EmitRange(result) \in [kind : {"in"}, lo : Int, hi : Int]
        /\ EmitRange(result) # TextIn(-SignedMax(W) + 1, -SignedMin(W))
        /\ GetConstantRange(EmitRange(result)) \in Ranges(W)
  BY <1>4, <1>7, WithinLimitsReread
<1>9. QED
  BY <1>1, <1>2, <1>6, <1>7, <1>8 DEF x, y, op, result

(* The elements of two sequences, one after the other.                     *)
LEMMA Concatenation ==
    ASSUME NEW S, NEW s \in Seq(S), NEW t \in Seq(S)
    PROVE  /\ s \o t \in Seq(S) /\ Len(s \o t) = Len(s) + Len(t)
           /\ \A i \in 1 .. Len(s) + Len(t) :
                (s \o t)[i] = IF i <= Len(s) THEN s[i] ELSE t[i - Len(s)]
<1>1. s \o t \in Seq(S) /\ Len(s \o t) = Len(s) + Len(t)
  OBVIOUS
<1>2. QED
  BY <1>1

(* A sequence that is not the empty one has a length other than zero.      *)
LEMMA NotEmpty ==
    ASSUME NEW S, NEW s \in Seq(S), s # <<>>
    PROVE  Len(s) \in Nat \ {0}
OBVIOUS

(* A sequence of one followed by one of four.                              *)
LEMMA FirstOfFive ==
    ASSUME NEW p, NEW q, NEW r, NEW s, NEW t
    PROVE  <<p>> \o <<q, r, s, t>> = <<p, q, r, s, t>>
<1> DEFINE T == {p, q, r, s, t}
           u == <<p>> \o <<q, r, s, t>>
<1>1. <<p>> \in Seq(T) /\ <<q, r, s, t>> \in Seq(T) /\ <<p, q, r, s, t>> \in Seq(T)
  OBVIOUS
<1>2. Len(<<p>>) = 1 /\ Len(<<q, r, s, t>>) = 4
  OBVIOUS
<1>3. u \in Seq(T) /\ Len(u) = 5
  BY <1>1, <1>2, Concatenation
<1>4. \A i \in 1 .. 5 : u[i] = IF i <= 1 THEN <<p>>[i] ELSE <<q, r, s, t>>[i - 1]
  BY <1>1, <1>2, Concatenation
<1>5. u[1] = p /\ u[2] = q /\ u[3] = r /\ u[4] = s /\ u[5] = t
  BY <1>4
<1> HIDE DEF u
<1>6. u = <<p, q, r, s, t>>
  BY <1>1, <1>3, <1>5
<1>7. QED
  BY <1>6 DEF u

(* A block by the number of instructions of its check that are left.       *)
LEMMA ShapeCases ==
    ASSUME NEW f, NEW b
    PROVE  /\ Shape(f, b, 4) = <<Operation, Call, Extract, Flag, Last(f, b)>>
           /\ Shape(f, b, 3) = <<Operation, Call, Extract, Flag, Jump(Target(f, b))>>
           /\ Shape(f, b, 2) = <<Operation, Call, Extract, Jump(Target(f, b))>>
           /\ Shape(f, b, 1) = <<Operation, Call, Jump(Target(f, b))>>
           /\ Shape(f, b, 0) = <<Operation, Jump(Target(f, b))>>
BY DEF Shape

(* The first instructions of a block as it was compiled.                   *)
LEMMA CompiledFacts ==
    ASSUME checks \in Seq(Checks), NEW b \in Blocks, NEW s, s = Compiled(checks[b].form, b)
    PROVE  /\ checks[b].form \in {"trap", "handler"} =>
                /\ s = <<Call, Extract, Flag, Last(checks[b].form, b)>>
                /\ s[2].kind = "value" /\ s[4].targets[1] = Target(checks[b].form, b)
                /\ <<Operation>> \o s = Shape(checks[b].form, b, 4)
           /\ checks[b].form = "builtin" => s[2].kind = "flag"
<1>1. CASE checks[b].form = "trap"
  <2>1. s = <<Call, Extract, Flag, Branch(Continuation(b), OnOverflow(b))>>
    BY <1>1 DEF Compiled
  <2>2. Last(checks[b].form, b) = Branch(Continuation(b), OnOverflow(b)) /\ Target(checks[b].form, b) = Continuation(b)
    BY <1>1 DEF Last, Target
  <2>3. s[2].kind = "value" /\ s[4].targets[1] = Target(checks[b].form, b)
    BY <2>1, <2>2 DEF Extract, Instruction, Branch
  <2>4. <<Operation>> \o s = Shape(checks[b].form, b, 4)
    <3>1. s = <<Call, Extract, Flag, Last(checks[b].form, b)>>
      BY <2>1, <2>2
    <3>2. <<Operation>> \o <<Call, Extract, Flag, Last(checks[b].form, b)>> =
            <<Operation, Call, Extract, Flag, Last(checks[b].form, b)>>
      BY FirstOfFive
    <3>3. QED
      BY <3>1, <3>2, ShapeCases
  <2>5. QED
    BY <1>1, <2>1, <2>2, <2>3, <2>4
<1>2. CASE checks[b].form = "handler"
  <2>1. s = <<Call, Extract, Flag, Branch(OnOverflow(b), Continuation(b))>>
    BY <1>2 DEF Compiled
  <2>2. Last(checks[b].form, b) = Branch(OnOverflow(b), Continuation(b)) /\ Target(checks[b].form, b) = OnOverflow(b)
    BY <1>2 DEF Last, Target
  <2>3. s[2].kind = "value" /\ s[4].targets[1] = Target(checks[b].form, b)
    BY <2>1, <2>2 DEF Extract, Instruction, Branch
  <2>4. <<Operation>> \o s = Shape(checks[b].form, b, 4)
    <3>1. s = <<Call, Extract, Flag, Last(checks[b].form, b)>>
      BY <2>1, <2>2
    <3>2. <<Operation>> \o <<Call, Extract, Flag, Last(checks[b].form, b)>> =
            <<Operation, Call, Extract, Flag, Last(checks[b].form, b)>>
      BY FirstOfFive
    <3>3. QED
      BY <3>1, <3>2, ShapeCases
  <2>5. QED
    BY <1>2, <2>1, <2>2, <2>3, <2>4
<1>3. CASE checks[b].form = "builtin"
  <2>1. s = <<Call, Flag, Extract, Branch(OnOverflow(b), Continuation(b))>>
    BY <1>3 DEF Compiled
  <2>2. QED
    BY <1>3, <2>1 DEF Flag, Instruction
<1>4. CASE checks[b].form = "indirect"
  BY <1>4
<1>5. QED
  BY <1>1, <1>2, <1>3, <1>4, CheckFacts

(* The invariant holds before the pass starts.                             *)
LEMMA InitInv == Init => IInv
<1> SUFFICES ASSUME Init PROVE IInv
  OBVIOUS
<1> USE DEF Init
<1>1. checks \in Seq(Checks) /\ Blocks = 1 .. Len(checks) /\ Len(checks) \in Nat /\ checks \in Functions
  BY FunctionsAssumption DEF Blocks
<1>2. Len(dequeToDel) = 0 /\ Len(dequeToInsert) = 0 /\ Groups = 0
  BY DEF Groups
<1>3. \A b \in Blocks : ~Removed(b)
  BY DEF Removed
<1>4. Origin
  BY <1>1 DEF Origin
<1>5. Types
  BY <1>1, <1>3, <1>4 DEF Types
<1>6. Uses
  <2>1. SUFFICES ASSUME NEW b \in Blocks, NEW i \in 1 .. 2
        PROVE  /\ checks[b].args[i].from # "operation"
               /\ checks[b].args[i].from = "value" => ~Removed(checks[b].args[i].block)
    BY DEF Uses
  <2>2. Usable(checks, b, checks[b].args[i])
    BY <1>1, FunctionsAssumption DEF Blocks
  <2>3. /\ checks[b].args[i].from # "operation"
        /\ checks[b].args[i].from = "value" => checks[b].args[i].block \in 1 .. b - 1
    BY <2>2 DEF Usable
  <2>4. checks[b].args[i].from = "value" => ~Removed(checks[b].args[i].block)
    BY <1>1, <1>3, <2>3
  <2>5. QED
    BY <2>3, <2>4
<1>7. Forms /\ Judged /\ Walked /\ Pending /\ Jumps
  BY <1>1, <1>2, <1>3 DEF Forms, Judged, Walked, Pending, Jumps
<1>8. Settled
  BY <1>1, <1>2, <1>3 DEF Settled
<1>9. QED
  BY <1>5, <1>6, <1>7, <1>8 DEF IInv

(* What an action that changes only the cursor and the status leaves.      *)
LEMMA OnlyStatus ==
    ASSUME IInv, UNCHANGED <<checks, body, range, dequeToDel, dequeToInsert>>,
           cursor' \in 1 .. Len(checks) + 1, cursor <= cursor',
           status' \in {"walk", "remove", "done", "aborted"},
           \A b \in Blocks : b < cursor' /\ Known(b) /\ ~Clash(b) /\ Redundant(b) => Removed(b),
           Walked'
    PROVE  IInv'
<1> USE DEF IInv
<1>1. Types'
  <2>1. Origin /\ Blocks' = Blocks
    BY DEF Types, Blocks
  <2>2. Origin'
    BY <2>1 DEF Origin
  <2>3. \A b \in Blocks' : Removed(b)' => GetConstantRange(range[b])' \in Ranges(W)
    BY <2>1 DEF Types, Removed
  <2>4. QED
    BY <2>1, <2>2, <2>3 DEF Types
<1>2. Forms'
  BY DEF Forms, Removed, Blocks, Types
<1>3. Uses' /\ Pending' /\ Jumps' /\ Settled'
  <2>1. Uses'
    BY DEF Uses, Removed, Blocks
  <2>2. Groups' = Groups /\ (\A g : Owner(g)' = Owner(g) /\ Left(g)' = Left(g)) /\ Blocks' = Blocks
    BY DEF Groups, Owner, Left, Blocks
  <2>3. \A b : Removed(b)' = Removed(b)
    BY DEF Removed
  <2>5. Pending'
    BY <2>2, <2>3 DEF Pending, Removed
  <2>6. Jumps'
    BY <2>2 DEF Jumps
  <2>7. Settled'
    BY <2>2, <2>3 DEF Settled, Removed
  <2>8. QED
    BY <2>1, <2>5, <2>6, <2>7
<1>4. Judged'
  <2>1. \A o : TextOf(o)' = TextOf(o)
    BY DEF TextOf
  <2>2. \A b : Removed(b)' = Removed(b) /\ (Known(b)' <=> Known(b)) /\ OperandRange(b, 1)' = OperandRange(b, 1)
    BY <2>1 DEF Removed, Known, OperandRange
  <2>3. \A b : (Clash(b)' <=> Clash(b)) /\ RangesOf(b)' = RangesOf(b)
    BY <2>1 DEF Clash, RangesOf, OperandRange
  <2>4. \A b : Redundant(b)' <=> Redundant(b)
    BY <2>2, <2>3 DEF Redundant
  <2>5. QED
    BY <2>2, <2>3, <2>4 DEF Judged, Blocks
<1>5. QED
  BY <1>1, <1>2, <1>3, <1>4

(* Keeping a check keeps the invariant.                                    *)
LEMMA KeepInv == IInv /\ KeepCheck => IInv'
<1> SUFFICES ASSUME IInv, KeepCheck PROVE IInv'
  OBVIOUS
<1> USE DEF IInv, KeepCheck
<1>1. cursor \in Int /\ Blocks = 1 .. Len(checks) /\ Len(checks) \in Nat /\ checks \in Seq(Checks)
  BY DEF Types, Blocks
<1>2. \A b \in Blocks : b < cursor' /\ Known(b) /\ ~Clash(b) /\ Redundant(b) => Removed(b)
  BY <1>1 DEF Judged
<1>3. Walked'
  BY DEF Walked, Groups
<1>4. QED
  BY <1>1, <1>2, <1>3, OnlyStatus DEF Types

(* The end of the walk, the end of the removal and the assertions keep the *)
(* invariant.                                                              *)
LEMMA OtherInv ==
    IInv /\ (AbortOnWidths \/ AbortOnTypes \/ AbortOnIndirectCall \/ EndWalk \/ EndRemoval) => IInv'
<1> SUFFICES ASSUME IInv, AbortOnWidths \/ AbortOnTypes \/ AbortOnIndirectCall \/ EndWalk \/ EndRemoval PROVE IInv'
  OBVIOUS
<1> USE DEF IInv
<1>1. /\ UNCHANGED <<checks, body, range, cursor, dequeToDel, dequeToInsert>>
      /\ status' \in {"aborted", "remove", "done"}
  BY DEF AbortOnWidths, AbortOnTypes, AbortOnIndirectCall, Abort, EndWalk, EndRemoval
<1>2. cursor \in 1 .. Len(checks) + 1 /\ Len(checks) \in Nat /\ Blocks = 1 .. Len(checks)
  BY DEF Types, Blocks
<1>3. Walked'
  BY <1>1, <1>2 DEF Walked, Groups, AbortOnWidths, AbortOnTypes, AbortOnIndirectCall, Abort, EndWalk, EndRemoval
<1>4. \A b \in Blocks : b < cursor' /\ Known(b) /\ ~Clash(b) /\ Redundant(b) => Removed(b)
  BY <1>1 DEF Judged
<1>5. QED
  BY <1>1, <1>2, <1>3, <1>4, OnlyStatus

(* The check at the cursor has not been touched.                           *)
LEMMA AtCursor ==
    ASSUME IInv, ReplaceCheck
    PROVE  /\ cursor \in Blocks /\ ~Removed(cursor)
           /\ \A g \in 1 .. Groups : Owner(g) # cursor
           /\ checks[cursor].form \in {"trap", "handler"}
           /\ body[cursor] = <<Call, Extract, Flag, Last(checks[cursor].form, cursor)>>
           /\ body'[cursor] = Shape(checks[cursor].form, cursor, 4)
           /\ body[cursor][4].targets[1] = Target(checks[cursor].form, cursor)
<1> USE DEF IInv
<1>1. cursor \in Blocks /\ cursor \in Int /\ Known(cursor) /\ ~NotTheValue(cursor)
      /\ body' = [body EXCEPT ![cursor] = <<Operation>> \o @] /\ DOMAIN body = Blocks
      /\ checks \in Seq(Checks)
  BY DEF ReplaceCheck, Types
<1>2. ~Removed(cursor)
  BY <1>1 DEF Forms
<1>3. \A g \in 1 .. Groups : Owner(g) # cursor
  BY <1>2 DEF Pending
<1>4. body[cursor] = Compiled(checks[cursor].form, cursor)
  BY <1>1, <1>2, <1>3 DEF Settled
<1>5. body[cursor][2].kind = "value" /\ checks[cursor].form # "indirect"
  BY <1>1 DEF NotTheValue, Known
<1>6. checks[cursor].form \in {"trap", "handler"}
  BY <1>1, <1>4, <1>5, CompiledFacts, CheckFacts
<1>7. QED
  BY <1>1, <1>2, <1>3, <1>4, <1>6, CompiledFacts

(* The texts of the operands of a check the walk has come to are final.    *)
LEMMA StableOperands ==
    ASSUME IInv, ReplaceCheck, NEW b \in Blocks, b <= cursor
    PROVE  /\ \A i \in 1 .. 2 :
                /\ TextOf(checks[b].args[i])' = TextOf(checks[b].args[i])
                /\ OperandRange(b, i)' = OperandRange(b, i)
           /\ checks'[b].op = checks[b].op /\ checks'[b].form = checks[b].form
           /\ Known(b)' = Known(b) /\ Clash(b)' = Clash(b) /\ RangesOf(b)' = RangesOf(b)
<1> USE DEF IInv
<1>1. /\ checks \in Seq(Checks) /\ Origin /\ cursor \in Blocks /\ Blocks = 1 .. Len(checks) /\ Len(checks) \in Nat
      /\ checks' = Replaced(cursor) /\ range \in [Blocks -> {NoText} \cup [kind : {"in"}, lo : Int, hi : Int]]
      /\ \A c \in Blocks : c # cursor => range'[c] = range[c]
  <2>1. /\ checks \in Seq(Checks) /\ Origin /\ cursor \in Blocks /\ Blocks = 1 .. Len(checks) /\ Len(checks) \in Nat
        /\ checks' = Replaced(cursor) /\ range \in [Blocks -> {NoText} \cup [kind : {"in"}, lo : Int, hi : Int]]
    <3>1. cursor \in Blocks /\ checks' = Replaced(cursor)
      BY DEF ReplaceCheck
    <3>2. /\ checks \in Seq(Checks) /\ Origin
          /\ range \in [Blocks -> {NoText} \cup [kind : {"in"}, lo : Int, hi : Int]]
      BY DEF Types
    <3>3. Blocks = 1 .. Len(checks) /\ Len(checks) \in Nat
      BY <3>2 DEF Blocks
    <3>4. QED
      BY <3>1, <3>2, <3>3
  <2>2. PICK result \in RangesOf(cursor) : range' = [range EXCEPT ![cursor] = EmitRange(result)]
    BY DEF ReplaceCheck
  <2>3. QED
    BY <2>1, <2>2
<1>2. \A i \in 1 .. 2 : TextOf(checks[b].args[i])' = TextOf(checks[b].args[i])
  <2>1. TAKE i \in 1 .. 2
  <2> DEFINE o == checks[b].args[i]
             p == checks'[b].args[i]
  <2>2. /\ o.from \in {"load", "literal", "value", "operation"}
        /\ o.from \in {"value", "operation"} => o.block \in 1 .. b - 1 /\ o.block \in Blocks
    BY <1>1, OperandFacts
  <2>3. o.from \in {"value", "operation"} => o.block # cursor
    BY <1>1, <2>2
  <2>4. p.md = o.md /\ p.block = o.block /\ p.from = o.from
    BY <1>1, <2>3, ReplacedFacts
  <2> HIDE DEF o, p
  <2>5. o.from = "operation" => range'[o.block] = range[o.block]
    BY <1>1, <2>2, <2>3
  <2>6. TextOf(o) = IF o.from = "load" THEN o.md ELSE IF o.from = "operation" THEN range[o.block] ELSE NoText
    BY <2>2 DEF TextOf
  <2>7. TextOf(checks[b].args[i])' =
            IF p.from = "load" THEN p.md ELSE IF p.from = "operation" THEN range'[p.block] ELSE NoText
    <3>1. p.from \in {"load", "literal", "value", "operation"}
      BY <2>2, <2>4
    <3>2. QED
      BY <3>1 DEF TextOf, p
  <2>8. QED
    BY <2>4, <2>5, <2>6, <2>7 DEF o, p
<1>3. checks'[b].op = checks[b].op /\ checks'[b].form = checks[b].form
  BY <1>1, ReplacedFacts
<1>4. \A i \in 1 .. 2 : OperandRange(b, i)' = OperandRange(b, i)
  BY <1>2 DEF OperandRange
<1>5. QED
  BY <1>2, <1>3, <1>4 DEF Known, Clash, RangesOf

(* The instructions of the check of block b, as they are put in the deque. *)
AllPieces(b) == <<<<b, "call">>, <<b, "value">>, <<b, "flag">>, <<b, "branch">>>>

(* The deque with the instructions of one more check.                      *)
Collected(d, b) == d \o AllPieces(b)

(* Four instructions more to erase, all of one block.                      *)
LEMMA FourMore ==
    ASSUME NEW B, NEW d \in Seq(B \X Pieces), NEW b \in B
    PROVE  /\ Collected(d, b) \in Seq(B \X Pieces) /\ Len(Collected(d, b)) = Len(d) + 4
           /\ \A i \in 1 .. Len(d) : Collected(d, b)[i] = d[i]
           /\ \A i \in Len(d) + 1 .. Len(d) + 4 : Collected(d, b)[i] = <<b, Piece[i - Len(d)]>>
<1> DEFINE e == Collected(d, b)
<1> DEFINE more == AllPieces(b)
<1>1. more \in Seq(B \X Pieces) /\ Len(more) = 4
  BY DEF Pieces, AllPieces
<1>2. \A k \in 1 .. 4 : more[k] = <<b, Piece[k]>>
  BY DEF Piece, AllPieces
<1> HIDE DEF more
<1>3. Len(d) \in Nat /\ e = d \o more
  BY DEF more, Collected
<1> HIDE DEF e
<1>4. /\ e \in Seq(B \X Pieces) /\ Len(e) = Len(d) + 4
      /\ \A i \in 1 .. Len(d) + 4 : e[i] = IF i <= Len(d) THEN d[i] ELSE more[i - Len(d)]
  <2>1. /\ d \o more \in Seq(B \X Pieces) /\ Len(d \o more) = Len(d) + Len(more)
        /\ \A i \in 1 .. Len(d) + Len(more) :
                (d \o more)[i] = IF i <= Len(d) THEN d[i] ELSE more[i - Len(d)]
    BY <1>1, Concatenation, Zenon
  <2>2. QED
    BY <1>1, <1>3, <2>1, Zenon
<1>5. \A i \in 1 .. Len(d) : e[i] = d[i]
  BY <1>3, <1>4
<1>6. \A i \in Len(d) + 1 .. Len(d) + 4 : e[i] = <<b, Piece[i - Len(d)]>>
  BY <1>2, <1>3, <1>4
<1>7. QED
  BY <1>2, <1>4, <1>5, <1>6 DEF e

(* The pieces of a check, as they are put into the deque.                  *)
LEMMA PiecesOf ==
    ASSUME NEW f, NEW b, NEW s, s = <<Call, Extract, Flag, Last(f, b)>>
    PROVE  [i \in DOMAIN s |-> <<b, s[i].kind>>] =
               AllPieces(b)
<1>1. DOMAIN s = 1 .. 4
  OBVIOUS
<1>2. s[1].kind = "call" /\ s[2].kind = "value" /\ s[3].kind = "flag" /\ s[4].kind = "branch"
  BY DEF Call, Extract, Flag, Last, Branch, Instruction
<1>3. QED
  BY <1>1, <1>2 DEF AllPieces

(* replaceAllUsesWith and the removal at the cursor keep the invariant.    *)
LEMMA ReplaceInv == IInv /\ ReplaceCheck => IInv'
<1> SUFFICES ASSUME IInv, ReplaceCheck PROVE IInv'
  OBVIOUS
<1> USE DEF IInv
<1>0. PICK c, L, G : c = cursor /\ L = Len(dequeToDel) /\ G = Groups
  OBVIOUS
<1>1. /\ c \in Blocks /\ ~Removed(c) /\ (\A g \in 1 .. Groups : Owner(g) # c)
      /\ checks[c].form \in {"trap", "handler"}
      /\ body[c] = <<Call, Extract, Flag, Last(checks[c].form, c)>> /\ body'[c] = Shape(checks[c].form, c, 4)
      /\ body[c][4].targets[1] = Target(checks[c].form, c)
  BY <1>0, AtCursor
<1>2. /\ checks \in Seq(Checks) /\ Origin /\ Blocks = 1 .. Len(checks) /\ Len(checks) \in Nat
      /\ c \in 1 .. Len(checks) /\ cursor' = c + 1 /\ status = "walk" /\ status' = "walk"
      /\ Known(c) /\ ~Clash(c) /\ Redundant(c) /\ checks' = Replaced(c)
  <2>1. checks \in Seq(Checks) /\ Origin
    BY DEF Types
  <2>2. Blocks = 1 .. Len(checks) /\ Len(checks) \in Nat
    BY <2>1 DEF Blocks
  <2>3. QED
    BY <1>0, <1>1, <2>1, <2>2 DEF ReplaceCheck
<1>3. /\ checks' \in Seq(Checks) /\ Len(checks') = Len(checks) /\ Blocks' = Blocks
      /\ \A b \in Blocks :
            /\ checks'[b].form = checks[b].form /\ checks'[b].op = checks[b].op
            /\ checks'[b].ty = checks[b].ty
            /\ \A i \in 1 .. 2 :
                /\ checks'[b].args[i].md = checks[b].args[i].md
                /\ checks'[b].args[i].word = checks[b].args[i].word
                /\ checks'[b].args[i].block = checks[b].args[i].block
                /\ checks'[b].args[i].from =
                    IF checks[b].args[i].from = "value" /\ checks[b].args[i].block = c
                            /\ checks[c].form = "trap"
                    THEN "operation" ELSE checks[b].args[i].from
  BY <1>1, <1>2, ReplacedFacts
<1>4. PICK m \in {N, W}, n \in {N, W} :
             LET result == ResultRange(checks[c].op, OperandRange(c, 1), OperandRange(c, 2))
             IN  /\ OperandRange(c, 1) \in Ranges(m) /\ OperandRange(c, 1).m = m
                 /\ OperandRange(c, 2) \in Ranges(n)
                 /\ result \in Ranges(m)
                 /\ RangesOf(c) = {result}
                 /\ ContainsRange(Limit(checks[c].op, m), result) =>
                        /\ EmitRange(result) \in [kind : {"in"}, lo : Int, hi : Int]
                        /\ EmitRange(result) # TextIn(-SignedMax(W) + 1, -SignedMin(W))
                        /\ GetConstantRange(EmitRange(result)) \in Ranges(W)
  BY <1>1, <1>2, RedundantFacts
<1> DEFINE result == ResultRange(checks[c].op, OperandRange(c, 1), OperandRange(c, 2))
<1>5. /\ RangesOf(c) = {result} /\ ContainsRange(Limit(checks[c].op, OperandRange(c, 1).m), result)
      /\ EmitRange(result) \in [kind : {"in"}, lo : Int, hi : Int]
      /\ GetConstantRange(EmitRange(result)) \in Ranges(W)
      /\ range' = [range EXCEPT ![c] = EmitRange(result)]
  BY <1>0, <1>1, <1>2, <1>4 DEF Redundant, ReplaceCheck
<1>6. /\ range' \in [Blocks -> {NoText} \cup [kind : {"in"}, lo : Int, hi : Int]]
      /\ range'[c] = EmitRange(result) /\ \A b \in Blocks : b # c => range'[b] = range[b]
  <2>1. range \in [Blocks -> {NoText} \cup [kind : {"in"}, lo : Int, hi : Int]]
    BY DEF Types
  <2> HIDE DEF result
  <2>2. QED
    BY <1>1, <1>5, <2>1
<1> DEFINE t == EmitRange(result)
<1>7. t # NoText
  <2> HIDE DEF result
  <2>1. QED
    BY <1>5 DEF NoText
<1>8. \A b \in Blocks : Removed(b)' <=> Removed(b) \/ b = c
  BY <1>1, <1>6, <1>7 DEF Removed
<1>9. Forms'
  BY <1>0, <1>1, <1>2, <1>3, <1>8 DEF Forms
<1>10. Uses'
  <2>1. SUFFICES ASSUME NEW b \in Blocks, NEW i \in 1 .. 2
        PROVE  /\ checks'[b].args[i].from = "operation" =>
                    Removed(checks[b].args[i].block)' /\ checks'[checks'[b].args[i].block].form = "trap"
               /\ checks'[b].args[i].from = "value" =>
                    \/ ~Removed(checks[b].args[i].block)'
                    \/ checks'[checks'[b].args[i].block].form = "handler"
    BY <1>3 DEF Uses, Removed
  <2>0. PICK o : o = checks[b].args[i]
    OBVIOUS
  <2>2. /\ o.from \in {"value", "operation"} => o.block \in Blocks
        /\ o.from = "operation" => Removed(o.block) /\ checks[o.block].form = "trap"
        /\ o.from = "value" => ~Removed(o.block) \/ checks[o.block].form = "handler"
    BY <1>2, <2>0, OperandFacts DEF Uses
  <2>3. /\ checks'[b].args[i].block = o.block
        /\ checks'[b].args[i].from =
                IF o.from = "value" /\ o.block = c /\ checks[c].form = "trap" THEN "operation" ELSE o.from
    BY <1>3, <2>0
  <2>4. o.from \in {"value", "operation"} =>
          /\ checks'[o.block].form = checks[o.block].form
          /\ Removed(o.block)' <=> Removed(o.block) \/ o.block = c
    BY <1>3, <1>8, <2>2
  <2>5. Removed(checks[b].args[i].block)' <=> Removed(o.block)'
    BY <2>3 DEF Removed
  <2>6. QED
    BY <1>1, <2>2, <2>3, <2>4, <2>5
<1>11. Judged'
  <2>1. \A b \in Blocks : b <= c => Known(b)' = Known(b) /\ Clash(b)' = Clash(b) /\ RangesOf(b)' = RangesOf(b)
            /\ OperandRange(b, 1)' = OperandRange(b, 1) /\ checks'[b].op = checks[b].op
    BY <1>0, StableOperands
  <2>2. SUFFICES ASSUME NEW b \in Blocks
        PROVE  /\ Removed(b)' =>
                    /\ Known(b)' /\ ~Clash(b)'
                    /\ \E r \in RangesOf(b)' :
                        /\ ContainsRange(Limit(checks'[b].op, OperandRange(b, 1)'.m), r)
                        /\ range'[b] = EmitRange(r)
               /\ b < cursor' /\ Known(b)' /\ ~Clash(b)' /\ Redundant(b)' => Removed(b)'
    BY <1>3 DEF Judged
  <2>3. b \in Int /\ c \in Int
    BY <1>2
  <2>4. CASE b = c
    <3>1. Known(c)' /\ ~Clash(c)' /\ Removed(c)' /\ RangesOf(c)' = {result}
            /\ OperandRange(c, 1)' = OperandRange(c, 1) /\ checks'[c].op = checks[c].op
      BY <1>1, <1>2, <1>5, <1>8, <2>1, <2>3
    <3> HIDE DEF result
    <3>2. QED
      BY <1>5, <1>6, <2>4, <3>1
  <2>5. CASE b < c
    <3>1. (Redundant(b)' <=> Redundant(b)) /\ (Removed(b)' <=> Removed(b)) /\ range'[b] = range[b]
      BY <1>6, <1>8, <2>1, <2>3, <2>5 DEF Redundant
    <3>2. /\ Removed(b) =>
                /\ Known(b) /\ ~Clash(b)
                /\ \E r \in RangesOf(b) :
                    /\ ContainsRange(Limit(checks[b].op, OperandRange(b, 1).m), r)
                    /\ range[b] = EmitRange(r)
          /\ Known(b) /\ ~Clash(b) /\ Redundant(b) => Removed(b)
      BY <1>0, <2>5 DEF Judged
    <3>3. QED
      BY <2>1, <2>3, <2>5, <3>1, <3>2
  <2>6. CASE b > c
    BY <1>0, <1>2, <1>8, <2>3, <2>6 DEF Forms
  <2>7. QED
    BY <2>3, <2>4, <2>5, <2>6
<1>12. L \in Nat /\ L = 4 * G /\ G \in Nat
  BY <1>0, <1>2 DEF Types, Walked, Groups
<1>13. Len(body[c]) = 4 /\ [i \in DOMAIN body[c] |-> <<c, body[c][i].kind>>] =
               AllPieces(c)
  <2>1. Len(body[c]) = 4
    BY <1>1
  <2>2. QED
    <3>1. PICK f, s : f = checks[c].form /\ s = body[c]
      OBVIOUS
    <3>2. s = <<Call, Extract, Flag, Last(f, c)>>
      BY <1>1, <3>1
    <3>3. [i \in DOMAIN s |-> <<c, s[i].kind>>] =
                AllPieces(c)
      BY <3>2, PiecesOf
    <3>4. QED
      BY <2>1, <3>1, <3>3
<1>14. dequeToDel' = Collected(dequeToDel, c)
  BY <1>0, <1>13 DEF ReplaceCheck, Collected
<1>15. /\ dequeToDel' \in Seq(Blocks \X Pieces) /\ Len(dequeToDel') = L + 4
       /\ \A i \in 1 .. L : dequeToDel'[i] = dequeToDel[i]
       /\ \A k \in 1 .. 4 : dequeToDel'[L + k] = <<c, Piece[k]>>
  <2>1. dequeToDel \in Seq(Blocks \X Pieces)
    BY DEF Types
  <2>2. QED
    <3>1. PICK B, d, e : B = Blocks /\ d = dequeToDel /\ e = dequeToDel'
      OBVIOUS
    <3>2. c \in B /\ d \in Seq(B \X Pieces) /\ L = Len(d)
      BY <1>0, <1>1, <2>1, <3>1
    <3>3. e = Collected(d, c)
      BY <1>14, <3>1
    <3>4. /\ e \in Seq(B \X Pieces) /\ Len(e) = Len(d) + 4
          /\ \A i \in 1 .. Len(d) : e[i] = d[i]
          /\ \A i \in Len(d) + 1 .. Len(d) + 4 : e[i] = <<c, Piece[i - Len(d)]>>
      BY <3>2, <3>3, FourMore
    <3>5. \A k \in 1 .. 4 : e[L + k] = <<c, Piece[k]>>
      <4>1. TAKE k \in 1 .. 4
      <4> DEFINE i == L + k
      <4>2. i \in Len(d) + 1 .. Len(d) + 4 /\ i - Len(d) = k
        <5>1. Len(d) = L /\ L \in Int
          BY <1>12, <3>2
        <5>2. i \in L + 1 .. L + 4 /\ i - L = k
          BY <5>1
        <5>3. QED
          BY <5>1, <5>2, Zenon
      <4> HIDE DEF i
      <4>3. e[i] = <<c, Piece[k]>>
        BY <3>4, <4>2
      <4>4. QED
        BY <4>3 DEF i
    <3>6. QED
      BY <3>1, <3>2, <3>4, <3>5
<1>16. /\ dequeToInsert' \in Seq(Int) /\ Len(dequeToInsert) = G /\ Len(dequeToInsert') = G + 1
       /\ \A g \in 1 .. G : dequeToInsert'[g] = dequeToInsert[g]
       /\ dequeToInsert'[G + 1] = Target(checks[c].form, c)
  <2>1. dequeToInsert \in Seq(Int) /\ Len(dequeToInsert) = G
    BY <1>0, <1>12 DEF Types, Jumps
  <2>2. Target(checks[c].form, c) \in Int
    BY <1>2 DEF Target, Continuation, OnOverflow
  <2>3. dequeToInsert' = Append(dequeToInsert, Target(checks[c].form, c))
    BY <1>0, <1>1, <1>13 DEF ReplaceCheck
  <2>4. QED
    BY <2>1, <2>2, <2>3, <1>12
<1>17. Walked' /\ Pending' /\ Jumps' /\ Settled'
  <2>1. Groups' = G + 1 /\ Len(dequeToDel') = 4 * (G + 1)
    <3>1. Len(dequeToDel') = 4 * G + 4 /\ G \in Nat
      BY <1>12, <1>15
    <3>2. Groups' = (4 * G + 7) \div 4
      BY <3>1 DEF Groups
    <3>3. QED
      BY <3>1, <3>2
  <2>2. /\ \A g \in 1 .. G : Owner(g)' = Owner(g) /\ Left(g) = 4 /\ Left(g)' = 4
        /\ Owner(G + 1)' = c /\ Left(G + 1)' = 4
    <3>1. \A g \in 1 .. G : 4 * (g - 1) + 1 \in 1 .. L
      BY <1>12
    <3>2. \A g \in 1 .. G : Owner(g)' = Owner(g)
      BY <1>15, <3>1 DEF Owner
    <3>3. \A g \in 1 .. G + 1 : Left(g)' = 4
      BY <1>12, <1>15, <2>1 DEF Left
    <3>4. \A g \in 1 .. G : Left(g) = 4
      BY <1>0, <1>12 DEF Left
    <3>5. dequeToDel'[L + 1] = <<c, Piece[1]>> /\ 4 * (G + 1 - 1) + 1 = L + 1
      BY <1>12, <1>15
    <3>6. Owner(G + 1)' = c
      BY <1>12, <3>5 DEF Owner
    <3>7. QED
      BY <1>12, <3>2, <3>3, <3>4, <3>6
  <2>5. \A b \in Blocks : b # c => body'[b] = body[b]
    BY <1>0 DEF ReplaceCheck, Types
  <2>6. Walked'
    BY <1>2, <2>1 DEF Walked
  <2>7. Pending'
    <3>0. \A g \in 1 .. G + 1 : Left(g)' = 4
      BY <1>12, <2>2
    <3>1. SUFFICES ASSUME NEW g \in 1 .. G + 1
          PROVE  /\ Owner(g)' \in Blocks /\ range'[Owner(g)'] # NoText
                 /\ \A k \in 1 .. 4 : dequeToDel'[4 * (g - 1) + k] = <<Owner(g)', Piece[k]>>
                 /\ body'[Owner(g)'] = Shape(checks'[Owner(g)'].form, Owner(g)', 4)
                 /\ \A h \in 1 .. G + 1 : Owner(h)' = Owner(g)' => h = g
      BY <1>3, <2>1, <3>0 DEF Pending, Removed
    <3>2. CASE g = G + 1
      <4>1. \A k \in 1 .. 4 : 4 * (g - 1) + k = L + k
        BY <1>12, <3>2
      <4>2. \A h \in 1 .. G : Owner(h)' # c
        BY <1>0, <1>1, <2>2
      <4>3. \A h \in 1 .. G + 1 : Owner(h)' = Owner(g)' => h = g
        BY <1>12, <2>2, <3>2, <4>2
      <4>4. Owner(g)' = c /\ range'[c] # NoText
        BY <1>1, <1>6, <1>7, <2>2, <3>2
      <4>5. \A k \in 1 .. 4 : dequeToDel'[4 * (g - 1) + k] = <<c, Piece[k]>>
        BY <1>15, <4>1
      <4>6. QED
        BY <1>1, <1>3, <4>3, <4>4, <4>5
    <3>3. CASE g \in 1 .. G
      <4>1. /\ Owner(g) \in Blocks /\ Removed(Owner(g)) /\ Owner(g) # c
            /\ body[Owner(g)] = Shape(checks[Owner(g)].form, Owner(g), 4)
            /\ \A h \in 1 .. G : Owner(h) = Owner(g) => h = g
        BY <1>0, <1>1, <2>2, <3>3 DEF Pending
      <4>2. \A k \in 1 .. 4 : 4 * (g - 1) + k \in 1 .. L
        BY <1>12, <3>3
      <4>3. \A k \in 1 .. 4 : dequeToDel'[4 * (g - 1) + k] = <<Owner(g), Piece[k]>>
        <5>1. \A k \in 1 .. 4 : dequeToDel[4 * (g - 1) + k] = <<Owner(g), Piece[k]>>
          <6>1. \A k \in 1 .. 4 :
                    4 * (g - 1) + k <= L => dequeToDel[4 * (g - 1) + k] = <<Owner(g), Piece[k]>>
            BY <1>0, <3>3 DEF Pending
          <6>2. \A k \in 1 .. 4 : 4 * (g - 1) + k <= L
            BY <1>12, <4>2
          <6>3. QED
            BY <6>1, <6>2
        <5>2. QED
          BY <1>15, <4>2, <5>1
      <4>4. \A h \in 1 .. G + 1 : Owner(h)' = Owner(g) => h = g
        BY <1>12, <2>2, <4>1
      <4>5. QED
        BY <1>3, <1>8, <2>2, <2>5, <3>3, <4>1, <4>3, <4>4 DEF Removed
    <3>4. QED
      BY <1>12, <3>2, <3>3
  <2>8. Jumps'
    <3>1. Len(dequeToInsert') = Len(dequeToDel') \div 4
      BY <1>12, <1>16, <2>1
    <3>2. \A g \in 1 .. G : dequeToInsert'[g] = Target(checks'[Owner(g)'].form, Owner(g)')
      <4>1. TAKE g \in 1 .. G
      <4>2. dequeToInsert[g] = Target(checks[Owner(g)].form, Owner(g)) /\ Owner(g) \in Blocks
        BY <1>0, <1>16 DEF Jumps, Pending
      <4>3. QED
        BY <1>3, <1>16, <2>2, <4>2
    <3>3. dequeToInsert'[G + 1] = Target(checks'[Owner(G + 1)'].form, Owner(G + 1)')
      BY <1>1, <1>3, <1>16, <2>2
    <3>4. \A g \in 1 .. G + 1 : dequeToInsert'[g] = Target(checks'[Owner(g)'].form, Owner(g)')
      BY <1>12, <3>2, <3>3
    <3>5. Len(dequeToInsert') = G + 1
      BY <1>16
    <3>6. QED
      BY <3>1, <3>4, <3>5 DEF Jumps
  <2>9. Settled'
    <3>1. SUFFICES ASSUME NEW b \in Blocks, \A g \in 1 .. G + 1 : Owner(g)' # b
          PROVE  body'[b] = IF Removed(b)' THEN Shape(checks'[b].form, b, 0) ELSE Compiled(checks'[b].form, b)
      BY <1>3, <2>1 DEF Settled
    <3>2. b # c /\ \A g \in 1 .. G : Owner(g) # b
      BY <1>12, <2>2, <3>1
    <3>3. QED
      BY <1>0, <1>3, <1>8, <2>5, <3>2 DEF Settled
  <2>10. QED
    BY <2>6, <2>7, <2>8, <2>9
<1>18. Types'
  <2>1. Origin'
    <3>1. PICK f \in Functions :
            /\ Len(checks) = Len(f)
            /\ \A b \in Blocks :
                /\ checks[b].form = f[b].form /\ checks[b].op = f[b].op /\ checks[b].ty = f[b].ty
                /\ \A i \in 1 .. 2 :
                    /\ checks[b].args[i].md = f[b].args[i].md
                    /\ checks[b].args[i].word = f[b].args[i].word
                    /\ checks[b].args[i].block = f[b].args[i].block
                    /\ \/ checks[b].args[i].from = f[b].args[i].from
                       \/ checks[b].args[i].from = "operation" /\ f[b].args[i].from = "value"
      BY <1>2 DEF Origin
    <3>2. \A b \in Blocks : \A i \in 1 .. 2 :
            \/ checks'[b].args[i].from = f[b].args[i].from
            \/ checks'[b].args[i].from = "operation" /\ f[b].args[i].from = "value"
      BY <1>3, <3>1
    <3>3. QED
      BY <1>3, <3>1, <3>2 DEF Origin
  <2>2. \A b \in Blocks : Removed(b)' => GetConstantRange(range'[b]) \in Ranges(W)
    BY <1>5, <1>6, <1>8 DEF Types
  <2>3. DOMAIN body' = Blocks
    BY DEF Types, ReplaceCheck
  <2>4. dequeToDel' \in Seq(Blocks \X Pieces)
    BY <1>15
  <2>5. dequeToInsert' \in Seq(Int)
    BY <1>16
  <2>6. QED
    BY <1>2, <1>3, <1>6, <2>1, <2>2, <2>3, <2>4, <2>5 DEF Types
<1>19. QED
  BY <1>9, <1>10, <1>11, <1>17, <1>18

(* A sequence without its k-th element.                                    *)
Dropped(s, k) == [i \in 1 .. Len(s) - 1 |-> s[IF i < k THEN i ELSE i + 1]]

(* The one instruction of a kind is taken out.                             *)
LEMMA WithoutAt ==
    ASSUME NEW s, NEW kind, NEW k \in DOMAIN s, s[k].kind = kind,
           \A i \in DOMAIN s : s[i].kind = kind => i = k
    PROVE  Without(s, kind) = Dropped(s, k)
<1> DEFINE j == CHOOSE j \in DOMAIN s : s[j].kind = kind
<1>1. j \in DOMAIN s /\ s[j].kind = kind
  OBVIOUS
<1>2. j = k
  BY <1>1
<1> HIDE DEF j
<1>3. Without(s, kind) = Dropped(s, j)
  BY DEF Without, Dropped, j
<1>4. QED
  BY <1>2, <1>3

(* A sequence of n instructions, by its first ones.                        *)
LEMMA Shrink ==
    ASSUME NEW f, NEW b
    PROVE  /\ Without(Shape(f, b, 4), "branch") = <<Operation, Call, Extract, Flag>>
           /\ Without(Shape(f, b, 3), "flag") = Shape(f, b, 2)
           /\ Without(Shape(f, b, 2), "value") = Shape(f, b, 1)
           /\ Without(Shape(f, b, 1), "call") = Shape(f, b, 0)
<1> DEFINE last == Last(f, b)
           jump == Jump(Target(f, b))
<1>1. /\ Operation.kind = "operation" /\ Call.kind = "call" /\ Extract.kind = "value"
      /\ Flag.kind = "flag" /\ last.kind = "branch" /\ jump.kind = "jump"
  BY DEF Operation, Call, Extract, Flag, Last, Branch, Jump, Instruction
<1>2. /\ Shape(f, b, 4) = <<Operation, Call, Extract, Flag, last>>
      /\ Shape(f, b, 3) = <<Operation, Call, Extract, Flag, jump>>
      /\ Shape(f, b, 2) = <<Operation, Call, Extract, jump>>
      /\ Shape(f, b, 1) = <<Operation, Call, jump>>
      /\ Shape(f, b, 0) = <<Operation, jump>>
  BY ShapeCases
<1> HIDE DEF last, jump
<1>3. Without(Shape(f, b, 4), "branch") = <<Operation, Call, Extract, Flag>>
  <2> DEFINE s == Shape(f, b, 4)
  <2>1. DOMAIN s = 1 .. 5 /\ Len(s) = 5 /\ (\A i \in 1 .. 5 : s[i].kind = "branch" <=> i = 5)
        /\ s[1] = Operation /\ s[2] = Call /\ s[3] = Extract /\ s[4] = Flag
    BY <1>1, <1>2
  <2> HIDE DEF s
  <2>2. Without(s, "branch") = Dropped(s, 5)
    BY <2>1, WithoutAt
  <2>3. Without(s, "branch") = <<Operation, Call, Extract, Flag>>
    BY <2>1, <2>2 DEF Dropped
  <2>4. QED
    BY <2>3 DEF s
<1>4. Without(Shape(f, b, 3), "flag") = Shape(f, b, 2)
  <2> DEFINE s == Shape(f, b, 3)
  <2>1. DOMAIN s = 1 .. 5 /\ Len(s) = 5 /\ (\A i \in 1 .. 5 : s[i].kind = "flag" <=> i = 4)
        /\ s[1] = Operation /\ s[2] = Call /\ s[3] = Extract /\ s[5] = jump
    BY <1>1, <1>2
  <2> HIDE DEF s
  <2>2. Without(s, "flag") = Dropped(s, 4)
    BY <2>1, WithoutAt
  <2>3. Without(s, "flag") = <<Operation, Call, Extract, jump>>
    BY <2>1, <2>2 DEF Dropped
  <2>4. QED
    BY <1>2, <2>3 DEF s
<1>5. Without(Shape(f, b, 2), "value") = Shape(f, b, 1)
  <2> DEFINE s == Shape(f, b, 2)
  <2>1. DOMAIN s = 1 .. 4 /\ Len(s) = 4 /\ (\A i \in 1 .. 4 : s[i].kind = "value" <=> i = 3)
        /\ s[1] = Operation /\ s[2] = Call /\ s[4] = jump
    BY <1>1, <1>2
  <2> HIDE DEF s
  <2>2. Without(s, "value") = Dropped(s, 3)
    BY <2>1, WithoutAt
  <2>3. Without(s, "value") = <<Operation, Call, jump>>
    BY <2>1, <2>2 DEF Dropped
  <2>4. QED
    BY <1>2, <2>3 DEF s
<1>6. Without(Shape(f, b, 1), "call") = Shape(f, b, 0)
  <2> DEFINE s == Shape(f, b, 1)
  <2>1. DOMAIN s = 1 .. 3 /\ Len(s) = 3 /\ (\A i \in 1 .. 3 : s[i].kind = "call" <=> i = 2)
        /\ s[1] = Operation /\ s[3] = jump
    BY <1>1, <1>2
  <2> HIDE DEF s
  <2>2. Without(s, "call") = Dropped(s, 2)
    BY <2>1, WithoutAt
  <2>3. Without(s, "call") = <<Operation, jump>>
    BY <2>1, <2>2 DEF Dropped
  <2>4. QED
    BY <1>2, <2>3 DEF s
<1>7. QED
  BY <1>3, <1>4, <1>5, <1>6

(* The last instruction to erase and the block it is of.                   *)
LEMMA LastPiece ==
    ASSUME IInv, RemoveLast
    PROVE  \E b \in Blocks, k \in 1 .. 4 :
             /\ Groups \in Nat \ {0} /\ Owner(Groups) = b /\ Removed(b)
             /\ Len(dequeToDel) = 4 * (Groups - 1) + k
             /\ dequeToDel[Len(dequeToDel)] = <<b, Piece[k]>>
             /\ body[b] = Shape(checks[b].form, b, k)
             /\ k = 4 => Len(dequeToInsert) = Groups /\ dequeToInsert[Groups] = Target(checks[b].form, b)
             /\ k < 4 => Len(dequeToInsert) = Groups - 1
<1> USE DEF IInv
<1>1. PICK L, G : L = Len(dequeToDel) /\ G = Groups
  OBVIOUS
<1>2. L \in Nat /\ L # 0
  <2>1. dequeToDel \in Seq(Blocks \X Pieces) /\ dequeToDel # <<>>
    BY DEF Types, RemoveLast
  <2>2. QED
    BY <1>1, <2>1, NotEmpty
<1>3. G = (L + 3) \div 4
  BY <1>1 DEF Groups
<1> DEFINE k == L - 4 * (G - 1)
<1>4. G \in Nat /\ G >= 1 /\ k \in 1 .. 4 /\ L = 4 * (G - 1) + k
  BY <1>2, <1>3
<1>5. k = 4 => L \div 4 = G
  BY <1>4
<1>6. k < 4 => L \div 4 = G - 1
  BY <1>4
<1> HIDE DEF k
<1>7. /\ Owner(G) \in Blocks /\ Removed(Owner(G))
      /\ dequeToDel[L] = <<Owner(G), Piece[k]>>
      /\ body[Owner(G)] = Shape(checks[Owner(G)].form, Owner(G), Left(G))
  <2>1. G \in 1 .. Groups /\ 4 * (G - 1) + k <= Len(dequeToDel)
    BY <1>1, <1>2, <1>4
  <2>2. QED
    BY <1>4, <2>1 DEF Pending
<1>8. Left(G) = k
  BY <1>1, <1>4 DEF Left
<1>9. Len(dequeToInsert) = L \div 4 /\ (k = 4 => dequeToInsert[G] = Target(checks[Owner(G)].form, Owner(G)))
  <2>1. Len(dequeToInsert) = L \div 4
    BY <1>1 DEF Jumps
  <2>2. k = 4 => G \in 1 .. Len(dequeToInsert)
    BY <1>4, <1>5, <2>1
  <2>3. QED
    BY <2>1, <2>2 DEF Jumps
<1>10. G = Groups /\ L = Len(dequeToDel)
  BY <1>1
<1>11. QED
  BY <1>4, <1>5, <1>6, <1>7, <1>8, <1>9, <1>10

(* A sequence of four followed by one.                                     *)
LEMMA FourAndOne ==
    ASSUME NEW p, NEW q, NEW r, NEW s, NEW t
    PROVE  Append(<<p, q, r, s>>, t) = <<p, q, r, s, t>>
<1>1. PICK T : T = {p, q, r, s, t}
  OBVIOUS
<1>2. PICK u : u = <<p, q, r, s>>
  OBVIOUS
<1>3. u \in Seq(T) /\ t \in T /\ Len(u) = 4 /\ u[1] = p /\ u[2] = q /\ u[3] = r /\ u[4] = s
  BY <1>1, <1>2
<1>4. PICK v : v = Append(u, t)
  OBVIOUS
<1>5. v \in Seq(T) /\ Len(v) = 5
  <2>1. u \in Seq(T) /\ t \in T
    BY <1>3
  <2>2. Append(u, t) \in Seq(T)
    BY <2>1
  <2>3. Len(Append(u, t)) = Len(u) + 1
    BY <2>1
  <2>4. QED
    BY <1>3, <1>4, <2>2, <2>3
<1>6. \A i \in 1 .. Len(u) : v[i] = u[i]
  BY <1>3, <1>4
<1>7. v[Len(u) + 1] = t
  <2>1. u \in Seq(T) /\ t \in T
    BY <1>3
  <2>2. Append(u, t)[Len(u) + 1] = t
    BY <2>1
  <2>3. QED
    BY <1>4, <2>2
<1>8. v[1] = p /\ v[2] = q /\ v[3] = r /\ v[4] = s /\ v[5] = t
  BY <1>3, <1>6, <1>7
<1>9. v = <<p, q, r, s, t>>
  BY <1>5, <1>8
<1>10. QED
  BY <1>2, <1>4, <1>9

(* The erasure of one instruction, whichever it is.                        *)
LEMMA EraseFacts ==
    ASSUME IInv, RemoveLast, NEW b \in Blocks, NEW k \in 1 .. 4, NEW G \in Nat \ {0}, G = Groups,
           dequeToDel[Len(dequeToDel)] = <<b, Piece[k]>>,
           body[b] = Shape(checks[b].form, b, k),
           k = 4 => Len(dequeToInsert) = G /\ dequeToInsert[G] = Target(checks[b].form, b),
           k < 4 => Len(dequeToInsert) = G - 1
    PROVE  /\ body' = [body EXCEPT ![b] = Shape(checks[b].form, b, k - 1)]
           /\ dequeToInsert' \in Seq(Int) /\ Len(dequeToInsert') = G - 1
           /\ \A g \in 1 .. G - 1 : dequeToInsert'[g] = dequeToInsert[g]
<1> DEFINE last == dequeToDel[Len(dequeToDel)]
           f == checks[b].form
           rest == Without(body[b], last[2])
<1>1. last[1] = b /\ last[2] = Piece[k]
  OBVIOUS
<1>2. dequeToInsert \in Seq(Int)
  BY DEF IInv, Types
<1>3. IF last[2] = "branch" /\ dequeToInsert # <<>>
      THEN /\ body' = [body EXCEPT ![b] = Append(rest, Jump(dequeToInsert[Len(dequeToInsert)]))]
           /\ dequeToInsert' = SubSeq(dequeToInsert, 1, Len(dequeToInsert) - 1)
      ELSE body' = [body EXCEPT ![b] = rest] /\ UNCHANGED dequeToInsert
  BY <1>1 DEF RemoveLast
<1>4. Piece[1] = "call" /\ Piece[2] = "value" /\ Piece[3] = "flag" /\ Piece[4] = "branch"
  BY DEF Piece
<1>5. CASE k = 4
  <2>1. rest = <<Operation, Call, Extract, Flag>>
    BY <1>1, <1>4, <1>5, Shrink
  <2>2. dequeToInsert # <<>> /\ dequeToInsert[Len(dequeToInsert)] = Target(f, b) /\ Len(dequeToInsert) = G
    BY <1>5
  <2>3. Append(rest, Jump(dequeToInsert[Len(dequeToInsert)])) = Shape(f, b, 3)
    <3>1. Append(<<Operation, Call, Extract, Flag>>, Jump(Target(f, b))) = Shape(f, b, 3)
      BY FourAndOne, ShapeCases
    <3>2. QED
      BY <2>1, <2>2, <3>1
  <2> HIDE DEF rest, last
  <2>4. /\ body' = [body EXCEPT ![b] = Shape(f, b, 3)]
        /\ dequeToInsert' = SubSeq(dequeToInsert, 1, G - 1)
    BY <1>1, <1>3, <1>4, <1>5, <2>2, <2>3
  <2>5. /\ dequeToInsert' \in Seq(Int) /\ Len(dequeToInsert') = G - 1
        /\ \A g \in 1 .. G - 1 : dequeToInsert'[g] = dequeToInsert[g]
    BY <1>2, <2>2, <2>4
  <2>6. k - 1 = 3
    BY <1>5
  <2>7. QED
    BY <2>4, <2>5, <2>6
<1>6. CASE k < 4
  <2>1. last[2] # "branch"
    BY <1>1, <1>4, <1>6
  <2>2. rest = Shape(f, b, k - 1)
    <3>1. CASE k = 1
      BY <1>1, <1>4, <3>1, Shrink
    <3>2. CASE k = 2
      BY <1>1, <1>4, <3>2, Shrink
    <3>3. CASE k = 3
      BY <1>1, <1>4, <3>3, Shrink
    <3>4. QED
      BY <1>6, <3>1, <3>2, <3>3
  <2> HIDE DEF rest, last
  <2>3. body' = [body EXCEPT ![b] = Shape(f, b, k - 1)] /\ dequeToInsert' = dequeToInsert
    BY <1>3, <2>1, <2>2
  <2>4. QED
    BY <1>2, <1>6, <2>3
<1>7. QED
  BY <1>5, <1>6

(* The erasure of the last instruction of the deque keeps the invariant.   *)
LEMMA RemoveInv == IInv /\ RemoveLast => IInv'
<1> SUFFICES ASSUME IInv, RemoveLast PROVE IInv'
  OBVIOUS
<1> USE DEF IInv
<1>0. PICK L, G : L = Len(dequeToDel) /\ G = Groups
  OBVIOUS
<1>1. PICK b \in Blocks, k \in 1 .. 4 :
             /\ G \in Nat \ {0} /\ Owner(G) = b /\ Removed(b)
             /\ L = 4 * (G - 1) + k
             /\ dequeToDel[L] = <<b, Piece[k]>>
             /\ body[b] = Shape(checks[b].form, b, k)
             /\ k = 4 => Len(dequeToInsert) = G /\ dequeToInsert[G] = Target(checks[b].form, b)
             /\ k < 4 => Len(dequeToInsert) = G - 1
  BY <1>0, LastPiece
<1>2. /\ body' = [body EXCEPT ![b] = Shape(checks[b].form, b, k - 1)]
      /\ dequeToInsert' \in Seq(Int) /\ Len(dequeToInsert') = G - 1
      /\ \A g \in 1 .. G - 1 : dequeToInsert'[g] = dequeToInsert[g]
  BY <1>0, <1>1, EraseFacts
<1>3. /\ UNCHANGED <<checks, range, cursor, status>> /\ status = "remove" /\ Blocks' = Blocks
      /\ dequeToDel' = SubSeq(dequeToDel, 1, Len(dequeToDel) - 1)
  BY DEF RemoveLast, Blocks
<1>4. /\ dequeToDel' \in Seq(Blocks \X Pieces) /\ Len(dequeToDel') = L - 1
      /\ \A i \in 1 .. L - 1 : dequeToDel'[i] = dequeToDel[i]
  <2>1. PICK S, d : S = Blocks \X Pieces /\ d = dequeToDel
    OBVIOUS
  <2>2. d \in Seq(S) /\ Len(d) = L /\ L \in Nat /\ L >= 1
    <3>1. d \in Seq(S) /\ Len(d) = L
      BY <1>0, <2>1 DEF Types
    <3>2. L \in Nat /\ L >= 1
      BY <1>1
    <3>3. QED
      BY <3>1, <3>2
  <2>3. /\ SubSeq(d, 1, L - 1) \in Seq(S) /\ Len(SubSeq(d, 1, L - 1)) = L - 1
        /\ \A i \in 1 .. L - 1 : SubSeq(d, 1, L - 1)[i] = d[i]
    BY <2>2
  <2>4. QED
    BY <1>0, <1>3, <2>1, <2>3
<1>5. Types'
  <2>1. Origin'
    <3>1. Origin /\ checks' = checks /\ Blocks' = Blocks
      BY <1>3 DEF Types
    <3>2. QED
      BY <3>1 DEF Origin
  <2>2. DOMAIN body' = Blocks'
    BY <1>2, <1>3 DEF Types
  <2>3. \A c \in Blocks : range'[c] # NoText => GetConstantRange(range'[c]) \in Ranges(W)
    BY <1>3 DEF Types, Removed
  <2>4. status' \in {"walk", "remove", "done", "aborted"} /\ cursor' \in 1 .. Len(checks') + 1
    BY <1>3 DEF Types
  <2>5. checks' \in Seq(Checks) /\ range' \in [Blocks' -> {NoText} \cup [kind : {"in"}, lo : Int, hi : Int]]
    BY <1>3 DEF Types
  <2>6. dequeToDel' \in Seq(Blocks' \X Pieces)
    BY <1>3, <1>4
  <2>7. QED
    BY <1>2, <1>3, <2>1, <2>2, <2>3, <2>4, <2>5, <2>6 DEF Types, Removed
<1>6. Forms' /\ Uses' /\ Judged'
  <2>1. Forms' /\ Uses'
    BY <1>3 DEF Forms, Uses, Removed
  <2>2. \A c \in Blocks :
          /\ Known(c)' = Known(c) /\ Clash(c)' = Clash(c)
          /\ RangesOf(c)' = RangesOf(c) /\ Redundant(c)' = Redundant(c)
          /\ OperandRange(c, 1)' = OperandRange(c, 1)
    BY <1>3 DEF Known, Clash, RangesOf, Redundant, OperandRange, TextOf
  <2>3. Judged'
    BY <1>3, <2>2 DEF Judged, Removed
  <2>4. QED
    BY <2>1, <2>3
<1>7. Walked'
  BY <1>3 DEF Walked
<1>8. /\ Groups' = IF k = 1 THEN G - 1 ELSE G
      /\ \A g \in 1 .. G : (g # G \/ k # 1) => Owner(g)' = Owner(g)
      /\ \A g \in 1 .. G - 1 : Left(g) = 4 /\ Left(g)' = 4
      /\ k # 1 => Left(G)' = k - 1
  <2>1. Len(dequeToDel') = 4 * (G - 1) + k - 1 /\ G \in Int
    BY <1>1, <1>4
  <2>2. Groups' = IF k = 1 THEN G - 1 ELSE G
    <3>1. Groups' = (4 * (G - 1) + k + 2) \div 4
      BY <2>1 DEF Groups
    <3>2. QED
      BY <2>1, <3>1
  <2>3. \A g \in 1 .. G : (g # G \/ k # 1) => Owner(g)' = Owner(g)
    <3>1. \A g \in 1 .. G : (g # G \/ k # 1) => 4 * (g - 1) + 1 \in 1 .. L - 1
      BY <1>1
    <3>2. QED
      BY <1>4, <3>1 DEF Owner
  <2>4. \A g \in 1 .. G - 1 : Left(g) = 4 /\ Left(g)' = 4
    BY <1>0, <1>1, <2>1 DEF Left
  <2>5. k # 1 => Left(G)' = k - 1
    BY <1>1, <2>1 DEF Left
  <2>6. QED
    BY <2>2, <2>3, <2>4, <2>5
<1>9. Jumps'
  <2>1. Len(dequeToDel') \div 4 = G - 1
    BY <1>1, <1>4
  <2>2. \A g \in 1 .. G - 1 : dequeToInsert[g] = Target(checks[Owner(g)].form, Owner(g))
    <3>1. \A g \in 1 .. G - 1 : g \in 1 .. Len(dequeToInsert)
      BY <1>1
    <3>2. QED
      BY <3>1 DEF Jumps
  <2>3. \A g \in 1 .. G - 1 : Owner(g)' = Owner(g)
    BY <1>1, <1>8
  <2>4. QED
    BY <1>2, <1>3, <2>1, <2>2, <2>3 DEF Jumps
<1>10. \A c \in Blocks : c # b => body'[c] = body[c]
  BY <1>2 DEF Types
<1>11. body'[b] = Shape(checks[b].form, b, k - 1)
  BY <1>2 DEF Types
<1>12. \A g \in 1 .. G - 1 :
        /\ Owner(g) \in Blocks /\ range[Owner(g)] # NoText /\ Owner(g) # b
        /\ body[Owner(g)] = Shape(checks[Owner(g)].form, Owner(g), 4)
        /\ \A h \in 1 .. G : Owner(h) = Owner(g) => h = g
  BY <1>0, <1>1, <1>8 DEF Pending, Removed
<1>13. \A g \in 1 .. G : \A j \in 1 .. 4 :
          4 * (g - 1) + j <= L => dequeToDel[4 * (g - 1) + j] = <<Owner(g), Piece[j]>>
  BY <1>0 DEF Pending
<1>14. \A g \in 1 .. G : \A j \in 1 .. 4 :
          4 * (g - 1) + j <= L - 1 => dequeToDel'[4 * (g - 1) + j] = <<Owner(g), Piece[j]>>
  <2>1. TAKE g \in 1 .. G, j \in 1 .. 4
  <2>2. SUFFICES ASSUME 4 * (g - 1) + j <= L - 1
        PROVE  dequeToDel'[4 * (g - 1) + j] = <<Owner(g), Piece[j]>>
    OBVIOUS
  <2>3. 4 * (g - 1) + j \in 1 .. L - 1 /\ 4 * (g - 1) + j <= L
    BY <1>1, <2>2
  <2>4. QED
    BY <1>4, <1>13, <2>3
<1>15. CASE k = 1
  <2>1. Groups' = G - 1 /\ \A g \in 1 .. G - 1 : Owner(g)' = Owner(g) /\ Left(g)' = 4
    BY <1>1, <1>8, <1>15
  <2>2. SUFFICES Pending' /\ Settled'
    BY <1>5, <1>6, <1>7, <1>9
  <2>3. Pending'
    <3>1. SUFFICES ASSUME NEW g \in 1 .. G - 1
          PROVE  /\ Owner(g)' \in Blocks /\ range'[Owner(g)'] # NoText
                 /\ \A j \in 1 .. 4 : 4 * (g - 1) + j <= L - 1 =>
                        dequeToDel'[4 * (g - 1) + j] = <<Owner(g)', Piece[j]>>
                 /\ body'[Owner(g)'] = Shape(checks'[Owner(g)'].form, Owner(g)', 4)
                 /\ \A h \in 1 .. G - 1 : Owner(h)' = Owner(g)' => h = g
      BY <1>3, <1>4, <2>1 DEF Pending, Removed
    <3>2. g \in 1 .. G /\ Owner(g)' = Owner(g) /\ \A h \in 1 .. G - 1 : h \in 1 .. G /\ Owner(h)' = Owner(h)
      BY <1>1, <2>1
    <3>3. /\ Owner(g) \in Blocks /\ range[Owner(g)] # NoText /\ Owner(g) # b
          /\ body[Owner(g)] = Shape(checks[Owner(g)].form, Owner(g), 4)
          /\ \A h \in 1 .. G : Owner(h) = Owner(g) => h = g
      BY <1>12
    <3>4. /\ \A j \in 1 .. 4 : 4 * (g - 1) + j <= L - 1 =>
                        dequeToDel'[4 * (g - 1) + j] = <<Owner(g), Piece[j]>>
      BY <1>14, <3>2
    <3>5. body'[Owner(g)] = Shape(checks[Owner(g)].form, Owner(g), 4)
      BY <1>10, <3>3
    <3>6. checks' = checks /\ range' = range
      BY <1>3
    <3>7. QED
      BY <3>2, <3>3, <3>4, <3>5, <3>6
  <2>4. Settled'
    <3>1. SUFFICES ASSUME NEW c \in Blocks, \A g \in 1 .. G - 1 : Owner(g) # c
          PROVE  body'[c] = IF range[c] # NoText THEN Shape(checks[c].form, c, 0)
                            ELSE Compiled(checks[c].form, c)
      BY <1>3, <2>1 DEF Settled, Removed
    <3>2. CASE c = b
      BY <1>1, <1>11, <1>15, <3>2 DEF Removed
    <3>3. CASE c # b
      <4>1. \A g \in 1 .. Groups : Owner(g) # c
        BY <1>0, <1>1, <3>1, <3>3
      <4>2. QED
        BY <1>10, <3>3, <4>1 DEF Settled, Removed
    <3>4. QED
      BY <3>2, <3>3
  <2>5. QED
    BY <2>3, <2>4
<1>16. CASE k # 1
  <2>1. Groups' = G /\ \A g \in 1 .. G : Owner(g)' = Owner(g)
    BY <1>1, <1>8, <1>16
  <2>2. SUFFICES Pending' /\ Settled'
    BY <1>5, <1>6, <1>7, <1>9
  <2>3. Pending'
    <3>1. SUFFICES ASSUME NEW g \in 1 .. G
          PROVE  /\ Owner(g) \in Blocks /\ range[Owner(g)] # NoText
                 /\ \A j \in 1 .. 4 : 4 * (g - 1) + j <= L - 1 =>
                        dequeToDel'[4 * (g - 1) + j] = <<Owner(g), Piece[j]>>
                 /\ body'[Owner(g)] = Shape(checks[Owner(g)].form, Owner(g), Left(g)')
                 /\ \A h \in 1 .. G : Owner(h) = Owner(g) => h = g
      <4>1. checks' = checks /\ range' = range /\ Blocks' = Blocks /\ Len(dequeToDel') = L - 1
        BY <1>3, <1>4
      <4>2. SUFFICES ASSUME NEW g \in 1 .. G
            PROVE  /\ Owner(g)' \in Blocks /\ range[Owner(g)'] # NoText
                   /\ \A j \in 1 .. 4 : 4 * (g - 1) + j <= L - 1 =>
                          dequeToDel'[4 * (g - 1) + j] = <<Owner(g)', Piece[j]>>
                   /\ body'[Owner(g)'] = Shape(checks[Owner(g)'].form, Owner(g)', Left(g)')
                   /\ \A h \in 1 .. G : Owner(h)' = Owner(g)' => h = g
        BY <2>1, <4>1 DEF Pending, Removed
      <4>3. QED
        BY <2>1
    <3>2. CASE g = G
      <4>1. Owner(g) = b /\ Left(g)' = k - 1 /\ range[b] # NoText
        BY <1>1, <1>8, <1>16, <3>2 DEF Removed
      <4>2. \A h \in 1 .. G : Owner(h) = Owner(g) => h = g
        BY <1>0, <1>1, <3>2 DEF Pending
      <4>3. QED
        BY <1>11, <1>14, <4>1, <4>2
    <3>3. CASE g \in 1 .. G - 1
      BY <1>1, <1>8, <1>10, <1>12, <1>14, <3>3
    <3>4. QED
      BY <1>1, <3>2, <3>3
  <2>4. Settled'
    <3>1. SUFFICES ASSUME NEW c \in Blocks, \A g \in 1 .. G : Owner(g) # c
          PROVE  body'[c] = IF range[c] # NoText THEN Shape(checks[c].form, c, 0)
                            ELSE Compiled(checks[c].form, c)
      BY <1>3, <2>1 DEF Settled, Removed
    <3>2. c # b
      BY <1>1, <3>1
    <3>3. QED
      BY <1>0, <1>10, <3>1, <3>2 DEF Settled, Removed
  <2>5. QED
    BY <2>3, <2>4
<1>17. QED
  BY <1>15, <1>16

(* What a block can look like at any moment.                               *)
LEMMA BodyCases ==
    ASSUME IInv, NEW b \in Blocks
    PROVE  \/ ~Removed(b) /\ body[b] = Compiled(checks[b].form, b)
           \/ Removed(b) /\ \E k \in 0 .. 4 : body[b] = Shape(checks[b].form, b, k)
<1> USE DEF IInv
<1>1. CASE \A g \in 1 .. Groups : Owner(g) # b
  BY <1>1 DEF Settled
<1>2. CASE \E g \in 1 .. Groups : Owner(g) = b
  <2>1. PICK g \in 1 .. Groups : Owner(g) = b
    BY <1>2
  <2>2. Removed(b) /\ body[b] = Shape(checks[b].form, b, Left(g))
    BY <2>1 DEF Pending
  <2>3. PICK L, G : L = Len(dequeToDel) /\ G = Groups
    OBVIOUS
  <2>4. L \in Nat /\ G = (L + 3) \div 4
    BY <2>3 DEF Types, Groups
  <2>5. Left(g) = IF 4 * g <= L THEN 4 ELSE L - 4 * (g - 1)
    BY <2>3 DEF Left
  <2>6. Left(g) \in 0 .. 4
    BY <2>1, <2>3, <2>4, <2>5
  <2>7. QED
    BY <2>2, <2>6
<1>3. QED
  BY <1>1, <1>2

(* The kinds of the instructions of a block as it was compiled.            *)
LEMMA CompiledKinds ==
    ASSUME NEW f \in {"trap", "handler", "builtin", "indirect"}, NEW b
    PROVE  /\ \A i \in DOMAIN Compiled(f, b) :
                /\ Compiled(f, b)[i].kind \in {"call", "value", "flag", "indirect", "branch", "jump"}
                /\ Compiled(f, b)[i].kind \in Terminators <=> i = Len(Compiled(f, b))
           /\ f # "indirect" => \E i \in DOMAIN Compiled(f, b) : Compiled(f, b)[i].kind = "value"
           /\ f # "indirect" => \E i \in DOMAIN Compiled(f, b) : Compiled(f, b)[i].kind = "branch"
<1> DEFINE Good(s) ==
            /\ \A i \in DOMAIN s :
                /\ s[i].kind \in {"call", "value", "flag", "indirect", "branch", "jump"}
                /\ s[i].kind \in Terminators <=> i = Len(s)
            /\ f # "indirect" => \E i \in DOMAIN s : s[i].kind = "value"
            /\ f # "indirect" => \E i \in DOMAIN s : s[i].kind = "branch"
<1>0. PICK s : s = Compiled(f, b)
  OBVIOUS
<1>1. /\ Call.kind = "call" /\ Extract.kind = "value" /\ Flag.kind = "flag"
      /\ IndirectCall.kind = "indirect"
      /\ \A y, n : Branch(y, n).kind = "branch"
      /\ \A t : Jump(t).kind = "jump"
  BY DEF Call, Extract, Flag, IndirectCall, Branch, Jump, Instruction
<1>2. ASSUME f \in {"trap", "handler"} PROVE Good(s)
  <2>1. PICK y, n : s = <<Call, Extract, Flag, Branch(y, n)>>
    BY <1>2, <1>0 DEF Compiled
  <2>2. /\ DOMAIN s = 1 .. 4 /\ Len(s) = 4
        /\ s[1].kind = "call" /\ s[2].kind = "value" /\ s[3].kind = "flag" /\ s[4].kind = "branch"
    BY <1>1, <2>1
  <2>3. QED
    BY <2>2 DEF Terminators
<1>3. ASSUME f = "builtin" PROVE Good(s)
  <2>1. PICK y, n : s = <<Call, Flag, Extract, Branch(y, n)>>
    BY <1>3, <1>0 DEF Compiled
  <2>2. /\ DOMAIN s = 1 .. 4 /\ Len(s) = 4
        /\ s[1].kind = "call" /\ s[2].kind = "flag" /\ s[3].kind = "value" /\ s[4].kind = "branch"
    BY <1>1, <2>1
  <2>3. QED
    BY <2>2 DEF Terminators
<1>4. ASSUME f = "indirect" PROVE Good(s)
  <2>1. PICK t : s = <<IndirectCall, Jump(t)>>
    BY <1>4, <1>0 DEF Compiled
  <2>2. DOMAIN s = 1 .. 2 /\ Len(s) = 2 /\ s[1].kind = "indirect" /\ s[2].kind = "jump"
    BY <1>1, <2>1
  <2>3. QED
    BY <1>4, <2>2 DEF Terminators
<1>5. Good(s)
  BY <1>2, <1>3, <1>4
<1>6. QED
  BY <1>0, <1>5

(* The kinds of the instructions of a block whose check is replaced.       *)
LEMMA ShapeKinds ==
    ASSUME NEW f, NEW b, NEW k \in 0 .. 4
    PROVE  /\ \A i \in DOMAIN Shape(f, b, k) :
                /\ Shape(f, b, k)[i].kind \in {"operation", "call", "value", "flag", "branch", "jump"}
                /\ Shape(f, b, k)[i].kind \in Terminators <=> i = Len(Shape(f, b, k))
           /\ 1 \in DOMAIN Shape(f, b, k) /\ Shape(f, b, k)[1].kind = "operation"
           /\ (\E i \in DOMAIN Shape(f, b, k) : Shape(f, b, k)[i].kind = "branch") <=> k = 4
           /\ Len(Shape(f, b, k)) \in DOMAIN Shape(f, b, k)
           /\ Shape(f, b, k)[Len(Shape(f, b, k))] = IF k = 4 THEN Last(f, b) ELSE Jump(Target(f, b))
<1> DEFINE last == Last(f, b)
           jump == Jump(Target(f, b))
           Good(s) ==
            /\ \A i \in DOMAIN s :
                /\ s[i].kind \in {"operation", "call", "value", "flag", "branch", "jump"}
                /\ s[i].kind \in Terminators <=> i = Len(s)
            /\ 1 \in DOMAIN s /\ s[1].kind = "operation"
            /\ (\E i \in DOMAIN s : s[i].kind = "branch") <=> k = 4
            /\ Len(s) \in DOMAIN s
            /\ s[Len(s)] = IF k = 4 THEN last ELSE jump
<1>0. PICK s : s = Shape(f, b, k)
  OBVIOUS
<1>1. /\ Operation.kind = "operation" /\ Call.kind = "call" /\ Extract.kind = "value" /\ Flag.kind = "flag"
      /\ last.kind = "branch" /\ jump.kind = "jump"
  BY DEF Operation, Call, Extract, Flag, Last, Branch, Jump, Instruction
<1> HIDE DEF last, jump
<1>2. ASSUME k = 4 PROVE Good(s)
  <2>1. s = <<Operation, Call, Extract, Flag, last>>
    BY <1>2, <1>0, ShapeCases DEF last
  <2>2. DOMAIN s = 1 .. 5 /\ Len(s) = 5 /\ s[1].kind = "operation" /\ s[2].kind = "call"
        /\ s[3].kind = "value" /\ s[4].kind = "flag" /\ s[5].kind = "branch" /\ s[5] = last
    BY <1>1, <2>1
  <2>3. QED
    BY <1>2, <2>2 DEF Terminators
<1>3. ASSUME k = 3 PROVE Good(s)
  <2>1. s = <<Operation, Call, Extract, Flag, jump>>
    BY <1>3, <1>0, ShapeCases DEF jump
  <2>2. DOMAIN s = 1 .. 5 /\ Len(s) = 5 /\ s[1].kind = "operation" /\ s[2].kind = "call"
        /\ s[3].kind = "value" /\ s[4].kind = "flag" /\ s[5].kind = "jump" /\ s[5] = jump
    BY <1>1, <2>1
  <2>3. QED
    BY <1>3, <2>2 DEF Terminators
<1>4. ASSUME k = 2 PROVE Good(s)
  <2>1. s = <<Operation, Call, Extract, jump>>
    BY <1>4, <1>0, ShapeCases DEF jump
  <2>2. DOMAIN s = 1 .. 4 /\ Len(s) = 4 /\ s[1].kind = "operation" /\ s[2].kind = "call"
        /\ s[3].kind = "value" /\ s[4].kind = "jump" /\ s[4] = jump
    BY <1>1, <2>1
  <2>3. QED
    BY <1>4, <2>2 DEF Terminators
<1>5. ASSUME k = 1 PROVE Good(s)
  <2>1. s = <<Operation, Call, jump>>
    BY <1>5, <1>0, ShapeCases DEF jump
  <2>2. DOMAIN s = 1 .. 3 /\ Len(s) = 3 /\ s[1].kind = "operation" /\ s[2].kind = "call"
        /\ s[3].kind = "jump" /\ s[3] = jump
    BY <1>1, <2>1
  <2>3. QED
    BY <1>5, <2>2 DEF Terminators
<1>6. ASSUME k = 0 PROVE Good(s)
  <2>1. s = <<Operation, jump>>
    BY <1>6, <1>0, ShapeCases DEF jump
  <2>2. DOMAIN s = 1 .. 2 /\ Len(s) = 2 /\ s[1].kind = "operation" /\ s[2].kind = "jump" /\ s[2] = jump
    BY <1>1, <2>1
  <2>3. QED
    BY <1>6, <2>2 DEF Terminators
<1>7. Good(s)
  BY <1>2, <1>3, <1>4, <1>5, <1>6
<1>8. QED
  BY <1>0, <1>7 DEF last, jump

(* The kinds of the instructions of a block whose check is replaced.       *)
OnlyKinds(s) ==
    \A i \in DOMAIN s : s[i].kind \in {"operation", "call", "value", "flag", "branch", "jump"}

(* A block whose check is replaced has no other instructions.              *)
LEMMA OnlyKindsOfShape ==
    ASSUME NEW f, NEW b, NEW k \in 0 .. 4
    PROVE  OnlyKinds(Shape(f, b, k))
BY ShapeKinds DEF OnlyKinds

(* If checks with a handler are kept, the ones replaced are traps.         *)
LEMMA OnlyTraps ==
    ASSUME IInv, HandlersKept, NEW b \in Blocks, Removed(b)
    PROVE  checks[b].form = "trap"
<1>1. checks[b].form \in {"trap", "handler"} /\ Known(b)
  BY DEF IInv, Forms, Judged
<1>2. SUFFICES ASSUME checks[b].form = "handler" PROVE FALSE
  BY <1>1
<1>3. PICK f \in Functions :
        /\ Len(checks) = Len(f)
        /\ \A c \in Blocks :
            /\ checks[c].form = f[c].form /\ checks[c].op = f[c].op /\ checks[c].ty = f[c].ty
            /\ \A i \in 1 .. 2 :
                /\ checks[c].args[i].md = f[c].args[i].md
                /\ checks[c].args[i].word = f[c].args[i].word
                /\ checks[c].args[i].block = f[c].args[i].block
                /\ \/ checks[c].args[i].from = f[c].args[i].from
                   \/ checks[c].args[i].from = "operation" /\ f[c].args[i].from = "value"
  BY DEF IInv, Types, Origin
<1>4. f \in Seq(Checks) /\ checks \in Seq(Checks) /\ DOMAIN f = Blocks
  BY <1>3, FunctionsAssumption DEF IInv, Types, Blocks
<1>5. PICK i \in 1 .. 2 : f[b].args[i].from # "value" /\ f[b].args[i].md = NoText
  BY <1>2, <1>3, <1>4 DEF HandlersKept
<1>6. Usable(f, b, f[b].args[i])
  BY <1>4, FunctionsAssumption
<1>7. f[b].args[i].from # "operation"
  BY <1>6 DEF Usable
<1> DEFINE o == checks[b].args[i]
<1>8. o.from = f[b].args[i].from /\ o.md = NoText /\ o \in Sources
  BY <1>3, <1>4, <1>5, CheckFacts
<1> HIDE DEF o
<1>9. o.from \in {"load", "literal"}
  BY <1>5, <1>7, <1>8 DEF Sources
<1>10. TextOf(o) = NoText
  BY <1>8, <1>9, TextCases
<1>11. QED
  BY <1>1, <1>10 DEF Known, o

(* A block whose check is replaced starts with the operation.              *)
LEMMA FirstIsOperation ==
    ASSUME NEW f, NEW b, NEW k \in 0 .. 4
    PROVE  1 \in DOMAIN Shape(f, b, k) /\ Shape(f, b, k)[1].kind = "operation"
<1>1. Operation.kind = "operation"
  BY DEF Operation, Instruction
<1>2. CASE k = 0
  <2>1. \A x : 1 \in DOMAIN <<Operation, x>> /\ <<Operation, x>>[1] = Operation
    OBVIOUS
  <2>2. Shape(f, b, k) = <<Operation, Jump(Target(f, b))>>
    BY <1>2, ShapeCases
  <2>3. QED
    BY <1>1, <2>1, <2>2
<1>3. CASE k = 1
  <2>1. \A x, y : 1 \in DOMAIN <<Operation, x, y>> /\ <<Operation, x, y>>[1] = Operation
    OBVIOUS
  <2>2. Shape(f, b, k) = <<Operation, Call, Jump(Target(f, b))>>
    BY <1>3, ShapeCases
  <2>3. QED
    BY <1>1, <2>1, <2>2
<1>4. CASE k = 2
  <2>1. \A x, y, z : 1 \in DOMAIN <<Operation, x, y, z>> /\ <<Operation, x, y, z>>[1] = Operation
    OBVIOUS
  <2>2. Shape(f, b, k) = <<Operation, Call, Extract, Jump(Target(f, b))>>
    BY <1>4, ShapeCases
  <2>3. QED
    BY <1>1, <2>1, <2>2
<1>5. CASE k \in 3 .. 4
  <2>1. \A x, y, z, u : /\ 1 \in DOMAIN <<Operation, x, y, z, u>>
                       /\ <<Operation, x, y, z, u>>[1] = Operation
    OBVIOUS
  <2>2. \/ Shape(f, b, k) = <<Operation, Call, Extract, Flag, Jump(Target(f, b))>>
        \/ Shape(f, b, k) = <<Operation, Call, Extract, Flag, Last(f, b)>>
    BY <1>5, ShapeCases
  <2>3. QED
    BY <1>1, <2>1, <2>2
<1>6. QED
  BY <1>2, <1>3, <1>4, <1>5

(* Every reachable state of the pass satisfies the inductive invariant     *)
(* (RemoveIOC.cpp:192-309).                                                *)
THEOREM Inductive == Spec => []IInv
<1>1. Init => IInv
  BY InitInv
<1>2. IInv /\ [Next]_vars => IInv'
  <2>1. SUFFICES ASSUME IInv, [Next]_vars PROVE IInv'
    OBVIOUS
  <2>2. CASE KeepCheck
    BY <2>1, <2>2, KeepInv
  <2>3. CASE ReplaceCheck
    BY <2>1, <2>3, ReplaceInv
  <2>4. CASE AbortOnWidths \/ AbortOnTypes \/ AbortOnIndirectCall \/ EndWalk \/ EndRemoval
    BY <2>1, <2>4, OtherInv
  <2>5. CASE RemoveLast
    BY <2>1, <2>5, RemoveInv
  <2>6. CASE UNCHANGED vars
    <3>1. /\ UNCHANGED <<checks, body, range, dequeToDel, dequeToInsert>>
          /\ cursor' = cursor /\ status' = status
      BY <2>6 DEF vars
    <3>2. cursor \in 1 .. Len(checks) + 1 /\ Len(checks) \in Nat /\ status \in {"walk", "remove", "done", "aborted"}
      BY <2>1 DEF IInv, Types
    <3>3. \A b \in Blocks : b < cursor' /\ Known(b) /\ ~Clash(b) /\ Redundant(b) => Removed(b)
      BY <2>1, <3>1 DEF IInv, Judged
    <3>4. Walked'
      BY <2>1, <3>1 DEF IInv, Walked, Groups
    <3>5. QED
      BY <2>1, <3>1, <3>2, <3>3, <3>4, OnlyStatus
  <2>7. QED
    BY <2>1, <2>2, <2>3, <2>4, <2>5, <2>6 DEF Next
<1>3. QED
  BY <1>1, <1>2, PTL DEF Spec

(* The deques hold instructions and targets of the function, and only an   *)
(* interval is put on an operation (RemoveIOC.cpp:248, 266-276).           *)
THEOREM TypeCorrect == Spec => []TypeOK
<1>1. IInv => TypeOK
  <2>1. SUFFICES ASSUME IInv PROVE TypeOK
    OBVIOUS
  <2>2. checks \in Seq(Checks) /\ cursor \in 1 .. Len(checks) + 1 /\ status \in {"walk", "remove", "done", "aborted"}
    BY <2>1 DEF IInv, Types
  <2>3. \A b \in Blocks : \A i \in DOMAIN body[b] :
            body[b][i].kind \in {"operation", "call", "value", "flag", "indirect"} \cup Terminators
    <3>1. TAKE b \in Blocks
    <3>2. CASE body[b] = Compiled(checks[b].form, b)
      <4>1. checks[b].form \in {"trap", "handler", "builtin", "indirect"}
        BY <2>2, CheckFacts
      <4>2. QED
        BY <3>2, <4>1, CompiledKinds DEF Terminators
    <3>3. CASE \E k \in 0 .. 4 : body[b] = Shape(checks[b].form, b, k)
      <4>1. PICK k \in 0 .. 4 : body[b] = Shape(checks[b].form, b, k)
        BY <3>3
      <4>2. OnlyKinds(body[b])
        BY <4>1, OnlyKindsOfShape
      <4>3. QED
        BY <4>2 DEF OnlyKinds, Terminators
    <3>4. QED
      BY <2>1, <3>2, <3>3, BodyCases
  <2>4. \A b \in Blocks : range[b].kind \in {"none", "in"}
    BY <2>1 DEF IInv, Types, NoText
  <2>5. \A i \in DOMAIN dequeToDel : dequeToDel[i][1] \in Blocks
    <3>1. PICK S, d : S = Blocks /\ d = dequeToDel
      OBVIOUS
    <3>2. d \in Seq(S \X Pieces)
      BY <2>1, <3>1 DEF IInv, Types
    <3>3. \A i \in DOMAIN d : d[i] \in S \X Pieces
      BY <3>2
    <3>4. QED
      BY <3>1, <3>3
  <2>6. \A i \in DOMAIN dequeToInsert :
            \E b \in Blocks : dequeToInsert[i] \in {Continuation(b), OnOverflow(b)}
    <3>1. TAKE i \in DOMAIN dequeToInsert
    <3>2. PICK d, G : d = dequeToInsert /\ G = Groups
      OBVIOUS
    <3>3. d \in Seq(Int) /\ Len(d) = Len(dequeToDel) \div 4 /\ dequeToDel \in Seq(Blocks \X Pieces)
      BY <2>1, <3>2 DEF IInv, Types, Jumps
    <3>4. i \in 1 .. Len(d) /\ Len(dequeToDel) \in Nat
      BY <3>2, <3>3
    <3>5. i \in 1 .. Groups
      BY <3>3, <3>4 DEF Groups
    <3>6. dequeToInsert[i] = Target(checks[Owner(i)].form, Owner(i)) /\ Owner(i) \in Blocks
      BY <2>1, <3>2, <3>4, <3>5 DEF IInv, Jumps, Pending
    <3>7. QED
      BY <3>6 DEF Target
  <2>7. QED
    BY <2>2, <2>3, <2>4, <2>5, <2>6 DEF TypeOK
<1>2. QED
  BY <1>1, Inductive, PTL

(* No check is left that the ranges known at the end of the walk would show*)
(* to be redundant: the texts of the operands of a check are final when the*)
(* walk comes to it (RemoveIOC.cpp:192-261).                               *)
THEOREM OneWalkEnough == Spec => []NothingLeftToRemove
<1>1. IInv => NothingLeftToRemove
  <2>1. SUFFICES ASSUME IInv, status = "done", NEW b \in Blocks, Known(b), ~Clash(b), Redundant(b)
        PROVE  Removed(b)
    BY DEF NothingLeftToRemove
  <2>2. cursor = Len(checks) + 1 /\ b \in 1 .. Len(checks) /\ Len(checks) \in Nat
    BY <2>1, CheckFacts DEF IInv, Walked, Types
  <2>3. b < cursor
    BY <2>2
  <2>4. QED
    BY <2>1, <2>3 DEF IInv, Judged
<1>2. QED
  BY <1>1, Inductive, PTL

(* The two deques stay in step, whatever the number of removed checks:     *)
(* every block ends with one terminator, and one without its check goes on *)
(* where the check let it go on (RemoveIOC.cpp:263-309).  A handler's check*)
(* must not be removed: its jump leads to the handler.                     *)
THEOREM DequesInStep ==
    ASSUME HandlersKept
    PROVE  Spec => []BlocksWellFormed
<1>1. IInv => BlocksWellFormed
  <2>1. SUFFICES ASSUME IInv, status = "done", NEW b \in Blocks
        PROVE  /\ \A i \in DOMAIN body[b] :
                    body[b][i].kind \in Terminators <=> i = Len(body[b])
               /\ Removed(b) => body[b][Len(body[b])].targets = <<Continuation(b)>>
    BY DEF BlocksWellFormed
  <2>2. Groups = 0
    BY <2>1 DEF IInv, Walked, Groups
  <2>3. body[b] = IF Removed(b) THEN Shape(checks[b].form, b, 0) ELSE Compiled(checks[b].form, b)
    BY <2>1, <2>2 DEF IInv, Settled
  <2>4. CASE Removed(b)
    <3>1. checks[b].form = "trap"
      BY <2>1, <2>4, OnlyTraps
    <3>2. body[b][Len(body[b])] = Jump(Target(checks[b].form, b))
      BY <2>3, <2>4, ShapeKinds
    <3>3. Target(checks[b].form, b) = Continuation(b)
      BY <3>1 DEF Target
    <3>4. body[b][Len(body[b])].targets = <<Continuation(b)>>
      BY <3>2, <3>3 DEF Jump, Instruction
    <3>5. QED
      BY <2>3, <2>4, <3>4, ShapeKinds
  <2>5. CASE ~Removed(b)
    <3>1. checks[b].form \in {"trap", "handler", "builtin", "indirect"}
      BY <2>1, CheckFacts DEF IInv, Types
    <3>2. QED
      BY <2>3, <2>5, <3>1, CompiledKinds
  <2>6. QED
    BY <2>4, <2>5
<1>2. QED
  BY <1>1, Inductive, PTL

(* Nothing that is left uses an instruction that was erased                *)
(* (RemoveIOC.cpp:260, 291-309).  The value of a check with a handler is   *)
(* used by a phi node, which no replacement reaches here.                  *)
THEOREM UsesSurvive ==
    ASSUME HandlersKept
    PROVE  Spec => []NoUseOfErased
<1>1. IInv => NoUseOfErased
  <2>1. SUFFICES ASSUME IInv, NEW b \in Blocks, NEW i \in 1 .. 2,
                        checks[b].args[i].from \in {"value", "operation"}
        PROVE  checks[b].args[i].from \in Kinds(checks[b].args[i].block)
    BY DEF NoUseOfErased
  <2>2. PICK o : o = checks[b].args[i]
    OBVIOUS
  <2>3. o.block \in Blocks /\ checks[o.block].form # "indirect"
    BY <2>1, <2>2, OperandFacts DEF IInv, Types
  <2>4. checks[o.block].form \in {"trap", "handler", "builtin", "indirect"}
    BY <2>1, <2>3, CheckFacts DEF IInv, Types
  <2>5. CASE o.from = "operation"
    <3>1. Removed(o.block)
      BY <2>1, <2>2, <2>5 DEF IInv, Uses
    <3>2. PICK k \in 0 .. 4 : body[o.block] = Shape(checks[o.block].form, o.block, k)
      BY <2>1, <2>3, <3>1, BodyCases
    <3>3. 1 \in DOMAIN body[o.block] /\ body[o.block][1].kind = "operation"
      BY <3>2, FirstIsOperation, Zenon
    <3>4. QED
      BY <2>2, <2>5, <3>3 DEF Kinds
  <2>6. CASE o.from = "value"
    <3>1. ~Removed(o.block)
      BY <2>1, <2>2, <2>3, <2>6, OnlyTraps DEF IInv, Uses
    <3>2. body[o.block] = Compiled(checks[o.block].form, o.block)
      BY <2>1, <2>3, <3>1, BodyCases
    <3>3. \E j \in DOMAIN body[o.block] : body[o.block][j].kind = "value"
      BY <2>3, <2>4, <3>2, CompiledKinds
    <3>4. QED
      BY <2>2, <2>6, <3>3 DEF Kinds
  <2>7. QED
    BY <2>1, <2>2, <2>5, <2>6
<1>2. QED
  BY <1>1, Inductive, PTL

-----------------------------------------------------------------------------
(* The numbers of an operation and its limits.  The range of the operation *)
(* lacks the greatest number (Limit), so that all pairs of operands pass   *)
(* the check or none does: between a pair that overflows and one that does *)
(* not lies a pair whose result is the greatest number.                    *)

(* The number an operation reads a word as, the least such number, and the *)
(* words it reads as the greatest and the least one.                       *)
NumberOf(op, m, w) == IF op \in Signeds THEN Signed(m, w) ELSE w

Floor(op, m) == IF op \in Signeds THEN -SignedMin(m) ELSE 0

TopOf(op, m) == IF op \in Signeds THEN SignedMax(m) ELSE m - 1

BottomOf(op, m) == IF op \in Signeds THEN SignedMin(m) ELSE 0

(* The members of r are all the numbers from a least to a greatest one.    *)
Straight(op, r) == ~(Contains(r, TopOf(op, r.m)) /\ Contains(r, BottomOf(op, r.m)))

(* The words in the reading of an operation.                               *)
LEMMA NumberFacts ==
    ASSUME NEW op \in Signeds \cup Unsigneds, NEW m \in Moduli
    PROVE  /\ TopOf(op, m) \in Word(m) /\ BottomOf(op, m) \in Word(m) /\ Floor(op, m) \in Int
           /\ \A x \in Word(m) :
                /\ NumberOf(op, m, x) \in Int /\ NumberOf(op, m, x) \in Floor(op, m) .. Floor(op, m) + m - 1
                /\ NumberOf(op, m, x) % m = x
           /\ \A n \in Floor(op, m) .. Floor(op, m) + m - 1 :
                n % m \in Word(m) /\ NumberOf(op, m, n % m) = n
           /\ (Floor(op, m) + m - 1) % m = TopOf(op, m) /\ (Floor(op, m) - 1) % m = TopOf(op, m)
           /\ Floor(op, m) .. Floor(op, m) + m - 1 =
                IF op \in Signeds THEN -SignedMin(m) .. SignedMax(m) ELSE Word(m)
<1>1. PICK s \in Int : m = 2 * s /\ SignedMin(m) = s /\ SignedMax(m) = s - 1 /\ s >= 2
  BY DEF Moduli, SignedMin, SignedMax
<1>2. m \in Int /\ m >= 4 /\ Word(m) = 0 .. m - 1
  BY DEF Moduli, Word
<1>3. CASE op \in Signeds
  <2>1. /\ Floor(op, m) = -s /\ TopOf(op, m) = s - 1 /\ BottomOf(op, m) = s
        /\ \A w : NumberOf(op, m, w) = Signed(m, w)
    BY <1>1, <1>3 DEF Floor, TopOf, BottomOf, NumberOf
  <2>2. (-s + m - 1) - m * 0 \in 0 .. m - 1 /\ (-s - 1) - m * (-1) \in 0 .. m - 1
    BY <1>1, <1>2
  <2>3. (-s + m - 1) % m = s - 1 /\ (-s - 1) % m = s - 1
    <3>1. (-s + m - 1) % m = (-s + m - 1) - m * 0
      BY <1>1, <1>2, <2>2, ModUnique
    <3>2. (-s - 1) % m = (-s - 1) - m * (-1)
      BY <1>1, <1>2, <2>2, ModUnique
    <3>3. QED
      BY <1>1, <1>2, <3>1, <3>2
  <2>4. \A x \in Word(m) : Signed(m, x) \in Int /\ Signed(m, x) \in -s .. s - 1 /\ Signed(m, x) % m = x
    BY <1>1, SignedFacts
  <2>5. \A n \in -s .. s - 1 : Signed(m, n % m) = n
    BY <1>1, SignedOfMod
  <2>6. \A n \in Int : n % m \in Word(m)
    BY IntMod
  <2>7. /\ Floor(op, m) + m - 1 = s - 1 /\ -s + m - 1 = s - 1 /\ Floor(op, m) - 1 = -s - 1
        /\ s - 1 \in 0 .. m - 1 /\ s \in 0 .. m - 1 /\ -s \in Int
    BY <1>1, <1>2, <2>1
  <2>8. \A x \in Word(m) :
                /\ NumberOf(op, m, x) \in Int /\ NumberOf(op, m, x) \in Floor(op, m) .. Floor(op, m) + m - 1
                /\ NumberOf(op, m, x) % m = x
    BY <2>1, <2>4, <2>7
  <2>9. \A n \in Floor(op, m) .. Floor(op, m) + m - 1 : n \in Int /\ n \in -s .. s - 1
    BY <1>1, <1>2, <2>1, <2>7
  <2>10. (Floor(op, m) + m - 1) % m = TopOf(op, m) /\ (Floor(op, m) - 1) % m = TopOf(op, m)
    BY <2>1, <2>3, <2>7
  <2>11. Floor(op, m) .. Floor(op, m) + m - 1 = -SignedMin(m) .. SignedMax(m)
    BY <1>1, <2>1, <2>7
  <2>12. QED
    BY <1>2, <1>3, <2>1, <2>5, <2>6, <2>7, <2>8, <2>9, <2>10, <2>11
<1>4. CASE op \notin Signeds
  <2>1. /\ Floor(op, m) = 0 /\ TopOf(op, m) = m - 1 /\ BottomOf(op, m) = 0
        /\ \A w : NumberOf(op, m, w) = w
    BY <1>4 DEF Floor, TopOf, BottomOf, NumberOf
  <2>2. \A n \in 0 .. m - 1 : n % m = n
    BY <1>2
  <2>3. (0 - 1) % m = m - 1
    <3>1. (-1) - m * (-1) \in 0 .. m - 1
      BY <1>2
    <3>2. (-1) % m = (-1) - m * (-1)
      BY <1>2, <3>1, ModUnique
    <3>3. QED
      BY <1>2, <3>2
  <2>4. QED
    BY <1>2, <1>4, <2>1, <2>2, <2>3
<1>5. QED
  BY <1>3, <1>4

(* A straight range has every word between two of its members.             *)
LEMMA StraightFacts ==
    ASSUME NEW op \in Signeds \cup Unsigneds, NEW m \in Moduli, NEW r \in Ranges(m), Straight(op, r),
           NEW x \in Word(m), NEW y \in Word(m), NEW z \in Word(m), Contains(r, x), Contains(r, y),
           NumberOf(op, m, x) <= NumberOf(op, m, z), NumberOf(op, m, z) <= NumberOf(op, m, y)
    PROVE  Contains(r, z)
<1>1. PICK s \in Int : m = 2 * s /\ SignedMin(m) = s /\ SignedMax(m) = s - 1 /\ s >= 2
  BY DEF Moduli, SignedMin, SignedMax
<1>2. PICK l \in 0 .. m - 1, h \in 0 .. m - 1 : r = MkRange(m, l, h) /\ r.m = m /\ (l = h => l = 0 \/ l = m - 1)
  BY RangeFacts
<1>3. x \in 0 .. m - 1 /\ y \in 0 .. m - 1 /\ z \in 0 .. m - 1 /\ m \in Int
  BY DEF Moduli, Word
<1>4. \A v : Contains(r, v) <=> IF l = h THEN l = m - 1 ELSE IF l <= h THEN l <= v /\ v < h ELSE l <= v \/ v < h
  BY <1>1, <1>2, <1>3 DEF Contains, IsFullSet, IsWrappedSet, MkRange
<1>5. CASE op \in Signeds
  <2>1. /\ ~(Contains(r, s - 1) /\ Contains(r, s))
        /\ Signed(m, x) <= Signed(m, z) /\ Signed(m, z) <= Signed(m, y)
    BY <1>1, <1>2, <1>5 DEF Straight, TopOf, BottomOf, NumberOf
  <2>2. QED
    BY <1>1, <1>3, <1>4, <2>1 DEF Signed
<1>6. CASE op \notin Signeds
  <2>1. ~(Contains(r, m - 1) /\ Contains(r, 0)) /\ x <= z /\ z <= y
    BY <1>2, <1>6 DEF Straight, TopOf, BottomOf, NumberOf
  <2>2. QED
    BY <1>1, <1>3, <1>4, <2>1
<1>7. QED
  BY <1>5, <1>6

(* The greatest number is missing from every range within the limits.      *)
LEMMA TopExcluded ==
    ASSUME NEW op \in Signeds \cup Unsigneds, NEW m \in Moduli, NEW r \in Ranges(m),
           ContainsRange(Limit(op, m), r)
    PROVE  ~Contains(r, TopOf(op, m))
<1>1. PICK s \in Int : m = 2 * s /\ SignedMin(m) = s /\ SignedMax(m) = s - 1 /\ s >= 2
  BY DEF Moduli, SignedMin, SignedMax
<1>2. TopOf(op, m) \in Word(m) /\ r.m = m /\ Word(m) = 0 .. m - 1
  BY NumberFacts, RangeFacts DEF Word
<1>3. Limit(op, m) \in Ranges(m) /\ ~Contains(Limit(op, m), TopOf(op, m))
  <2>1. CASE op \in Signeds
    <3>1. Limit(op, m) = MkRange(m, s, s - 1) /\ TopOf(op, m) = s - 1
      BY <1>1, <2>1 DEF Limit, TopOf
    <3>2. s \in Word(m) /\ s - 1 \in Word(m) /\ Legal(m, s, s - 1)
      BY <1>1, <1>2 DEF Legal
    <3>3. MkRange(m, s, s - 1) \in Ranges(m)
      BY <3>2, MkRangeLegal
    <3>4. ~Contains(MkRange(m, s, s - 1), s - 1)
      BY <1>1 DEF Contains, IsWrappedSet, MkRange
    <3>5. QED
      BY <3>1, <3>3, <3>4
  <2>2. CASE op \notin Signeds
    <3>1. Limit(op, m) = MkRange(m, 0, m - 1) /\ TopOf(op, m) = m - 1
      BY <2>2 DEF Limit, TopOf
    <3>2. 0 \in Word(m) /\ m - 1 \in Word(m) /\ Legal(m, 0, m - 1)
      BY <1>1, <1>2 DEF Legal
    <3>3. MkRange(m, 0, m - 1) \in Ranges(m)
      BY <3>2, MkRangeLegal
    <3>4. ~Contains(MkRange(m, 0, m - 1), m - 1)
      BY <1>1 DEF Contains, IsWrappedSet, MkRange
    <3>5. QED
      BY <3>1, <3>3, <3>4
  <2>3. QED
    BY <2>1, <2>2
<1>4. Members(r) \subseteq Members(Limit(op, m)) /\ Limit(op, m).m = m
  BY <1>3, ContainsRangeExact, RangeFacts
<1>5. QED
  BY <1>2, <1>3, <1>4 DEF Members

(* The words of a straight range reach every number between two of them.   *)
LEMMA StraightNumbers ==
    ASSUME NEW op \in Signeds \cup Unsigneds, NEW m \in Moduli, NEW r \in Ranges(m), Straight(op, r),
           NEW x \in Word(m), NEW y \in Word(m), Contains(r, x), Contains(r, y), NEW n \in Int,
           \/ NumberOf(op, m, x) <= n /\ n <= NumberOf(op, m, y)
           \/ NumberOf(op, m, y) <= n /\ n <= NumberOf(op, m, x)
    PROVE  n % m \in Word(m) /\ Contains(r, n % m)
<1> DEFINE f == Floor(op, m)
           p == NumberOf(op, m, x)
           q == NumberOf(op, m, y)
<1>1. m \in Int /\ f \in Int /\ p \in Int /\ q \in Int /\ p \in f .. f + m - 1 /\ q \in f .. f + m - 1
  BY NumberFacts DEF Moduli
<1>2. n \in f .. f + m - 1
  <2> HIDE DEF f, p, q
  <2>1. (p <= n /\ n <= q) \/ (q <= n /\ n <= p)
    BY DEF p, q
  <2>2. QED
    BY <1>1, <2>1
<1>3. n % m \in Word(m) /\ NumberOf(op, m, n % m) = n
  BY <1>2, NumberFacts
<1>4. QED
  BY <1>3, StraightFacts

(* Between two sums lies every number, as a sum of numbers between theirs. *)
LEMMA SumsBetween ==
    ASSUME NEW p \in Int, NEW q \in Int, NEW x \in Int, NEW y \in Int, NEW t \in Int,
           (p + q <= t /\ t <= x + y) \/ (x + y <= t /\ t <= p + q)
    PROVE  \E u, v \in Int :
             /\ u + v = t
             /\ (p <= u /\ u <= x) \/ (x <= u /\ u <= p)
             /\ (q <= v /\ v <= y) \/ (y <= v /\ v <= q)
<1>1. CASE (q <= t - p /\ t - p <= y) \/ (y <= t - p /\ t - p <= q)
  <2>1. PICK v \in Int : v = t - p
    OBVIOUS
  <2>2. /\ p + v = t
        /\ (p <= p /\ p <= x) \/ (x <= p /\ p <= p)
        /\ (q <= v /\ v <= y) \/ (y <= v /\ v <= q)
    BY <1>1, <2>1
  <2>3. QED
    BY <2>1, <2>2
<1>2. CASE ~((q <= t - p /\ t - p <= y) \/ (y <= t - p /\ t - p <= q))
  <2>1. PICK u \in Int : u = t - y
    OBVIOUS
  <2>2. /\ u + y = t
        /\ (p <= u /\ u <= x) \/ (x <= u /\ u <= p)
        /\ (q <= y /\ y <= y) \/ (y <= y /\ y <= q)
    BY <1>2, <2>1
  <2>3. QED
    BY <2>1, <2>2
<1>3. QED
  BY <1>1, <1>2

(* What overflow means in the reading of the operation.                    *)
LEMMA OverflowFacts ==
    ASSUME NEW op \in Signeds \cup Unsigneds, NEW m \in Moduli, NEW x \in Word(m), NEW y \in Word(m)
    PROVE  LET p == NumberOf(op, m, x)
               q == NumberOf(op, m, y)
           IN  /\ op \in Additions => ExactResult(op, m, x, y) = p + q
               /\ op \in Subtractions => ExactResult(op, m, x, y) = p - q
               /\ op \in Multiplications => ExactResult(op, m, x, y) = p * q
               /\ ExactResult(op, m, x, y) \in Int
               /\ OverflowsOn(op, m, x, y) <=>
                    ExactResult(op, m, x, y) \notin Floor(op, m) .. Floor(op, m) + m - 1
<1> DEFINE p == NumberOf(op, m, x)
           q == NumberOf(op, m, y)
<1>1. op \in {"smul", "sadd", "ssub", "umul", "uadd", "usub"}
  BY DEF Signeds, Unsigneds
<1>2. p \in Int /\ q \in Int
  BY NumberFacts
<1>3. /\ op \in {"smul", "umul"} => ExactResult(op, m, x, y) = p * q
      /\ op \in {"sadd", "uadd"} => ExactResult(op, m, x, y) = p + q
      /\ op \in {"ssub", "usub"} => ExactResult(op, m, x, y) = p - q
  BY DEF ExactResult, NumberOf
<1>4. OverflowsOn(op, m, x, y) <=> ExactResult(op, m, x, y) \notin Floor(op, m) .. Floor(op, m) + m - 1
  <2>1. Floor(op, m) .. Floor(op, m) + m - 1 = IF op \in Signeds THEN -SignedMin(m) .. SignedMax(m) ELSE Word(m)
    BY NumberFacts
  <2>2. QED
    BY <2>1, Zenon DEF OverflowsOn
<1> HIDE DEF p, q
<1>5. QED
  <2>1. p * q \in Int /\ p + q \in Int /\ p - q \in Int
    BY <1>2
  <2>2. ExactResult(op, m, x, y) \in Int
    BY <1>1, <1>3, <2>1
  <2>3. QED
    BY <1>3, <1>4, <2>2 DEF p, q, Additions, Subtractions, Multiplications

(* If a sum overflows and another does not, some sum is the greatest number*)
(* or the one below the least, which the range would have to contain.      *)
LEMMA SumsPass ==
    ASSUME NEW op \in Signeds \cup Unsigneds, NEW m \in Moduli, NEW a \in Ranges(m), NEW c \in Ranges(m),
           op \in Additions \/ op \in Subtractions,
           ContainsRange(Limit(op, m), ResultRange(op, a, c)), Straight(op, a), Straight(op, c),
           NEW p \in Word(m), NEW q \in Word(m), Contains(a, p), Contains(c, q), ~OverflowsOn(op, m, p, q),
           NEW x \in Word(m), NEW y \in Word(m), Contains(a, x), Contains(c, y)
    PROVE  ~OverflowsOn(op, m, x, y)
<1> SUFFICES ASSUME OverflowsOn(op, m, x, y) PROVE FALSE
  OBVIOUS
<1> DEFINE n(w) == NumberOf(op, m, w)
           r == ResultRange(op, a, c)
<1>1. PICK k \in {1, -1} : k = IF op \in Additions THEN 1 ELSE -1
  OBVIOUS
<1>2. n(p) \in Int /\ n(q) \in Int /\ n(x) \in Int /\ n(y) \in Int /\ m \in Int /\ m >= 4
  BY NumberFacts DEF Moduli
<1>3. PICK f : f = Floor(op, m)
  OBVIOUS
<1>4. /\ f \in Int /\ (f + m - 1) % m = TopOf(op, m) /\ (f - 1) % m = TopOf(op, m)
  BY <1>3, NumberFacts
<1>5. Additions \cap Subtractions = {}
  BY DEF Additions, Subtractions
<1>6. /\ n(p) + k * n(q) \in f .. f + m - 1
      /\ n(x) + k * n(y) \notin f .. f + m - 1
  BY <1>1, <1>2, <1>3, <1>5, OverflowFacts
<1> HIDE DEF n
<1>7. \E t \in {f + m - 1, f - 1} :
        \/ n(p) + k * n(q) <= t /\ t <= n(x) + k * n(y)
        \/ n(x) + k * n(y) <= t /\ t <= n(p) + k * n(q)
  BY <1>1, <1>2, <1>4, <1>6
<1>8. PICK t \in {f + m - 1, f - 1} :
        \/ n(p) + k * n(q) <= t /\ t <= n(x) + k * n(y)
        \/ n(x) + k * n(y) <= t /\ t <= n(p) + k * n(q)
  BY <1>7
<1>9. t \in Int /\ t % m = TopOf(op, m)
  BY <1>2, <1>4
<1>10. k * n(q) \in Int /\ k * n(y) \in Int
  BY <1>1, <1>2
<1>11. PICK u, v \in Int :
         /\ u + v = t
         /\ (n(p) <= u /\ u <= n(x)) \/ (n(x) <= u /\ u <= n(p))
         /\ (k * n(q) <= v /\ v <= k * n(y)) \/ (k * n(y) <= v /\ v <= k * n(q))
  BY <1>2, <1>8, <1>9, <1>10, SumsBetween
<1>12. PICK d \in Int : d = k * v /\ v = k * d
  BY <1>1
<1>13. (n(q) <= d /\ d <= n(y)) \/ (n(y) <= d /\ d <= n(q))
  BY <1>1, <1>2, <1>11, <1>12
<1>14. u % m \in Word(m) /\ Contains(a, u % m) /\ d % m \in Word(m) /\ Contains(c, d % m)
  BY <1>11, <1>13, StraightNumbers DEF n
<1>15. r \in Ranges(m)
  BY OperationsSplit, AddSound, SubSound
<1>16. Contains(r, TopOf(op, m))
  <2>1. CASE op \in Additions
    <3>1. k = 1 /\ u + d = t
      BY <1>1, <1>11, <1>12, <2>1
    <3>2. Plus(m, u % m, d % m) = TopOf(op, m)
      BY <1>9, <3>1, ModOfSum
    <3>3. r = Add(a, c)
      BY <2>1, OperationsSplit
    <3>4. QED
      BY <1>14, <3>2, <3>3, AddSound
  <2>2. CASE op \in Subtractions
    <3>1. k = -1 /\ u - d = t
      BY <1>1, <1>5, <1>11, <1>12, <2>2
    <3>2. Minus(m, u % m, d % m) = TopOf(op, m)
      BY <1>9, <3>1, ModOfSum
    <3>3. r = Sub(a, c)
      BY <2>2, OperationsSplit
    <3>4. QED
      BY <1>14, <3>2, <3>3, SubSound
  <2>3. QED
    BY <2>1, <2>2
<1>17. QED
  BY <1>15, <1>16, TopExcluded

(* If a product overflows and another does not, the greatest number lies   *)
(* between the least and the greatest product.                             *)
LEMMA ProductsPass ==
    ASSUME NEW op \in Signeds \cup Unsigneds, NEW m \in Moduli, NEW a \in Ranges(m), NEW c \in Ranges(m),
           op \in Multiplications, ContainsRange(Limit(op, m), ResultRange(op, a, c)),
           op = "smul" => \A w \in Members(a) \cup Members(c) : Signed(m, w) >= 0,
           NEW p \in Word(m), NEW q \in Word(m), Contains(a, p), Contains(c, q), ~OverflowsOn(op, m, p, q),
           NEW x \in Word(m), NEW y \in Word(m), Contains(a, x), Contains(c, y)
    PROVE  ~OverflowsOn(op, m, x, y)
<1> SUFFICES ASSUME OverflowsOn(op, m, x, y) PROVE FALSE
  OBVIOUS
<1> DEFINE l == UnsignedMin(a) * UnsignedMin(c)
           h == UnsignedMax(a) * UnsignedMax(c) + 1
<1>1. /\ UnsignedMin(a) \in Nat /\ UnsignedMax(a) \in Nat
      /\ UnsignedMin(a) <= x /\ x <= UnsignedMax(a) /\ UnsignedMin(a) <= p /\ p <= UnsignedMax(a)
      /\ UnsignedMin(c) \in Nat /\ UnsignedMax(c) \in Nat
      /\ UnsignedMin(c) <= y /\ y <= UnsignedMax(c) /\ UnsignedMin(c) <= q /\ q <= UnsignedMax(c)
      /\ x \in Nat /\ y \in Nat /\ p \in Nat /\ q \in Nat /\ m \in Int /\ m >= 4
  BY UnsignedBounds DEF Moduli, Word
<1>2. l <= p * q /\ x * y < h /\ l \in Nat /\ h \in Nat /\ x * y \in Nat /\ p * q \in Nat
  BY <1>1, ProductMonotone
<1>3. ResultRange(op, a, c) = TruncateProduct(m, l, h)
  BY EmptyHasNoMember, RangeFacts, OperationsSplit DEF Multiply
<1> HIDE DEF l, h
<1>4. NumberOf(op, m, p) = p /\ NumberOf(op, m, q) = q /\ NumberOf(op, m, x) = x /\ NumberOf(op, m, y) = y
  <2>1. CASE op = "smul"
    <3>1. p \in Members(a) /\ x \in Members(a) /\ q \in Members(c) /\ y \in Members(c)
      BY RangeFacts DEF Members
    <3>2. Signed(m, p) >= 0 /\ Signed(m, q) >= 0 /\ Signed(m, x) >= 0 /\ Signed(m, y) >= 0
      BY <2>1, <3>1
    <3>3. p \in 0 .. m - 1 /\ q \in 0 .. m - 1 /\ x \in 0 .. m - 1 /\ y \in 0 .. m - 1
      BY DEF Word
    <3>4. Signed(m, p) = p /\ Signed(m, q) = q /\ Signed(m, x) = x /\ Signed(m, y) = y
      BY <1>1, <3>2, <3>3 DEF Signed
    <3>5. op \in Signeds
      BY <2>1 DEF Signeds
    <3>6. QED
      BY <3>4, <3>5 DEF NumberOf
  <2>2. CASE op # "smul"
    <3>1. op \notin Signeds
      BY <2>2 DEF Multiplications, Signeds
    <3>2. QED
      BY <3>1 DEF NumberOf
  <2>3. QED
    BY <2>1, <2>2
<1>5. PICK f : f = Floor(op, m)
  OBVIOUS
<1>6. f \in Int /\ (f + m - 1) % m = TopOf(op, m)
  BY <1>5, NumberFacts
<1>7. p * q \in f .. f + m - 1 /\ x * y \notin f .. f + m - 1
  <2>1. ExactResult(op, m, p, q) = p * q /\ ExactResult(op, m, x, y) = x * y
    BY <1>4, OverflowFacts
  <2>2. QED
    BY <1>5, <2>1, OverflowFacts
<1>8. PICK u, v \in Nat : u = p * q /\ v = x * y
  BY <1>2
<1>9. f <= 0
  <2>1. Floor(op, m) \in {0, -SignedMin(m)} /\ SignedMin(m) \in Int /\ SignedMin(m) >= 0
    BY DEF Floor, SignedMin, Moduli
  <2>2. QED
    BY <1>5, <2>1
<1>10. f + m - 1 \in Nat /\ l <= f + m - 1 /\ f + m - 1 < h /\ l < h
  BY <1>1, <1>2, <1>6, <1>7, <1>8, <1>9
<1>11. TruncateProduct(m, l, h) \in Ranges(m) /\ Contains(TruncateProduct(m, l, h), (f + m - 1) % m)
  BY <1>2, <1>10, TruncateSound
<1>12. QED
  BY <1>3, <1>6, <1>11, TopExcluded

(* Operand ranges on which one pair of words is as good as all: both are   *)
(* known exactly, or the terms are numbers without a gap and the factors   *)
(* of a signed product are not negative.                                   *)
Uniform(op, a, c) ==
    \/ Single(a) /\ Single(c)
    \/ /\ op \notin Multiplications => Straight(op, a) /\ Straight(op, c)
       /\ op = "smul" => \A w \in Members(a) \cup Members(c) : Signed(a.m, w) >= 0

(* A pair of words that the operand ranges allow and the check lets pass.  *)
PairPasses(op, a, c) == \E x \in Members(a), y \in Members(c) : ~OverflowsOn(op, a.m, x, y)

(* When the pass takes a check for redundant and one pair of words passes  *)
(* it, all pairs do, and the range of the operation has their results.     *)
LEMMA AllPass ==
    ASSUME NEW op \in Signeds \cup Unsigneds, NEW m \in Moduli, NEW a \in Ranges(m), NEW c \in Ranges(m),
           ContainsRange(Limit(op, m), ResultRange(op, a, c)), Uniform(op, a, c), PairPasses(op, a, c),
           NEW x \in Word(m), NEW y \in Word(m), Contains(a, x), Contains(c, y)
    PROVE  /\ ~OverflowsOn(op, m, x, y)
           /\ Contains(ResultRange(op, a, c), ExactResult(op, m, x, y) % m)
<1>1. a.m = m /\ c.m = m
  BY RangeFacts
<1>2. PICK p \in Word(m), q \in Word(m) : Contains(a, p) /\ Contains(c, q) /\ ~OverflowsOn(op, m, p, q)
  BY <1>1 DEF PairPasses, Members
<1>3. op \in Multiplications \/ op \in Additions \/ op \in Subtractions
  BY OperationsSplit
<1>4. Multiplications \cap (Additions \cup Subtractions) = {}
  BY DEF Multiplications, Additions, Subtractions
<1>5. ~OverflowsOn(op, m, x, y)
  <2>1. CASE Single(a) /\ Single(c)
    <3>1. x = a.lo /\ p = a.lo /\ y = c.lo /\ q = c.lo
      BY <1>2, <2>1, SingleFacts
    <3>2. QED
      BY <1>2, <3>1
  <2>2. CASE ~(Single(a) /\ Single(c)) /\ op \in Multiplications
    BY <1>1, <1>2, <2>2, ProductsPass DEF Uniform
  <2>3. CASE ~(Single(a) /\ Single(c)) /\ op \notin Multiplications
    BY <1>2, <1>3, <2>3, SumsPass DEF Uniform
  <2>4. QED
    BY <2>1, <2>2, <2>3
<1>6. /\ NumberOf(op, m, x) \in Int /\ NumberOf(op, m, y) \in Int
      /\ NumberOf(op, m, x) % m = x /\ NumberOf(op, m, y) % m = y
  BY NumberFacts
<1>7. Contains(ResultRange(op, a, c), ExactResult(op, m, x, y) % m)
  <2>1. CASE op \in Multiplications
    <3>1. PICK u \in Int, v \in Int : u = NumberOf(op, m, x) /\ v = NumberOf(op, m, y)
      BY <1>6
    <3>2. ExactResult(op, m, x, y) = u * v
      BY <2>1, <3>1, OverflowFacts
    <3>3. (u * v) % m = ((u % m) * (v % m)) % m
      BY ModOfProduct
    <3>4. u % m = x /\ v % m = y
      BY <1>6, <3>1
    <3>5. ExactResult(op, m, x, y) % m = (x * y) % m
      BY <3>2, <3>3, <3>4, Zenon
    <3>6. QED
      BY <2>1, <3>5, MultiplySound, OperationsSplit
  <2>2. CASE op \in Additions
    <3>1. ExactResult(op, m, x, y) % m = Plus(m, x, y)
      BY <1>6, <2>2, OverflowFacts, ModOfSum
    <3>2. QED
      BY <2>2, <3>1, AddSound, OperationsSplit
  <2>3. CASE op \in Subtractions
    <3>1. ExactResult(op, m, x, y) % m = Minus(m, x, y)
      BY <1>6, <2>3, OverflowFacts, ModOfSum
    <3>2. QED
      BY <2>3, <3>1, SubSound, OperationsSplit
  <2>4. QED
    BY <1>3, <2>1, <2>2, <2>3
<1>8. QED
  BY <1>5, <1>7

-----------------------------------------------------------------------------
(* The execution.  Step(at, b) looks only at the blocks before b, so the   *)
(* recursive definition of Executed has one solution; what holds of every  *)
(* block follows from the least block where it would not.                  *)

(* An operand of block b when the blocks before it did what at says, and   *)
(* what the block then does with the words of its operands.                *)
Arg(at, b, i) ==
    IF checks[b].args[i].from \in {"load", "literal"}
    THEN checks[b].args[i].word ELSE at[checks[b].args[i].block].word

Outcome(b, x, y) ==
    LET c        == checks[b]
        overflow == c.form # "indirect" /\ OverflowsOn(c.op, c.ty, x, y)
        next     == Successor(b, overflow)
    IN  IF overflow /\ c.op \in Signeds /\ body[b][Len(body[b])].kind = "jump"
        THEN [next |-> Nowhere, word |-> 0]
        ELSE IF c.form = "handler" /\ next = OnOverflow(b)
        THEN [next |-> Continuation(b), word |-> HandlerResult]
        ELSE [next |-> next, word |-> ExactResult(c.op, c.ty, x, y) % c.ty]

LEMMA StepFacts ==
    ASSUME NEW at, NEW b
    PROVE  Step(at, b) = IF at[b - 1].next # b THEN at[b - 1] ELSE Outcome(b, Arg(at, b, 1), Arg(at, b, 2))
BY DEF Step, Outcome, Arg

(* A block looks at what the blocks before it did and at nothing else.     *)
LEMMA StepLocal ==
    ASSUME checks \in Seq(Checks), Origin, NEW b \in Blocks, NEW f, NEW g,
           \A k \in 0 .. b - 1 : f[k] = g[k]
    PROVE  Step(f, b) = Step(g, b)
<1>1. b \in Nat \ {0}
  BY CheckFacts
<1>2. f[b - 1] = g[b - 1]
  BY <1>1
<1>3. ASSUME NEW i \in 1 .. 2 PROVE Arg(f, b, i) = Arg(g, b, i)
  <2>1. CASE checks[b].args[i].from \in {"load", "literal"}
    BY <2>1 DEF Arg
  <2>2. CASE checks[b].args[i].from \notin {"load", "literal"}
    <3>1. checks[b].args[i].block \in 1 .. b - 1
      BY <2>2, OperandFacts
    <3>2. checks[b].args[i].block \in 0 .. b - 1
      BY <1>1, <3>1
    <3>3. QED
      BY <2>2, <3>2 DEF Arg
  <2>3. QED
    BY <2>1, <2>2
<1>4. Arg(f, b, 1) = Arg(g, b, 1) /\ Arg(f, b, 2) = Arg(g, b, 2)
  BY <1>3
<1>5. QED
  BY <1>2, <1>4, StepFacts

(* The execution of the first n blocks.                                    *)
Begin == [next |-> 1, word |-> 0]

Runs(f, n) == f = [b \in 0 .. n |-> IF b = 0 THEN Begin ELSE Step(f, b)]

LEMMA SomeRun ==
    ASSUME checks \in Seq(Checks), Origin
    PROVE  \E f : Runs(f, Len(checks))
<1> DEFINE T == {n \in 0 .. Len(checks) : ~\E f : Runs(f, n)}
<1>1. Len(checks) \in Nat /\ Blocks = 1 .. Len(checks)
  BY DEF Blocks
<1>2. SUFFICES ASSUME T # {} PROVE FALSE
  BY <1>1
<1>3. PICK n \in T : \A k \in T : n <= k
  <2>1. T \in SUBSET Nat
    BY <1>1
  <2>2. QED
    BY <1>2, <2>1, LeastNumber
<1>4. n \in 0 .. Len(checks) /\ n \in Nat /\ ~\E f : Runs(f, n)
  BY <1>1, <1>3
<1>5. CASE n = 0
  <2> DEFINE f == [b \in 0 .. 0 |-> Begin]
  <2>1. Runs(f, 0)
    BY DEF Runs
  <2>2. QED
    BY <1>4, <1>5, <2>1
<1>6. CASE n # 0
  <2>1. n - 1 \notin T /\ n - 1 \in 0 .. Len(checks) /\ n \in Blocks
    BY <1>1, <1>3, <1>4, <1>6
  <2>2. PICK f : Runs(f, n - 1)
    BY <2>1
  <2> DEFINE g == [b \in 0 .. n |-> IF b = n THEN Step(f, n) ELSE f[b]]
  <2>3. f = [b \in 0 .. n - 1 |-> IF b = 0 THEN Begin ELSE Step(f, b)]
    BY <2>2 DEF Runs
  <2>4. \A k \in 0 .. n - 1 : g[k] = f[k]
    BY <1>4
  <2>5. g[n] = Step(f, n)
    BY <1>4
  <2> HIDE DEF g
  <2>6. \A b \in 1 .. n : Step(g, b) = Step(f, b)
    <3>1. TAKE b \in 1 .. n
    <3>2. b \in Blocks /\ \A k \in 0 .. b - 1 : g[k] = f[k]
      BY <1>1, <1>4, <2>4
    <3>3. QED
      BY <3>2, StepLocal
  <2>7. \A b \in 0 .. n : g[b] = IF b = 0 THEN Begin ELSE Step(g, b)
    <3>1. TAKE b \in 0 .. n
    <3>2. CASE b = n
      BY <1>4, <1>6, <2>5, <2>6, <3>2
    <3>3. CASE b # n
      <4>1. b \in 0 .. n - 1
        BY <1>4, <3>3
      <4>2. g[b] = f[b] /\ f[b] = IF b = 0 THEN Begin ELSE Step(f, b)
        BY <2>3, <2>4, <4>1
      <4>3. b # 0 => Step(g, b) = Step(f, b)
        BY <1>4, <2>6, <4>1
      <4>4. QED
        BY <4>2, <4>3
    <3>4. QED
      BY <3>2, <3>3
  <2>8. Runs(g, n)
    <3>1. g = [b \in 0 .. n |-> g[b]]
      BY DEF g
    <3>2. QED
      BY <2>7, <3>1 DEF Runs
  <2>9. QED
    BY <1>4, <2>8
<1>7. QED
  BY <1>5, <1>6

LEMMA ExecutedRuns ==
    ASSUME checks \in Seq(Checks), Origin
    PROVE  Runs(Executed, Len(checks))
<1>1. \E f : Runs(f, Len(checks))
  BY SomeRun
<1>2. Executed = CHOOSE f : Runs(f, Len(checks))
  BY DEF Executed, Runs, Begin
<1>3. QED
  BY <1>1, <1>2

(* The terminator of a block whose check is replaced.                      *)
LEMMA ShapeTail ==
    ASSUME NEW f, NEW b, NEW k \in 0 .. 4
    PROVE  Shape(f, b, k)[Len(Shape(f, b, k))] = IF k = 4 THEN Last(f, b) ELSE Jump(Target(f, b))
<1>1. k \in {0, 1, 2, 3, 4}
  OBVIOUS
<1>2. PICK l, j, s : l = Last(f, b) /\ j = Jump(Target(f, b)) /\ s = Shape(f, b, k)
  OBVIOUS
<1>3. k = 4 => s[Len(s)] = l
  <2>1. SUFFICES ASSUME k = 4 PROVE s[Len(s)] = l
    OBVIOUS
  <2>2. s = <<Operation, Call, Extract, Flag, l>>
    BY <1>2, <2>1, ShapeCases
  <2>3. Len(s) = 5 /\ s[5] = l
    BY <2>2
  <2>4. QED
    BY <2>3
<1>4. k = 3 => s[Len(s)] = j
  <2>1. SUFFICES ASSUME k = 3 PROVE s[Len(s)] = j
    OBVIOUS
  <2>2. s = <<Operation, Call, Extract, Flag, j>>
    BY <1>2, <2>1, ShapeCases
  <2>3. Len(s) = 5 /\ s[5] = j
    BY <2>2
  <2>4. QED
    BY <2>3
<1>5. k = 2 => s[Len(s)] = j
  <2>1. SUFFICES ASSUME k = 2 PROVE s[Len(s)] = j
    OBVIOUS
  <2>2. s = <<Operation, Call, Extract, j>>
    BY <1>2, <2>1, ShapeCases
  <2>3. Len(s) = 4 /\ s[4] = j
    BY <2>2
  <2>4. QED
    BY <2>3
<1>6. k = 1 => s[Len(s)] = j
  <2>1. SUFFICES ASSUME k = 1 PROVE s[Len(s)] = j
    OBVIOUS
  <2>2. s = <<Operation, Call, j>>
    BY <1>2, <2>1, ShapeCases
  <2>3. Len(s) = 3 /\ s[3] = j
    BY <2>2
  <2>4. QED
    BY <2>3
<1>7. k = 0 => s[Len(s)] = j
  <2>1. SUFFICES ASSUME k = 0 PROVE s[Len(s)] = j
    OBVIOUS
  <2>2. s = <<Operation, j>>
    BY <1>2, <2>1, ShapeCases
  <2>3. Len(s) = 2 /\ s[2] = j
    BY <2>2
  <2>4. QED
    BY <2>3
<1>8. s[Len(s)] = IF k = 4 THEN l ELSE j
  BY <1>1, <1>3, <1>4, <1>5, <1>6, <1>7
<1>9. QED
  BY <1>2, <1>8, Zenon

TailOf(b) == body[b][Len(body[b])]

(* The terminator of a block: the branch of its check, or the jump that    *)
(* took its place, or the jump after a call through a pointer.             *)
LEMMA TailCases ==
    ASSUME IInv, NEW b \in Blocks
    PROVE  \/ checks[b].form = "indirect" /\ TailOf(b) = Jump(Continuation(b))
           \/ checks[b].form # "indirect" /\ TailOf(b) = Last(checks[b].form, b)
           \/ Removed(b) /\ TailOf(b) = Jump(Target(checks[b].form, b))
<1>1. PICK f, s : f = checks[b].form /\ s = body[b]
  OBVIOUS
<1>2. f \in {"trap", "handler", "builtin", "indirect"} /\ TailOf(b) = s[Len(s)]
  BY <1>1, CheckFacts DEF IInv, Types, TailOf
<1>3. CASE ~Removed(b)
  <2>1. s = Compiled(f, b)
    BY <1>1, <1>3, BodyCases
  <2>2. CASE f = "trap"
    BY <1>1, <1>2, <2>1, <2>2 DEF Compiled, Last
  <2>3. CASE f = "handler"
    BY <1>1, <1>2, <2>1, <2>3 DEF Compiled, Last
  <2>4. CASE f = "builtin"
    BY <1>1, <1>2, <2>1, <2>4 DEF Compiled, Last
  <2>5. CASE f = "indirect"
    BY <1>1, <1>2, <2>1, <2>5 DEF Compiled
  <2>6. QED
    BY <1>2, <2>2, <2>3, <2>4, <2>5
<1>4. CASE Removed(b)
  <2>1. PICK k \in 0 .. 4 : s = Shape(f, b, k)
    BY <1>1, <1>4, BodyCases
  <2>2. s[Len(s)] = IF k = 4 THEN Last(f, b) ELSE Jump(Target(f, b))
    <3>1. Shape(f, b, k)[Len(Shape(f, b, k))] = IF k = 4 THEN Last(f, b) ELSE Jump(Target(f, b))
      BY ShapeTail
    <3>2. QED
      BY <2>1, <3>1, Zenon
  <2>3. f \in {"trap", "handler"}
    BY <1>1, <1>4 DEF IInv, Forms
  <2>4. QED
    BY <1>1, <1>2, <1>4, <2>2, <2>3
<1>5. QED
  BY <1>3, <1>4

(* From block b control goes on in the next block, to where it goes on     *)
(* overflow, or nowhere.                                                   *)
LEMMA WaysOn ==
    ASSUME IInv, NEW b \in Blocks, NEW x, NEW y
    PROVE  Outcome(b, x, y).next \in {b + 1, -b, 0}
<1> DEFINE f == checks[b].form
           last == TailOf(b)
           overflow == f # "indirect" /\ OverflowsOn(checks[b].op, checks[b].ty, x, y)
<1>1. \/ last = Jump(Continuation(b)) \/ last = Jump(OnOverflow(b))
      \/ last = Branch(Continuation(b), OnOverflow(b)) \/ last = Branch(OnOverflow(b), Continuation(b))
  BY TailCases DEF Last, Target
<1>2. /\ Jump(Continuation(b)).kind = "jump" /\ Jump(Continuation(b)).targets[1] = b + 1
      /\ Jump(OnOverflow(b)).kind = "jump" /\ Jump(OnOverflow(b)).targets[1] = -b
      /\ Branch(Continuation(b), OnOverflow(b)).targets[1] = b + 1
      /\ Branch(Continuation(b), OnOverflow(b)).targets[2] = -b
      /\ Branch(OnOverflow(b), Continuation(b)).targets[1] = -b
      /\ Branch(OnOverflow(b), Continuation(b)).targets[2] = b + 1
  BY DEF Jump, Branch, Instruction, Continuation, OnOverflow
<1>3. Successor(b, overflow) \in {b + 1, -b}
  <2>1. Successor(b, overflow) =
          IF last.kind = "jump" \/ overflow # (f = "trap") THEN last.targets[1] ELSE last.targets[2]
    BY DEF Successor, TailOf
  <2>2. ~(last.kind = "jump") =>
            \/ last = Branch(Continuation(b), OnOverflow(b))
            \/ last = Branch(OnOverflow(b), Continuation(b))
    BY <1>1, <1>2
  <2> HIDE DEF last, overflow, f
  <2>3. last.targets[1] \in {b + 1, -b}
    BY <1>1, <1>2
  <2>4. ~(last.kind = "jump") => last.targets[2] \in {b + 1, -b}
    BY <1>2, <2>2
  <2>5. QED
    BY <2>1, <2>3, <2>4
<1>4. PICK s : s = Successor(b, overflow)
  OBVIOUS
<1>5. PICK w : w = ExactResult(checks[b].op, checks[b].ty, x, y) % checks[b].ty
  OBVIOUS
<1>6. \/ Outcome(b, x, y) = [next |-> Nowhere, word |-> 0]
      \/ Outcome(b, x, y) = [next |-> Continuation(b), word |-> HandlerResult]
      \/ Outcome(b, x, y) = [next |-> s, word |-> w]
  BY <1>4, <1>5 DEF Outcome
<1>7. QED
  BY <1>3, <1>4, <1>6 DEF Nowhere, Continuation

(* A trap that does not overflow yields its result and goes on, whether its*)
(* branch or a jump ends the block.                                        *)
LEMMA PassingOutcome ==
    ASSUME IInv, NEW b \in Blocks, checks[b].form = "trap", NEW x, NEW y,
           ~OverflowsOn(checks[b].op, checks[b].ty, x, y)
    PROVE  Outcome(b, x, y) =
             [next |-> b + 1, word |-> ExactResult(checks[b].op, checks[b].ty, x, y) % checks[b].ty]
<1> DEFINE last == TailOf(b)
<1>1. last = Branch(Continuation(b), OnOverflow(b)) \/ last = Jump(Continuation(b))
  BY TailCases DEF Last, Target
<1>2. Successor(b, FALSE) = b + 1
  <2>1. Successor(b, FALSE) = last.targets[1]
    BY DEF Successor, TailOf
  <2>2. last.targets[1] = b + 1
    BY <1>1 DEF Jump, Branch, Instruction, Continuation
  <2>3. QED
    BY <2>1, <2>2
<1>3. (checks[b].form # "indirect" /\ OverflowsOn(checks[b].op, checks[b].ty, x, y)) <=> FALSE
  OBVIOUS
<1>4. Outcome(b, x, y) =
        [next |-> Successor(b, FALSE), word |-> ExactResult(checks[b].op, checks[b].ty, x, y) % checks[b].ty]
  BY <1>3 DEF Outcome
<1>5. QED
  BY <1>2, <1>4

(* What the execution does at a block it comes to, or does not come to.    *)
LEMMA ExecutedAt ==
    ASSUME IInv, NEW b \in Blocks
    PROVE  /\ Executed[0] = Begin /\ b - 1 \in 0 .. Len(checks) /\ b \in 0 .. Len(checks)
           /\ ~Reached(b) => Executed[b] = Executed[b - 1]
           /\ Reached(b) => Executed[b] = Outcome(b, Arg(Executed, b, 1), Arg(Executed, b, 2))
           /\ \A i \in 1 .. 2 : Argument(b, i) = Arg(Executed, b, i)
<1>1. PICK E : E = Executed
  OBVIOUS
<1>2. checks \in Seq(Checks) /\ Origin
  BY DEF IInv, Types
<1>3. E = [k \in 0 .. Len(checks) |-> IF k = 0 THEN Begin ELSE Step(E, k)]
  BY <1>1, <1>2, ExecutedRuns DEF Runs
<1>4. b \in 1 .. Len(checks) /\ Len(checks) \in Nat
  BY <1>2, CheckFacts
<1>5. E[0] = Begin /\ E[b] = Step(E, b) /\ b - 1 \in 0 .. Len(checks) /\ b \in 0 .. Len(checks)
  BY <1>3, <1>4
<1>6. Reached(b) <=> E[b - 1].next = b
  BY <1>1 DEF Reached
<1>7. \A i \in 1 .. 2 : Argument(b, i) = Arg(E, b, i)
  BY <1>1 DEF Argument, Arg
<1>8. QED
  BY <1>1, <1>5, <1>6, <1>7, StepFacts

(* No block leads further than to the next one.                            *)
LEMMA NextBound ==
    ASSUME IInv, NEW k \in 0 .. Len(checks)
    PROVE  Executed[k].next \in Int /\ Executed[k].next <= k + 1
<1>1. PICK E, L : E = Executed /\ L = Len(checks)
  OBVIOUS
<1>2. L \in Nat /\ Blocks = 1 .. L
  BY <1>1 DEF IInv, Types, Blocks
<1> DEFINE Good(j) == E[j].next \in Int /\ E[j].next <= j + 1
           T == {j \in 0 .. L : ~Good(j)}
<1>3. SUFFICES ASSUME T # {} PROVE FALSE
  BY <1>1
<1>4. PICK n \in T : \A j \in T : n <= j
  <2>1. T \in SUBSET Nat
    BY <1>2
  <2> HIDE DEF T
  <2>2. QED
    BY <1>3, <2>1, LeastNumber
<1>5. n \in 0 .. L /\ ~Good(n)
  BY <1>4
<1>6. CASE n = 0
  <2>1. Executed[0] = Begin
    <3>1. checks \in Seq(Checks) /\ Origin
      BY DEF IInv, Types
    <3>2. E = [j \in 0 .. L |-> IF j = 0 THEN Begin ELSE Step(E, j)]
      BY <1>1, <3>1, ExecutedRuns DEF Runs
    <3>3. QED
      BY <1>1, <1>2, <3>2
  <2>2. QED
    BY <1>1, <1>5, <1>6, <2>1 DEF Begin
<1>7. CASE n # 0
  <2>1. n \in Blocks /\ n \in Nat /\ n - 1 \in 0 .. L /\ n - 1 \notin T
    BY <1>2, <1>4, <1>5, <1>7
  <2>2. E[n - 1].next \in Int /\ E[n - 1].next <= n
    BY <2>1
  <2>3. E[n] = E[n - 1] \/ E[n].next \in {n + 1, -n, 0}
    BY <1>1, <2>1, ExecutedAt, WaysOn
  <2>4. QED
    BY <1>5, <2>1, <2>2, <2>3
<1>8. QED
  BY <1>6, <1>7

(* Control comes to a block only through all the blocks before it.         *)
LEMMA ReachedBefore ==
    ASSUME IInv, NEW b \in Blocks, Reached(b), NEW c \in 1 .. b
    PROVE  Reached(c)
<1>1. Len(checks) \in Nat /\ Blocks = 1 .. Len(checks) /\ b \in Nat
  BY DEF IInv, Types, Blocks
<1> DEFINE T == {j \in 0 .. b - 1 : ~Reached(b - j)}
<1>2. T = {}
  <2>1. SUFFICES ASSUME T # {} PROVE FALSE
    OBVIOUS
  <2>2. PICK j \in T : \A k \in T : j <= k
    <3>1. T \in SUBSET Nat
      BY <1>1
    <3> HIDE DEF T
    <3>2. QED
      BY <2>1, <3>1, LeastNumber
  <2>3. j \in 0 .. b - 1 /\ ~Reached(b - j) /\ j # 0
    BY <1>1, <2>2
  <2>4. j - 1 \in 0 .. b - 1 /\ j - 1 \notin T
    BY <1>1, <2>2, <2>3
  <2>5. Reached(b - (j - 1))
    BY <2>4
  <2>6. PICK k \in Blocks : k = b - j
    BY <1>1, <2>3
  <2>7. ~Reached(k) /\ b - (j - 1) = k + 1 /\ (k + 1) - 1 = k /\ k \in Nat
    BY <1>1, <2>3, <2>6
  <2>8. Reached(k + 1)
    BY <2>5, <2>7
  <2>9. Executed[k].next = k + 1
    BY <2>7, <2>8 DEF Reached
  <2>10. Executed[k] = Executed[k - 1] /\ k - 1 \in 0 .. Len(checks)
    BY <2>7, ExecutedAt
  <2>11. Executed[k - 1].next <= (k - 1) + 1 /\ Executed[k - 1].next \in Int
    BY <2>10, NextBound
  <2>12. QED
    BY <2>7, <2>9, <2>10, <2>11
<1>3. b - c \in 0 .. b - 1 /\ b - (b - c) = c
  BY <1>1
<1>4. b - c \notin T
  BY <1>2
<1>5. Reached(b - (b - c))
  BY <1>3, <1>4
<1>6. QED
  BY <1>3, <1>5

(* The ranges by which a check was judged: of the width of its operation,  *)
(* uniform, and with a pair of words that passes; and no operation whose   *)
(* text begins with the smallest long, which cannot be read, is relied on. *)
WellJudged ==
    \A b \in Blocks : Removed(b) =>
        /\ \A i \in 1 .. 2 : OperandRange(b, i).m = checks[b].ty
        /\ Uniform(checks[b].op, OperandRange(b, 1), OperandRange(b, 2))
        /\ PairPasses(checks[b].op, OperandRange(b, 1), OperandRange(b, 2))
        /\ \A i \in 1 .. 2 :
            checks[b].args[i].from = "operation" => range[checks[b].args[i].block].lo # -SignedMin(W)

(* The word of block b is in the range put on its operation.               *)
WordInRange(b) ==
    /\ Executed[b].word \in Word(checks[b].ty)
    /\ LET n == Signed(checks[b].ty, Executed[b].word)
       IN  n \in -SignedMin(W) .. SignedMax(W)
           /\ (n # -SignedMin(W) \/ range[b].lo # -SignedMin(W) => Holds(GetConstantRange(range[b]), n))

(* A removed check, its operands and its range.                            *)
LEMMA RemovedFacts ==
    ASSUME IInv, WellJudged, NEW b \in Blocks, Removed(b)
    PROVE  /\ checks[b].op \in Signeds \cup Unsigneds /\ checks[b].ty \in {N, W} /\ checks[b].ty \in Moduli
           /\ \A i \in 1 .. 2 : OperandRange(b, i) \in Ranges(checks[b].ty) /\ TextOf(checks[b].args[i]) # NoText
           /\ ResultRange(checks[b].op, OperandRange(b, 1), OperandRange(b, 2)) \in Ranges(checks[b].ty)
           /\ ContainsRange(Limit(checks[b].op, checks[b].ty),
                            ResultRange(checks[b].op, OperandRange(b, 1), OperandRange(b, 2)))
           /\ range[b] = EmitRange(ResultRange(checks[b].op, OperandRange(b, 1), OperandRange(b, 2)))
           /\ range[b] # TextIn(-SignedMax(W) + 1, -SignedMin(W))
<1>1. checks[b].op \in Signeds \cup Unsigneds /\ checks[b].ty \in {N, W} /\ checks[b].ty \in Moduli
  BY CheckFacts, NumbersOfLong DEF IInv, Types
<1>2. Types /\ Uses /\ Known(b) /\ ~Clash(b)
  BY DEF IInv, Judged
<1>3. PICK op, x, y, r : op = checks[b].op /\ x = OperandRange(b, 1) /\ y = OperandRange(b, 2) /\ r = ResultRange(op, x, y)
  OBVIOUS
<1>4. PICK m \in {N, W}, n \in {N, W} :
        /\ x \in Ranges(m) /\ x.m = m /\ y \in Ranges(n) /\ r \in Ranges(m) /\ RangesOf(b) = {r}
        /\ ContainsRange(Limit(op, m), r) =>
            EmitRange(r) # TextIn(-SignedMax(W) + 1, -SignedMin(W))
  BY <1>2, <1>3, RedundantFacts
<1>5. n \in Moduli
  BY NumbersOfLong
<1>6. x.m = checks[b].ty /\ y.m = checks[b].ty
  BY <1>3 DEF WellJudged
<1>7. m = checks[b].ty /\ n = checks[b].ty
  BY <1>4, <1>5, <1>6, RangeFacts
<1>8. \E result \in RangesOf(b) :
        /\ ContainsRange(Limit(op, x.m), result)
        /\ range[b] = EmitRange(result)
  BY <1>3 DEF IInv, Judged
<1>9. ContainsRange(Limit(op, m), r) /\ range[b] = EmitRange(r)
  BY <1>4, <1>8
<1>10. \A i \in 1 .. 2 : TextOf(checks[b].args[i]) # NoText
  BY <1>2 DEF Known
<1>11. \A i \in 1 .. 2 : OperandRange(b, i) \in Ranges(checks[b].ty)
  <2>1. TAKE i \in 1 .. 2
  <2>2. i = 1 \/ i = 2
    OBVIOUS
  <2>3. QED
    BY <1>3, <1>4, <1>7, <2>2
<1>12. QED
  BY <1>1, <1>3, <1>4, <1>7, <1>9, <1>10, <1>11

(* The result of a removed trap is a word of the range put on it.          *)
LEMMA ResultInRange ==
    ASSUME IInv, WellJudged, NEW b \in Blocks, Removed(b), checks[b].form = "trap", Reached(b),
           NEW x \in Word(checks[b].ty), NEW y \in Word(checks[b].ty),
           x = Arg(Executed, b, 1), y = Arg(Executed, b, 2),
           ~OverflowsOn(checks[b].op, checks[b].ty, x, y),
           Contains(ResultRange(checks[b].op, OperandRange(b, 1), OperandRange(b, 2)),
                    ExactResult(checks[b].op, checks[b].ty, x, y) % checks[b].ty)
    PROVE  WordInRange(b)
<1>1. PICK op, m, r : /\ op = checks[b].op /\ m = checks[b].ty
                      /\ r = ResultRange(op, OperandRange(b, 1), OperandRange(b, 2))
  OBVIOUS
<1>2. /\ op \in Signeds \cup Unsigneds /\ m \in {N, W} /\ m \in Moduli /\ r \in Ranges(m)
      /\ range[b] = EmitRange(r) /\ range[b] # TextIn(-SignedMax(W) + 1, -SignedMin(W))
  BY <1>1, RemovedFacts
<1>3. PICK e \in Int : e = ExactResult(op, m, x, y)
  BY <1>1, <1>2, OverflowFacts
<1>4. Executed[b] = [next |-> b + 1, word |-> e % m]
  BY <1>1, <1>3, ExecutedAt, PassingOutcome
<1>5. PICK w \in Word(m) : w = Executed[b].word /\ Contains(r, w)
  BY <1>1, <1>2, <1>3, <1>4, IntMod
<1>6. PICK n \in Int : n = Signed(m, w) /\ n \in -SignedMin(m) .. SignedMax(m) /\ n % m = w
  BY <1>2, <1>5, SignedFacts
<1>7. n \in -SignedMin(W) .. SignedMax(W)
  BY <1>2, <1>6, NumbersOfLong
<1>8. n # -SignedMin(W) \/ range[b].lo # -SignedMin(W) => Holds(GetConstantRange(range[b]), n)
  BY <1>2, <1>5, <1>6, EmitRead
<1>9. QED
  BY <1>1, <1>5, <1>6, <1>7, <1>8 DEF WordInRange

(* What the operands of a removed check are known to be.                   *)
LEMMA OperandInRange ==
    ASSUME IInv, WellJudged, NEW b \in Blocks, Removed(b), Reached(b), NEW i \in 1 .. 2,
           \A c \in 1 .. b - 1 : Removed(c) /\ checks[c].form = "trap" => WordInRange(c)
    PROVE  /\ Arg(Executed, b, i) \in Word(checks[b].ty)
           /\ Contains(OperandRange(b, i), Arg(Executed, b, i))
<1>1. PICK m, o, r : m = checks[b].ty /\ o = checks[b].args[i] /\ r = OperandRange(b, i)
  OBVIOUS
<1>2. m \in {N, W} /\ m \in Moduli /\ r \in Ranges(m) /\ r.m = m /\ TextOf(o) # NoText
  BY <1>1, RemovedFacts DEF WellJudged
<1>3. /\ o.from \in {"load", "literal", "value", "operation"} /\ o.word \in Word(m)
      /\ o.from \in {"value", "operation"} =>
           o.block \in 1 .. b - 1 /\ o.block \in Blocks /\ checks[o.block].ty = m
      /\ o.md # NoText => Holds(GetConstantRange(o.md), Signed(m, o.word))
  BY <1>1, OperandFacts DEF IInv, Types
<1>4. r = GetConstantRange(TextOf(o))
  BY <1>1 DEF OperandRange
<1>5. \A w \in Word(m) : Holds(r, Signed(m, w)) => Contains(r, w)
  <2>1. TAKE w \in Word(m)
  <2>2. Signed(m, w) % m = w
    BY <1>2, SignedFacts
  <2>3. QED
    BY <1>2, <2>2 DEF Holds
<1>6. CASE o.from = "load"
  <2>1. TextOf(o) = o.md /\ Arg(Executed, b, i) = o.word
    BY <1>1, <1>6, TextCases DEF Arg
  <2>2. QED
    BY <1>1, <1>2, <1>3, <1>4, <1>5, <2>1
<1>7. CASE o.from = "operation"
  <2>1. PICK c \in Blocks : c = o.block /\ c \in 1 .. b - 1 /\ checks[c].ty = m
    BY <1>3, <1>7
  <2>2. Removed(c) /\ checks[c].form = "trap" /\ range[c].lo # -SignedMin(W)
    BY <1>1, <1>7, <2>1 DEF IInv, Uses, WellJudged
  <2>3. WordInRange(c)
    BY <2>1, <2>2
  <2>4. TextOf(o) = range[c] /\ Arg(Executed, b, i) = Executed[c].word
    BY <1>1, <1>7, <2>1, TextCases DEF Arg
  <2>5. Executed[c].word \in Word(m) /\ Holds(GetConstantRange(range[c]), Signed(m, Executed[c].word))
    BY <2>1, <2>2, <2>3 DEF WordInRange
  <2>6. QED
    BY <1>1, <1>4, <1>5, <2>4, <2>5
<1>8. CASE o.from \in {"value", "literal"}
  BY <1>2, <1>8, TextCases
<1>9. QED
  BY <1>3, <1>6, <1>7, <1>8

(* If the blocks before it have words of their ranges, a removed check that*)
(* control comes to does not overflow.                                     *)
LEMMA PassesNext ==
    ASSUME IInv, WellJudged, NEW b \in Blocks, Removed(b), Reached(b),
           \A c \in 1 .. b - 1 : Removed(c) /\ checks[c].form = "trap" => WordInRange(c)
    PROVE  /\ ~Overflows(b)
           /\ checks[b].form = "trap" => WordInRange(b)
<1>1. PICK x, y : x = Arg(Executed, b, 1) /\ y = Arg(Executed, b, 2)
  OBVIOUS
<1>2. PICK op, m, r, s : op = checks[b].op /\ m = checks[b].ty /\ r = OperandRange(b, 1) /\ s = OperandRange(b, 2)
  OBVIOUS
<1>3. x \in Word(m) /\ y \in Word(m) /\ Contains(r, x) /\ Contains(s, y)
  <2>1. \A i \in 1 .. 2 : Arg(Executed, b, i) \in Word(checks[b].ty) /\ Contains(OperandRange(b, i), Arg(Executed, b, i))
    BY OperandInRange
  <2>2. QED
    BY <1>1, <1>2, <2>1
<1>4. /\ op \in Signeds \cup Unsigneds /\ m \in Moduli /\ r \in Ranges(m) /\ s \in Ranges(m)
      /\ ContainsRange(Limit(op, m), ResultRange(op, r, s))
  BY <1>2, RemovedFacts
<1>5. Uniform(op, r, s) /\ PairPasses(op, r, s)
  BY <1>2 DEF WellJudged
<1>6. ~OverflowsOn(op, m, x, y) /\ Contains(ResultRange(op, r, s), ExactResult(op, m, x, y) % m)
  BY <1>3, <1>4, <1>5, AllPass
<1>7. ~Overflows(b)
  <2>1. Argument(b, 1) = x /\ Argument(b, 2) = y
    BY <1>1, ExecutedAt
  <2>2. QED
    BY <1>2, <1>6, <2>1 DEF Overflows
<1>8. checks[b].form = "trap" => WordInRange(b)
  BY <1>1, <1>2, <1>3, <1>6, ResultInRange
<1>9. QED
  BY <1>7, <1>8

(* No removed check that control comes to overflows.                       *)
LEMMA RemovedPasses ==
    ASSUME IInv, WellJudged, NEW b \in Blocks, Removed(b), Reached(b)
    PROVE  /\ ~Overflows(b)
           /\ checks[b].form = "trap" => WordInRange(b)
<1>1. Len(checks) \in Nat /\ Blocks = 1 .. Len(checks) /\ b \in Nat
  BY DEF IInv, Types, Blocks
<1> DEFINE T == {c \in 1 .. b : Removed(c) /\ checks[c].form = "trap" /\ ~WordInRange(c)}
<1>2. T = {}
  <2>1. SUFFICES ASSUME T # {} PROVE FALSE
    OBVIOUS
  <2>2. PICK c \in T : \A k \in T : c <= k
    <3>1. T \in SUBSET Nat
      BY <1>1
    <3> HIDE DEF T
    <3>2. QED
      BY <2>1, <3>1, LeastNumber
  <2>3. c \in 1 .. b /\ Removed(c) /\ checks[c].form = "trap" /\ ~WordInRange(c) /\ c \in Blocks
    BY <1>1, <2>2
  <2>4. Reached(c)
    BY <2>3, ReachedBefore
  <2>5. \A k \in 1 .. c - 1 : Removed(k) /\ checks[k].form = "trap" => WordInRange(k)
    <3>1. \A k \in 1 .. c - 1 : k \in 1 .. b /\ ~(c <= k)
      BY <1>1, <2>3
    <3>2. QED
      BY <2>2, <3>1
  <2>6. QED
    BY <2>3, <2>4, <2>5, PassesNext
<1>3. \A c \in 1 .. b - 1 : Removed(c) /\ checks[c].form = "trap" => WordInRange(c)
  <2>1. \A c \in 1 .. b - 1 : c \in 1 .. b /\ c \notin T
    BY <1>1, <1>2
  <2>2. QED
    BY <2>1
<1>4. QED
  BY <1>3, PassesNext

(* "If the overflow check is redundant" (RemoveIOC.cpp:220): no operation  *)
(* whose check was removed overflows where control reaches it.             *)
THEOREM RemovalJustified == Spec => [](WellJudged => RemovedIsRedundant)
<1>1. IInv => (WellJudged => RemovedIsRedundant)
  BY RemovedPasses DEF RemovedIsRedundant
<1>2. QED
  BY <1>1, Inductive, PTL

(* The range put on a plain operation holds of its result                  *)
(* (RemoveIOC.cpp:239-256).                                                *)
THEOREM OperationsInRange ==
    ASSUME HandlersKept
    PROVE  Spec => [](WellJudged => OperationInRange)
<1>1. IInv => (WellJudged => OperationInRange)
  <2>1. SUFFICES ASSUME IInv, WellJudged, NEW b \in Blocks, Removed(b), Reached(b)
        PROVE  LET n == Signed(checks[b].ty, Executed[b].word)
               IN  n = -SignedMin(W) \/ Holds(GetConstantRange(range[b]), n)
    BY DEF OperationInRange
  <2>2. WordInRange(b)
    BY <2>1, OnlyTraps, RemovedPasses
  <2>3. QED
    BY <2>2 DEF WordInRange
<1>2. QED
  BY <1>1, Inductive, PTL

-----------------------------------------------------------------------------
(* The execution before and after a step of the pass.                      *)

(* Two executions of the same code are the same.                           *)
LEMMA RunUnique == Types => \A f, g : Runs(f, Len(checks)) /\ Runs(g, Len(checks)) => f = g
<1>1. SUFFICES ASSUME Types, NEW f, NEW g, Runs(f, Len(checks)), Runs(g, Len(checks))
      PROVE  f = g
  OBVIOUS
<1>2. PICK L : L = Len(checks)
  OBVIOUS
<1>3. checks \in Seq(Checks) /\ Origin /\ L \in Nat /\ Blocks = 1 .. L
  BY <1>1, <1>2 DEF Types, Blocks
<1>4. /\ f = [b \in 0 .. L |-> IF b = 0 THEN Begin ELSE Step(f, b)]
      /\ g = [b \in 0 .. L |-> IF b = 0 THEN Begin ELSE Step(g, b)]
  BY <1>1, <1>2 DEF Runs
<1> DEFINE T == {b \in 0 .. L : f[b] # g[b]}
<1>5. T = {}
  <2>1. SUFFICES ASSUME T # {} PROVE FALSE
    OBVIOUS
  <2>2. PICK n \in T : \A k \in T : n <= k
    <3>1. T \in SUBSET Nat
      BY <1>3
    <3> HIDE DEF T
    <3>2. QED
      BY <2>1, <3>1, LeastNumber
  <2>3. n \in 0 .. L /\ n \in Nat /\ f[n] # g[n]
    BY <1>3, <2>2
  <2>4. f[n] = (IF n = 0 THEN Begin ELSE Step(f, n)) /\ g[n] = IF n = 0 THEN Begin ELSE Step(g, n)
    BY <1>4, <2>3
  <2>5. n # 0
    BY <2>3, <2>4
  <2>6. n \in Blocks /\ \A k \in 0 .. n - 1 : k \in 0 .. L /\ k \notin T
    BY <1>3, <2>2, <2>3, <2>5
  <2>7. \A k \in 0 .. n - 1 : f[k] = g[k]
    BY <2>6
  <2>8. Step(f, n) = Step(g, n)
    BY <1>3, <2>6, <2>7, StepLocal
  <2>9. QED
    BY <2>3, <2>4, <2>5, <2>8
<1>6. \A b \in 0 .. L : f[b] = g[b]
  BY <1>5
<1>7. QED
  BY <1>4, <1>6

LEMMA TypedRun == Types => Runs(Executed, Len(checks))
BY ExecutedRuns DEF Types

(* The execution does not change when no block's step changes.             *)
LEMMA SameExecution ==
    ASSUME Types, Types', Len(checks') = Len(checks), NEW E \in {Executed},
           \A b \in Blocks : Step(E, b)' = Step(E, b)
    PROVE  Executed' = Executed
<1>1. PICK L, F : L = Len(checks) /\ F = Executed'
  OBVIOUS
<1>2. Types' => Runs(Executed, Len(checks))'
  BY TypedRun, PTL
<1>3. Types' => (\A f, g : Runs(f, Len(checks)) /\ Runs(g, Len(checks)) => f = g)'
  BY RunUnique, PTL
<1>4. Blocks = 1 .. L /\ L \in Nat
  BY <1>1 DEF Types, Blocks
<1>5. Runs(E, L)
  BY <1>1, TypedRun
<1>6. E = [b \in 0 .. L |-> IF b = 0 THEN Begin ELSE Step(E, b)]
  BY <1>5 DEF Runs
<1>7. E = [b \in 0 .. L |-> IF b = 0 THEN Begin ELSE Step(E, b)']
  <2>1. \A b \in 0 .. L : (IF b = 0 THEN Begin ELSE Step(E, b)) = IF b = 0 THEN Begin ELSE Step(E, b)'
    BY <1>4
  <2>2. QED
    BY <1>6, <2>1
<1>8. Runs(E, Len(checks))'
  BY <1>1, <1>7 DEF Runs, Begin
<1>9. Runs(F, Len(checks))'
  BY <1>1, <1>2
<1>10. E = F
  BY <1>3, <1>8, <1>9
<1>11. QED
  BY <1>1, <1>10

(* A block that has the same check and terminator does the same.           *)
LEMMA OutcomeSame ==
    ASSUME NEW b, NEW x, NEW y, checks'[b].form = checks[b].form, checks'[b].op = checks[b].op,
           checks'[b].ty = checks[b].ty, TailOf(b)' = TailOf(b)
    PROVE  Outcome(b, x, y)' = Outcome(b, x, y)
BY DEF Outcome, Successor, TailOf

LEMMA StepSame ==
    ASSUME NEW E, NEW b, NEW x, NEW y, Arg(E, b, 1) = x, Arg(E, b, 1)' = x, Arg(E, b, 2) = y, Arg(E, b, 2)' = y,
           E[b - 1].next = b => Outcome(b, x, y)' = Outcome(b, x, y)
    PROVE  Step(E, b)' = Step(E, b)
<1>1. Step(E, b) = IF E[b - 1].next # b THEN E[b - 1] ELSE Outcome(b, x, y)
  BY StepFacts
<1>2. Step(E, b)' = IF E[b - 1].next # b THEN E[b - 1] ELSE Outcome(b, x, y)'
  BY DEF Step, Outcome, Arg
<1>3. QED
  BY <1>1, <1>2

(* The blocks that still have their check.                                 *)
Checked == {b \in Blocks : "branch" \in Kinds(b)}

(* A sequence of instructions has one terminator, at its end.              *)
OneTerminator(s) ==
    /\ Len(s) \in DOMAIN s
    /\ \A i \in DOMAIN s : s[i].kind \in Terminators <=> i = Len(s)

LEMMA ShapeEnds ==
    ASSUME NEW f, NEW b, NEW k \in 0 .. 4
    PROVE  OneTerminator(Shape(f, b, k))
<1> DEFINE last == Last(f, b)
           jump == Jump(Target(f, b))
<1>0. PICK s : s = Shape(f, b, k)
  OBVIOUS
<1>1. /\ Operation.kind = "operation" /\ Call.kind = "call" /\ Extract.kind = "value" /\ Flag.kind = "flag"
      /\ last.kind = "branch" /\ jump.kind = "jump"
  BY DEF Operation, Call, Extract, Flag, Last, Branch, Jump, Instruction
<1> HIDE DEF last, jump
<1>2. ASSUME k = 4 PROVE OneTerminator(s)
  <2>1. s = <<Operation, Call, Extract, Flag, last>>
    BY <1>2, <1>0, ShapeCases DEF last
  <2>2. /\ DOMAIN s = 1 .. 5 /\ Len(s) = 5
        /\ s[1].kind = "operation" /\ s[2].kind = "call" /\ s[3].kind = "value" /\ s[4].kind = "flag" /\ s[5].kind = "branch"
    BY <1>1, <2>1
  <2>3. QED
    BY <2>2 DEF OneTerminator, Terminators
<1>3. ASSUME k = 3 PROVE OneTerminator(s)
  <2>1. s = <<Operation, Call, Extract, Flag, jump>>
    BY <1>3, <1>0, ShapeCases DEF jump
  <2>2. /\ DOMAIN s = 1 .. 5 /\ Len(s) = 5
        /\ s[1].kind = "operation" /\ s[2].kind = "call" /\ s[3].kind = "value" /\ s[4].kind = "flag" /\ s[5].kind = "jump"
    BY <1>1, <2>1
  <2>3. QED
    BY <2>2 DEF OneTerminator, Terminators
<1>4. ASSUME k = 2 PROVE OneTerminator(s)
  <2>1. s = <<Operation, Call, Extract, jump>>
    BY <1>4, <1>0, ShapeCases DEF jump
  <2>2. /\ DOMAIN s = 1 .. 4 /\ Len(s) = 4
        /\ s[1].kind = "operation" /\ s[2].kind = "call" /\ s[3].kind = "value" /\ s[4].kind = "jump"
    BY <1>1, <2>1
  <2>3. QED
    BY <2>2 DEF OneTerminator, Terminators
<1>5. ASSUME k = 1 PROVE OneTerminator(s)
  <2>1. s = <<Operation, Call, jump>>
    BY <1>5, <1>0, ShapeCases DEF jump
  <2>2. /\ DOMAIN s = 1 .. 3 /\ Len(s) = 3
        /\ s[1].kind = "operation" /\ s[2].kind = "call" /\ s[3].kind = "jump"
    BY <1>1, <2>1
  <2>3. QED
    BY <2>2 DEF OneTerminator, Terminators
<1>6. ASSUME k = 0 PROVE OneTerminator(s)
  <2>1. s = <<Operation, jump>>
    BY <1>6, <1>0, ShapeCases DEF jump
  <2>2. /\ DOMAIN s = 1 .. 2 /\ Len(s) = 2
        /\ s[1].kind = "operation" /\ s[2].kind = "jump"
    BY <1>1, <2>1
  <2>3. QED
    BY <2>2 DEF OneTerminator, Terminators
<1>7. QED
  BY <1>0, <1>2, <1>3, <1>4, <1>5, <1>6

(* A block has its check as long as a branch ends it.                      *)
LEMMA BranchIsTail == IInv => \A b \in Blocks : "branch" \in Kinds(b) <=> TailOf(b).kind = "branch"
<1>1. SUFFICES ASSUME IInv, NEW b \in Blocks PROVE "branch" \in Kinds(b) <=> TailOf(b).kind = "branch"
  OBVIOUS
<1>2. PICK s : s = body[b]
  OBVIOUS
<1>3. "branch" \in Kinds(b) <=> \E i \in DOMAIN s : s[i].kind = "branch"
  BY <1>2 DEF Kinds
<1>4. TailOf(b) = s[Len(s)]
  BY <1>2 DEF TailOf
<1>5. checks[b].form \in {"trap", "handler", "builtin", "indirect"}
  BY <1>1, CheckFacts DEF IInv, Types
<1>6. CASE s = Compiled(checks[b].form, b)
  <2>1. PICK f : f = checks[b].form
    OBVIOUS
  <2>2. \A i \in DOMAIN s : s[i].kind \in Terminators <=> i = Len(s)
    BY <1>5, <1>6, CompiledKinds
  <2>3. Len(s) \in DOMAIN s
    <3>1. CASE f = "trap"
      BY <1>6, <2>1, <3>1 DEF Compiled
    <3>2. CASE f = "handler"
      BY <1>6, <2>1, <3>2 DEF Compiled
    <3>3. CASE f = "builtin"
      BY <1>6, <2>1, <3>3 DEF Compiled
    <3>4. CASE f = "indirect"
      BY <1>6, <2>1, <3>4 DEF Compiled
    <3>5. QED
      BY <1>5, <2>1, <3>1, <3>2, <3>3, <3>4
  <2>4. QED
    BY <1>3, <1>4, <2>2, <2>3 DEF Terminators
<1>7. CASE \E k \in 0 .. 4 : s = Shape(checks[b].form, b, k)
  <2>0. PICK f : f = checks[b].form
    OBVIOUS
  <2>1. PICK k \in 0 .. 4 : s = Shape(f, b, k)
    BY <1>7, <2>0
  <2>2. OneTerminator(s)
    BY <2>1, ShapeEnds, Zenon
  <2>3. QED
    BY <1>3, <1>4, <2>2 DEF Terminators, OneTerminator
<1>8. QED
  BY <1>1, <1>2, <1>6, <1>7, BodyCases

(* The operands and the terminator of every block stay: so do the execution*)
(* and the checks.                                                         *)
LEMMA SameCode ==
    ASSUME IInv, IInv', Len(checks') = Len(checks), Blocks' = Blocks,
           \A b \in Blocks :
            /\ checks'[b].form = checks[b].form /\ checks'[b].op = checks[b].op /\ checks'[b].ty = checks[b].ty
            /\ TailOf(b)' = TailOf(b)
            /\ \A i \in 1 .. 2 :
                /\ checks'[b].args[i].word = checks[b].args[i].word
                /\ checks'[b].args[i].block = checks[b].args[i].block
                /\ checks'[b].args[i].from \in {"load", "literal"} <=> checks[b].args[i].from \in {"load", "literal"}
    PROVE  Executed' = Executed /\ Checked' = Checked
<1>1. Types /\ Types'
  BY DEF IInv
<1>2. PICK E \in {Executed} : TRUE
  OBVIOUS
<1>3. \A b \in Blocks : Step(E, b)' = Step(E, b)
  <2>1. TAKE b \in Blocks
  <2>2. PICK x, y : x = Arg(E, b, 1) /\ y = Arg(E, b, 2)
    OBVIOUS
  <2>3. \A i \in 1 .. 2 : Arg(E, b, i)' = Arg(E, b, i)
    BY DEF Arg
  <2>4. Arg(E, b, 1)' = x /\ Arg(E, b, 2)' = y
    BY <2>2, <2>3
  <2>5. Outcome(b, x, y)' = Outcome(b, x, y)
    BY OutcomeSame
  <2>6. QED
    BY <2>2, <2>4, <2>5, StepSame
<1>4. Executed' = Executed
  BY <1>1, <1>3, SameExecution
<1>5. IInv' => (\A b \in Blocks : "branch" \in Kinds(b) <=> TailOf(b).kind = "branch")'
  BY BranchIsTail, PTL
<1>6. \A b \in Blocks : "branch" \in Kinds(b)' <=> "branch" \in Kinds(b)
  BY <1>5, BranchIsTail
<1>7. Checked' = Checked
  BY <1>6 DEF Checked
<1>8. QED
  BY <1>4, <1>7

(* Putting an operation in front of a check, and letting the users of the  *)
(* value use it, changes nothing of the execution.                         *)
LEMMA ReplaceSame == IInv /\ IInv' /\ ReplaceCheck => Executed' = Executed /\ Checked' = Checked
<1>1. SUFFICES ASSUME IInv, IInv', ReplaceCheck PROVE Executed' = Executed /\ Checked' = Checked
  OBVIOUS
<1>2. checks \in Seq(Checks) /\ checks' = Replaced(cursor) /\ cursor \in Blocks /\ DOMAIN body = Blocks
  BY <1>1, AtCursor DEF IInv, Types, ReplaceCheck
<1>3. /\ Len(checks') = Len(checks) /\ Blocks' = Blocks
      /\ \A c \in Blocks :
                /\ checks'[c].form = checks[c].form /\ checks'[c].op = checks[c].op
                /\ checks'[c].ty = checks[c].ty
                /\ \A i \in 1 .. 2 :
                    /\ checks'[c].args[i].md = checks[c].args[i].md
                    /\ checks'[c].args[i].word = checks[c].args[i].word
                    /\ checks'[c].args[i].block = checks[c].args[i].block
                    /\ checks'[c].args[i].from =
                        IF checks[c].args[i].from = "value" /\ checks[c].args[i].block = cursor
                                /\ checks[cursor].form = "trap"
                        THEN "operation" ELSE checks[c].args[i].from
  BY <1>2, ReplacedFacts
<1>4. \A c \in Blocks : TailOf(c)' = TailOf(c)
  <2>1. TAKE c \in Blocks
  <2>2. CASE c # cursor
    <3>1. body'[c] = body[c]
      BY <1>1, <1>2, <2>2 DEF ReplaceCheck
    <3>2. QED
      BY <3>1 DEF TailOf
  <2>3. CASE c = cursor
    <3>1. PICK f, l : f = checks[cursor].form /\ l = Last(f, cursor)
      OBVIOUS
    <3>2. body[cursor] = <<Call, Extract, Flag, l>> /\ body'[cursor] = Shape(f, cursor, 4)
      BY <1>1, <3>1, AtCursor
    <3>3. TailOf(cursor) = l
      BY <3>2 DEF TailOf
    <3>4. Shape(f, cursor, 4)[Len(Shape(f, cursor, 4))] = l
      BY <3>1, ShapeTail
    <3>5. body'[cursor][Len(body'[cursor])] = l
      BY <3>2, <3>4, Zenon
    <3>6. QED
      BY <2>3, <3>3, <3>5 DEF TailOf
  <2>4. QED
    BY <2>2, <2>3
<1>5. \A b \in Blocks : \A i \in 1 .. 2 :
        checks'[b].args[i].from \in {"load", "literal"} <=> checks[b].args[i].from \in {"load", "literal"}
  BY <1>3
<1>6. QED
  BY <1>1, <1>3, <1>4, <1>5, SameCode

(* Neither do the steps that leave the code alone.                         *)
LEMMA RestSame == IInv /\ IInv' /\ UNCHANGED <<checks, body>> => Executed' = Executed /\ Checked' = Checked
<1>1. SUFFICES ASSUME IInv, IInv', UNCHANGED <<checks, body>> PROVE Executed' = Executed /\ Checked' = Checked
  OBVIOUS
<1>2. Len(checks') = Len(checks) /\ Blocks' = Blocks /\ checks' = checks
  BY <1>1 DEF Blocks
<1>3. \A b \in Blocks : TailOf(b)' = TailOf(b)
  BY <1>1 DEF TailOf
<1>4. QED
  BY <1>1, <1>2, <1>3, SameCode

LEMMA PassingOutcomes ==
    IInv => \A b \in Blocks : \A x, y :
        checks[b].form = "trap" /\ ~OverflowsOn(checks[b].op, checks[b].ty, x, y) =>
            Outcome(b, x, y) =
              [next |-> b + 1, word |-> ExactResult(checks[b].op, checks[b].ty, x, y) % checks[b].ty]
BY PassingOutcome

(* The same of the next state, for the steps that compare the two.         *)
LEMMA PassingOutcomesLater ==
    IInv' => (\A b \in Blocks : \A x, y :
        checks[b].form = "trap" /\ ~OverflowsOn(checks[b].op, checks[b].ty, x, y) =>
            Outcome(b, x, y) =
              [next |-> b + 1, word |-> ExactResult(checks[b].op, checks[b].ty, x, y) % checks[b].ty])'
BY PassingOutcomes, PTL

LEMMA BranchIsTailLater ==
    IInv' => (\A b \in Blocks : "branch" \in Kinds(b) <=> TailOf(b).kind = "branch")'
BY BranchIsTail, PTL

(* Erasing a piece of a check that never fails does not change what the    *)
(* execution does, and the check is gone when the branch is.               *)
LEMMA EraseSame ==
    ASSUME IInv, IInv', HandlersKept, WellJudged, RemoveLast
    PROVE  /\ Executed' = Executed
           /\ Checked' = Checked \/ \E b \in Checked : Checked' = Checked \ {b}
<1>1. PICK b \in Blocks, k \in 1 .. 4 :
        /\ Groups \in Nat \ {0} /\ Removed(b)
        /\ dequeToDel[Len(dequeToDel)] = <<b, Piece[k]>>
        /\ body[b] = Shape(checks[b].form, b, k)
        /\ k = 4 => Len(dequeToInsert) = Groups /\ dequeToInsert[Groups] = Target(checks[b].form, b)
        /\ k < 4 => Len(dequeToInsert) = Groups - 1
  BY LastPiece
<1>2. PICK G : G = Groups
  OBVIOUS
<1>3. body' = [body EXCEPT ![b] = Shape(checks[b].form, b, k - 1)]
  BY <1>1, <1>2, EraseFacts
<1>4. checks' = checks /\ range' = range /\ Blocks' = Blocks
  BY DEF RemoveLast, Blocks
<1>5. checks[b].form = "trap"
  BY <1>1, OnlyTraps
<1>6. b \in Blocks /\ DOMAIN body = Blocks /\ checks \in Seq(Checks)
  BY DEF IInv, Types
<1>7. body'[b] = Shape("trap", b, k - 1) /\ body[b] = Shape("trap", b, k)
  BY <1>1, <1>3, <1>5, <1>6
<1>8. \A c \in Blocks : c # b => TailOf(c)' = TailOf(c)
  <2>1. TAKE c \in Blocks
  <2>2. HAVE c # b
  <2>3. body'[c] = body[c]
    BY <1>3, <1>6, <2>2
  <2>4. QED
    BY <2>3 DEF TailOf
<1>9. /\ TailOf(b) = IF k = 4 THEN Last("trap", b) ELSE Jump(Target("trap", b))
      /\ TailOf(b)' = Jump(Target("trap", b))
  <2>1. PICK s, t : s = Shape("trap", b, k) /\ t = Shape("trap", b, k - 1)
    OBVIOUS
  <2>2. s[Len(s)] = IF k = 4 THEN Last("trap", b) ELSE Jump(Target("trap", b))
    BY <2>1, ShapeTail
  <2>3. k - 1 \in 0 .. 4 /\ k - 1 # 4
    OBVIOUS
  <2>4. t[Len(t)] = Jump(Target("trap", b))
    BY <2>1, <2>3, ShapeTail
  <2>5. QED
    BY <1>7, <2>1, <2>2, <2>4 DEF TailOf
<1>10. CASE k < 4
  <2>1. \A c \in Blocks : TailOf(c)' = TailOf(c)
    BY <1>8, <1>9, <1>10
  <2>2. Executed' = Executed /\ Checked' = Checked
    BY <1>4, <2>1, SameCode
  <2>3. QED
    BY <2>2
<1>11. CASE k = 4
  <2>1. PICK E \in {Executed} : TRUE
    OBVIOUS
  <2>2. \A c \in Blocks : Step(E, c)' = Step(E, c)
    <3>1. TAKE c \in Blocks
    <3>2. PICK x, y : x = Arg(E, c, 1) /\ y = Arg(E, c, 2)
      OBVIOUS
    <3>3. Arg(E, c, 1)' = x /\ Arg(E, c, 2)' = y
      BY <1>4, <3>2 DEF Arg
    <3>4. CASE c # b
      <4>1. TailOf(c)' = TailOf(c)
        BY <1>8, <3>4
      <4>2. Outcome(c, x, y)' = Outcome(c, x, y)
        BY <1>4, <4>1, OutcomeSame
      <4>3. QED
        BY <3>2, <3>3, <4>2, StepSame
    <3>5. CASE c = b
      <4>1. ASSUME E[b - 1].next = b PROVE Outcome(b, x, y)' = Outcome(b, x, y)
        <5>1. Reached(b)
          BY <2>1, <4>1 DEF Reached
        <5>2. ~Overflows(b)
          BY <1>1, <5>1, RemovedPasses
        <5>3. Argument(b, 1) = x /\ Argument(b, 2) = y
          BY <2>1, <3>2, <3>5, ExecutedAt
        <5>4. ~OverflowsOn(checks[b].op, checks[b].ty, x, y)
          BY <5>2, <5>3 DEF Overflows
        <5>5. PICK r : r = [next |-> b + 1,
                            word |-> ExactResult(checks[b].op, checks[b].ty, x, y) % checks[b].ty]
          OBVIOUS
        <5>6. Outcome(b, x, y) = r
          BY <1>5, <5>4, <5>5, PassingOutcomes
        <5>7. Outcome(b, x, y)' = r
          BY <1>4, <1>5, <5>4, <5>5, PassingOutcomesLater
        <5>8. QED
          BY <5>6, <5>7
      <4>2. QED
        BY <3>2, <3>3, <3>5, <4>1, StepSame
    <3>6. QED
      BY <3>4, <3>5
  <2>3. Executed' = Executed
    BY <1>4, <2>1, <2>2, SameExecution DEF IInv
  <2>4. \A c \in Blocks : "branch" \in Kinds(c)' <=> TailOf(c)'.kind = "branch"
    BY <1>4, BranchIsTailLater
  <2>5. \A c \in Blocks : c # b => ("branch" \in Kinds(c)' <=> "branch" \in Kinds(c))
    BY <1>8, <2>4, BranchIsTail
  <2>6. TailOf(b).kind = "branch" /\ TailOf(b)'.kind = "jump"
    BY <1>9, <1>11 DEF Last, Branch, Jump, Instruction
  <2>7. "branch" \in Kinds(b) /\ "branch" \notin Kinds(b)'
    BY <2>4, <2>6, BranchIsTail
  <2>8. Checked' = Checked \ {b} /\ b \in Checked
    BY <1>4, <2>5, <2>7 DEF Checked
  <2>9. QED
    BY <2>3, <2>8
<1>12. QED
  BY <1>10, <1>11

(* A step of the pass drops one check from the code, or leaves its checks  *)
(* and its execution alone.                                                *)
LEMMA StepEliminates ==
    ASSUME IInv, IInv', HandlersKept, WellJudged, [Next]_vars
    PROVE  /\ Executed' = Executed
           /\ Checked' = Checked \/ \E b \in Checked : Checked' = Checked \ {b}
<1>1. CASE RemoveLast
  BY <1>1, EraseSame
<1>2. CASE ReplaceCheck
  BY <1>2, ReplaceSame
<1>3. CASE ~RemoveLast /\ ~ReplaceCheck
  <2>1. UNCHANGED <<checks, body>>
    BY <1>3 DEF Next, vars, KeepCheck, AbortOnWidths, AbortOnTypes, AbortOnIndirectCall, Abort, EndWalk,
                EndRemoval
  <2>2. QED
    BY <2>1, RestSame
<1>4. QED
  BY <1>1, <1>2, <1>3

(* The pass keeps the promise of CheckElimination: whatever the order in   *)
(* which it replaces, inserts and erases, each of its steps takes at most  *)
(* one check out of the code, and the code it has made so far goes the way *)
(* of the code it was given with the same words (RemoveIOC.cpp:220-309).   *)
THEOREM ImplementsElimination ==
    ASSUME HandlersKept
    PROVE  Spec /\ []WellJudged => ChecksEliminated
<1>1. Init => Elimination!Init
  <2>1. SUFFICES ASSUME Init PROVE Elimination!Init
    OBVIOUS
  <2>2. checks \in Seq(Checks)
    BY <2>1, FunctionsAssumption DEF Init
  <2>3. Blocks \subseteq Nat
    BY <2>2 DEF Blocks
  <2>4. QED
    BY <2>3 DEF Elimination!Init
<1>2. IInv /\ IInv' /\ WellJudged /\ [Next]_vars => [Elimination!Next]_Elimination!vars
  <2>1. SUFFICES ASSUME IInv, IInv', WellJudged, [Next]_vars PROVE [Elimination!Next]_Elimination!vars
    OBVIOUS
  <2>2. /\ Executed' = Executed
        /\ Checked' = Checked \/ \E b \in Checked : Checked' = Checked \ {b}
    BY <2>1, StepEliminates
  <2>3. QED
    BY <2>2 DEF Elimination!Next, Elimination!Drop, Elimination!vars, Checked
<1>3. QED
  BY <1>1, <1>2, Inductive, PTL DEF Spec, ChecksEliminated, Elimination!Spec
=============================================================================
