----------------------- MODULE AnnotationPropagation -----------------------
(***************************************************************************)
(* The pass that spreads the ranges of the annotated loads over the        *)
(* instructions that use them (AnnotationPropagation.cpp), run beside the  *)
(* program it annotates.  The pass visits every instruction once, in the   *)
(* order of the function; an operand is an instruction visited before, or  *)
(* a constant.  An operand the pass knows nothing of (an argument, a call, *)
(* an instruction that comes later in the layout) is an Other instruction. *)
(* Visiting an instruction also computes the value it has in one execution,*)
(* as a signed number of its type.                                         *)
(***************************************************************************)
EXTENDS AcslText, Sequences

CONSTANTS
    Loads,          \* the annotated loads: records [ty, md, vals]
    Constants,      \* the literals of the program, and its unannotated values
    Size            \* the number of instructions visited

VARIABLES
    code,           \* the instructions visited so far
    status          \* "running", or "aborted" by an assertion of APInt

vars == <<code, status>>

-----------------------------------------------------------------------------
(* Instructions.  ty is the modulus of the type, md the acsl_range text.   *)
(* Two fields are history, for the properties alone: clean says that the   *)
(* value was computed without leaving the signed numbers the ranges speak  *)
(* about (see Clean), from what was known of the operands.                 *)
BinOps == {"Add", "Sub", "Mul", "UDiv", "SDiv", "URem", "SRem"}

Casts == {"SExt", "ZExt"}

Remainders == {"URem", "SRem"}

Quotients == {"UDiv", "SDiv"}

NoText == [kind |-> "none", lo |-> 0, hi |-> 0]

Texts == {NoText} \cup [kind : {"eq", "in"}, lo : Int, hi : Int]

Numbers(m) == -SignedMin(m) .. SignedMax(m)

(* The smallest long, whose digits cannot be read back, occurs nowhere.    *)
Readable(m) == Numbers(m) \ {-SignedMin(W)}

(* The loads: what AnnotationMapping leaves on them is legal and holds of  *)
(* their values, and an equality stands on an int that is not negative.    *)
ASSUME LoadsAssumption ==
    \A l \in Loads :
        /\ l.ty \in {N, W}
        /\ l.md \in [kind : {"eq", "in"}, lo : Int, hi : Int]
        /\ l.md.kind = "eq" => l.ty = N /\ l.md.lo \in 0 .. SignedMax(N)
        /\ Accepted(GetConstantRange(l.md))
        /\ \A v \in l.vals : v \in Readable(l.ty) /\ Holds(GetConstantRange(l.md), v)

ASSUME ConstantsAssumption == Constants \subseteq Readable(W)

ASSUME SizeAssumption == Size \in Nat

Instruction(op, ty, val, md, clean, from) ==
    [op |-> op, ty |-> ty, val |-> val, md |-> md, clean |-> clean, from |-> from]

(* What the pass looks up for an operand: the range of its metadata, or of *)
(* a constant, always 64 bits wide.                                        *)
OfInstruction(i) ==
    [ty |-> i.ty, val |-> i.val, clean |-> i.clean, known |-> i.md # NoText,
     range |-> IF i.md = NoText THEN FullSet(W) ELSE GetConstantRange(i.md)]

OfConstant(ty, c) ==
    [ty |-> ty, val |-> c, clean |-> TRUE, known |-> TRUE,
     range |-> MkRange(W, FromSigned(W, c), Plus(W, FromSigned(W, c), 1))]

Visited == {OfInstruction(code[i]) : i \in {j \in DOMAIN code : code[j].op # "Store"}}

Literals == {OfConstant(t[1], t[2]) : t \in {u \in {N, W} \X Constants : u[2] \in Numbers(u[1])}}

Operands == Visited \cup Literals

Knowledge(S) ==
    IF \E a \in S : ~a.known THEN "nothing"
    ELSE IF \A a \in S : a.range.hi = Plus(a.range.m, a.range.lo, 1) THEN "constants"
    ELSE "ranges"

-----------------------------------------------------------------------------
(* The execution: two's complement arithmetic of the type.                 *)
Sign(n) == IF n < 0 THEN -1 ELSE 1

Magnitude(n) == Sign(n) * n

Quotient(n, d) == Sign(n) * Sign(d) * (Magnitude(n) \div Magnitude(d))

Exact(op, m, a, b) ==
    CASE op = "Add"  -> a + b
      [] op = "Sub"  -> a - b
      [] op = "Mul"  -> a * b
      [] op = "UDiv" -> (a % m) \div (b % m)
      [] op = "SDiv" -> Quotient(a, b)
      [] op = "URem" -> (a % m) % (b % m)
      [] op = "SRem" -> a - b * Quotient(a, b)

(* Mutant: arithmetic that does not wrap.                                  *)
ExecuteExactly(op, m, a, b) == Exact(op, m, a, b)

Execute(op, m, a, b) == Signed(m, Exact(op, m, a, b) % m)

(* The executions whose ranges are right: nothing overflows the signed     *)
(* numbers of its type, the smallest long does not occur, operands of a    *)
(* division or remainder are not negative, and the range of a divisor of a *)
(* remainder does not run past the largest signed number.                  *)
Ordered(r) == Signed(r.m, r.lo) <= Signed(r.m, Minus(r.m, r.hi, 1))

Clean(op, a, b) ==
    /\ a.clean /\ b.clean
    /\ Exact(op, a.ty, a.val, b.val) \in Readable(a.ty)
    /\ op \in Quotients \cup Remainders => a.val >= 0 /\ b.val > 0
    /\ op \in Remainders => Ordered(b.range)

-----------------------------------------------------------------------------
(* Mutant: a remainder is bounded by the smallest divisor.                 *)
ResultOfLower(op, a, b) ==
    CASE op = "Add"        -> Add(a, b)
      [] op = "Sub"        -> Sub(a, b)
      [] op = "Mul"        -> Multiply(a, b)
      [] op \in Quotients  -> UDiv(a, b)
      [] op \in Remainders -> MkRange(b.m, 0, b.lo)

(* propagateBinOp.  Signed division uses the unsigned one; a remainder is  *)
(* bounded by the upper bound of the divisor alone.                        *)
Result(op, a, b) ==
    CASE op = "Add"        -> Add(a, b)
      [] op = "Sub"        -> Sub(a, b)
      [] op = "Mul"        -> Multiply(a, b)
      [] op \in Quotients  -> UDiv(a, b)
      [] op \in Remainders -> MkRange(b.m, 0, b.hi)

(* A text is read as a range the constructor does not accept.              *)
Unreadable(S) == \E a \in S : a.known /\ ~Accepted(a.range)

(* Ranges of 32 and of 64 bits meet, since an equality is parsed as 32     *)
(* bits and everything else as 64.                                         *)
WidthsClash(op, a, b) ==
    CASE op \in {"Add", "Sub"} -> AddAsserts(a, b)
      [] op = "Mul"            -> MultiplyAsserts(a, b)
      [] op \in Quotients      -> UDivAsserts(a, b)
      [] op \in Remainders     -> FALSE

Visit(i) == code' = Append(code, i) /\ UNCHANGED status

Abort == status' = "aborted" /\ UNCHANGED code

BinOp(op, a, b) ==
    /\ a.ty = b.ty
    /\ op \in Quotients \cup Remainders => b.val # 0
    /\ LET from == Knowledge({a, b})
           md   == IF from = "nothing" THEN NoText
                   ELSE EmitRange(Result(op, a.range, b.range))
       IN  IF \/ Unreadable({a, b})
              \/ from # "nothing" /\ WidthsClash(op, a.range, b.range)
           THEN Abort
           ELSE Visit(Instruction(op, a.ty, Execute(op, a.ty, a.val, b.val), md,
                                  Clean(op, a, b), from))

(* An instruction that has metadata is left alone: it is Frama-C's.        *)
SkipAnnotated(l, v) ==
    Visit(Instruction("Load", l.ty, v, l.md, TRUE, "nothing"))

(* propagateCastInst.  The branch that would attach the range hangs on the *)
(* else of the test that finds it, so that a cast never gets metadata.     *)
Cast(op, a) ==
    /\ a.ty = N
    /\ IF Unreadable({a}) THEN Abort
       ELSE Visit(Instruction(op, W, IF op = "SExt" THEN a.val ELSE a.val % N, NoText,
                              a.clean, Knowledge({a})))

(* propagateStore: only the store of a literal is annotated, for the same  *)
(* reason.                                                                 *)
StoreLiteral(a) ==
    Visit(Instruction("Store", a.ty, a.val, TextEq(a.val), a.clean, "constants"))

StoreValue(a) ==
    IF Unreadable({a}) THEN Abort
    ELSE Visit(Instruction("Store", a.ty, a.val, NoText, a.clean, Knowledge({a})))

(* Any other instruction: it is not annotated and may have any value.      *)
Other(ty, v) == Visit(Instruction("Other", ty, v, NoText, TRUE, "nothing"))

-----------------------------------------------------------------------------
(* A value is a signed number of its type, and metadata one of the two     *)
(* shapes the pass writes (propagateBinOp, propagateStore).                *)
TypeOK ==
    /\ code \in Seq([op : BinOps \cup Casts \cup {"Load", "Store", "Other"}, ty : {N, W},
                     val : Numbers(W), md : Texts, clean : BOOLEAN,
                     from : {"nothing", "ranges", "constants"}])
    /\ \A i \in DOMAIN code : code[i].val \in Numbers(code[i].ty)
    /\ status \in {"running", "aborted"}

Init == code = <<>> /\ status = "running"

VisitNext ==
    \/ \E op \in BinOps : \E a, b \in Operands : BinOp(op, a, b)
    \/ \E l \in Loads : \E v \in l.vals : SkipAnnotated(l, v)
    \/ \E op \in Casts : \E a \in Visited : Cast(op, a)
    \/ \E a \in Literals : StoreLiteral(a)
    \/ \E a \in Visited : StoreValue(a)
    \/ \E ty \in {N, W} : \E v \in Constants \cap Numbers(ty) : Other(ty, v)

Next == status = "running" /\ Len(code) < Size /\ VisitNext

Spec == Init /\ [][Next]_vars

-----------------------------------------------------------------------------
(* All longs but -SignedMax(W), as a text: both ends become one number,    *)
(* for the smallest long is read as the number after it.                   *)
Collapsed == TextIn(-SignedMax(W) + 1, -SignedMin(W))

(* Whatever the program computed on the way, the metadata of every         *)
(* instruction holds of its value, if it can be read at all and as long as *)
(* the execution stayed clean (propagateBinOp and propagateStore; see      *)
(* Clean for what is excluded).                                            *)
Sound ==
    \A i \in DOMAIN code :
        code[i].clean /\ code[i].md \notin {NoText, Collapsed} =>
            Holds(GetConstantRange(code[i].md), code[i].val)

(* Every text the pass writes can be read back but one: the range made of  *)
(* it meets the constructor's assertion, after wrapping, emptiness and     *)
(* overflow too (AnnotationPropagation.cpp:347-364 against                 *)
(* ConstantRange.cpp:46).                                                  *)
Rereadable ==
    \A i \in DOMAIN code :
        code[i].md \notin {NoText, Collapsed} => Accepted(GetConstantRange(code[i].md))

(* The compiler stops only where a load that Frama-C knows exactly brought *)
(* ranges of different widths together, or at the one text that cannot be  *)
(* read: what the pass writes itself, for literals, results and stores, is *)
(* always read as 64 bits by whatever uses it (propagateBinOp,             *)
(* AnnotationPropagation.cpp:279-364, and ConstantRangeUtils.cpp:77-112).  *)
AbortNeedsExactLoad ==
    status = "aborted" =>
        \E i \in DOMAIN code :
            \/ code[i].op = "Load" /\ code[i].md.kind = "eq"
            \/ code[i].md = Collapsed

(* An operation on two known constants is annotated with one value, never  *)
(* with a wider range: signedness, width and the exclusive upper bound     *)
(* cancel along the way (AnnotationPropagation.cpp:259-364).  The largest  *)
(* int is an exception: its upper bound at 32 bits reads as a negative.    *)
Folded ==
    \A i \in DOMAIN code :
        /\ code[i].op \in {"Add", "Sub", "Mul", "UDiv", "SDiv"}
        /\ code[i].from = "constants" /\ code[i].clean
        /\ code[i].val # SignedMax(N)
        => code[i].md.lo = code[i].md.hi
=============================================================================
