------------------------------ MODULE LoopFold ------------------------------
(***************************************************************************)
(* The trip count of a loop whose bound may be known from an annotation:   *)
(* createSCEV for annotated loads, ComputeExitLimitFromICmp with           *)
(* SimplifyICmpOperands, and getNumIterationsInRange for an affine         *)
(* recurrence (ScalarEvolution.cpp), beside one execution of the loop.     *)
(*                                                                         *)
(* The analysis brings the exit condition into the form "variable pred     *)
(* bound", rewrites it until nothing changes, and asks how long the        *)
(* variable stays in the words the predicate holds for.  What it leaves to *)
(* the unpatched analysis is "unknown" here.                               *)
(***************************************************************************)
EXTENDS AcslText, Predicates, RangeConversions

CONSTANT Loops          \* the loops that may be analysed

VARIABLES
    loop,               \* the loop of the program
    cond,               \* the predicate under which the loop goes on
    first,              \* the first value of the variable in the comparison
    bound,              \* what the bound is to the analysis
    depth,              \* of the recursion of SimplifyICmpOperands
    claim,              \* "none", "unknown", "known" or "aborted"
    count,              \* the number of times the backedge is taken
    phase,              \* of the analysis, then of the execution
    at,                 \* the value of the variable
    taken               \* how often the backedge has been taken

analysis == <<cond, first, bound, depth, claim, count>>

execution == <<at, taken>>

vars == <<loop, analysis, phase, execution>>

-----------------------------------------------------------------------------
(* A loop is the record of the modulus m of its variable, the first word   *)
(* of the variable and whether it is a constant, the step, whether the     *)
(* increment is nsw, the comparison at the backedge - its predicate,       *)
(* whether the bound is its first operand, whether the loop is left when   *)
(* it is true - and the bound: a constant, a load, or an operation with    *)
(* the range the analysis knows of it without the annotation.              *)
NoText == [kind |-> "none", lo |-> 0, hi |-> 0]

BoundOf(from, md, known, v) == [from |-> from, md |-> md, known |-> known, word |-> v]

Bounds(m) ==
    [from : {"constant", "load", "operation"},
     md : {NoText} \cup [kind : {"eq", "in"}, lo : Int, hi : Int], known : Ranges(m), word : Word(m)]

ASSUME LoopsAssumption ==
    \A l \in Loops :
        /\ l.m \in {N, W} /\ l.m % 4 = 0       \* a power of two
        /\ l.first \in Word(l.m) /\ l.step \in Word(l.m) \ {0}
        /\ {l.constant, l.nsw, l.boundFirst, l.leavesOnTrue} \subseteq BOOLEAN
        /\ l.pred \in {"eq", "ne"} \cup Below \cup Above
        /\ l.bound \in Bounds(l.m)

(* createSCEV: a load known exactly becomes a constant of the width of its *)
(* range.                                                                  *)
KnownExactly(r) == Plus(r.m, r.lo, 1) = r.hi

Exact(md) == md # NoText /\ KnownExactly(GetConstantRange(md))

Constant(m, v) == [constant |-> TRUE, m |-> m, word |-> v]

Variable == [constant |-> FALSE, m |-> 0, word |-> 0]

CreateSCEV(m, b) ==
    IF b.from = "constant" THEN Constant(m, b.word)
    ELSE IF b.from = "load" /\ Exact(b.md)
         THEN Constant(GetConstantRange(b.md).m, GetConstantRange(b.md).lo)
    ELSE Variable

-----------------------------------------------------------------------------
(* SimplifyICmpOperands with a constant bound v: <<predicate, bound>>, or  *)
(* one of the two conditions that are constant themselves.                 *)
Always == "0 == 0"

Never == "0 != 0"

Strict(p) ==
    CASE p = "sge" -> "sgt" [] p = "sle" -> "slt"
      [] p = "uge" -> "ugt" [] p = "ule" -> "ult"

(* Mutant: only the predicate of "or equal" is changed.                    *)
SimplifiedHalf(p, m, v) ==
    IF p \in {"uge", "sge", "ule", "sle"} /\ v \notin {Least(p, m), Greatest(p, m)}
    THEN <<Strict(p), v>> ELSE <<p, v>>

Simplified(p, m, v) ==
    LET up   == Plus(m, v, 1)
        down == Minus(m, v, 1)
    IN  CASE p \in {"eq", "ne"} -> <<p, v>>
          [] p \in {"uge", "sge"} ->
                IF down = Least(p, m) THEN <<"ne", down>>
                ELSE IF v = Greatest(p, m) THEN <<"eq", v>>
                ELSE IF v = Least(p, m) THEN <<Always, v>>
                ELSE <<Strict(p), down>>
          [] p \in {"ule", "sle"} ->
                IF up = Greatest(p, m) THEN <<"ne", up>>
                ELSE IF v = Least(p, m) THEN <<"eq", v>>
                ELSE IF v = Greatest(p, m) THEN <<Always, v>>
                ELSE <<Strict(p), up>>
          [] p \in {"ugt", "sgt"} ->
                IF v = Least(p, m) THEN <<"ne", v>>
                ELSE IF up = Greatest(p, m) THEN <<"eq", up>>
                ELSE IF v = Greatest(p, m) THEN <<Never, v>>
                ELSE <<p, v>>
          [] p \in {"ult", "slt"} ->
                IF v = Greatest(p, m) THEN <<"ne", v>>
                ELSE IF down = Least(p, m) THEN <<"eq", down>>
                ELSE IF v = Least(p, m) THEN <<Never, v>>
                ELSE <<p, v>>

(* getSignedRange, getUnsignedRange of the variable of loop l in the form  *)
(* {v,+,step}: the trailing zeros of all its values, the sign that a       *)
(* recurrence without signed wrap keeps, and the first value that one      *)
(* without unsigned wrap stays above.  Two to the number of trailing zeros *)
(* of some words is the greatest divisor they share with the modulus.      *)
Shared(m, v, w) == {d \in 1 .. m : m % d = 0 /\ v % d = 0 /\ w % d = 0}

Grain(l, v) ==
    IF l.constant
    THEN CHOOSE d \in Shared(l.m, v, l.step) : \A e \in Shared(l.m, v, l.step) : e <= d
    ELSE 1

Multiples(m, g, lo, hi) == MkRange(m, lo, Plus(m, hi - (hi % g), 1))

(* Without unsigned wrap, which follows from no signed wrap and operands    *)
(* not negative, the values never come below the first.                    *)
NoUnsignedWrap(l, v) == l.nsw /\ ~IsNegative(l.m, v) /\ ~IsNegative(l.m, l.step)

KeptAbove(l, v) ==
    IF NoUnsignedWrap(l, v) /\ l.constant /\ v # 0 THEN MkRange(l.m, v, 0) ELSE FullSet(l.m)

UnsignedRange(l, v) ==
    IntersectWith(IF Grain(l, v) = 1 THEN FullSet(l.m)
                  ELSE Multiples(l.m, Grain(l, v), 0, l.m - 1),
                  KeptAbove(l, v))

KeptSign(l, v) ==
    IF ~l.nsw \/ ~l.constant THEN FullSet(l.m)
    ELSE IF ~IsNegative(l.m, v) /\ ~IsNegative(l.m, l.step)
         THEN MkRange(l.m, 0, SignedMin(l.m))
    ELSE IF Signed(l.m, v) <= 0 /\ Signed(l.m, l.step) <= 0
         THEN MkRange(l.m, SignedMin(l.m), 1)
    ELSE FullSet(l.m)

SignedRange(l, v) ==
    IntersectWith(IF Grain(l, v) = 1 THEN FullSet(l.m)
                  ELSE Multiples(l.m, Grain(l, v), SignedMin(l.m), SignedMax(l.m)),
                  KeptSign(l, v))

(* The extreme a "p or equal" may not reach for its bound to be moved by   *)
(* one, and the one it may not reach for the variable to be moved.         *)
Top(p, r) == IF p \in SignedPredicates THEN GetSignedMax(r) ELSE UnsignedMax(r)

Bottom(p, r) == IF p \in SignedPredicates THEN GetSignedMin(r) ELSE UnsignedMin(r)

BoundMovable(p, r) ==
    IF p \in Below THEN Top(p, r) # Greatest(p, r.m) ELSE Bottom(p, r) # Least(p, r.m)

VariableMovable(p, r) ==
    IF p \in Below THEN Bottom(p, r) # Least(p, r.m) ELSE Top(p, r) # Greatest(p, r.m)

OrEqual == {"sle", "sge", "ule", "uge"}

VariableRange(p, l, v) == IF p \in SignedPredicates THEN SignedRange(l, v) ELSE UnsignedRange(l, v)

-----------------------------------------------------------------------------
(* getNumIterationsInRange of {first,+,step} and the range r, moved by a   *)
(* first value that is not zero.                                           *)
Unknown == -1

OffInABadWay == -2      \* the assertion on the previous value

(* Mutants: the upper bound is taken for the last value; a step of one is  *)
(* not taken for an upward one.                                            *)
IterationsThroughEnd(m, start, step, r) ==
    LET s     == Subtract(r, start)
        last  == IF Signed(m, step) >= 1 THEN s.hi ELSE s.lo
        leave == Plus(m, last, step) \div step
        value(k) == (step * k) % m
    IN  IF ~Contains(s, 0) THEN 0
        ELSE IF Contains(s, value(leave)) THEN Unknown
        ELSE IF ~Contains(s, value(Minus(m, leave, 1))) THEN OffInABadWay
        ELSE leave

IterationsUpwards(m, start, step, r) ==
    LET s     == Subtract(r, start)
        last  == IF Signed(m, step) > 1 THEN Minus(m, s.hi, 1) ELSE s.lo
        leave == Plus(m, last, step) \div step
        value(k) == (step * k) % m
    IN  IF ~Contains(s, 0) THEN 0
        ELSE IF Contains(s, value(leave)) THEN Unknown
        ELSE IF ~Contains(s, value(Minus(m, leave, 1))) THEN OffInABadWay
        ELSE leave

Iterations(m, start, step, r) ==
    LET s     == Subtract(r, start)
        last  == IF Signed(m, step) >= 1 THEN Minus(m, s.hi, 1) ELSE s.lo
        leave == Plus(m, last, step) \div step
        value(k) == (step * k) % m
    IN  IF ~Contains(s, 0) THEN 0
        ELSE IF Contains(s, value(leave)) THEN Unknown
        ELSE IF ~Contains(s, value(Minus(m, leave, 1))) THEN OffInABadWay
        ELSE leave

(* The widths of a range and of the variable meet when the range is moved, *)
(* or asked for zero.                                                      *)
WidthsClash(r) == r.m # loop.m /\ (first # 0 \/ ~IsEmptySet(r))

(* The words the loop goes on for: those of a constant bound, or of an     *)
(* operation that is the second operand and known exactly.                 *)
Annotated ==
    /\ ~bound.constant /\ ~loop.boundFirst /\ loop.bound.from = "operation"
    /\ Exact(loop.bound.md)

Region ==
    IF bound.constant THEN MakeConstantRange(cond, bound.m, bound.word)
    ELSE LET r == GetConstantRange(loop.bound.md)
         IN  MakeConstantRange(cond, r.m, r.lo)

Init ==
    /\ loop \in Loops
    /\ cond = loop.pred /\ first = loop.first /\ depth = 0
    /\ bound = CreateSCEV(loop.m, loop.bound)
    /\ claim = "none" /\ count = 0 /\ phase = "orient"
    /\ at = loop.first /\ taken = 0

(* The predicate under which the loop goes on, with the bound on the right.*)
Oriented(l) ==
    LET p == IF l.leavesOnTrue THEN Inverted(l.pred) ELSE l.pred
    IN  IF l.boundFirst THEN Swapped(p) ELSE p

Orient ==
    /\ phase = "orient"
    /\ cond' = Oriented(loop)
    /\ phase' = "simplify"
    /\ UNCHANGED <<loop, first, bound, depth, claim, count, execution>>

Simplifying == phase = "simplify" /\ depth < 3 /\ cond \notin {Always, Never}

NewBound == Simplified(cond, bound.m, bound.word)

SimplifyConstant ==
    /\ Simplifying /\ bound.constant
    /\ NewBound # <<cond, bound.word>>
    /\ cond' = NewBound[1]
    /\ bound' = [bound EXCEPT !.word = NewBound[2]]
    /\ depth' = depth + 1
    /\ UNCHANGED <<loop, first, claim, count, phase, execution>>

MoveBound ==            \* the bound is no longer the operand
    /\ Simplifying /\ ~bound.constant /\ cond \in OrEqual
    /\ BoundMovable(cond, loop.bound.known)
    /\ cond' = Strict(cond)
    /\ depth' = depth + 1
    /\ UNCHANGED <<loop, first, bound, claim, count, phase, execution>>

(* Mutant: the first value is moved as a number, not as a word.            *)
MoveVariableUnwrapped ==
    /\ Simplifying /\ ~bound.constant /\ cond \in OrEqual
    /\ ~BoundMovable(cond, loop.bound.known) /\ VariableMovable(cond, VariableRange(cond, loop, first))
    /\ cond' = Strict(cond)
    /\ first' = IF cond \in Below THEN first - 1 ELSE first + 1
    /\ depth' = depth + 1
    /\ UNCHANGED <<loop, bound, claim, count, phase, execution>>

MoveVariable ==
    /\ Simplifying /\ ~bound.constant /\ cond \in OrEqual
    /\ ~BoundMovable(cond, loop.bound.known) /\ VariableMovable(cond, VariableRange(cond, loop, first))
    /\ cond' = Strict(cond)
    /\ first' = IF cond \in Below THEN Minus(loop.m, first, 1) ELSE Plus(loop.m, first, 1)
    /\ depth' = depth + 1
    /\ UNCHANGED <<loop, bound, claim, count, phase, execution>>

Simplifies ==
    IF bound.constant THEN NewBound # <<cond, bound.word>>
    ELSE /\ cond \in OrEqual
         /\ BoundMovable(cond, loop.bound.known) \/ VariableMovable(cond, VariableRange(cond, loop, first))

EndSimplify ==
    /\ phase = "simplify"
    /\ Simplifying => ~Simplifies
    /\ phase' = "decide"
    /\ UNCHANGED <<loop, analysis, execution>>

Claim(c, n) ==
    /\ phase = "decide"
    /\ claim' = c /\ count' = n
    /\ phase' = IF c = "aborted" THEN "aborted" ELSE "run"
    /\ UNCHANGED <<loop, cond, first, bound, depth, execution>>

(* A condition that is never true is left to HowFarToZero, which sees zero.*)
ClaimNever == cond = Never /\ Claim("known", 0)

Asks == cond \notin {Always, Never} /\ (bound.constant \/ Annotated)

ClaimFromRange ==
    /\ phase = "decide" /\ Asks
    /\ LET n == Iterations(loop.m, first, loop.step, Region)
       IN  IF IsFullSet(Region) \/ ~loop.constant THEN Claim("unknown", 0)
           ELSE IF WidthsClash(Region) THEN Claim("aborted", 0)
           ELSE IF n = Unknown THEN Claim("unknown", 0)
           ELSE IF n = OffInABadWay THEN Claim("aborted", 0)
           ELSE Claim("known", n)

ClaimUnknown == cond # Never /\ ~Asks /\ Claim("unknown", 0)

-----------------------------------------------------------------------------
(* The execution: the backedge is taken while the comparison says so.      *)
GoesOn ==
    LET b == loop.bound.word
    IN  Compare(loop.pred, loop.m, IF loop.boundFirst THEN b ELSE at,
                                   IF loop.boundFirst THEN at ELSE b) # loop.leavesOnTrue

StepOverflows ==
    Signed(loop.m, at) + Signed(loop.m, loop.step) \notin -SignedMin(loop.m) .. SignedMax(loop.m)

Turn ==
    /\ phase = "run" /\ GoesOn /\ ~(loop.nsw /\ StepOverflows)
    /\ taken < loop.m           \* then every value has come again
    /\ at' = Plus(loop.m, at, loop.step)
    /\ taken' = taken + 1
    /\ UNCHANGED <<loop, analysis, phase>>

Leave ==
    /\ phase = "run" /\ ~GoesOn
    /\ phase' = "left"
    /\ UNCHANGED <<loop, analysis, execution>>

Next ==
    \/ Orient \/ SimplifyConstant \/ MoveBound \/ MoveVariable \/ EndSimplify
    \/ ClaimNever \/ ClaimFromRange \/ ClaimUnknown
    \/ Turn \/ Leave

Spec == Init /\ [][Next]_vars

-----------------------------------------------------------------------------
(* Words are words of the variable, and at most three simplifications are  *)
(* made (ScalarEvolution.cpp:5996).                                        *)
TypeOK ==
    /\ first \in Word(loop.m) /\ at \in Word(loop.m)
    /\ bound.constant => bound.word \in Word(bound.m)
    /\ depth \in 0 .. 3 /\ taken \in 0 .. loop.m
    /\ claim \in {"none", "unknown", "known", "aborted"}
    /\ count \in Word(loop.m)
    /\ phase \in {"orient", "simplify", "decide", "run", "left", "aborted"}

(* "Compute the number of times the backedge of the specified loop will    *)
(* execute" (ScalarEvolution.cpp:4746): the loop never goes on for longer  *)
(* than was claimed, and is not left before.                               *)
CountExact ==
    claim = "known" =>
        /\ taken <= count
        /\ phase = "left" => taken = count

(* The bounds of which the count is right: a load known exactly is read as *)
(* the word it holds, of its width, or as one that settles no condition of *)
(* a narrower width; an operation known exactly is read as the word it     *)
(* yields and "or equal" does not move it.                                 *)
Counted(l) ==
    LET r == GetConstantRange(l.bound.md)
    IN  Exact(l.bound.md) =>
            /\ l.bound.from = "load" =>
                  IF r.m = l.m THEN r.lo = l.bound.word
                  ELSE /\ r.lo \notin {SignedMin(r.m), SignedMax(r.m), r.m - 1}
                       /\ r.lo = 0 => l.bound.word = 0
            /\ l.bound.from = "operation" /\ ~l.boundFirst =>
                  /\ r.m = l.m /\ r.lo = l.bound.word
                  /\ Oriented(l) \in OrEqual => ~BoundMovable(Oriented(l), l.bound.known)

(* "Ensure that the previous value is in the range" never fails: only      *)
(* widths abort the analysis (ScalarEvolution.cpp:6941).                   *)
LinearComputation == claim = "aborted" => WidthsClash(Region)

(* "the upper value of the range must be the first possible exit value"    *)
(* (ScalarEvolution.cpp:6923): with a step of one and a bound known        *)
(* exactly, of the width of the variable, every loop that is left has a    *)
(* claim.                                                                  *)
UnitStepDecided ==
    /\ phase = "left"
    /\ loop.constant /\ loop.step = 1
    /\ Annotated \/ (bound.constant /\ bound.m = loop.m)
    => claim = "known"
=============================================================================
