---------------------------- MODULE CompareFold ----------------------------
(***************************************************************************)
(* Folding an integer comparison by the ranges of its operands: the start  *)
(* of SimplifyICmpInst (InstructionSimplify.cpp) and tryConstantFoldCMP    *)
(* with foldConstantRanges (ConstantRangeUtils.cpp), beside one execution  *)
(* of the comparison.                                                      *)
(***************************************************************************)
EXTENDS AcslText, Predicates

CONSTANT Compares       \* the comparisons that may be simplified

VARIABLES
    compare,            \* the comparison of the program
    lhs, rhs, pred,     \* the operands, and the predicate that goes with them
    result              \* "none", "TRUE", "FALSE", "UNKNOWN" or "aborted"

vars == <<compare, lhs, rhs, pred, result>>

(* A comparison is the record of the predicate given, the modulus of the   *)
(* operands' type and two operands: a constant, or a load with the text of *)
(* its metadata and the word it reads.                                     *)
NoText == [kind |-> "none", lo |-> 0, hi |-> 0]

ConstantOf(v) == [constant |-> TRUE, md |-> NoText, word |-> v]

LoadOf(md, v) == [constant |-> FALSE, md |-> md, word |-> v]

ICmp(p, ty, a, b) == [pred |-> p, ty |-> ty, lhs |-> a, rhs |-> b]

Fold(truth) == IF truth THEN "TRUE" ELSE "FALSE"

(* Mutant: the bounds are taken from the wrong ends.                       *)
FoldConstantRangesEnds(p, a, b) ==
    IF ~IsEmptySet(IntersectWith(a, b)) THEN "UNKNOWN"
    ELSE Fold(\/ p \in Below /\ Compare(p, a.m, a.lo, b.hi)
              \/ p \in Above /\ Compare(p, a.m, a.hi, b.lo)
              \/ p = "ne")

(* foldConstantRanges.  The upper bounds are exclusive.                    *)
FoldConstantRanges(p, a, b) ==
    IF ~IsEmptySet(IntersectWith(a, b)) THEN "UNKNOWN"
    ELSE Fold(\/ p \in Below /\ Compare(p, a.m, a.hi, b.lo)
              \/ p \in Above /\ Compare(p, a.m, a.lo, b.hi)
              \/ p = "ne")

(* tryConstantFoldCMP: a constant of any width is a range of 64 bits.      *)
Known(o) == o.constant \/ o.md # NoText

RangeOf(ty, o) ==
    IF o.constant
    THEN LET n == FromSigned(W, Signed(ty, o.word)) IN MkRange(W, n, Plus(W, n, 1))
    ELSE GetConstantRange(o.md)

(* What the comparisons may be: the metadata of an operand can be read and *)
(* holds of its word.                                                      *)
Operands(ty) ==
    [constant : BOOLEAN, md : {NoText} \cup [kind : {"eq", "in"}, lo : Int, hi : Int], word : Word(ty)]

ASSUME ComparesAssumption ==
    \A c \in Compares :
        /\ c.pred \in {"eq", "ne"} \cup Below \cup Above /\ c.ty \in {N, W}
        /\ \A o \in {c.lhs, c.rhs} :
            /\ o \in Operands(c.ty)
            /\ o.md # NoText =>
                 Accepted(GetConstantRange(o.md)) /\ Holds(GetConstantRange(o.md), Signed(c.ty, o.word))

Truth == Compare(compare.pred, compare.ty, compare.lhs.word, compare.rhs.word)

Init ==
    /\ compare \in Compares
    /\ lhs = compare.lhs /\ rhs = compare.rhs /\ pred = compare.pred
    /\ result = "none"

FoldConstants ==
    /\ result = "none" /\ lhs.constant /\ rhs.constant
    /\ result' = Fold(Compare(pred, compare.ty, lhs.word, rhs.word))
    /\ UNCHANGED <<compare, lhs, rhs, pred>>

(* Mutant: only one of the operands is moved.                              *)
SwapHalf ==
    /\ result = "none" /\ lhs.constant /\ ~rhs.constant
    /\ lhs' = rhs
    /\ pred' = Swapped(pred)
    /\ UNCHANGED <<compare, rhs, result>>

SwapConstant ==
    /\ result = "none" /\ lhs.constant /\ ~rhs.constant
    /\ lhs' = rhs /\ rhs' = lhs
    /\ pred' = Swapped(pred)
    /\ UNCHANGED <<compare, result>>

(* The ranges are asked for the predicate given, not for the one that goes *)
(* with the operands after a swap.                                         *)
TryConstantFold ==
    /\ result = "none" /\ ~lhs.constant
    /\ result' =
            LET a == RangeOf(compare.ty, lhs)
                b == RangeOf(compare.ty, rhs)
            IN  IF ~Known(lhs) \/ ~Known(rhs) THEN "UNKNOWN"
                ELSE IF a.m # b.m THEN "aborted"
                ELSE FoldConstantRanges(compare.pred, a, b)
    /\ UNCHANGED <<compare, lhs, rhs, pred>>

Next == FoldConstants \/ SwapConstant \/ TryConstantFold

Spec == Init /\ [][Next]_vars

-----------------------------------------------------------------------------
(* Both operands are kept, in either order, and the result is one of those *)
(* of foldConstantRanges (InstructionSimplify.cpp:1897-1911).              *)
TypeOK ==
    /\ {lhs, rhs} = {compare.lhs, compare.rhs}
    /\ pred \in {"eq", "ne"} \cup Below \cup Above
    /\ result \in {"none", "TRUE", "FALSE", "UNKNOWN", "aborted"}

(* The comparisons in which the bounds need no care: where the ranges      *)
(* decide about an ordered predicate, no constant is on the left, both are *)
(* intervals in the reading of the predicate, an equality of 32 bits does  *)
(* not stand on a long, and an upper bound that is excluded is not         *)
(* compared strictly with the lower bound it equals.                       *)
Interval(p, r) == Number(p, r.m, r.lo) < Number(p, r.m, r.hi)

Careful(c) ==
    LET a == RangeOf(c.ty, c.lhs)
        b == RangeOf(c.ty, c.rhs)
    IN  /\ Known(c.lhs) /\ Known(c.rhs) /\ ~(c.lhs.constant /\ c.rhs.constant)
        /\ a.m = b.m /\ IsEmptySet(IntersectWith(a, b)) /\ c.pred \notin {"eq", "ne"}
        => /\ ~c.lhs.constant
           /\ a.m = N => c.ty = N
           /\ Interval(c.pred, a) /\ Interval(c.pred, b)
           /\ c.pred \in {"slt", "ult"} => a.hi # b.lo
           /\ c.pred \in {"sgt", "ugt"} => b.hi # a.lo

(* A comparison that is folded is folded to what it would have computed,   *)
(* so that no branch of the program is taken the other way                 *)
(* (InstructionSimplify.cpp:1909-2040).                                    *)
FoldedRight == result \in {"TRUE", "FALSE"} => result = Fold(Truth)

(* The swap keeps the meaning of operands and predicate together           *)
(* (InstructionSimplify.cpp:1901-1903).                                    *)
SwapKeepsTruth == Compare(pred, compare.ty, lhs.word, rhs.word) = Truth

(* Ranges decide a comparison exactly when they have no value in common:   *)
(* no knowledge is wasted and none is made up (foldConstantRanges).        *)
DecidedWhenDisjoint ==
    LET a == RangeOf(compare.ty, lhs)
        b == RangeOf(compare.ty, rhs)
    IN  result # "none" /\ Known(lhs) /\ Known(rhs) /\ a.m = b.m /\ ~(lhs.constant /\ rhs.constant)
        => (result = "UNKNOWN" <=> Members(a) \cap Members(b) # {})
=============================================================================
