-------------------------- MODULE RangeArithmetic --------------------------
(***************************************************************************)
(* What the passes need from ConstantRange, as one abstract register: a    *)
(* word val that nobody prints, and the range acc the compiler keeps for   *)
(* it.  Each step applies one operation of the passes to both, with a      *)
(* second operand of which only the range b is known to the compiler and   *)
(* the word w to the program.  The register is the pair (instruction,      *)
(* acsl_range metadata) that propagateBinOp carries along a chain of       *)
(* instructions; Meet is the knowledge of two ranges for one value, which  *)
(* foldConstantRanges gets from intersectWith.                             *)
(***************************************************************************)
EXTENDS ConstantRange

CONSTANT M          \* the modulus of the words, 2^64 in the code

ASSUME MAssumption == M \in Nat /\ M >= 4 /\ M % 2 = 0

VARIABLES
    val,            \* the word the program computes
    acc             \* the range the compiler believes in

vars == <<val, acc>>

Known == {p \in Ranges(M) \X Word(M) : Contains(p[1], p[2])}

(* Every operation yields a word and a legal range: no sequence of them    *)
(* runs into the constructor's assertion (ConstantRange.cpp:46).           *)
TypeOK == val \in Word(M) /\ acc \in Ranges(M)

Init == \E p \in Known : acc = p[1] /\ val = p[2]

AddStep(b, w) ==
    /\ val' = Plus(M, val, w)
    /\ acc' = Add(acc, b)

SubStep(b, w) ==
    /\ val' = Minus(M, val, w)
    /\ acc' = Sub(acc, b)

MulStep(b, w) ==
    /\ val' = (val * w) % M
    /\ acc' = Multiply(acc, b)

UDivStep(b, w) ==       \* dividing by zero has no outcome
    /\ w # 0
    /\ val' = val \div w
    /\ acc' = UDiv(acc, b)

Meet(b) ==
    /\ Contains(b, val)
    /\ acc' = IntersectWith(acc, b)
    /\ UNCHANGED val

Next ==
    \/ \E p \in Known : AddStep(p[1], p[2])
    \/ \E p \in Known : SubStep(p[1], p[2])
    \/ \E p \in Known : MulStep(p[1], p[2])
    \/ \E p \in Known : UDivStep(p[1], p[2])
    \/ \E b \in Ranges(M) : Meet(b)

Spec == Init /\ [][Next]_vars

-----------------------------------------------------------------------------
(* No sequence of operations loses the value: whatever wrapped or          *)
(* saturated on the way, the range still contains the word the program     *)
(* computed (add, sub, multiply, udiv and intersectWith of                 *)
(* ConstantRange.cpp).                                                     *)
Sound == Contains(acc, val)

(* contains(range), by which RemoveIOC decides to drop a check, is exactly *)
(* set inclusion, for wrapped, empty and full sets too                     *)
(* (ConstantRange.cpp:222-238).                                            *)
ContainsExact ==
    \A b \in Ranges(M) : ContainsRange(b, acc) <=> Members(acc) \subseteq Members(b)

(* An empty intersection, by which foldConstantRanges decides that two     *)
(* values differ, is reported exactly when the sets share no member        *)
(* (ConstantRange.cpp:265-337).                                            *)
DisjointExact ==
    \A b \in Ranges(M) :
        IsEmptySet(IntersectWith(acc, b)) <=> Members(acc) \cap Members(b) = {}
=============================================================================
