----------------------------- MODULE MCLoopFold -----------------------------
EXTENDS LoopFold

\* Longs -8 .. 7 and ints -4 .. 3; the smallest long cannot be read.
MCW == 16
MCN == 8

Predicates10 == {"eq", "ne"} \cup Below \cup Above

LoopOf(m, constant, v, step, nsw, p, side, leaves, b) ==
    [m |-> m, constant |-> constant, first |-> v, step |-> step, nsw |-> nsw,
     pred |-> p, boundFirst |-> side, leavesOnTrue |-> leaves, bound |-> b]

ConstantBound(v) == BoundOf("constant", NoText, FullSet(MCN), v)

\* A load of an int, or of a long, known exactly, or in an interval.
LoadBound(m, c) == BoundOf("load", TextEq(c), FullSet(m), c % m)

IntervalBound(m, lo, hi, v) == BoundOf("load", TextIn(lo, hi), FullSet(m), v % m)

\* An operation known exactly, of which the analysis knows the range r.
OperationBound(c, r) == BoundOf("operation", TextIn(c, c), r, c % MCW)

\* Every loop over ints with a constant bound.
IntLoops ==
    {LoopOf(MCN, TRUE, v, s, FALSE, p, side, FALSE, ConstantBound(b)) :
        v \in Word(MCN), s \in 1 .. MCN - 1, p \in Predicates10, side \in BOOLEAN,
        b \in Word(MCN)}

\* Annotated loads, of either type, and a first value that is no constant.
LoadLoops ==
    {LoopOf(MCN, known, v, s, FALSE, p, side, TRUE, b) :
        known \in BOOLEAN, v \in {0, 1, 6}, s \in {1, 2, 7}, p \in Predicates10, side \in BOOLEAN,
        b \in {LoadBound(MCN, c) : c \in -4 .. 3} \cup {IntervalBound(MCN, 0, 2, 1)}}
    \cup
    {LoopOf(MCW, TRUE, v, s, FALSE, p, FALSE, FALSE, LoadBound(MCW, c)) :
        v \in {0, 1}, s \in {1, 3}, p \in Predicates10, c \in {0, 2}}

\* Longs compared with an operation.
OperationLoops(ps, ranges, cs) ==
    {LoopOf(MCW, TRUE, v, s, nsw, p, side, FALSE, OperationBound(c, r)) :
        v \in {0, 1, 2, 5, 14}, s \in {1, 2, 3, 15}, nsw \in BOOLEAN, p \in ps, side \in BOOLEAN,
        c \in cs, r \in ranges}

\* The range of a third of an unsigned number.
Third == MkRange(MCW, 0, 6)

\* The same with the operation as the first operand, or annotated with an
\* interval: its bound can be moved, and the annotation gives no count.
Uncounted ==
    {l \in OperationLoops(OrEqual, {Third}, {1, 4}) : l.boundFirst}
        \cup {LoopOf(MCW, TRUE, v, 1, nsw, p, FALSE, FALSE,
                     BoundOf("operation", TextIn(0, 4), Third, c)) :
                v \in {0, 1, 5, 14}, nsw \in BOOLEAN, p \in OrEqual, c \in {1, 4}}

MCLoops ==
    IntLoops \cup LoadLoops
        \cup OperationLoops(Predicates10, {FullSet(MCW)}, {-7, -3, 0, 1, 4, 7})
        \cup OperationLoops(Predicates10 \ OrEqual, {Third}, {0, 1, 4})
        \cup Uncounted

\* The hypothesis of the theorems about the count.
ASSUME CountedAssumption == \A l \in MCLoops : Counted(l)

\* "Or equal" to an operation whose bound can be moved, and longs beside a
\* load that is the largest int.
MCThirds ==
    OperationLoops(OrEqual, {Third}, {1, 4})
        \cup {LoopOf(MCW, TRUE, v, 15, FALSE, "sgt", FALSE, FALSE, LoadBound(MCW, 3)) : v \in 4 .. 7}
=============================================================================
