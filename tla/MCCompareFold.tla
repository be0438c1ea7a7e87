--------------------------- MODULE MCCompareFold ---------------------------
EXTENDS CompareFold

\* Longs -8 .. 7 and ints -2 .. 1.
MCW == 16
MCN == 4

\* Every load of a long in an interval of the numbers, at each of its values,
\* a load without metadata, and the load of a long known exactly.
LoadsIn(ns) ==
    {LoadOf(TextIn(p[1], p[2]), p[3] % MCW) : p \in {q \in ns \X ns \X ns : q[1] <= q[3] /\ q[3] <= q[2]}}

Unknowns == {LoadOf(NoText, 3), LoadOf(TextEq(1), 1)}

Constants == {ConstantOf(v % MCW) : v \in {-3, 0, 2, 5}}

\* Comparisons whose bounds need no care: no interval ends at the largest
\* long, unsigned operands are not negative, and a bound that is excluded
\* is not compared strictly.
NonStrict(ps, ns) ==
    {ICmp(p, MCW, a, b) : p \in ps, a \in LoadsIn(ns) \cup Unknowns,
                                  b \in LoadsIn(ns) \cup Unknowns \cup {ConstantOf(2), ConstantOf(5)}}

\* The order of the operands is of no matter to an equality.
Equalities ==
    {ICmp(p, MCW, a, b) : p \in {"eq", "ne"}, a \in Constants,
                                  b \in LoadsIn({-4, 0, 4}) \cup Constants}

\* A constant on the left that no range decides about.
Unordered ==
    {ICmp(p, MCW, a, LoadOf(md, 3)) :
        p \in Below \cup Above, a \in Constants, md \in {NoText, TextIn(-4, 6)}}

Constantly ==
    {ICmp(p, MCW, a, b) : p \in Below \cup Above, a \in Constants, b \in Constants}

MCCompares ==
    NonStrict({"sle", "sge", "eq", "ne"}, {-4, 0, 2, 3, 6})
        \cup NonStrict({"ule", "uge"}, {0, 2, 3, 6})
        \cup Equalities \cup Unordered \cup Constantly

\* The bounds of none of them need care.
ASSUME CarefulAssumption == \A c \in MCCompares : Careful(c)

\* Strict comparisons of neighbouring intervals.
MCStrict == {ICmp("slt", MCW, a, b) : a \in LoadsIn(0 .. 2), b \in LoadsIn(3 .. 5)}
=============================================================================
