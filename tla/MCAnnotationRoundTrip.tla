----------------------- MODULE MCAnnotationRoundTrip -----------------------
EXTENDS AnnotationRoundTrip, Sequences, FiniteSets

Seqs == INSTANCE SequencesExt

\* Words of five bits and ints of three: -16 .. 15 and -4 .. 3.
MCW == 32
MCN == 8

Longs == -SignedMin(MCW) .. SignedMax(MCW)
Ints  == -SignedMin(MCN) .. SignedMax(MCN)

\* The assertions are about x; y is another variable.
MCEnv == {[x |-> v, y |-> 1] : v \in Longs}

Compare(n, op, c) ==
    Formula(Binary(Identifier(n), op, Integer(c)),
            IF op = "==" THEN TextEq(c) ELSE TextOther,
            {e \in MCEnv : CASE op = "==" -> e[n] = c
                             [] op = "!=" -> e[n] # c
                             [] op = "<=" -> e[n] <= c
                             [] op = ">=" -> e[n] >= c})
And(f, g, t) == Formula(Binary(f.tree, "&&", g.tree), t, f.true \cap g.true)
Or(f, g, t)  == Formula(Binary(f.tree, "||", g.tree), t, f.true \cup g.true)
X(op, c) == Compare("x", op, c)
Y(op, c) == Compare("y", op, c)

Interval(lo, hi) == And(X(">=", lo), X("<=", hi), TextIn(lo, hi))

\* x == s[1] || ... || x == s[Len(s)], grouped to the left.
OneOf(s) ==
    Seqs!FoldLeft(LAMBDA f, c : Or(f, X("==", c), TextOneOf(s[1], c)), X("==", s[1]), Tail(s))

Signed64(lo, hi) == lo < 0 => hi < SignedMax(MCW) - 1

Sorted(S) == Seqs!SetToSortSeq(S, <)

\* What survives the trip: equalities with a non-negative int, and
\* intervals and ascending lists that reach zero and span three values or
\* more; an interval that starts below zero ends below the two largest longs.
Kept ==
    {X("==", c) : c \in {n \in Ints : n >= 0}}
        \cup {Interval(p[1], p[2]) : p \in {q \in Longs \X Longs :
                  q[1] < q[2] /\ q[2] # q[1] + 1 /\ q[2] >= 0 /\ Signed64(q[1], q[2])}}
        \cup {OneOf(Sorted(S)) : S \in {T \in SUBSET Ints :
                  /\ Cardinality(T) \in 2 .. 4
                  /\ \E v \in T : v >= 0
                  /\ \E v, w \in T : w > v + 1}}

\* Assertions in none of the forms.
Reversed(c, op, n) ==
    Formula(Binary(Integer(c), op, Identifier(n)), TextOther, {e \in MCEnv : c <= e[n]})
Same == Formula(Binary(Identifier("x"), "==", Identifier("y")), TextOther,
                {e \in MCEnv : e.x = e.y})
Nonzero(n) == Formula(Identifier(n), TextOther, {e \in MCEnv : e[n] # 0})
Unreadable ==
    {X("!=", 1), X("<=", 2), Same, Nonzero("x"),
     And(X("==", 0), Y("==", 1), TextOther),
     And(X(">=", 0), Y("<=", 2), TextOther),
     And(X("<=", 2), X(">=", 0), TextOther),
     And(Reversed(0, "<=", "x"), X("<=", 2), TextOther),
     And(Interval(0, 2), Y("==", 1), TextOther),
     Or(Y("==", 1), X("==", 3), TextOther),
     Or(X("==", 1), X(">=", 3), TextOther),
     Or(X("<=", 1), X("==", 3), TextOther),
     Or(Same, X("==", 3), TextOther),
     Or(Nonzero("x"), X("==", 0), TextOther),
     Or(X("==", 0), Nonzero("x"), TextOther),
     Or(Or(Y("==", 1), X("==", 2), TextOther), X("==", 3), TextOther),
     Or(X("==", 1), Or(X("==", 2), X("==", 3), TextOther), TextOther),
     Or(Interval(0, 1), X("==", 3), TextOther)}

MCSource == Kept \cup Unreadable

MCStored == Ints
=============================================================================
