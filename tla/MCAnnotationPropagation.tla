---------------------- MODULE MCAnnotationPropagation ----------------------
EXTENDS AnnotationPropagation

\* Longs -16 .. 15 and ints -4 .. 3.  Loads: what AnnotationMapping leaves
\* on loads, which prints bounds as unsigned numbers (30 is -2), with some
\* of the values it allows.
MCW == 32
MCN == 8

MCLoads ==
    {[ty |-> MCN, md |-> TextEq(3), vals |-> {3}],
     [ty |-> MCN, md |-> TextEq(1), vals |-> {1}],
     [ty |-> MCN, md |-> TextIn(30, 1), vals |-> -2 .. 1],
     [ty |-> MCW, md |-> TextIn(1, 3), vals |-> 1 .. 3],
     [ty |-> MCW, md |-> TextIn(0, 15), vals |-> {0, 13, 15}]}

\* Twice a long that is not negative, less 14, is all longs but -15.
MCConstants == {-14, -3, 2}

MCSize == 3
=============================================================================
