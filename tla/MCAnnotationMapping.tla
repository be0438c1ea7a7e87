------------------------ MODULE MCAnnotationMapping ------------------------
EXTENDS AnnotationMapping

MCW == 16
MCN == 4

\* Two source names, i and j.  An alloca's name is 10 * scope + the number
\* of its source name, so that no alloca is called like a source variable.
I == 2
J == 3

Decl(src, scope, line) ==
    [ir |-> 10 * scope + src, src |-> src, scope |-> scope, line |-> line]

Texts == {TextEq(1), TextIn(0, 2), TextOneOf(0, 1)}

\* A function of scope 1 with the given blocks; the declarations of i are
\* in the scopes S, at line 2 of scope 1 and line 2 * s of any other scope;
\* j is declared once, at the top.
Decls(S) ==
    LET order == SelectSeq(<<1, 2, 3>>, LAMBDA s : s \in S)
    IN  <<Decl(J, 1, 1)>> \o [n \in DOMAIN order |-> Decl(I, order[n], 2 * order[n])]

Program(parent, S, stmts, scope, line) ==
    [decls |-> Decls(S), blocks |-> << <<Annot(stmts, scope, line)>> >>,
     succ |-> << <<>> >>, parent |-> parent, top |-> 1]

MCStatements ==
    {<<Statement(I, t)>> : t \in Texts}
        \cup {<<Statement(I, p[1]), Statement(J, p[2])>> : p \in Texts \X Texts}
        \cup {<<Statement(J, p[1]), Statement(I, p[2])>> : p \in Texts \X Texts}

\* i is always declared at the top, so that every assertion from line 2 on
\* sees one; scope s starts at line 2 * s - 1.
Placements(parent) ==
    {Program(parent, q[1] \cup {1}, q[2], q[3], q[4]) :
        q \in {r \in (SUBSET DOMAIN parent) \X MCStatements \X (DOMAIN parent) \X (2 .. 8) :
                r[4] >= 2 * r[3] - 1}}

\* Blocks of one level: scopes 2 and 3 beside each other.
MCSiblings == Placements(<<0, 1, 1>>)

\* Blocks in blocks: scope 3 in scope 2.
MCNested == Placements(<<0, 1, 2>>)
=============================================================================
