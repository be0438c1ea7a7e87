--------------------------- MODULE MCAnnotatedRun ---------------------------
EXTENDS AnnotatedRun, MCAnnotationMapping, TLC

MCValues == 0 .. 2

\* Names, in the order of their strings: "i" (I) < "var0" .. "var11" < "x".
Var(b, j) == 4 * b + j - 2
X == 20

\* An assertion that is no range.
TextOther == [kind |-> "other", lo |-> 0, hi |-> 0]

Local(ir, src) == [ir |-> ir, src |-> src, scope |-> 1, line |-> 1]

About(v, text) == Annot(<<Statement(v, text)>>, 1, 5)

\* What may stand in a program: an assertion about either variable, a
\* load and a store of each.  The load's name is its position's.
Items == {About(I, TextEq(1)), About(I, TextIn(0, 2)), About(X, TextEq(1)),
        Load(I, I, NoName), Load(X, X, NoName), Store(I, I), Store(X, X)}

Named(b, body) ==
    [j \in DOMAIN body |->
        IF body[j].k = "load" THEN [body[j] EXCEPT !.name = Var(b, j)] ELSE body[j]]

\* The functions with a body for every block, in one scope.
Functions(decls, blocks, succ) ==
    [decls : {decls}, blocks : blocks, succ : {succ}, parent : {<<0>>}, top : {1}]

NamedBodies(b, bodies) == {Named(b, body) : body \in bodies}

Bodies(S, n) == UNION {[1 .. m -> S] : m \in 1 .. n}

\* Two local variables that keep their names; a block that starts with an
\* assertion and the two blocks it branches to, each with no other
\* predecessor.
Locals == <<Local(I, I), Local(X, X)>>

Fork == <<<<2, 3>>, <<>>, <<>>>>

Starts == {body \in Bodies(Items, 3) : body[1].k = "annot"}

Forks ==
    Functions(Locals,
              NamedBodies(1, Starts) \X NamedBodies(2, Bodies(Items, 2))
                \X NamedBodies(3, {<<Load(I, I, NoName)>>}), Fork)

\* A conditional laid out last: block 3 is its arm, block 2 the code after
\* it, which both others walk into.  Nothing is stored on the way.
Arm == <<<<2, 3>>, <<>>, <<2>>>>

Reads == {About(I, TextEq(1)), About(I, TextIn(0, 2)), Load(I, I, NoName)}

Arms ==
    Functions(Locals,
              NamedBodies(1, {body \in Bodies(Reads, 2) : body[1].k = "annot"})
                \X NamedBodies(2, Bodies({Load(I, I, NoName)}, 2))
                \X NamedBodies(3, Bodies(Reads, 2)), Arm)

\* A variable that calls change, and stores through a pointer without a
\* name; loads through such a pointer.
OneBlock(items) ==
    Functions(Locals,
              NamedBodies(1, {body \in Bodies(items, 4) : body[1].k = "annot"})
                \X NamedBodies(2, {<<Load(I, I, NoName)>>})
                \X NamedBodies(3, {<<Load(X, X, NoName)>>}), Fork)

Aliased ==
    OneBlock({About(I, TextEq(1)), Load(I, I, NoName), Load(NoName, I, NoName),
              Store(I, I), Store(NoName, I), Call(I)})

\* A global variable z, which has no declaration in the function.
G == 22

Globals ==
    OneBlock({About(G, TextEq(1)), About(I, TextIn(0, 2)), About(I, TextOther),
              Load(G, G, NoName), Load(I, I, NoName),
              Store(G, G), Call(G)})

\* With the assertions in sibling scopes.
MCPrograms == Forks \cup Globals \cup Aliased \cup Arms \cup MCSiblings

\* All names are resolved as C does, and where the assertions are single
\* statements the loads read what they say: the programs are ones that the
\* theorems are about.
MCInit ==
    /\ Init
    /\ Assert(Scoped, "a name is not resolved as in C")
    /\ Assert(prog \in MCSiblings \cup Arms \/ Understood, "a load is not understood")

MCSpec == MCInit /\ [][Next]_vars

\* A parameter x, whose alloca is named "x.addr".
Addr == 21

Parameter == {About(X, TextEq(1)), Load(Addr, Addr, NoName), Store(Addr, Addr)}

MCRenamed ==
    Functions(<<Local(Addr, X)>>, {<<body>> : body \in NamedBodies(1, Bodies(Parameter, 3))},
              << <<>> >>)
=============================================================================
