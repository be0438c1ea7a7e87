---------------------------- MODULE MCRemoveIOC ----------------------------
EXTENDS RemoveIOC

\* Longs -8 .. 7 and ints -2 .. 1.
MCW == 16
MCN == 4

\* A load of a long in an interval.
LongIn(lo, hi, v) == LoadOf(TextIn(lo, hi), v % MCW)

NonNegatives == {LongIn(0, 2, 0), LongIn(0, 2, 2), LongIn(5, 7, 7)}

Longs == NonNegatives \cup {LongIn(-3, 1, -3), LongIn(-3, 1, 1)}

\* Two checks one after the other; the second uses the value of the first,
\* and a load, a load without metadata or a literal.
Pairs(ops, loads) ==
    {<<Check(p[1], MCW, p[2], p[3]), Check(p[4], MCW, p[5][1], p[5][2])>> :
        p \in ops \X loads \X loads \X ops \X
             ({<<ValueOf(1), o>> : o \in loads \cup {ValueOf(1), LoadOf(NoText, 1), Literal(2)}}
                \cup {<<LongIn(0, 2, 2), ValueOf(1)>>})}

\* Three checks, the second of which may be kept.
Chains(ops, loads) ==
    {<<Check(p[1], MCW, p[2], p[2]), Check(p[1], MCW, p[3], ValueOf(1)),
       Check(p[1], MCW, ValueOf(1), ValueOf(2))>> :
        p \in ops \X loads \X (loads \cup {Literal(2)})}

\* An unsigned operation has operands that are not negative.
LongChecks == Pairs(Signeds, Longs) \cup Pairs(Unsigneds, NonNegatives)
                \cup Chains(Signeds, Longs) \cup Chains(Unsigneds, NonNegatives)

\* Ints known exactly, alone and together with an interval.
Exactly(c) == LoadOf(TextEq(c), c % MCN)

IntChecks(ops, exact) ==
    {<<Check(p[1], MCN, p[2], p[3])>> :
        p \in ops \X exact \X (exact \cup {LoadOf(TextIn(-2, 0), 2)})}

\* The other forms of a block, before a trap that uses the value: checks
\* with a handler, which are kept, the overflow builtins, kept or not, and a
\* call through a pointer.
Unknown == LoadOf(NoText, 7)

Before(c, o) == <<c, Check("sadd", MCW, LongIn(0, 2, 2), o)>>

OtherForms ==
    {Before(WithForm("builtin", Check("sadd", MCW, LongIn(0, 2, 2), o)), v) :
        o \in {LongIn(0, 2, 2), Unknown},
        v \in {LongIn(0, 2, 0), ValueOf(1)}}
    \cup {Before(WithForm("indirect", Check("sadd", MCW, Literal(0), Literal(0))), LongIn(0, 2, 0))}
    \cup {Before(WithForm("handler", Check(op, MCW, o, p)), v) :
        op \in Signeds, o \in {LongIn(0, 2, 2), LongIn(5, 7, 7)}, p \in {Unknown, Literal(7)},
        v \in {LongIn(0, 2, 0), ValueOf(1)}}

AllFunctions ==
    LongChecks \cup OtherForms \cup IntChecks(Signeds, {Exactly(0), Exactly(-1)})
        \cup IntChecks(Unsigneds, {Exactly(0), Exactly(1)})

\* The words the operation of each block may have; an operand may have those
\* its metadata names.  Every check lets some of them pass: a range that lies
\* wholly beyond the limits looks like one within them.
Passing(f) ==
    LET words[b \in DOMAIN f] ==
            LET c == f[b]
                values(o) ==
                    CASE o.from = "value"                -> words[o.block]
                      [] o.from # "value" /\ o.md = NoText -> {o.word}
                      [] o.from # "value" /\ o.md # NoText -> {n % MCW : n \in o.md.lo .. o.md.hi}
            IN  {ExactResult(c.op, c.ty, p[1], p[2]) % c.ty :
                    p \in {q \in values(c.args[1]) \X values(c.args[2]) :
                            ~OverflowsOn(c.op, c.ty, q[1], q[2])}}
    IN  [b \in DOMAIN f |-> words[b]]

SomePass(f) == \A b \in DOMAIN f : Passing(f)[b] # {}

MCFunctions == {f \in AllFunctions : SomePass(f)}

\* Ints of an interval, whose ranges have 64 bits, and longs whose sum lies
\* wholly beyond the limits.
MCBeyond ==
    {<<Check("sadd", MCN, LoadOf(TextIn(0, 1), v), LoadOf(TextIn(0, 1), w))>> :
        v \in 0 .. 1, w \in 0 .. 1}
    \cup {<<Check("sadd", MCW, LongIn(5, 7, v), LongIn(5, 7, 7))>> : v \in 5 .. 7}

\* No check with a handler can be shown redundant.
ASSUME HandlersKeptAssumption == HandlersKept
=============================================================================
