---------------------------- MODULE AnnotatedRun ----------------------------
(***************************************************************************)
(* The mapping pass followed by one execution of the function it           *)
(* annotated.  Frama-C proved its assertions, so an execution passes an    *)
(* assertion only with values for which it is true; everything the pass    *)
(* derived from them is then checked against the memory.                   *)
(***************************************************************************)
EXTENDS AnnotationMapping

CONSTANT Values             \* the values of the variables

VARIABLES
    pc,                     \* the position of the next instruction
    memory,                 \* cell -> value; a cell is named after its alloca
    live,                   \* cell -> the text of the assertion that covers it
    clobbered               \* the cells a call, or a store through another
                            \* pointer, has changed since

runVars == <<pc, memory, live, clobbered>>

vars == <<prog, phase, todo, safecodeMap, metadata, pc, memory, live, clobbered>>

NoText == [kind |-> "none", lo |-> 0, hi |-> 0]

Cells == {At(q).cell : q \in {r \in Positions(prog) : At(r).k # "annot"}}
            \cup {prog.decls[d].ir : d \in DOMAIN prog.decls}

Denoted(t) == t.lo .. t.hi

(***************************************************************************)
(* live is history: the assertion about a cell that execution passed last  *)
(* in this block, unless the cell was changed since.                       *)
(***************************************************************************)
Nothing == [c \in Cells |-> NoText]

Init ==
    /\ PassInit
    /\ pc = <<1, 1>>
    /\ memory = <<>>
    /\ live = <<>>
    /\ clobbered = {}

StartRun ==
    /\ phase = "scan" /\ todo = {}
    /\ phase' = "run"
    /\ memory' \in [Cells -> Values]
    /\ live' = Nothing
    /\ UNCHANGED <<prog, todo, safecodeMap, metadata, pc, clobbered>>

AtInstruction(k) == phase = "run" /\ pc[2] <= Len(Block(pc[1])) /\ At(pc).k = k

Step == pc' = <<pc[1], pc[2] + 1>> /\ UNCHANGED passVars

(* The cell a statement of the assertion at pc is about, in C.             *)
Subject(s) == Meant(s.src, At(pc).scope, At(pc).line)

PassAssertion ==
    /\ AtInstruction("annot")
    /\ LET claims == {s \in Seqs!ToSet(At(pc).stmts) :
                        s.text.kind # "other" /\ Subject(s) # NoName}
       IN  /\ \A s \in claims : memory[Subject(s)] \in Denoted(s.text)
           /\ live' = [c \in Cells |->
                IF \E s \in claims : Subject(s) = c
                THEN (CHOOSE s \in claims : Subject(s) = c).text
                ELSE live[c]]
           /\ clobbered' = clobbered \ {Subject(s) : s \in claims}
    /\ Step
    /\ UNCHANGED memory

ExecuteLoad ==
    /\ AtInstruction("load")
    /\ Step
    /\ UNCHANGED <<memory, live, clobbered>>

Change(cell) ==
    /\ \E v \in Values : memory' = [memory EXCEPT ![cell] = v]
    /\ live' = [live EXCEPT ![cell] = NoText]

ExecuteStore ==
    /\ AtInstruction("store")
    /\ Change(At(pc).cell)
    /\ clobbered' = IF At(pc).ptr = At(pc).cell THEN clobbered \ {At(pc).cell}
                    ELSE clobbered \cup {At(pc).cell}
    /\ Step

ExecuteCall ==
    /\ AtInstruction("call")
    /\ Change(At(pc).cell)
    /\ clobbered' = clobbered \cup {At(pc).cell}
    /\ Step

ExecuteBranch ==
    /\ phase = "run" /\ pc[2] > Len(Block(pc[1]))
    /\ \E i \in DOMAIN prog.succ[pc[1]] : pc' = <<prog.succ[pc[1]][i], 1>>
    /\ live' = Nothing
    /\ UNCHANGED <<memory, clobbered>>
    /\ UNCHANGED passVars

Next ==
    \/ PassNext /\ UNCHANGED runVars
    \/ StartRun
    \/ PassAssertion
    \/ ExecuteLoad
    \/ ExecuteStore
    \/ ExecuteCall
    \/ ExecuteBranch

Spec == Init /\ [][Next]_vars

-----------------------------------------------------------------------------
(* The same of the pass, and an execution stays within the function with a *)
(* value in every cell (AnnotationMapping.cpp:368, Execution.cpp:2113).    *)
TypeOK ==
    /\ PassTypeOK
    /\ pc[1] \in DOMAIN prog.blocks /\ pc[2] \in 1 .. Len(Block(pc[1])) + 1
    /\ phase = "run" => memory \in [Cells -> Values]
    /\ clobbered \subseteq Cells

(* Every value a load reads lies in the range of its metadata, whatever    *)
(* was stored since the assertion and by whichever way the load was        *)
(* reached (the walk of AnnotationMapping.cpp:553-801), unless a call or a *)
(* store the walk does not look at has changed that very variable.         *)
LoadWithinRange ==
    AtInstruction("load") /\ pc \in DOMAIN metadata /\ At(pc).cell \notin clobbered
        => Holds(GetConstantRange(metadata[pc]), memory[At(pc).cell])

(* A load of a variable that an assertion of its block still covers, not   *)
(* one through a pointer without a name, carries exactly that              *)
(* assertion, not an older one about the same variable and not none        *)
(* ("if there is an annotation about the same variable stop",              *)
(* AnnotationMapping.cpp:576, with no second annotation at 741).           *)
CoveredLoadAnnotated ==
    AtInstruction("load") /\ live[At(pc).cell] # NoText /\ At(pc).ptr = At(pc).cell
        => /\ pc \in DOMAIN metadata
           /\ metadata[pc] = GetAnnotation(RangePair(live[At(pc).cell]))

(* Metadata is final: no later walk takes it away or replaces it.          *)
MetadataFinal ==
    [][\A r \in DOMAIN metadata : r \in DOMAIN metadata' /\ metadata'[r] = metadata[r]]_vars

-----------------------------------------------------------------------------
(* The functions of which the two properties of loads hold.  Variable(q)   *)
(* is the name the walk from the assertion at q is about; the walk does    *)
(* not go past Stops.                                                      *)
Variable(q) == FirstName(Entry(At(q)))

Stops(r, v) ==
    \/ r \in Annotations(prog) /\ Variable(r) = v
    \/ At(r).k = "store" /\ ReverseName(At(r).ptr) = v

Clear(b, i, j, v) == \A h \in i .. j : ~Stops(<<b, h>>, v)

ToTheEnd(q) == Clear(q[1], q[2] + 1, Len(Block(q[1])), Variable(q))

(* Every assertion is one statement, and a store is to its variable if and *)
(* only if it is to the alloca of its variable.                            *)
Watched ==
    \A q \in Annotations(prog) :
        /\ Len(At(q).stmts) = 1
        /\ \A r \in Positions(prog) :
            At(r).k = "store" /\ Variable(q) # NoName
                => (ReverseName(At(r).ptr) = Variable(q) <=> At(r).ptr = Variable(q))

(* Whichever way execution enters the blocks B, it comes from the block of *)
(* the assertion at q, or from a block of B where its variable keeps its   *)
(* value: nothing there ends a walk, or nothing changes it anywhere.       *)
Unchanged(v) ==
    \A r \in Positions(prog) : At(r).k \in {"store", "call"} => At(r).cell # v

EnteredFrom(q, B) ==
    \A c \in B : c # 1 /\ \A b \in DOMAIN prog.blocks :
        c \in Seqs!ToSet(prog.succ[b]) =>
            \/ b = q[1]
            \/ b \in B /\ (Clear(b, 1, Len(Block(b)), Variable(q)) \/ Unchanged(Variable(q)))

(* What an assertion says survives its conversions; an assertion about a   *)
(* name without an alloca is not followed by a load through a pointer      *)
(* without a name; and where an assertion holds to the end of its block,   *)
(* the first successor is entered from there.                              *)
Understood ==
    /\ Scoped /\ Watched
    /\ \A q \in Annotations(prog) :
        /\ At(q).stmts[1].text.kind # "other" => Printable(At(q).stmts[1].text)
        /\ Variable(q) = NoName => \A r \in Loads(prog) : At(r).ptr # NoName
        /\ ToTheEnd(q) /\ prog.succ[q[1]] # <<>> =>
            \E B \in SUBSET DOMAIN prog.blocks :
                prog.succ[q[1]][1] \in B /\ EnteredFrom(q, B)

(* "If there is a store to the alloca we should assume that the value will *)
(* change, so the annotation is not valid anymore"                         *)
(* (AnnotationMapping.cpp:584): for an alloca whose name is not that of    *)
(* its variable too, that of a parameter for one.                          *)
StoreEndsAnnotation == LoadWithinRange
=============================================================================
