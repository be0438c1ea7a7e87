------------------------- MODULE AnnotationMapping -------------------------
(***************************************************************************)
(* The pass that turns Frama-C's assertions about source variables into    *)
(* acsl_range metadata on loads (AnnotationMapping.cpp, runOnFunction).    *)
(* The front end leaves an assertion in the code as a debug declaration    *)
(* followed by a store of its text; one annot instruction stands for both. *)
(*                                                                         *)
(* The pass first resolves every assertion: its source names become names  *)
(* of allocas, and its statements ranges in safecodeMap (Resolve).  Then   *)
(* it walks from every resolved assertion towards the loads it still       *)
(* covers: to the end of the block, or to an instruction that ends its     *)
(* validity, and once more through the first successor (Scan).             *)
(*                                                                         *)
(* Names, of source variables, allocas and loads alike, are numbers in the *)
(* order of std::map<std::string, ...>: the first key of a map is the      *)
(* smallest.  Positions are pairs <<block, index>> in layout order.        *)
(***************************************************************************)
EXTENDS AcslText, Sequences

Seqs == INSTANCE SequencesExt

CONSTANT Programs       \* the functions the pass may be run on

NoName == 0             \* the empty string: no alloca, or an unnamed pointer
Hash == 1               \* "#", the name of a statement that is not a range

VARIABLES
    prog,               \* the function being compiled
    phase,              \* "resolve", "scan", "run" or "aborted"
    todo,               \* the annotated positions the current loop has ahead
    safecodeMap,        \* position of an annot -> name -> range
    metadata            \* position of a load -> text of its acsl_range

passVars == <<prog, phase, todo, safecodeMap, metadata>>

-----------------------------------------------------------------------------
(* A program.  decls lists the debug declarations, with the alloca's name, *)
(* the source name, the scope and the line; parent maps a scope to the one *)
(* around it, the function being scope 1 and its file scope 0; top is the  *)
(* scope of the first instruction with a location.  A block ends with a    *)
(* branch to the blocks succ lists, the true target first, or returns.     *)
Annot(stmts, scope, line) ==
    [k |-> "annot", stmts |-> stmts, scope |-> scope, line |-> line]

Load(ptr, cell, name) == [k |-> "load", ptr |-> ptr, cell |-> cell, name |-> name]

Store(ptr, cell) == [k |-> "store", ptr |-> ptr, cell |-> cell]

Call(cell) == [k |-> "call", cell |-> cell]     \* it may change the cell

Statement(src, text) == [src |-> src, text |-> text]

Statements ==
    [src : Nat \ {NoName},
     text : [kind : {"eq", "in", "oneof", "other"}, lo : Int, hi : Int]]

Instructions(p) ==
    [k : {"annot"}, stmts : Seq(Statements) \ {<<>>}, scope : DOMAIN p.parent, line : Nat]
    \cup [k : {"load"}, ptr : Nat \ {Hash}, cell : Nat, name : Nat]
    \cup [k : {"store"}, ptr : Nat \ {Hash}, cell : Nat]
    \cup [k : {"call"}, cell : Nat]

Positions(p) == UNION {{b} \X DOMAIN p.blocks[b] : b \in DOMAIN p.blocks}

Loads(p) == {q \in Positions(p) : p.blocks[q[1]][q[2]].k = "load"}

(* What every function satisfies: scopes are numbered from the outside     *)
(* inwards, nothing branches to the first block, and names are unique (the *)
(* pass itself names what has no name, AnnotationMapping.cpp:409).  A      *)
(* pointer named like an alloca points to its cell.  Pointers that were    *)
(* read from memory are not among the pointers: assertions are about       *)
(* numbers.                                                                *)
WellFormed(p) ==
    /\ p.parent \in Seq(Nat) /\ \A c \in DOMAIN p.parent : p.parent[c] < c
    /\ p.top \in DOMAIN p.parent
    /\ p.decls \in Seq([ir : Nat \ {NoName, Hash}, src : Nat \ {NoName},
                        scope : DOMAIN p.parent, line : Nat])
    /\ \A d, e \in DOMAIN p.decls : p.decls[d].ir = p.decls[e].ir => d = e
    /\ p.blocks \in Seq(Seq(Instructions(p))) \ {<<>>}
    /\ p.succ \in [DOMAIN p.blocks -> Seq(DOMAIN p.blocks \ {1})]
    /\ \A q \in Positions(p), d \in DOMAIN p.decls :
            LET i == p.blocks[q[1]][q[2]]
            IN  i.k \in {"load", "store"} /\ i.ptr = p.decls[d].ir => i.cell = i.ptr
    /\ \A q, r \in Loads(p) :
            LET i == p.blocks[q[1]][q[2]]  j == p.blocks[r[1]][r[2]]
            IN  i.ptr # j.name /\ (i.name = j.name => q = r)

ASSUME ProgramsAssumption == \A p \in Programs : WellFormed(p)

Block(b) == prog.blocks[b]

At(q) == prog.blocks[q[1]][q[2]]

PositionsIn(b) == {b} \X DOMAIN Block(b)

Annotations(p) == {q \in Positions(p) : p.blocks[q[1]][q[2]].k = "annot"}

Earliest(S) ==
    CHOOSE q \in S : \A r \in S : q[1] < r[1] \/ (q[1] = r[1] /\ q[2] <= r[2])

Smallest(S) == CHOOSE n \in S : \A o \in S : n <= o

-----------------------------------------------------------------------------
(* Which alloca a source name means.  Declarations are those of the name   *)
(* in the function, Candidates those in one scope, no later than the       *)
(* assertion; Closest takes the last of them, the first declared on equal  *)
(* lines.                                                                  *)
Declarations(src) == {d \in DOMAIN prog.decls : prog.decls[d].src = src}

DeclaredOnce(src) == \E d \in Declarations(src) : Declarations(src) = {d}

Candidates(src, scope, line) ==
    {d \in Declarations(src) : prog.decls[d].scope = scope /\ prog.decls[d].line <= line}

Closest(C) ==
    LET lastLine == {d \in C : \A e \in C : prog.decls[d].line >= prog.decls[e].line}
    IN  prog.decls[Smallest(lastLine)].ir

(* Mutant: the scopes around that of the assertion are not searched.       *)
FindNameIRHere(src, scope, line) ==
    IF DeclaredOnce(src) THEN Closest(Declarations(src))
    ELSE IF Candidates(src, scope, line) # {} THEN Closest(Candidates(src, scope, line))
    ELSE NoName

(* findNameIR: a name declared once means that declaration.  Otherwise the *)
(* scopes are searched outwards: the first hop goes to the parent, every   *)
(* later hop, the turns of Climb, to the parent's parent.  The search ends *)
(* at the top scope and where a hop would leave the function.              *)
Climb(src, line) ==
    LET climb[c \in DOMAIN prog.parent \cup {0}] ==
            IF Candidates(src, c, line) # {} THEN Closest(Candidates(src, c, line))
            ELSE IF c \in {0, prog.top} \/ prog.parent[c] = 0 THEN NoName
            ELSE climb[prog.parent[prog.parent[c]]]
    IN  climb

FindNameIR(src, scope, line) ==
    IF DeclaredOnce(src) THEN Closest(Declarations(src))
    ELSE IF Candidates(src, scope, line) # {} THEN Closest(Candidates(src, scope, line))
    ELSE IF scope = prog.top THEN NoName
    ELSE Climb(src, line)[prog.parent[scope]]

(* The names of an annotation's statements after changeTreeVariableName:   *)
(* one source name after the other, in order, is replaced everywhere in    *)
(* the tree.  A name written by one replacement is replaced again when it  *)
(* is itself a source name whose turn is yet to come.                      *)
Renamed(a) ==
    LET sources == {s.src : s \in Seqs!ToSet(a.stmts)}
        written[n \in sources] ==
            LET ir == FindNameIR(n, a.scope, a.line)
            IN  IF ir \in sources /\ ir > n THEN written[ir] ELSE ir
    IN  [i \in DOMAIN a.stmts |-> written[a.stmts[i].src]]

(* Mutant: the range is read as that of metadata is.                       *)
StatementRangeOfMetadata(t) ==
    IF t.kind = "other" THEN MkRange(W, 0, 1) ELSE GetConstantRange(t)

(* The entry of safecodeMap: a later statement about a name replaces an    *)
(* earlier one, and a statement getRangePair cannot read is [0, 1) of "#". *)
StatementRange(t) == IF t.kind = "other" THEN MkRange(W, 0, 1) ELSE RangePair(t)

Entry(a) ==
    LET key(i) == IF a.stmts[i].text.kind = "other" THEN Hash ELSE Renamed(a)[i]
        last(n) == CHOOSE i \in DOMAIN a.stmts :
                        key(i) = n /\ \A j \in DOMAIN a.stmts : key(j) = n => j <= i
    IN  [n \in {key(i) : i \in DOMAIN a.stmts} |-> StatementRange(a.stmts[last(n)].text)]

(* reverseNameSCMap: the source name of an alloca, empty for other names.  *)
ReverseName(ir) ==
    IF \E d \in DOMAIN prog.decls : prog.decls[d].ir = ir
    THEN (CHOOSE d \in Seqs!ToSet(prog.decls) : d.ir = ir).src
    ELSE NoName

-----------------------------------------------------------------------------
(* The walk from the annotation at q.  Its variable is the first name of   *)
(* its entry; an annotation with the same first name ends the walk, and so *)
(* does a store to a pointer whose SOURCE name is that name.               *)
FirstName(entry) == Smallest(DOMAIN entry)

(* Mutants: a store does not end the walk; an annotation does not.         *)
EndsWalkAtAnnotation(r, variable, entryAt) ==
    r \in DOMAIN safecodeMap /\ FirstName(entryAt[r]) = variable

EndsWalkAtStore(r, variable, entryAt) ==
    At(r).k = "store" /\ ReverseName(At(r).ptr) = variable

EndsWalk(r, variable, entryAt) ==
    \/ /\ r \in DOMAIN safecodeMap
       /\ FirstName(entryAt[r]) = variable
    \/ At(r).k = "store" /\ ReverseName(At(r).ptr) = variable

(* The positions a walk passes in block b from index from on, when ends    *)
(* are those at which it stops.                                            *)
Reached(b, from, ends) ==
    {<<b, j>> : j \in {i \in from .. Len(Block(b)) : \A h \in from .. i : <<b, h>> \notin ends}}

(* Mutant: metadata that is there is replaced.                             *)
CoveredAgain(entry, md, S) ==
    {r \in S : At(r).k = "load" /\ At(r).ptr \in DOMAIN entry}

Covered(entry, md, S) ==
    {r \in S : At(r).k = "load" /\ r \notin DOMAIN md /\ At(r).ptr \in DOMAIN entry}

Annotated(entry, md, S) ==
    [r \in DOMAIN md \cup S |-> IF r \in S THEN GetAnnotation(entry[At(r).ptr]) ELSE md[r]]

(* In the block of the annotation itself.                                  *)
MainWalk(q, variable) ==
    Reached(q[1], q[2] + 1,
            {r \in PositionsIn(q[1]) : EndsWalk(r, variable, safecodeMap)})

ReachesBranch(q, variable) ==
    MainWalk(q, variable) = {q[1]} \X (q[2] + 1 .. Len(Block(q[1])))

(* In the first successor.  Every load annotated there enters its own name *)
(* into the entry of the annotation being walked, which may come before    *)
(* the variable when the walk meets that annotation again.                 *)
Extended(q, md, S) ==
    [n \in DOMAIN safecodeMap[q] \cup {At(r).name : r \in Covered(safecodeMap[q], md, S)} |->
        IF n \in DOMAIN safecodeMap[q] THEN safecodeMap[q][n]
        ELSE safecodeMap[q][At(CHOOSE r \in S : At(r).k = "load" /\ At(r).name = n).ptr]]

BranchWalk(q, variable, md, b) ==
    LET extended(r) ==
            [safecodeMap EXCEPT ![q] = Extended(q, md, {<<b, h>> : h \in 1 .. r[2] - 1})]
    IN  Reached(b, 1, {r \in PositionsIn(b) : EndsWalk(r, variable, extended(r))})

-----------------------------------------------------------------------------
PassInit ==
    /\ prog \in Programs
    /\ phase = "resolve"
    /\ todo = Annotations(prog)
    /\ safecodeMap = <<>>
    /\ metadata = <<>>

(* The next assertion in layout order.                                     *)
Resolve ==
    /\ phase = "resolve" /\ todo # {}
    /\ LET q     == Earliest(todo)
           entry == Entry(At(q))
       IN  IF \A i \in DOMAIN At(q).stmts : Accepted(StatementRange(At(q).stmts[i].text))
           THEN /\ safecodeMap' = [r \in DOMAIN safecodeMap \cup {q} |->
                                      IF r = q THEN entry ELSE safecodeMap[r]]
                /\ todo' = todo \ {q}
                /\ UNCHANGED phase
           ELSE phase' = "aborted" /\ UNCHANGED <<safecodeMap, todo>>
    /\ UNCHANGED <<prog, metadata>>

StartScan ==
    /\ phase = "resolve" /\ todo = {}
    /\ phase' = "scan"
    /\ todo' = DOMAIN safecodeMap
    /\ UNCHANGED <<prog, safecodeMap, metadata>>

(* The next annotation in layout order, over its own block and, when that  *)
(* walk meets the branch, over the block of its first successor.           *)
Scan ==
    /\ phase = "scan" /\ todo # {}
    /\ LET q        == Earliest(todo)
           entry    == safecodeMap[q]
           variable == FirstName(entry)
           main     == Covered(entry, metadata, MainWalk(q, variable))
           md       == Annotated(entry, metadata, main)
           next     == prog.succ[q[1]][1]
           branch   == BranchWalk(q, variable, md, next)
       IN  /\ todo' = todo \ {q}
           /\ IF prog.succ[q[1]] # <<>> /\ ReachesBranch(q, variable)
              THEN /\ metadata' = Annotated(entry, md, Covered(entry, md, branch))
                   /\ safecodeMap' = [safecodeMap EXCEPT ![q] = Extended(q, md, branch)]
              ELSE metadata' = md /\ UNCHANGED safecodeMap
    /\ UNCHANGED <<prog, phase>>

PassNext == Resolve \/ StartScan \/ Scan

PassSpec == PassInit /\ [][PassNext]_passVars

-----------------------------------------------------------------------------
(* What C means by a source name: the declaration in the nearest enclosing *)
(* scope that has one.                                                     *)
Seek(src, line) ==
    LET seek[c \in DOMAIN prog.parent \cup {0}] ==
            IF Candidates(src, c, line) # {} THEN Closest(Candidates(src, c, line))
            ELSE IF c = 0 THEN NoName
            ELSE seek[prog.parent[c]]
    IN  seek

Meant(src, scope, line) == Seek(src, line)[scope]

(* Only resolved assertions are in safecodeMap, their ranges have 64 bits, *)
(* and only loads get metadata (AnnotationMapping.cpp:510, 740).           *)
PassTypeOK ==
    /\ phase \in {"resolve", "scan", "run", "aborted"}
    /\ todo \subseteq Annotations(prog)
    /\ DOMAIN safecodeMap \subseteq Annotations(prog)
    /\ \A q \in DOMAIN safecodeMap : \A n \in DOMAIN safecodeMap[q] :
            safecodeMap[q][n] \in Ranges(W)
    /\ \A r \in DOMAIN metadata : At(r).k = "load" /\ metadata[r].kind \in {"eq", "in"}

(* Every range of a resolved assertion is kept under the alloca that C's   *)
(* scoping rules give to the name (no alloca, for a global), shadowed or   *)
(* not ("we must find the correct alloca for the variable in the           *)
(* annotation", AnnotationMapping.cpp:826).                                *)
CorrectAlloca ==
    \A q \in DOMAIN safecodeMap : \A i \in DOMAIN At(q).stmts :
        LET s        == At(q).stmts[i]
            n        == Meant(s.src, At(q).scope, At(q).line)
            repeated == \E j \in i + 1 .. Len(At(q).stmts) : At(q).stmts[j].src = s.src
        IN  ~repeated /\ s.text.kind # "other"
                => n \in DOMAIN safecodeMap[q] /\ safecodeMap[q][n] = RangePair(s.text)

(* The functions whose names are resolved as C does.  No scope is around   *)
(* the top scope.  Of every name an assertion is about: a declaration that *)
(* is the only one is seen where the assertion stands; if there are more,  *)
(* the scopes that the search passes over do not declare the name; and no  *)
(* alloca of a name in the assertion is called like another name in it.    *)
(* At most one name of an assertion is not declared.                       *)
Encloses(c, scope) ==
    \A V \in SUBSET DOMAIN prog.parent :
        /\ scope \in V
        /\ \A d \in V : prog.parent[d] # 0 => prog.parent[d] \in V
        => c \in V

HopsSafely(n, from, line) ==
    \E V \in SUBSET (DOMAIN prog.parent \cup {0}) :
        /\ from \in V
        /\ \A c \in V \ {0, prog.top} :
            Candidates(n, c, line) = {} /\ prog.parent[c] # 0
                => /\ Candidates(n, prog.parent[c], line) = {}
                   /\ prog.parent[prog.parent[c]] \in V

Scoped ==
    /\ prog.parent[prog.top] = 0
    /\ \A q \in Annotations(prog) :
        LET a       == At(q)
            sources == {s.src : s \in Seqs!ToSet(a.stmts)}
        IN  /\ \A n \in sources : \A d \in Declarations(n) :
                /\ prog.decls[d].ir \notin sources \ {n}
                /\ DeclaredOnce(n) => /\ Encloses(prog.decls[d].scope, a.scope)
                                     /\ prog.decls[d].line <= a.line
            /\ \A n \in sources :
                ~DeclaredOnce(n) => HopsSafely(n, prog.parent[a.scope], a.line)
            /\ \A m, n \in sources :
                Meant(m, a.scope, a.line) = NoName /\ Meant(n, a.scope, a.line) = NoName => m = n
=============================================================================
