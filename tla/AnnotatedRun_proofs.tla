------------------------- MODULE AnnotatedRun_proofs -------------------------
(***************************************************************************)
(* What holds of the mapping pass and of an execution of what it annotated,*)
(* for any functions, names, values and widths of int and long.            *)
(***************************************************************************)
EXTENDS AnnotatedRun, Ranges_proofs

(* Positions are pairs, and what stands there is an instruction.           *)
LEMMA PositionFacts ==
    ASSUME prog \in Programs
    PROVE  /\ \A b \in DOMAIN prog.blocks :
                /\ b \in Nat \ {0} /\ Block(b) \in Seq(Instructions(prog))
                /\ Len(Block(b)) \in Nat /\ DOMAIN Block(b) = 1 .. Len(Block(b))
                /\ prog.succ[b] \in Seq(DOMAIN prog.blocks \ {1})
           /\ 1 \in DOMAIN prog.blocks
           /\ \A b \in DOMAIN prog.blocks : \A i \in 1 .. Len(Block(b)) : <<b, i>> \in Positions(prog)
           /\ \A q \in Positions(prog) :
                /\ q = <<q[1], q[2]>> /\ q[1] \in DOMAIN prog.blocks /\ q[1] \in Nat
                /\ q[2] \in 1 .. Len(Block(q[1])) /\ q[2] \in Nat
                /\ At(q) \in Instructions(prog)
<1>1. WellFormed(prog)
  BY ProgramsAssumption
<1>2. prog.blocks \in Seq(Seq(Instructions(prog))) /\ prog.blocks # <<>>
  BY <1>1 DEF WellFormed
<1>3. DOMAIN prog.blocks = 1 .. Len(prog.blocks) /\ Len(prog.blocks) \in Nat \ {0}
  BY <1>2
<1>4. prog.succ \in [DOMAIN prog.blocks -> Seq(DOMAIN prog.blocks \ {1})]
  BY <1>1 DEF WellFormed
<1>5. ASSUME NEW b \in DOMAIN prog.blocks
      PROVE  /\ b \in Nat \ {0} /\ Block(b) \in Seq(Instructions(prog))
             /\ Len(Block(b)) \in Nat /\ DOMAIN Block(b) = 1 .. Len(Block(b))
  <2>1. prog.blocks[b] \in Seq(Instructions(prog))
    BY <1>2
  <2>2. QED
    BY <1>3, <2>1 DEF Block
<1>6. ASSUME NEW q \in Positions(prog)
      PROVE  /\ q = <<q[1], q[2]>> /\ q[1] \in DOMAIN prog.blocks
             /\ q[2] \in 1 .. Len(Block(q[1]))
             /\ At(q) \in Instructions(prog)
  <2>1. PICK b \in DOMAIN prog.blocks : q \in {b} \X DOMAIN prog.blocks[b]
    BY DEF Positions
  <2>2. q = <<q[1], q[2]>> /\ q[1] = b /\ q[2] \in DOMAIN Block(b)
    BY <2>1 DEF Block
  <2>3. Block(b)[q[2]] \in Instructions(prog)
    BY <1>5, <2>2
  <2>4. QED
    BY <1>5, <2>2, <2>3 DEF At, Block
<1>7. ASSUME NEW b \in DOMAIN prog.blocks, NEW i \in 1 .. Len(Block(b))
      PROVE  <<b, i>> \in Positions(prog)
  <2>1. <<b, i>> \in {b} \X DOMAIN prog.blocks[b]
    BY <1>5 DEF Block
  <2>2. QED
    BY <2>1 DEF Positions
<1>8. QED
  BY <1>3, <1>4, <1>5, <1>6, <1>7

(* The kinds of instructions and their parts.                              *)
LEMMA InstructionFacts ==
    ASSUME prog \in Programs, NEW q \in Positions(prog)
    PROVE  /\ At(q).k \in {"annot", "load", "store", "call"}
           /\ At(q).k = "annot" =>
                /\ At(q).stmts \in Seq(Statements) /\ At(q).stmts # <<>>
                /\ At(q).scope \in DOMAIN prog.parent /\ At(q).line \in Nat
           /\ At(q).k \in {"load", "store"} => At(q).ptr \in Nat \ {Hash}
           /\ At(q).k = "load" => At(q).name \in Nat
           /\ At(q).k # "annot" => At(q).cell \in Nat /\ At(q).cell \in Cells
<1>1. At(q) \in Instructions(prog)
  BY PositionFacts
<1>2. At(q).k # "annot" => At(q).cell \in Cells
  BY DEF Cells
<1>3. QED
  BY <1>1, <1>2 DEF Instructions

(* Layout order, and the first position of a set in it.                    *)
Before(q, r) == q[1] < r[1] \/ (q[1] = r[1] /\ q[2] < r[2])

(* The earliest of some positions is one of them and before the others.    *)
LEMMA EarliestFacts ==
    ASSUME prog \in Programs, NEW S \in SUBSET Positions(prog), S # {}
    PROVE  /\ Earliest(S) \in S
           /\ \A r \in S \ {Earliest(S)} : Before(Earliest(S), r)
<1>1. \A q \in S : q = <<q[1], q[2]>> /\ q[1] \in Nat /\ q[2] \in Nat
  BY PositionFacts
<1>2. PICK b \in {q[1] : q \in S} : \A c \in {q[1] : q \in S} : b <= c
  <2>1. {q[1] : q \in S} \in SUBSET Nat /\ {q[1] : q \in S} # {}
    BY <1>1
  <2>2. QED
    BY <2>1, LeastNumber
<1> DEFINE I == {q[2] : q \in {r \in S : r[1] = b}}
<1>3. PICK i \in I : \A j \in I : i <= j
  <2>1. I \in SUBSET Nat /\ I # {}
    BY <1>1
  <2>2. QED
    BY <2>1, LeastNumber
<1>4. PICK q \in S : q[1] = b /\ q[2] = i
  BY <1>3
<1>5. \A r \in S : q[1] < r[1] \/ (q[1] = r[1] /\ q[2] <= r[2])
  <2>1. TAKE r \in S
  <2>2. b <= r[1] /\ r[1] \in Nat /\ b \in Nat
    BY <1>1, <1>2
  <2>3. r[1] = b => i <= r[2]
    BY <1>3
  <2>4. QED
    BY <1>4, <2>2, <2>3
<1>6. /\ Earliest(S) \in S
      /\ \A r \in S : Earliest(S)[1] < r[1] \/ (Earliest(S)[1] = r[1] /\ Earliest(S)[2] <= r[2])
  BY <1>5 DEF Earliest
<1>7. ASSUME NEW r \in S \ {Earliest(S)} PROVE Before(Earliest(S), r)
  <2>1. PICK e \in S : e = Earliest(S)
    BY <1>6
  <2>2. e[1] < r[1] \/ (e[1] = r[1] /\ e[2] <= r[2])
    BY <1>6, <2>1
  <2>3. ~(e[1] = r[1] /\ e[2] = r[2])
    BY <1>1, <2>1, <1>7
  <2>4. e[2] \in Nat /\ r[2] \in Nat
    BY <1>1
  <2>5. QED
    BY <2>1, <2>2, <2>3, <2>4 DEF Before
<1>8. QED
  BY <1>6, <1>7

(* What is about the function alone stays as it is while the function does. *)
LEMMA Static ==
    ASSUME prog' = prog
    PROVE  /\ Positions(prog)' = Positions(prog) /\ Annotations(prog)' = Annotations(prog)
           /\ Loads(prog)' = Loads(prog) /\ Cells' = Cells
           /\ \A q : /\ At(q)' = At(q) /\ Variable(q)' = Variable(q)
                     /\ Entry(At(q))' = Entry(At(q)) /\ ToTheEnd(q)' = ToTheEnd(q)
           /\ \A b : Block(b)' = Block(b)
           /\ \A n, c, l : Meant(n, c, l)' = Meant(n, c, l)
           /\ \A n : ReverseName(n)' = ReverseName(n) /\ Unchanged(n)' = Unchanged(n)
           /\ \A q, v : Stops(q, v)' = Stops(q, v)
           /\ \A b, i, j, v : Clear(b, i, j, v)' = Clear(b, i, j, v)
           /\ \A q, B : EnteredFrom(q, B)' = EnteredFrom(q, B)
           /\ Scoped' = Scoped /\ Watched' = Watched
<1>1. Positions(prog)' = Positions(prog) /\ Annotations(prog)' = Annotations(prog) /\ Loads(prog)' = Loads(prog)
  BY DEF Positions, Annotations, Loads
<1>2. \A q : At(q)' = At(q)
  BY DEF At
<1>3. \A b : Block(b)' = Block(b)
  BY DEF Block
<1>4. Cells' = Cells
  BY <1>1, <1>2 DEF Cells
<1>5. \A n, c, l : Meant(n, c, l)' = Meant(n, c, l)
  BY DEF Meant, Seek, Candidates, Closest, Declarations, Smallest
<1>6. \A a : Entry(a)' = Entry(a)
  BY DEF Entry, Renamed, FindNameIR, Climb, Candidates, Closest, Declarations, DeclaredOnce,
     Smallest, StatementRange
<1>7. \A q : Entry(At(q))' = Entry(At(q))
  BY <1>2, <1>6
<1>8. \A q : Variable(q)' = Variable(q)
  BY <1>7 DEF Variable, FirstName, Smallest
<1>9. \A n : ReverseName(n)' = ReverseName(n)
  BY DEF ReverseName
<1>10. \A n : Unchanged(n)' = Unchanged(n)
  BY <1>1, <1>2 DEF Unchanged
<1>11. \A q, v : Stops(q, v)' = Stops(q, v)
  BY <1>1, <1>2, <1>8, <1>9 DEF Stops
<1>12. \A b, i, j, v : Clear(b, i, j, v)' = Clear(b, i, j, v)
  BY <1>11 DEF Clear
<1>13. \A q : ToTheEnd(q)' = ToTheEnd(q)
  BY <1>3, <1>8, <1>12 DEF ToTheEnd
<1>14. \A q, B : EnteredFrom(q, B)' = EnteredFrom(q, B)
  BY <1>3, <1>8, <1>10, <1>12 DEF EnteredFrom
<1>15. Watched' = Watched
  BY <1>1, <1>2, <1>8, <1>9 DEF Watched
<1>16. \A c, d, l : Candidates(c, d, l)' = Candidates(c, d, l)
  BY DEF Candidates, Declarations
<1>17. \A c : DeclaredOnce(c)' = DeclaredOnce(c) /\ Declarations(c)' = Declarations(c)
  BY DEF DeclaredOnce, Declarations
<1>18. \A c, d : Encloses(c, d)' = Encloses(c, d)
  BY DEF Encloses
<1>19. \A n, c, l : HopsSafely(n, c, l)' = HopsSafely(n, c, l)
  BY <1>16 DEF HopsSafely
<1>20. Scoped' = Scoped
  BY <1>1, <1>2, <1>5, <1>17, <1>18, <1>19 DEF Scoped
<1>21. QED
  BY <1>1, <1>2, <1>3, <1>4, <1>5, <1>7, <1>8, <1>9, <1>10, <1>11, <1>12, <1>13, <1>14, <1>15, <1>20

-----------------------------------------------------------------------------
(* A walk enters loads without metadata only.                              *)
LEMMA AnnotatedKeeps ==
    ASSUME NEW entry, NEW md, NEW S, NEW r \in DOMAIN md
    PROVE  LET md2 == Annotated(entry, md, Covered(entry, md, S))
           IN  r \in DOMAIN md2 /\ md2[r] = md[r]
BY DEF Annotated, Covered

(* Metadata is final: a walk adds metadata to loads without any, and       *)
(* nothing else touches it.                                                *)
THEOREM NoMetadataReplaced == Spec => MetadataFinal
<1> DEFINE Final == \A r \in DOMAIN metadata : r \in DOMAIN metadata' /\ metadata'[r] = metadata[r]
<1>1. ASSUME Scan PROVE Final
  <2> DEFINE q == Earliest(todo)
             entry == safecodeMap[q]
             variable == FirstName(entry)
             md == Annotated(entry, metadata, Covered(entry, metadata, MainWalk(q, variable)))
             branch == BranchWalk(q, variable, md, prog.succ[q[1]][1])
  <2>1. metadata' \in {md, Annotated(entry, md, Covered(entry, md, branch))}
    BY <1>1 DEF Scan
  <2>2. \A r \in DOMAIN metadata : r \in DOMAIN md /\ md[r] = metadata[r]
    BY AnnotatedKeeps
  <2>3. \A r \in DOMAIN md :
            /\ r \in DOMAIN Annotated(entry, md, Covered(entry, md, branch))
            /\ Annotated(entry, md, Covered(entry, md, branch))[r] = md[r]
    BY AnnotatedKeeps
  <2> HIDE DEF q, md
  <2>4. QED
    BY <2>1, <2>2, <2>3
<1>2. ASSUME [Next]_vars PROVE Final
  <2>1. CASE Scan
    BY <1>1, <2>1
  <2>2. CASE UNCHANGED metadata
    BY <2>2
  <2>3. QED
    BY <1>2, <2>1, <2>2
    DEF Next, PassNext, Resolve, StartScan, StartRun, PassAssertion, ExecuteLoad, ExecuteStore,
        ExecuteCall, ExecuteBranch, Step, passVars, runVars, vars
<1>3. [Next]_vars => [Final]_vars
  BY <1>2
<1>4. QED
  BY <1>3, PTL DEF Spec, MetadataFinal

-----------------------------------------------------------------------------
(* A set of indices has a last one.                                        *)
LEMMA LastIndex ==
    ASSUME NEW n \in Nat, NEW I \in SUBSET (1 .. n), I # {}
    PROVE  \E i \in I : \A j \in I : j <= i
<1> DEFINE D == {n - i : i \in I}
<1>1. D \in SUBSET Nat /\ D # {}
  <2>1. \A i \in I : i \in 1 .. n
    OBVIOUS
  <2>2. \A i \in 1 .. n : n - i \in Nat
    OBVIOUS
  <2>3. QED
    BY <2>1, <2>2
<1>2. PICK d \in D : \A e \in D : d <= e
  BY <1>1, LeastNumber
<1>3. PICK i \in I : d = n - i
  BY <1>2
<1>4. ASSUME NEW j \in I PROVE j <= i
  <2>1. n - j \in D
    OBVIOUS
  <2>2. d <= n - j
    BY <1>2, <2>1
  <2>3. QED
    BY <1>3, <2>2
<1>5. QED
  BY <1>4

(* A statement's range has 64 bits when the constructor accepts it.        *)
LEMMA StatementRangeLegal ==
    ASSUME NEW s \in Statements, Accepted(StatementRange(s.text))
    PROVE  StatementRange(s.text) \in Ranges(W)
<1>1. PICK t : t = s.text
  OBVIOUS
<1>2. t.kind \in {"eq", "in", "oneof", "other"} /\ t.lo \in Int /\ t.hi \in Int
  BY <1>1 DEF Statements
<1>3. Word64(t.lo) \in Word(W) /\ Word64(t.hi) \in Word(W) /\ Plus(W, Word64(t.lo), 1) \in Word(W)
  BY <1>2, WordsOfNumbers
<1>4. FromSigned(W, ToInt(t.lo)) \in Word(W) /\ FromSigned(W, ToInt(t.hi)) \in Word(W)
  BY <1>2, WordsOfNumbers
<1>5. PICK l, h \in Word(W) : StatementRange(t) = MkRange(W, l, h)
  BY <1>2, <1>3, <1>4, WordsOfNumbers DEF StatementRange, RangePair
<1>6. Legal(W, l, h)
  BY <1>1, <1>5 DEF Accepted, MkRange
<1>7. QED
  BY <1>1, <1>5, <1>6 DEF Ranges, MkRange

(* Every range of an entry is that of a statement.                         *)
LEMMA EntryFacts ==
    ASSUME prog \in Programs, NEW q \in Annotations(prog), NEW n \in DOMAIN Entry(At(q))
    PROVE  \E i \in DOMAIN At(q).stmts : Entry(At(q))[n] = StatementRange(At(q).stmts[i].text)
<1> DEFINE stmts == At(q).stmts
           key(i) == IF stmts[i].text.kind = "other" THEN Hash ELSE Renamed(At(q))[i]
           I == {i \in DOMAIN stmts : key(i) = n}
           last == CHOOSE i \in DOMAIN stmts : key(i) = n /\ \A j \in DOMAIN stmts : key(j) = n => j <= i
<1>1. q \in Positions(prog) /\ At(q).k = "annot"
  BY DEF Annotations, At
<1>2. stmts \in Seq(Statements)
  BY <1>1, InstructionFacts
<1>3. DOMAIN stmts = 1 .. Len(stmts) /\ Len(stmts) \in Nat
  BY <1>2
<1>4. DOMAIN Entry(At(q)) = {key(i) : i \in DOMAIN stmts}
  BY DEF Entry
<1>5. Entry(At(q))[n] = StatementRange(stmts[last].text)
  BY <1>4 DEF Entry
<1>6. I # {} /\ I \in SUBSET (1 .. Len(stmts))
  BY <1>3, <1>4
<1>7. \E i \in I : \A j \in I : j <= i
  <2> HIDE DEF I
  <2>1. QED
    BY <1>3, <1>6, LastIndex
<1>8. \E i \in DOMAIN stmts : key(i) = n /\ \A j \in DOMAIN stmts : key(j) = n => j <= i
  BY <1>7
<1>9. last \in DOMAIN stmts
  <2> HIDE DEF key, stmts
  <2>1. QED
    BY <1>8
<1>10. QED
  BY <1>5, <1>9

(* A walk passes positions of its block, from where it starts.             *)
LEMMA ReachedFacts ==
    ASSUME prog \in Programs, NEW b \in DOMAIN prog.blocks, NEW from \in Nat \ {0}, NEW ends
    PROVE  /\ Reached(b, from, ends) \in SUBSET Positions(prog)
           /\ \A r \in Positions(prog) :
                r \in Reached(b, from, ends) <=>
                    /\ r[1] = b /\ from <= r[2]
                    /\ \A h \in from .. r[2] : <<b, h>> \notin ends
<1>1. Len(Block(b)) \in Nat
  BY PositionFacts
<1>2. ASSUME NEW r \in Reached(b, from, ends) PROVE r \in Positions(prog)
  <2>1. PICK j \in from .. Len(Block(b)) : r = <<b, j>>
    BY DEF Reached
  <2>2. QED
    BY <1>1, <2>1, PositionFacts
<1>3. ASSUME NEW r \in Positions(prog)
      PROVE  r \in Reached(b, from, ends) <=>
                /\ r[1] = b /\ from <= r[2]
                /\ \A h \in from .. r[2] : <<b, h>> \notin ends
  <2>1. r = <<r[1], r[2]>> /\ r[2] \in Nat /\ r[2] <= Len(Block(r[1]))
    BY <1>1, PositionFacts
  <2>2. QED
    BY <1>1, <2>1 DEF Reached
<1>4. QED
  BY <1>2, <1>3

(* A walk leaves what its entry had, and enters ranges of its own.         *)
LEMMA ExtendedFacts ==
    ASSUME prog \in Programs, NEW q, NEW md, NEW S \in SUBSET Positions(prog)
    PROVE  /\ \A n \in DOMAIN safecodeMap[q] :
                n \in DOMAIN Extended(q, md, S) /\ Extended(q, md, S)[n] = safecodeMap[q][n]
           /\ \A n \in DOMAIN Extended(q, md, S) :
                \E m \in DOMAIN safecodeMap[q] : Extended(q, md, S)[n] = safecodeMap[q][m]
           /\ \A n \in DOMAIN Extended(q, md, S) \ DOMAIN safecodeMap[q] :
                \E r \in Loads(prog) : n = At(r).name
<1> DEFINE C == Covered(safecodeMap[q], md, S)
           chosen(n) == CHOOSE r \in S : At(r).k = "load" /\ At(r).name = n
<1>1. DOMAIN Extended(q, md, S) = DOMAIN safecodeMap[q] \cup {At(r).name : r \in C}
  BY DEF Extended
<1>2. \A n \in DOMAIN safecodeMap[q] : Extended(q, md, S)[n] = safecodeMap[q][n]
  BY DEF Extended
<1>3. \A r \in C : r \in S /\ r \in Loads(prog) /\ At(r).k = "load" /\ At(r).ptr \in DOMAIN safecodeMap[q]
  BY DEF Covered, Loads, At
<1>4. ASSUME NEW n \in DOMAIN Extended(q, md, S), n \notin DOMAIN safecodeMap[q]
      PROVE  /\ \E m \in DOMAIN safecodeMap[q] : Extended(q, md, S)[n] = safecodeMap[q][m]
             /\ \E r \in Loads(prog) : n = At(r).name
  <2>1. PICK r \in C : n = At(r).name
    BY <1>1, <1>4
  <2>2. Extended(q, md, S)[n] = safecodeMap[q][At(chosen(n)).ptr]
    BY <1>1, <1>4 DEF Extended
  <2>3. chosen(n) \in S /\ At(chosen(n)).k = "load" /\ At(chosen(n)).name = n
    <3> HIDE DEF C
    <3>1. \E s \in S : At(s).k = "load" /\ At(s).name = n
      BY <1>3, <2>1
    <3>2. QED
      BY <3>1
  <2>4. PICK s : s = chosen(n)
    OBVIOUS
  <2>5. s \in Loads(prog) /\ At(s).name = At(r).name
    BY <2>1, <2>3, <2>4 DEF Loads, At
  <2>6. s = r
    BY <1>3, <2>1, <2>5, ProgramsAssumption DEF WellFormed, At
  <2>7. QED
    BY <1>3, <2>1, <2>2, <2>4, <2>6
<1>5. QED
  BY <1>1, <1>2, <1>4

-----------------------------------------------------------------------------
(* What pass and execution maintain: where they are,                       *)
Layout ==
    /\ prog \in Programs
    /\ phase \in {"resolve", "scan", "run", "aborted"}
    /\ todo \subseteq Annotations(prog)
    /\ \A q \in todo, r \in Annotations(prog) : Before(q, r) => r \in todo
    /\ DOMAIN safecodeMap \subseteq Annotations(prog)
    /\ phase = "resolve" => Annotations(prog) \subseteq todo \cup DOMAIN safecodeMap
    /\ phase \in {"scan", "run"} => DOMAIN safecodeMap = Annotations(prog)
    /\ DOMAIN metadata \subseteq Loads(prog)
    /\ phase \in {"resolve", "aborted"} => DOMAIN metadata = {}
    /\ phase = "run" => todo = {}

(* the values of the maps,                                                 *)
Contents ==
    /\ \A q \in DOMAIN safecodeMap : \A n \in DOMAIN safecodeMap[q] :
            safecodeMap[q][n] \in Ranges(W)
    /\ \A r \in DOMAIN metadata : metadata[r].kind \in {"eq", "in"}

(* and the state of the execution.                                         *)
Machine ==
    /\ pc = <<pc[1], pc[2]>>
    /\ pc[1] \in DOMAIN prog.blocks /\ pc[2] \in 1 .. Len(Block(pc[1])) + 1
    /\ phase # "run" => pc = <<1, 1>> /\ clobbered = {}
    /\ phase = "run" => memory \in [Cells -> Values] /\ live = [c \in Cells |-> live[c]]
    /\ clobbered \subseteq Cells

(* The two walks of a scan from q, and the metadata between them.          *)
MainLoads(q) == Covered(safecodeMap[q], metadata, MainWalk(q, FirstName(safecodeMap[q])))

MainMetadata(q) == Annotated(safecodeMap[q], metadata, MainLoads(q))

GoesOn(q) == prog.succ[q[1]] # <<>> /\ ReachesBranch(q, FirstName(safecodeMap[q]))

FirstSuccessor(q) == prog.succ[q[1]][1]

BranchPositions(q) == BranchWalk(q, FirstName(safecodeMap[q]), MainMetadata(q), FirstSuccessor(q))

BranchLoads(q) == Covered(safecodeMap[q], MainMetadata(q), BranchPositions(q))

BranchMetadata(q) == Annotated(safecodeMap[q], MainMetadata(q), BranchLoads(q))

(* The metadata the walks add.                                             *)
LEMMA MainFacts ==
    ASSUME NEW q
    PROVE  /\ DOMAIN MainMetadata(q) = DOMAIN metadata \cup MainLoads(q)
           /\ \A r \in DOMAIN metadata : r \notin MainLoads(q) /\ MainMetadata(q)[r] = metadata[r]
           /\ \A r \in MainLoads(q) :
                /\ MainMetadata(q)[r] = GetAnnotation(safecodeMap[q][At(r).ptr])
                /\ r \in MainWalk(q, FirstName(safecodeMap[q]))
                /\ At(r).k = "load" /\ At(r).ptr \in DOMAIN safecodeMap[q]
           /\ \A r \in MainWalk(q, FirstName(safecodeMap[q])) :
                At(r).k = "load" /\ At(r).ptr \in DOMAIN safecodeMap[q] => r \in DOMAIN MainMetadata(q)
BY DEF MainMetadata, MainLoads, Annotated, Covered

(* The metadata that the walk of the first successor adds.                 *)
LEMMA BranchFacts ==
    ASSUME NEW q
    PROVE  /\ DOMAIN BranchMetadata(q) = DOMAIN MainMetadata(q) \cup BranchLoads(q)
           /\ \A r \in DOMAIN MainMetadata(q) :
                r \notin BranchLoads(q) /\ BranchMetadata(q)[r] = MainMetadata(q)[r]
           /\ \A r \in BranchLoads(q) :
                /\ BranchMetadata(q)[r] = GetAnnotation(safecodeMap[q][At(r).ptr])
                /\ r \in BranchPositions(q)
                /\ At(r).k = "load" /\ At(r).ptr \in DOMAIN safecodeMap[q]
BY DEF BranchMetadata, BranchLoads, Annotated, Covered

(* What a scan does, in terms of them.                                     *)
LEMMA ScanSteps ==
    ASSUME Layout, Scan
    PROVE  \E q \in todo :
            /\ q \in Annotations(prog) /\ q \in DOMAIN safecodeMap
            /\ \A r \in todo \ {q} : Before(q, r)
            /\ \A r \in Annotations(prog) : Before(q, r) => r \in todo
            /\ todo' = todo \ {q} /\ prog' = prog /\ phase = "scan" /\ phase' = "scan"
            /\ DOMAIN safecodeMap = Annotations(prog) /\ DOMAIN safecodeMap' = DOMAIN safecodeMap
            /\ \A r \in DOMAIN safecodeMap \ {q} : safecodeMap'[r] = safecodeMap[r]
            /\ MainWalk(q, FirstName(safecodeMap[q])) \in SUBSET Positions(prog)
            /\ GoesOn(q) => /\ FirstSuccessor(q) \in DOMAIN prog.blocks \ {1}
                            /\ BranchPositions(q) \in SUBSET Positions(prog)
                            /\ metadata' = BranchMetadata(q)
                            /\ safecodeMap'[q] = Extended(q, MainMetadata(q), BranchPositions(q))
            /\ ~GoesOn(q) => metadata' = MainMetadata(q) /\ safecodeMap' = safecodeMap
<1>1. todo \in SUBSET Positions(prog) /\ todo # {} /\ prog \in Programs /\ phase = "scan"
  BY DEF Layout, Annotations, Scan
<1>2. PICK q \in todo : q = Earliest(todo) /\ \A r \in todo \ {q} : Before(q, r)
  BY <1>1, EarliestFacts
<1>3. /\ q \in Annotations(prog) /\ DOMAIN safecodeMap = Annotations(prog)
      /\ \A r \in Annotations(prog) : Before(q, r) => r \in todo
  BY <1>1 DEF Layout
<1>4. /\ todo' = todo \ {q} /\ prog' = prog /\ phase' = "scan"
      /\ GoesOn(q) => /\ metadata' = BranchMetadata(q)
                      /\ safecodeMap' =
                            [safecodeMap EXCEPT ![q] = Extended(q, MainMetadata(q), BranchPositions(q))]
      /\ ~GoesOn(q) => metadata' = MainMetadata(q) /\ safecodeMap' = safecodeMap
  BY <1>1, <1>2
  DEF Scan, GoesOn, BranchMetadata, MainMetadata, MainLoads, BranchLoads, BranchPositions, FirstSuccessor
<1>5. q[1] \in DOMAIN prog.blocks /\ q[2] + 1 \in Nat \ {0}
  BY <1>1, <1>3, PositionFacts
<1>6. MainWalk(q, FirstName(safecodeMap[q])) \in SUBSET Positions(prog)
  BY <1>1, <1>5, ReachedFacts DEF MainWalk
<1>7. GoesOn(q) => FirstSuccessor(q) \in DOMAIN prog.blocks \ {1}
  <2>1. prog.succ[q[1]] \in Seq(DOMAIN prog.blocks \ {1})
    BY <1>1, <1>5, PositionFacts
  <2>2. prog.succ[q[1]] # <<>> => 1 \in DOMAIN prog.succ[q[1]]
    BY <2>1
  <2>3. QED
    BY <2>1, <2>2 DEF GoesOn, FirstSuccessor
<1>8. GoesOn(q) => BranchPositions(q) \in SUBSET Positions(prog)
  BY <1>1, <1>7, ReachedFacts DEF BranchPositions, BranchWalk
<1>9. /\ DOMAIN safecodeMap' = DOMAIN safecodeMap
      /\ \A r \in DOMAIN safecodeMap \ {q} : safecodeMap'[r] = safecodeMap[r]
      /\ GoesOn(q) => safecodeMap'[q] = Extended(q, MainMetadata(q), BranchPositions(q))
  BY <1>3, <1>4
<1>10. QED
  BY <1>1, <1>2, <1>3, <1>4, <1>6, <1>7, <1>8, <1>9

(* What the resolution of an assertion does.                               *)
LEMMA ResolveSteps ==
    ASSUME Layout, Resolve
    PROVE  \E q \in todo :
            /\ q \in Annotations(prog) /\ \A r \in todo \ {q} : Before(q, r)
            /\ prog' = prog /\ metadata' = metadata /\ phase = "resolve"
            /\ \/ /\ phase' = "resolve" /\ todo' = todo \ {q}
                  /\ DOMAIN safecodeMap' = DOMAIN safecodeMap \cup {q}
                  /\ safecodeMap'[q] = Entry(At(q))
                  /\ \A r \in DOMAIN safecodeMap \ {q} : safecodeMap'[r] = safecodeMap[r]
                  /\ \A i \in DOMAIN At(q).stmts : Accepted(StatementRange(At(q).stmts[i].text))
               \/ phase' = "aborted" /\ UNCHANGED <<safecodeMap, todo>>
<1>1. todo \in SUBSET Positions(prog) /\ todo # {} /\ prog \in Programs
  BY DEF Layout, Annotations, Resolve
<1>2. PICK q \in todo : q = Earliest(todo) /\ \A r \in todo \ {q} : Before(q, r)
  BY <1>1, EarliestFacts
<1>3. q \in Annotations(prog)
  BY DEF Layout
<1> DEFINE fits == \A i \in DOMAIN At(q).stmts : Accepted(StatementRange(At(q).stmts[i].text))
<1>4. CASE fits
  <2>1. /\ phase' = "resolve" /\ todo' = todo \ {q} /\ prog' = prog /\ metadata' = metadata /\ phase = "resolve"
        /\ safecodeMap' = [r \in DOMAIN safecodeMap \cup {q} |-> IF r = q THEN Entry(At(q)) ELSE safecodeMap[r]]
    BY <1>2, <1>4 DEF Resolve
  <2>2. /\ DOMAIN safecodeMap' = DOMAIN safecodeMap \cup {q}
        /\ safecodeMap'[q] = Entry(At(q))
        /\ \A r \in DOMAIN safecodeMap \ {q} : safecodeMap'[r] = safecodeMap[r]
    BY <2>1
  <2>3. QED
    BY <1>2, <1>3, <1>4, <2>1, <2>2
<1>5. CASE ~fits
  <2>1. /\ phase' = "aborted" /\ UNCHANGED <<safecodeMap, todo>> /\ prog' = prog /\ metadata' = metadata
        /\ phase = "resolve"
    BY <1>2, <1>5 DEF Resolve
  <2>2. QED
    BY <1>2, <1>3, <2>1
<1>6. QED
  BY <1>4, <1>5

(* The other steps leave the function and the maps alone.                  *)
LEMMA OtherSteps ==
    ASSUME [Next]_vars
    PROVE  \/ Resolve /\ UNCHANGED runVars
           \/ Scan /\ UNCHANGED runVars
           \/ /\ UNCHANGED <<prog, safecodeMap, metadata>>
              /\ \/ phase = "resolve" /\ phase' = "scan" /\ todo = {} /\ todo' = DOMAIN safecodeMap
                    /\ UNCHANGED runVars
                 \/ phase = "scan" /\ phase' = "run" /\ todo = {} /\ todo' = {} /\ StartRun
                 \/ /\ phase = "run" /\ phase' = "run" /\ todo' = todo
                    /\ PassAssertion \/ ExecuteLoad \/ ExecuteStore \/ ExecuteCall \/ ExecuteBranch
                 \/ phase' = phase /\ todo' = todo /\ UNCHANGED runVars
BY DEF Next, PassNext, StartScan, StartRun, AtInstruction, PassAssertion, ExecuteLoad, ExecuteStore,
       ExecuteCall, ExecuteBranch, Step, passVars, runVars, vars

(* Every step keeps the positions in order.                                *)
LEMMA LayoutStep ==
    ASSUME Layout, [Next]_vars
    PROVE  Layout'
<1>1. CASE Resolve
  <2>1. PICK q \in todo :
            /\ q \in Annotations(prog) /\ \A r \in todo \ {q} : Before(q, r)
            /\ prog' = prog /\ metadata' = metadata /\ phase = "resolve"
            /\ \/ /\ phase' = "resolve" /\ todo' = todo \ {q}
                  /\ DOMAIN safecodeMap' = DOMAIN safecodeMap \cup {q}
               \/ phase' = "aborted" /\ UNCHANGED <<safecodeMap, todo>>
    BY <1>1, ResolveSteps
  <2>2. Annotations(prog)' = Annotations(prog) /\ Loads(prog)' = Loads(prog)
    BY <2>1, Static
  <2>3. \A p, r \in Annotations(prog) : p \in todo' /\ Before(p, r) => r \in todo'
    <3>1. SUFFICES ASSUME NEW p \in Annotations(prog), NEW r \in Annotations(prog), p \in todo', Before(p, r)
                   PROVE  r \in todo'
      OBVIOUS
    <3>2. p \in todo /\ r \in todo
      BY <2>1, <3>1 DEF Layout
    <3>3. r = q => p = q
      <4>1. /\ q[1] \in Nat /\ q[2] \in Nat /\ p[1] \in Nat /\ p[2] \in Nat /\ prog \in Programs
        BY <2>1, <3>1, PositionFacts DEF Layout, Annotations
      <4>2. ~(Before(q, p) /\ Before(p, q))
        BY <4>1 DEF Before
      <4>3. QED
        BY <2>1, <3>1, <3>2, <4>2
    <3>4. todo' = todo => r \in todo'
      BY <3>2
    <3>5. todo' = todo \ {q} => r \in todo'
      BY <3>1, <3>2, <3>3
    <3>6. QED
      BY <2>1, <3>4, <3>5
  <2>4. todo' \subseteq todo
    BY <2>1
  <2>5. QED
    BY <2>1, <2>2, <2>3, <2>4 DEF Layout, Before
<1>2. CASE Scan
  <2>1. PICK q \in todo :
            /\ q \in Annotations(prog) /\ q \in DOMAIN safecodeMap
            /\ \A r \in todo \ {q} : Before(q, r)
            /\ todo' = todo \ {q} /\ prog' = prog /\ phase = "scan" /\ phase' = "scan"
            /\ DOMAIN safecodeMap = Annotations(prog) /\ DOMAIN safecodeMap' = DOMAIN safecodeMap
            /\ MainWalk(q, FirstName(safecodeMap[q])) \in SUBSET Positions(prog)
            /\ GoesOn(q) => /\ BranchPositions(q) \in SUBSET Positions(prog)
                            /\ metadata' = BranchMetadata(q)
            /\ ~GoesOn(q) => metadata' = MainMetadata(q)
    BY <1>2, ScanSteps
  <2>2. Annotations(prog)' = Annotations(prog) /\ Loads(prog)' = Loads(prog)
    BY <2>1, Static
  <2>3. \A p, r \in Annotations(prog) : p \in todo' /\ Before(p, r) => r \in todo'
    <3>1. SUFFICES ASSUME NEW p \in Annotations(prog), NEW r \in Annotations(prog), p \in todo', Before(p, r)
                   PROVE  r \in todo'
      OBVIOUS
    <3>2. p \in todo /\ r \in todo /\ p # q
      BY <2>1, <3>1 DEF Layout
    <3>3. r # q
      <4>1. /\ q[1] \in Nat /\ q[2] \in Nat /\ p[1] \in Nat /\ p[2] \in Nat /\ prog \in Programs
        BY <2>1, <3>1, PositionFacts DEF Layout, Annotations
      <4>2. ~(Before(q, p) /\ Before(p, q))
        BY <4>1 DEF Before
      <4>3. QED
        BY <2>1, <3>1, <3>2, <4>2
    <3>4. QED
      BY <2>1, <3>2, <3>3
  <2>4. DOMAIN MainMetadata(q) = DOMAIN metadata \cup MainLoads(q) /\ MainLoads(q) \subseteq Loads(prog)
    BY <2>1, MainFacts DEF Loads, At
  <2>5. GoesOn(q) =>
         DOMAIN metadata' = DOMAIN MainMetadata(q) \cup BranchLoads(q) /\ BranchLoads(q) \subseteq Loads(prog)
    BY <2>1, BranchFacts DEF Loads, At
  <2>6. DOMAIN metadata' \subseteq Loads(prog)
    BY <2>1, <2>4, <2>5 DEF Layout
  <2>7. QED
    BY <2>1, <2>2, <2>3, <2>6 DEF Layout, Before
<1>3. CASE UNCHANGED <<prog, safecodeMap, metadata>>
           /\ \/ phase = "resolve" /\ phase' = "scan" /\ todo = {} /\ todo' = DOMAIN safecodeMap
              \/ phase = "scan" /\ phase' = "run" /\ todo = {} /\ todo' = {}
              \/ phase' = phase /\ todo' = todo
  <2>1. Annotations(prog)' = Annotations(prog) /\ Loads(prog)' = Loads(prog)
    BY <1>3, Static
  <2>2. QED
    BY <1>3, <2>1 DEF Layout, Before
<1>4. QED
  BY <1>1, <1>2, <1>3, OtherSteps

(* Every step keeps the values of the maps.                                *)
LEMMA ContentsStep ==
    ASSUME Layout, Contents, [Next]_vars
    PROVE  Contents'
<1>1. CASE Resolve
  <2>1. PICK q \in todo :
            /\ q \in Annotations(prog) /\ metadata' = metadata
            /\ \/ /\ DOMAIN safecodeMap' = DOMAIN safecodeMap \cup {q}
                  /\ safecodeMap'[q] = Entry(At(q))
                  /\ \A r \in DOMAIN safecodeMap \ {q} : safecodeMap'[r] = safecodeMap[r]
                  /\ \A i \in DOMAIN At(q).stmts : Accepted(StatementRange(At(q).stmts[i].text))
               \/ UNCHANGED safecodeMap
    BY <1>1, ResolveSteps
  <2>2. At(q).stmts \in Seq(Statements)
    BY <2>1, InstructionFacts DEF Layout, Annotations, At
  <2>3. ASSUME \A i \in DOMAIN At(q).stmts : Accepted(StatementRange(At(q).stmts[i].text)),
               NEW n \in DOMAIN Entry(At(q))
        PROVE  Entry(At(q))[n] \in Ranges(W)
    <3>1. PICK i \in DOMAIN At(q).stmts : Entry(At(q))[n] = StatementRange(At(q).stmts[i].text)
      BY <2>1, EntryFacts DEF Layout
    <3>2. At(q).stmts[i] \in Statements
      BY <2>2
    <3>3. QED
      BY <2>3, <3>1, <3>2, StatementRangeLegal
  <2>4. \A r \in DOMAIN safecodeMap' : \A n \in DOMAIN safecodeMap'[r] : safecodeMap'[r][n] \in Ranges(W)
    BY <2>1, <2>3 DEF Contents
  <2>5. QED
    BY <2>1, <2>4 DEF Contents
<1>2. CASE Scan
  <2>1. PICK q \in todo :
            /\ q \in DOMAIN safecodeMap
            /\ DOMAIN safecodeMap' = DOMAIN safecodeMap
            /\ \A r \in DOMAIN safecodeMap \ {q} : safecodeMap'[r] = safecodeMap[r]
            /\ GoesOn(q) => /\ BranchPositions(q) \in SUBSET Positions(prog)
                            /\ metadata' = BranchMetadata(q)
                            /\ safecodeMap'[q] = Extended(q, MainMetadata(q), BranchPositions(q))
            /\ ~GoesOn(q) => metadata' = MainMetadata(q) /\ safecodeMap' = safecodeMap
    BY <1>2, ScanSteps
  <2>2. \A r \in DOMAIN MainMetadata(q) : MainMetadata(q)[r].kind \in {"eq", "in"}
    <3>1. TAKE r \in DOMAIN MainMetadata(q)
    <3>2. CASE r \in DOMAIN metadata
      BY <3>2, MainFacts DEF Contents
    <3>3. CASE r \in MainLoads(q)
      <4>1. MainMetadata(q)[r] = GetAnnotation(safecodeMap[q][At(r).ptr])
        BY <3>3, MainFacts
      <4>2. QED
        BY <4>1 DEF GetAnnotation, TextEq, TextIn
    <3>4. QED
      BY <3>2, <3>3, MainFacts
  <2>3. \A r \in DOMAIN metadata' : metadata'[r].kind \in {"eq", "in"}
    <3>1. SUFFICES ASSUME GoesOn(q), NEW r \in DOMAIN metadata' PROVE metadata'[r].kind \in {"eq", "in"}
      BY <2>1, <2>2
    <3>2. CASE r \in DOMAIN MainMetadata(q)
      <4>1. metadata' = BranchMetadata(q)
        BY <2>1, <3>1
      <4>2. metadata'[r] = MainMetadata(q)[r]
        BY <3>2, <4>1, BranchFacts
      <4>3. QED
        BY <2>2, <3>2, <4>2
    <3>3. CASE r \in BranchLoads(q)
      <4>1. metadata'[r] = GetAnnotation(safecodeMap[q][At(r).ptr])
        BY <2>1, <3>1, <3>3, BranchFacts
      <4>2. QED
        BY <4>1 DEF GetAnnotation, TextEq, TextIn
    <3>4. QED
      BY <2>1, <3>1, <3>2, <3>3, BranchFacts
  <2>4. GoesOn(q) => \A n \in DOMAIN safecodeMap'[q] : safecodeMap'[q][n] \in Ranges(W)
    BY <2>1, ExtendedFacts DEF Contents, Layout
  <2>5. QED
    BY <2>1, <2>3, <2>4 DEF Contents
<1>3. CASE UNCHANGED <<safecodeMap, metadata>>
  BY <1>3 DEF Contents
<1>4. QED
  BY <1>1, <1>2, <1>3, OtherSteps

(* An instruction that is executed is one of the function's.               *)
LEMMA PcFacts ==
    ASSUME Layout, Machine, NEW k, AtInstruction(k)
    PROVE  /\ phase = "run" /\ pc \in Positions(prog) /\ At(pc).k = k
           /\ pc[1] \in Nat /\ pc[2] \in Nat /\ pc[2] + 1 \in 1 .. Len(Block(pc[1])) + 1
<1>1. Len(Block(pc[1])) \in Nat /\ pc[1] \in Nat
  BY PositionFacts DEF Layout, Machine
<1>2. pc[2] \in 1 .. Len(Block(pc[1])) /\ phase = "run" /\ At(pc).k = k
  BY <1>1 DEF AtInstruction, Machine
<1>3. pc \in Positions(prog)
  BY <1>2, PositionFacts DEF Layout, Machine
<1>4. QED
  BY <1>1, <1>2, <1>3

(* Every step keeps the state of the execution.                            *)
LEMMA MachineStep ==
    ASSUME Layout, Machine, [Next]_vars
    PROVE  Machine'
<1>1. prog' = prog
  BY ResolveSteps, ScanSteps, OtherSteps
<1>2. /\ Cells' = Cells /\ (\A b : Block(b)' = Block(b)) /\ prog \in Programs
      /\ DOMAIN prog.blocks' = DOMAIN prog.blocks
  BY <1>1, Static DEF Layout
<1>3. ASSUME phase # "run", UNCHANGED runVars, phase' # "run" PROVE Machine'
  BY <1>1, <1>2, <1>3 DEF Machine, runVars
<1>4. ASSUME StartRun PROVE Machine'
  BY <1>1, <1>2, <1>4 DEF Machine, StartRun, Nothing
<1>5. ASSUME PassAssertion PROVE Machine'
  <2>1. pc[2] + 1 \in 1 .. Len(Block(pc[1])) + 1
    BY <1>5, PcFacts DEF PassAssertion
  <2>2. /\ pc' = <<pc[1], pc[2] + 1>> /\ phase = "run" /\ phase' = "run" /\ memory' = memory
        /\ clobbered' \subseteq clobbered
    BY <1>5 DEF PassAssertion, Step, AtInstruction, passVars
  <2>3. DOMAIN live' = Cells /\ live' = [c \in Cells |-> live'[c]]
    BY <1>5 DEF PassAssertion
  <2>4. QED
    BY <1>2, <2>1, <2>2, <2>3 DEF Machine
<1>6. ASSUME ExecuteLoad PROVE Machine'
  <2>1. pc[2] + 1 \in 1 .. Len(Block(pc[1])) + 1
    BY <1>6, PcFacts DEF ExecuteLoad
  <2>2. /\ pc' = <<pc[1], pc[2] + 1>> /\ phase = "run" /\ phase' = "run"
        /\ UNCHANGED <<memory, live, clobbered>>
    BY <1>6 DEF ExecuteLoad, Step, AtInstruction, passVars
  <2>3. QED
    BY <1>2, <2>1, <2>2 DEF Machine
<1>7. ASSUME ExecuteStore \/ ExecuteCall PROVE Machine'
  <2>1. pc[2] + 1 \in 1 .. Len(Block(pc[1])) + 1 /\ pc \in Positions(prog) /\ At(pc).k # "annot"
    BY <1>7, PcFacts DEF ExecuteStore, ExecuteCall
  <2>2. At(pc).cell \in Cells
    BY <1>2, <2>1, InstructionFacts
  <2>3. /\ pc' = <<pc[1], pc[2] + 1>> /\ phase = "run" /\ phase' = "run"
        /\ clobbered' \subseteq clobbered \cup {At(pc).cell} /\ Change(At(pc).cell)
    BY <1>7 DEF ExecuteStore, ExecuteCall, Step, AtInstruction, passVars
  <2>4. memory' \in [Cells -> Values] /\ live' = [c \in Cells |-> live'[c]]
    BY <2>3 DEF Change, Machine
  <2>5. QED
    BY <1>2, <2>1, <2>2, <2>3, <2>4 DEF Machine
<1>8. ASSUME ExecuteBranch PROVE Machine'
  <2>1. /\ phase = "run" /\ phase' = "run" /\ live' = Nothing /\ UNCHANGED <<memory, clobbered>>
    BY <1>8 DEF ExecuteBranch, passVars
  <2>2. PICK i \in DOMAIN prog.succ[pc[1]] : pc' = <<prog.succ[pc[1]][i], 1>>
    BY <1>8 DEF ExecuteBranch
  <2>3. prog.succ[pc[1]][i] \in DOMAIN prog.blocks
    <3>1. prog.succ[pc[1]] \in Seq(DOMAIN prog.blocks \ {1})
      BY <1>2, PositionFacts DEF Machine
    <3>2. QED
      BY <2>2, <3>1
  <2>4. Len(Block(prog.succ[pc[1]][i])) \in Nat
    BY <1>2, <2>3, PositionFacts
  <2>5. 1 \in 1 .. Len(Block(prog.succ[pc[1]][i])) + 1
    BY <2>4
  <2>6. QED
    BY <1>2, <2>1, <2>2, <2>3, <2>5 DEF Machine, Nothing
<1>9. ASSUME phase' = phase, UNCHANGED runVars PROVE Machine'
  BY <1>1, <1>2, <1>9 DEF Machine, runVars
<1>10. QED
  <2>1. CASE Resolve /\ UNCHANGED runVars
    BY <1>3, <2>1, ResolveSteps
  <2>2. CASE Scan /\ UNCHANGED runVars
    BY <1>3, <2>2, ScanSteps
  <2>3. QED
    BY <1>3, <1>4, <1>5, <1>6, <1>7, <1>8, <1>9, <2>1, <2>2, OtherSteps

(* They hold in the beginning.                                             *)
LEMMA InitLayout == Init => Layout /\ Contents /\ Machine
<1>1. SUFFICES ASSUME Init PROVE Layout /\ Contents /\ Machine
  OBVIOUS
<1>2. /\ prog \in Programs /\ phase = "resolve" /\ todo = Annotations(prog)
      /\ DOMAIN safecodeMap = {} /\ DOMAIN metadata = {} /\ pc = <<1, 1>> /\ clobbered = {}
  BY <1>1 DEF Init, PassInit
<1>3. 1 \in DOMAIN prog.blocks /\ Len(Block(1)) \in Nat
  BY <1>2, PositionFacts
<1>4. 1 \in 1 .. Len(Block(1)) + 1
  BY <1>3
<1>5. QED
  BY <1>2, <1>3, <1>4 DEF Layout, Contents, Machine

(* Pass and execution keep their types: only resolved assertions are in    *)
(* safecodeMap, only loads get metadata, the ranges have the width their   *)
(* constructor accepts, and an execution stays within the function.        *)
THEOREM RunTypes == Spec => []TypeOK
<1>1. Layout /\ Contents /\ Machine => TypeOK
  <2>1. SUFFICES ASSUME Layout, Contents, Machine PROVE TypeOK
    OBVIOUS
  <2>2. \A r \in DOMAIN metadata : At(r).k = "load"
    BY <2>1 DEF Layout, Loads, At
  <2>3. QED
    BY <2>1, <2>2 DEF Layout, Contents, Machine, TypeOK, PassTypeOK
<1>2. Layout /\ Contents /\ Machine /\ [Next]_vars => (Layout /\ Contents /\ Machine)'
  BY LayoutStep, ContentsStep, MachineStep
<1>3. QED
  BY <1>1, <1>2, InitLayout, PTL DEF Spec


-----------------------------------------------------------------------------
(* A search that goes from a number up to end to a smaller one, and its    *)
(* results f.                                                              *)
Descending(n, end, up) == \A c \in 0 .. n : c \notin end => up[c] \in 0 .. n /\ up[c] < c

Results(f, n, end, val, up) ==
    /\ f = [c \in 0 .. n |-> f[c]]
    /\ \A c \in 0 .. n : f[c] = IF c \in end THEN val[c] ELSE f[up[c]]

(* There are results.                                                      *)
LEMMA Descends ==
    ASSUME NEW n \in Nat, NEW end, NEW val, NEW up, Descending(n, end, up)
    PROVE  \E f : Results(f, n, end, val, up)
<1> USE DEF Descending, Results
<1> DEFINE Searches(f, k) == Results(f, k, end, val, up)
           T == {k \in 0 .. n : ~\E f : Searches(f, k)}
<1>1. SUFFICES ASSUME T # {} PROVE FALSE
  OBVIOUS
<1>2. PICK k \in T : \A j \in T : k <= j
  <2>1. T \in SUBSET Nat
    OBVIOUS
  <2> HIDE DEF T
  <2>2. QED
    BY <1>1, <2>1, LeastNumber
<1>3. k \in 0 .. n /\ ~\E f : Searches(f, k)
  OBVIOUS
<1>4. PICK f : \A c \in 0 .. k - 1 : f[c] = IF c \in end THEN val[c] ELSE f[up[c]]
  <2>1. CASE k = 0
    BY <2>1
  <2>2. CASE k # 0
    <3>1. k - 1 \in 0 .. n /\ k - 1 \notin T
      BY <1>2, <1>3, <2>2
    <3>2. PICK f : Searches(f, k - 1)
      BY <3>1
    <3>3. QED
      BY <3>2
  <2>3. QED
    BY <2>1, <2>2
<1> DEFINE g == [c \in 0 .. k |-> IF c \in end THEN val[c] ELSE f[up[c]]]
<1>5. \A c \in 0 .. k - 1 : g[c] = f[c]
  BY <1>3, <1>4
<1>6. ASSUME NEW c \in 0 .. k PROVE g[c] = IF c \in end THEN val[c] ELSE g[up[c]]
  <2>1. CASE c \in end
    BY <2>1
  <2>2. CASE c \notin end
    <3>1. up[c] \in 0 .. k - 1
      BY <1>3, <2>2
    <3>2. QED
      BY <1>5, <2>2, <3>1
  <2>3. QED
    BY <2>1, <2>2
<1>7. g = [c \in 0 .. k |-> g[c]]
  OBVIOUS
<1>8. Searches(g, k)
  <2> HIDE DEF g
  <2>1. QED
    BY <1>6, <1>7
<1>9. QED
  BY <1>3, <1>8

(* Scopes are numbers, and a scope comes after the one around it.          *)
LEMMA ScopeFacts ==
    ASSUME prog \in Programs
    PROVE  /\ DOMAIN prog.parent = 1 .. Len(prog.parent) /\ Len(prog.parent) \in Nat
           /\ DOMAIN prog.parent \cup {0} = 0 .. Len(prog.parent)
           /\ \A c \in DOMAIN prog.parent :
                c \in Nat \ {0} /\ prog.parent[c] \in DOMAIN prog.parent \cup {0} /\ prog.parent[c] < c
           /\ prog.top \in DOMAIN prog.parent
<1>1. prog.parent \in Seq(Nat) /\ \A c \in DOMAIN prog.parent : prog.parent[c] < c
  BY ProgramsAssumption DEF WellFormed
<1>2. DOMAIN prog.parent = 1 .. Len(prog.parent) /\ Len(prog.parent) \in Nat
  BY <1>1
<1>3. \A c \in DOMAIN prog.parent : prog.parent[c] \in Nat
  BY <1>1
<1>4. prog.top \in DOMAIN prog.parent
  BY ProgramsAssumption DEF WellFormed
<1>5. QED
  BY <1>1, <1>2, <1>3, <1>4

(* The two searches, as they turn from scope to scope.                     *)
LEMMA ClimbTurns ==
    ASSUME prog \in Programs, NEW src, NEW line, NEW c \in DOMAIN prog.parent \cup {0}
    PROVE  Climb(src, line)[c] =
                IF Candidates(src, c, line) # {} THEN Closest(Candidates(src, c, line))
                ELSE IF c \in {0, prog.top} \/ prog.parent[c] = 0 THEN NoName
                ELSE Climb(src, line)[prog.parent[prog.parent[c]]]
<1> DEFINE D == DOMAIN prog.parent \cup {0}
           Turn(f, s) == IF Candidates(src, s, line) # {} THEN Closest(Candidates(src, s, line))
                         ELSE IF s \in {0, prog.top} \/ prog.parent[s] = 0 THEN NoName
                         ELSE f[prog.parent[prog.parent[s]]]
           end == {s \in D : Candidates(src, s, line) # {} \/ s \in {0, prog.top} \/ prog.parent[s] = 0}
           val == [s \in D |-> IF Candidates(src, s, line) # {} THEN Closest(Candidates(src, s, line))
                                 ELSE NoName]
           up == [s \in D |-> prog.parent[prog.parent[s]]]
<1>1. D = 0 .. Len(prog.parent) /\ Len(prog.parent) \in Nat
  BY ScopeFacts
<1>2. ASSUME NEW s \in D, s \notin end PROVE up[s] \in D /\ up[s] < s
  <2>1. s \in DOMAIN prog.parent /\ prog.parent[s] \in DOMAIN prog.parent
    BY <1>2, ScopeFacts
  <2>2. prog.parent[s] < s /\ prog.parent[prog.parent[s]] < prog.parent[s]
        /\ s \in Nat /\ prog.parent[s] \in Nat
        /\ prog.parent[prog.parent[s]] \in D /\ prog.parent[prog.parent[s]] \in Nat
    BY <2>1, ScopeFacts
  <2>3. QED
    BY <2>2
<1>3. PICK f : /\ f = [s \in D |-> f[s]]
               /\ \A s \in D : f[s] = IF s \in end THEN val[s] ELSE f[up[s]]
  <2> HIDE DEF end, val, up, D
  <2>1. PICK n \in Nat : n = Len(prog.parent) /\ D = 0 .. n
    BY <1>1
  <2>2. Descending(n, end, up)
    BY <1>2, <2>1 DEF Descending
  <2>3. PICK f : Results(f, n, end, val, up)
    BY <2>2, Descends
  <2>4. QED
    BY <2>1, <2>3 DEF Results
<1>4. ASSUME NEW s \in D PROVE (IF s \in end THEN val[s] ELSE f[up[s]]) = Turn(f, s)
  OBVIOUS
<1>5. f = [s \in D |-> Turn(f, s)]
  <2> HIDE DEF Turn, end, val, up, D
  <2>1. QED
    BY <1>3, <1>4
<1>6. Climb(src, line) = CHOOSE g : g = [s \in D |-> Turn(g, s)]
  BY DEF Climb
<1>7. Climb(src, line) = [s \in D |-> Turn(Climb(src, line), s)]
  <2> HIDE DEF Turn, D
  <2>1. QED
    BY <1>5, <1>6
<1>8. QED
  BY <1>7

(* The search of C's scoping rules.                                        *)
LEMMA SeekTurns ==
    ASSUME prog \in Programs, NEW src, NEW line, NEW c \in DOMAIN prog.parent \cup {0}
    PROVE  Meant(src, c, line) =
                IF Candidates(src, c, line) # {} THEN Closest(Candidates(src, c, line))
                ELSE IF c = 0 THEN NoName
                ELSE Meant(src, prog.parent[c], line)
<1> DEFINE D == DOMAIN prog.parent \cup {0}
           Turn(f, s) == IF Candidates(src, s, line) # {} THEN Closest(Candidates(src, s, line))
                         ELSE IF s = 0 THEN NoName
                         ELSE f[prog.parent[s]]
           end == {s \in D : Candidates(src, s, line) # {} \/ s = 0}
           val == [s \in D |-> IF Candidates(src, s, line) # {} THEN Closest(Candidates(src, s, line))
                                 ELSE NoName]
<1>1. PICK n \in Nat : n = Len(prog.parent) /\ D = 0 .. n
  BY ScopeFacts
<1>2. \A s \in D : s \notin end => prog.parent[s] \in D /\ prog.parent[s] < s
  BY ScopeFacts
<1>3. PICK f : f = [s \in D |-> f[s]] /\ \A s \in D : f[s] = IF s \in end THEN val[s] ELSE f[prog.parent[s]]
  <2> HIDE DEF end, val, D
  <2>1. Descending(n, end, prog.parent)
    BY <1>1, <1>2 DEF Descending
  <2>2. PICK f : Results(f, n, end, val, prog.parent)
    BY <2>1, Descends
  <2>3. QED
    BY <1>1, <2>2 DEF Results
<1>4. ASSUME NEW s \in D PROVE (IF s \in end THEN val[s] ELSE f[prog.parent[s]]) = Turn(f, s)
  OBVIOUS
<1>5. f = [s \in D |-> Turn(f, s)]
  <2> HIDE DEF Turn, end, val, D
  <2>1. QED
    BY <1>3, <1>4
<1>6. Seek(src, line) = CHOOSE g : g = [s \in D |-> Turn(g, s)]
  BY DEF Seek
<1>7. Seek(src, line) = [s \in D |-> Turn(Seek(src, line), s)]
  <2> HIDE DEF Turn, D
  <2>1. QED
    BY <1>5, <1>6
<1>8. QED
  BY <1>7 DEF Meant

-----------------------------------------------------------------------------
(* Declarations, and the one that is closest.                              *)
LEMMA DeclarationFacts ==
    ASSUME prog \in Programs
    PROVE  /\ DOMAIN prog.decls = 1 .. Len(prog.decls) /\ Len(prog.decls) \in Nat
           /\ \A d \in DOMAIN prog.decls :
                /\ prog.decls[d].ir \in Nat \ {NoName, Hash} /\ prog.decls[d].src \in Nat \ {NoName}
                /\ prog.decls[d].scope \in DOMAIN prog.parent /\ prog.decls[d].line \in Nat
           /\ \A d, e \in DOMAIN prog.decls : prog.decls[d].ir = prog.decls[e].ir => d = e
<1>1. prog.decls \in Seq([ir : Nat \ {NoName, Hash}, src : Nat \ {NoName},
                          scope : DOMAIN prog.parent, line : Nat])
  BY ProgramsAssumption DEF WellFormed
<1>2. \A d, e \in DOMAIN prog.decls : prog.decls[d].ir = prog.decls[e].ir => d = e
  BY ProgramsAssumption DEF WellFormed
<1>3. DOMAIN prog.decls = 1 .. Len(prog.decls) /\ Len(prog.decls) \in Nat
  BY <1>1
<1>4. ASSUME NEW d \in DOMAIN prog.decls
      PROVE  /\ prog.decls[d].ir \in Nat \ {NoName, Hash} /\ prog.decls[d].src \in Nat \ {NoName}
             /\ prog.decls[d].scope \in DOMAIN prog.parent /\ prog.decls[d].line \in Nat
  <2> DEFINE R == [ir : Nat \ {NoName, Hash}, src : Nat \ {NoName},
                   scope : DOMAIN prog.parent, line : Nat]
  <2>1. prog.decls[d] \in R
    <3>1. prog.decls \in Seq(R)
      BY <1>1
    <3> HIDE DEF R
    <3>2. QED
      BY <1>3, <3>1
  <2>2. QED
    BY <2>1
<1>5. QED
  BY <1>2, <1>3, <1>4

(* Of some declarations one is last.                                       *)
LEMMA LastLine ==
    ASSUME prog \in Programs, NEW C \in SUBSET DOMAIN prog.decls, C # {}
    PROVE  \E d \in C : \A e \in C : prog.decls[d].line >= prog.decls[e].line
<1> DEFINE decls == prog.decls
           T == {n \in 0 .. Len(decls) :
                    \E B \in SUBSET (1 .. n) :
                        B # {} /\ ~\E d \in B : \A e \in B : decls[d].line >= decls[e].line}
<1>1. DOMAIN decls = 1 .. Len(decls) /\ Len(decls) \in Nat /\ \A d \in DOMAIN decls : decls[d].line \in Nat
  BY DeclarationFacts
<1> HIDE DEF decls
<1>2. T = {}
  <2>1. SUFFICES ASSUME T # {} PROVE FALSE
    OBVIOUS
  <2>2. PICK n \in T : \A m \in T : n <= m
    <3>1. T \in SUBSET Nat
      BY <1>1
    <3> HIDE DEF T
    <3>2. QED
      BY <2>1, <3>1, LeastNumber
  <2>3. n \in 0 .. Len(decls)
    OBVIOUS
  <2>4. PICK B \in SUBSET (1 .. n) : B # {} /\ ~\E d \in B : \A e \in B : decls[d].line >= decls[e].line
    OBVIOUS
  <2>5. n # 0 /\ n - 1 \in 0 .. Len(decls) /\ n - 1 \notin T
    <3>1. n # 0
      <4>1. n = 0 => B \in SUBSET {}
        OBVIOUS
      <4>2. QED
        BY <2>4, <4>1
    <3>2. n - 1 \in 0 .. Len(decls) /\ ~(n <= n - 1)
      BY <1>1, <2>3, <3>1
    <3> HIDE DEF T
    <3>3. QED
      BY <2>2, <3>1, <3>2
  <2>6. B \ {n} \in SUBSET (1 .. n - 1)
    BY <1>1, <2>3
  <2>7. PICK d \in B : \A e \in B \ {n} : decls[d].line >= decls[e].line
    <3>1. CASE B \ {n} = {}
      BY <2>4, <3>1
    <3>2. CASE B \ {n} # {}
      BY <2>5, <2>6, <3>2
    <3>3. QED
      BY <3>1, <3>2
  <2>8. \A e \in B : e \in DOMAIN decls /\ decls[e].line \in Nat
    BY <1>1, <2>3
  <2>9. CASE n \in B /\ decls[n].line > decls[d].line
    <3>1. ASSUME NEW e \in B PROVE decls[n].line >= decls[e].line
      <4>1. decls[e].line \in Nat /\ decls[d].line \in Nat /\ decls[n].line \in Nat
        BY <2>8, <2>9
      <4>2. e # n => decls[d].line >= decls[e].line
        BY <2>7
      <4>3. QED
        BY <2>9, <4>1, <4>2
    <3>2. QED
      BY <2>4, <2>9, <3>1
  <2>10. CASE ~(n \in B /\ decls[n].line > decls[d].line)
    <3>1. ASSUME NEW e \in B PROVE decls[d].line >= decls[e].line
      <4>1. decls[e].line \in Nat /\ decls[d].line \in Nat
        BY <2>8
      <4>2. e # n => decls[d].line >= decls[e].line
        BY <2>7
      <4>3. QED
        BY <2>10, <4>1, <4>2
    <3>2. QED
      BY <2>4, <3>1
  <2>11. QED
    BY <2>9, <2>10
<1>3. QED
  <2>1. Len(decls) \in 0 .. Len(decls) /\ Len(decls) \notin T
    BY <1>1, <1>2
  <2>2. C \in SUBSET (1 .. Len(decls))
    BY <1>1 DEF decls
  <2>3. QED
    BY <2>1, <2>2 DEF decls

(* The closest of some declarations is one of them.                        *)
LEMMA ClosestFacts ==
    ASSUME prog \in Programs, NEW C \in SUBSET DOMAIN prog.decls, C # {}
    PROVE  \E d \in C : Closest(C) = prog.decls[d].ir
<1> DEFINE lastLine == {d \in C : \A e \in C : prog.decls[d].line >= prog.decls[e].line}
<1>1. lastLine # {}
  BY LastLine
<1>2. lastLine \in SUBSET Nat
  BY DeclarationFacts
<1>3. Smallest(lastLine) \in lastLine
  <2> HIDE DEF lastLine
  <2>1. PICK d \in lastLine : \A e \in lastLine : d <= e
    BY <1>1, <1>2, LeastNumber
  <2>2. QED
    BY <2>1 DEF Smallest
<1>4. QED
  BY <1>3 DEF Closest

(* The candidates are declarations of the name, and none is outside the    *)
(* function.                                                               *)
LEMMA CandidateFacts ==
    ASSUME prog \in Programs, NEW n, NEW line
    PROVE  /\ Declarations(n) \in SUBSET DOMAIN prog.decls
           /\ \A c : Candidates(n, c, line) \in SUBSET Declarations(n)
           /\ Candidates(n, 0, line) = {}
           /\ \A c : Candidates(n, c, line) # {} =>
                \E d \in Candidates(n, c, line) : Closest(Candidates(n, c, line)) = prog.decls[d].ir
<1>1. Declarations(n) \in SUBSET DOMAIN prog.decls /\ \A c : Candidates(n, c, line) \in SUBSET Declarations(n)
  BY DEF Declarations, Candidates
<1>2. Candidates(n, 0, line) = {}
  BY <1>1, DeclarationFacts, ScopeFacts DEF Candidates
<1>3. ASSUME NEW c, Candidates(n, c, line) # {}
      PROVE  \E d \in Candidates(n, c, line) : Closest(Candidates(n, c, line)) = prog.decls[d].ir
  <2>1. Candidates(n, c, line) \in SUBSET DOMAIN prog.decls
    BY <1>1
  <2>2. QED
    BY <1>3, <2>1, ClosestFacts
<1>4. QED
  BY <1>1, <1>2, <1>3

(* The alloca of a name, or none.                                          *)
Names(n) == {NoName} \cup {prog.decls[d].ir : d \in Declarations(n)}

(* The searches yield an alloca of the name, or none.                      *)
LEMMA SeekNames ==
    ASSUME prog \in Programs, NEW n, NEW line, NEW c \in DOMAIN prog.parent \cup {0}
    PROVE  Meant(n, c, line) \in Names(n)
<1> DEFINE D == DOMAIN prog.parent \cup {0}
           T == {s \in D : Meant(n, s, line) \notin Names(n)}
<1>1. SUFFICES ASSUME T # {} PROVE FALSE
  OBVIOUS
<1>2. PICK s \in T : \A r \in T : s <= r
  <2>1. T \in SUBSET Nat
    BY ScopeFacts
  <2> HIDE DEF T
  <2>2. QED
    BY <1>1, <2>1, LeastNumber
<1>3. s \in D /\ Meant(n, s, line) \notin Names(n)
  OBVIOUS
<1>4. Candidates(n, s, line) = {} /\ s # 0
  <2>1. ASSUME Candidates(n, s, line) # {} PROVE FALSE
    <3>1. Meant(n, s, line) = Closest(Candidates(n, s, line))
      BY <1>3, <2>1, SeekTurns
    <3>2. PICK d \in Candidates(n, s, line) : Closest(Candidates(n, s, line)) = prog.decls[d].ir
      BY <2>1, CandidateFacts
    <3>3. d \in Declarations(n)
      BY CandidateFacts
    <3>4. QED
      BY <1>3, <3>1, <3>2, <3>3 DEF Names
  <2>2. ASSUME s = 0 PROVE FALSE
    <3>1. Meant(n, s, line) = NoName
      BY <1>3, <2>1, <2>2, SeekTurns
    <3>2. QED
      BY <1>3, <3>1 DEF Names
  <2>3. QED
    BY <2>1, <2>2
<1>5. prog.parent[s] \in D /\ prog.parent[s] < s /\ Meant(n, s, line) = Meant(n, prog.parent[s], line)
  BY <1>3, <1>4, SeekTurns, ScopeFacts
<1>6. prog.parent[s] \in T /\ s \in Nat /\ prog.parent[s] \in Nat
  BY <1>3, <1>5, ScopeFacts
<1>7. QED
  BY <1>2, <1>5, <1>6

(* So does the search of the pass from the scopes around,                  *)
LEMMA ClimbNames ==
    ASSUME prog \in Programs, NEW n, NEW line, NEW c \in DOMAIN prog.parent \cup {0}
    PROVE  Climb(n, line)[c] \in Names(n)
<1> DEFINE D == DOMAIN prog.parent \cup {0}
           T == {s \in D : Climb(n, line)[s] \notin Names(n)}
<1>1. SUFFICES ASSUME T # {} PROVE FALSE
  OBVIOUS
<1>2. PICK s \in T : \A r \in T : s <= r
  <2>1. T \in SUBSET Nat
    BY ScopeFacts
  <2> HIDE DEF T
  <2>2. QED
    BY <1>1, <2>1, LeastNumber
<1>3. s \in D /\ Climb(n, line)[s] \notin Names(n)
  OBVIOUS
<1>4. Candidates(n, s, line) = {} /\ s \notin {0, prog.top} /\ prog.parent[s] # 0
  BY <1>3, ClimbTurns, CandidateFacts DEF Names
<1>5. PICK p : p = prog.parent[s] /\ p \in DOMAIN prog.parent /\ p \in Nat /\ p < s /\ s \in Nat
  BY <1>3, <1>4, ScopeFacts
<1>6. prog.parent[p] \in D /\ prog.parent[p] < p /\ prog.parent[p] \in Nat
  BY <1>5, ScopeFacts
<1>7. Climb(n, line)[s] = Climb(n, line)[prog.parent[p]]
  BY <1>3, <1>4, <1>5, ClimbTurns
<1>8. prog.parent[p] \in T /\ prog.parent[p] < s
  BY <1>3, <1>5, <1>6, <1>7
<1>9. QED
  BY <1>2, <1>5, <1>6, <1>8

(* and its search as a whole.                                              *)
LEMMA FoundNames ==
    ASSUME prog \in Programs, NEW n, NEW line, NEW c \in DOMAIN prog.parent
    PROVE  FindNameIR(n, c, line) \in Names(n)
<1>1. DeclaredOnce(n) => Closest(Declarations(n)) \in Names(n)
  BY CandidateFacts, ClosestFacts DEF DeclaredOnce, Names
<1>2. Candidates(n, c, line) # {} => Closest(Candidates(n, c, line)) \in Names(n)
  BY CandidateFacts DEF Names
<1>3. Climb(n, line)[prog.parent[c]] \in Names(n)
  BY ClimbNames, ScopeFacts
<1>4. NoName \in Names(n)
  BY DEF Names
<1>5. QED
  BY <1>1, <1>2, <1>3, <1>4 DEF FindNameIR

-----------------------------------------------------------------------------
(* A name declared once is found where C finds it: otherwise the scopes    *)
(* from which C does not find it were closed under going outwards, and     *)
(* the declaration's scope, which has the name, were one of them.          *)
LEMMA OnceMeant ==
    ASSUME prog \in Programs, NEW n, NEW line, NEW c \in DOMAIN prog.parent,
           NEW d, Declarations(n) = {d}, Encloses(prog.decls[d].scope, c), prog.decls[d].line <= line
    PROVE  Meant(n, c, line) = prog.decls[d].ir
<1> DEFINE V == {s \in DOMAIN prog.parent : Meant(n, s, line) # prog.decls[d].ir}
<1>1. SUFFICES ASSUME c \in V PROVE FALSE
  OBVIOUS
<1>2. ASSUME NEW s \in DOMAIN prog.parent, Candidates(n, s, line) # {}
      PROVE  Meant(n, s, line) = prog.decls[d].ir
  <2>1. Meant(n, s, line) = Closest(Candidates(n, s, line))
    BY <1>2, SeekTurns
  <2>2. PICK e \in Candidates(n, s, line) : Closest(Candidates(n, s, line)) = prog.decls[e].ir
    BY <1>2, CandidateFacts
  <2>3. e = d
    BY CandidateFacts
  <2>4. QED
    BY <2>1, <2>2, <2>3
<1>3. ASSUME NEW s \in V, prog.parent[s] # 0 PROVE prog.parent[s] \in V
  <2>1. s \in DOMAIN prog.parent /\ Candidates(n, s, line) = {} /\ s # 0
    BY <1>2, ScopeFacts
  <2>2. Meant(n, s, line) = Meant(n, prog.parent[s], line)
    BY <2>1, SeekTurns
  <2>3. prog.parent[s] \in DOMAIN prog.parent
    BY <1>3, <2>1, ScopeFacts
  <2>4. QED
    BY <2>2, <2>3
<1>4. prog.decls[d].scope \in V
  <2>1. V \in SUBSET DOMAIN prog.parent
    OBVIOUS
  <2> HIDE DEF V
  <2>2. QED
    BY <1>1, <1>3, <2>1 DEF Encloses
<1>5. d \in Candidates(n, prog.decls[d].scope, line)
  BY DEF Candidates
<1>6. QED
  BY <1>2, <1>4, <1>5

(* A name that the hops do not miss is found where C finds it.             *)
LEMMA HopsMeant ==
    ASSUME prog \in Programs, NEW n, NEW line, NEW from \in DOMAIN prog.parent \cup {0},
           HopsSafely(n, from, line), prog.parent[prog.top] = 0
    PROVE  Climb(n, line)[from] = Meant(n, from, line)
<1> DEFINE D == DOMAIN prog.parent \cup {0}
<1>1. PICK V \in SUBSET D :
        /\ from \in V
        /\ \A c \in V \ {0, prog.top} :
            Candidates(n, c, line) = {} /\ prog.parent[c] # 0
                => /\ Candidates(n, prog.parent[c], line) = {}
                   /\ prog.parent[prog.parent[c]] \in V
  BY DEF HopsSafely
<1> DEFINE T == {c \in V : Climb(n, line)[c] # Meant(n, c, line)}
<1>2. SUFFICES ASSUME T # {} PROVE FALSE
  BY <1>1
<1>3. PICK s \in T : \A r \in T : s <= r
  <2>1. T \in SUBSET Nat
    BY ScopeFacts
  <2> HIDE DEF T
  <2>2. QED
    BY <1>2, <2>1, LeastNumber
<1>4. s \in V /\ s \in D /\ Climb(n, line)[s] # Meant(n, s, line)
  OBVIOUS
<1>5. /\ Candidates(n, 0, line) = {} /\ Meant(n, 0, line) = NoName
      /\ 0 \in D
  <2>1. 0 \in D /\ Candidates(n, 0, line) = {}
    BY CandidateFacts
  <2>2. QED
    BY <2>1, SeekTurns
<1>6. Candidates(n, s, line) = {}
  BY <1>4, ClimbTurns, SeekTurns
<1>7. s # 0
  BY <1>4, <1>5, ClimbTurns
<1>8. Meant(n, s, line) = Meant(n, prog.parent[s], line) /\ prog.parent[s] \in D
  BY <1>4, <1>6, <1>7, SeekTurns, ScopeFacts
<1>9. s # prog.top /\ prog.parent[s] # 0
  BY <1>4, <1>5, <1>6, <1>8, ClimbTurns
<1>10. PICK p : p = prog.parent[s] /\ p \in DOMAIN prog.parent /\ p < s /\ p \in Nat /\ s \in Nat
  BY <1>4, <1>7, <1>9, ScopeFacts
<1>11. Candidates(n, p, line) = {} /\ prog.parent[p] \in V
  BY <1>1, <1>4, <1>6, <1>7, <1>9, <1>10
<1>12. Meant(n, p, line) = Meant(n, prog.parent[p], line)
  <2>1. p # 0 /\ p \in D
    BY <1>9, <1>10
  <2>2. QED
    BY <1>11, <2>1, SeekTurns
<1>13. Climb(n, line)[s] = Climb(n, line)[prog.parent[p]]
  BY <1>4, <1>6, <1>7, <1>9, <1>10, ClimbTurns
<1>14. prog.parent[p] \in T
  BY <1>4, <1>8, <1>10, <1>11, <1>12, <1>13
<1>15. prog.parent[p] < p /\ prog.parent[p] \in Nat
  BY <1>10, ScopeFacts
<1>16. QED
  BY <1>3, <1>10, <1>14, <1>15

(* The names an assertion at q is about.                                   *)
Sources(q) == {s.src : s \in Seqs!ToSet(At(q).stmts)}

(* The parts of an assertion.                                              *)
LEMMA SourceFacts ==
    ASSUME prog \in Programs, NEW q \in Annotations(prog)
    PROVE  /\ At(q).stmts \in Seq(Statements) /\ At(q).stmts # <<>>
           /\ DOMAIN At(q).stmts = 1 .. Len(At(q).stmts) /\ Len(At(q).stmts) \in Nat \ {0}
           /\ \A i \in DOMAIN At(q).stmts :
                /\ At(q).stmts[i] \in Statements /\ At(q).stmts[i].src \in Sources(q)
                /\ At(q).stmts[i].src \in Nat \ {NoName}
                /\ At(q).stmts[i].text.kind \in {"eq", "in", "oneof", "other"}
                /\ At(q).stmts[i].text.lo \in Int /\ At(q).stmts[i].text.hi \in Int
           /\ \A n \in Sources(q) : \E i \in DOMAIN At(q).stmts : n = At(q).stmts[i].src
           /\ At(q).scope \in DOMAIN prog.parent /\ At(q).line \in Nat
           /\ q \in Positions(prog) /\ At(q).k = "annot"
<1>1. q \in Positions(prog) /\ At(q).k = "annot"
  BY DEF Annotations, At
<1>2. PICK stmts : stmts = At(q).stmts /\ stmts \in Seq(Statements) /\ stmts # <<>>
  BY <1>1, InstructionFacts
<1>3. DOMAIN stmts = 1 .. Len(stmts) /\ Len(stmts) \in Nat \ {0}
  BY <1>2
<1>4. \A i \in DOMAIN stmts : stmts[i] \in Statements
  BY <1>2, <1>3
<1>5. Seqs!ToSet(stmts) = {stmts[i] : i \in DOMAIN stmts}
  BY DEF Seqs!ToSet
<1>6. Sources(q) = {stmts[i].src : i \in DOMAIN stmts}
  BY <1>2, <1>5 DEF Sources
<1>7. ASSUME NEW i \in DOMAIN stmts
      PROVE  /\ stmts[i] \in Statements /\ stmts[i].src \in Sources(q)
             /\ stmts[i].src \in Nat \ {NoName}
             /\ stmts[i].text.kind \in {"eq", "in", "oneof", "other"}
             /\ stmts[i].text.lo \in Int /\ stmts[i].text.hi \in Int
  BY <1>4, <1>6 DEF Statements
<1>8. At(q).scope \in DOMAIN prog.parent /\ At(q).line \in Nat
  BY <1>1, InstructionFacts
<1>9. QED
  BY <1>1, <1>2, <1>3, <1>6, <1>7, <1>8

(* The alloca the pass takes a name of the assertion at q for, and that    *)
(* which C gives to it.                                                    *)
Found(q, n) == FindNameIR(n, At(q).scope, At(q).line)

Means(q, n) == Meant(n, At(q).scope, At(q).line)

(* When no alloca has the name of another source of the assertion, every   *)
(* name is replaced once.                                                  *)
LEMMA RenamedOnce ==
    ASSUME prog \in Programs, NEW q \in Annotations(prog),
           \A n \in Sources(q) : Found(q, n) \notin Sources(q) \ {n},
           NEW i \in DOMAIN At(q).stmts
    PROVE  Renamed(At(q))[i] = Found(q, At(q).stmts[i].src)
<1> DEFINE S == Sources(q)
           Turn(w, n) == IF Found(q, n) \in S /\ Found(q, n) > n THEN w[Found(q, n)] ELSE Found(q, n)
           written == CHOOSE w : w = [n \in S |-> Turn(w, n)]
           f == [n \in S |-> Found(q, n)]
<1>1. ASSUME NEW w, NEW n \in S PROVE Turn(w, n) = Found(q, n)
  <2>1. n \in Nat
    BY SourceFacts
  <2>2. Found(q, n) \notin S \/ Found(q, n) = n
    OBVIOUS
  <2>3. ~(Found(q, n) \in S /\ Found(q, n) > n)
    BY <2>1, <2>2
  <2>4. QED
    BY <2>3
<1>2. f = [n \in S |-> Turn(f, n)]
  <2> HIDE DEF Turn, S
  <2>1. QED
    BY <1>1
<1>3. written = [n \in S |-> Turn(written, n)]
  <2> HIDE DEF Turn, S, f
  <2>1. QED
    BY <1>2
<1>4. \A n \in S : written[n] = Found(q, n)
  <2>1. PICK w : w = written /\ w = [n \in S |-> Turn(w, n)]
    BY <1>3
  <2> HIDE DEF Turn, S, written
  <2>2. QED
    BY <1>1, <2>1
<1>5. Renamed(At(q)) = [j \in DOMAIN At(q).stmts |-> written[At(q).stmts[j].src]]
  BY DEF Renamed, Found, Sources
<1>6. At(q).stmts[i].src \in S
  BY SourceFacts
<1>7. QED
  <2> HIDE DEF written, S
  <2>1. QED
    BY <1>4, <1>5, <1>6

(* Under the hypothesis on scopes a name is found where C finds it.        *)
LEMMA FoundMeant ==
    ASSUME prog \in Programs, Scoped, NEW q \in Annotations(prog), NEW n \in Sources(q)
    PROVE  Found(q, n) = Means(q, n)
<1> DEFINE scope == At(q).scope
           line == At(q).line
<1>1. scope \in DOMAIN prog.parent
  BY SourceFacts
<1>2. CASE DeclaredOnce(n)
  <2>1. PICK d \in Declarations(n) : Declarations(n) = {d}
    BY <1>2 DEF DeclaredOnce
  <2>2. Encloses(prog.decls[d].scope, scope) /\ prog.decls[d].line <= line
    BY <1>2 DEF Scoped, Sources
  <2>3. Means(q, n) = prog.decls[d].ir
    BY <1>1, <2>1, <2>2, OnceMeant DEF Means
  <2>4. PICK e \in Declarations(n) : Closest(Declarations(n)) = prog.decls[e].ir
    BY <2>1, CandidateFacts, ClosestFacts
  <2>5. Found(q, n) = Closest(Declarations(n))
    BY <1>2 DEF Found, FindNameIR
  <2>6. QED
    BY <2>1, <2>3, <2>4, <2>5
<1>3. CASE ~DeclaredOnce(n)
  <2>1. HopsSafely(n, prog.parent[scope], line) /\ prog.parent[prog.top] = 0
    BY <1>3 DEF Scoped, Sources
  <2>2. prog.parent[scope] \in DOMAIN prog.parent \cup {0} /\ scope # 0
    BY <1>1, ScopeFacts
  <2>3. Climb(n, line)[prog.parent[scope]] = Meant(n, prog.parent[scope], line)
    BY <2>1, <2>2, HopsMeant
  <2>4. CASE Candidates(n, scope, line) # {}
    <3>1. Means(q, n) = Closest(Candidates(n, scope, line))
      BY <1>1, <2>4, SeekTurns DEF Means
    <3>2. QED
      BY <1>3, <2>4, <3>1 DEF Found, FindNameIR
  <2>5. CASE Candidates(n, scope, line) = {}
    <3>1. Means(q, n) = Meant(n, prog.parent[scope], line)
      BY <1>1, <2>2, <2>5, SeekTurns DEF Means
    <3>2. CASE scope = prog.top
      <4>1. Candidates(n, 0, line) = {} /\ 0 \in DOMAIN prog.parent \cup {0}
        BY CandidateFacts
      <4>2. Meant(n, 0, line) = NoName
        BY <4>1, SeekTurns
      <4>3. QED
        BY <1>3, <2>1, <2>5, <3>1, <3>2, <4>2 DEF Found, FindNameIR
    <3>3. CASE scope # prog.top
      BY <1>3, <2>3, <2>5, <3>1, <3>3 DEF Found, FindNameIR
    <3>4. QED
      BY <3>2, <3>3
  <2>6. QED
    BY <2>4, <2>5
<1>4. QED
  BY <1>2, <1>3

(* And it becomes the name of the statement.                               *)
LEMMA RenamedMeant ==
    ASSUME prog \in Programs, Scoped, NEW q \in Annotations(prog), NEW i \in DOMAIN At(q).stmts
    PROVE  Renamed(At(q))[i] = Means(q, At(q).stmts[i].src)
<1>1. ASSUME NEW n \in Sources(q) PROVE Found(q, n) \notin Sources(q) \ {n}
  <2>1. Found(q, n) \in Names(n)
    BY FoundNames, SourceFacts DEF Found
  <2>2. NoName \notin Sources(q)
    BY SourceFacts
  <2>3. \A d \in Declarations(n) : prog.decls[d].ir \notin Sources(q) \ {n}
    BY DEF Scoped, Sources
  <2>4. QED
    BY <2>1, <2>2, <2>3 DEF Names
<1>2. At(q).stmts[i].src \in Sources(q)
  BY SourceFacts
<1>3. QED
  BY <1>1, <1>2, RenamedOnce, FoundMeant

-----------------------------------------------------------------------------
(* An assertion's entry keeps its own ranges; it is extended by its walk   *)
(* only.                                                                   *)
Entries ==
    \A q \in DOMAIN safecodeMap :
        /\ phase = "resolve" \/ q \in todo => safecodeMap[q] = Entry(At(q))
        /\ \A n \in DOMAIN Entry(At(q)) :
                n \in DOMAIN safecodeMap[q] /\ safecodeMap[q][n] = Entry(At(q))[n]

(* Every step keeps the entries.                                           *)
LEMMA EntriesStep ==
    ASSUME Layout, Entries, [Next]_vars
    PROVE  Entries'
<1>1. CASE Resolve
  <2>1. PICK q \in todo :
            /\ q \in Annotations(prog) /\ prog' = prog /\ phase = "resolve"
            /\ \/ /\ phase' = "resolve" /\ todo' = todo \ {q}
                  /\ DOMAIN safecodeMap' = DOMAIN safecodeMap \cup {q}
                  /\ safecodeMap'[q] = Entry(At(q))
                  /\ \A r \in DOMAIN safecodeMap \ {q} : safecodeMap'[r] = safecodeMap[r]
               \/ phase' = "aborted" /\ UNCHANGED <<safecodeMap, todo>>
    BY <1>1, ResolveSteps
  <2>2. \A r : Entry(At(r))' = Entry(At(r))
    BY <2>1, Static
  <2>3. \A r \in DOMAIN safecodeMap' : safecodeMap'[r] = Entry(At(r))
    BY <2>1 DEF Entries
  <2>4. QED
    BY <2>2, <2>3 DEF Entries
<1>2. CASE Scan
  <2>1. PICK q \in todo :
            /\ q \in DOMAIN safecodeMap /\ todo' = todo \ {q} /\ prog' = prog
            /\ phase = "scan" /\ phase' = "scan"
            /\ DOMAIN safecodeMap' = DOMAIN safecodeMap
            /\ \A r \in DOMAIN safecodeMap \ {q} : safecodeMap'[r] = safecodeMap[r]
            /\ GoesOn(q) => /\ BranchPositions(q) \in SUBSET Positions(prog)
                            /\ safecodeMap'[q] = Extended(q, MainMetadata(q), BranchPositions(q))
            /\ ~GoesOn(q) => safecodeMap' = safecodeMap
    BY <1>2, ScanSteps
  <2>2. \A r : Entry(At(r))' = Entry(At(r))
    BY <2>1, Static
  <2>3. \A n \in DOMAIN safecodeMap[q] : n \in DOMAIN safecodeMap'[q] /\ safecodeMap'[q][n] = safecodeMap[q][n]
    BY <2>1, ExtendedFacts DEF Layout
  <2>4. \A r \in DOMAIN safecodeMap' : \A n \in DOMAIN Entry(At(r)) :
            n \in DOMAIN safecodeMap'[r] /\ safecodeMap'[r][n] = Entry(At(r))[n]
    <3> TAKE r \in DOMAIN safecodeMap'
    <3>1. TAKE n \in DOMAIN Entry(At(r))
    <3>2. n \in DOMAIN safecodeMap[r] /\ safecodeMap[r][n] = Entry(At(r))[n]
      BY <2>1 DEF Entries
    <3>3. CASE r = q
      BY <2>3, <3>2, <3>3
    <3>4. CASE r # q
      BY <2>1, <3>2, <3>4
    <3>5. QED
      BY <3>3, <3>4
  <2>5. \A r \in DOMAIN safecodeMap' : phase' = "resolve" \/ r \in todo' => safecodeMap'[r] = Entry(At(r))
    BY <2>1 DEF Entries
  <2>6. QED
    BY <2>2, <2>4, <2>5 DEF Entries
<1>3. CASE UNCHANGED <<prog, safecodeMap, metadata>>
           /\ \/ phase = "resolve" /\ phase' = "scan" /\ todo = {} /\ todo' = DOMAIN safecodeMap
              \/ phase = "scan" /\ phase' = "run" /\ todo = {} /\ todo' = {}
              \/ phase' = phase /\ todo' = todo
  <2>1. \A r : Entry(At(r))' = Entry(At(r))
    BY <1>3, Static
  <2>2. QED
    BY <1>3, <2>1 DEF Entries
<1>4. QED
  BY <1>1, <1>2, <1>3, OtherSteps

(* The statement an entry's range comes from, when no later one is about   *)
(* the same name.                                                          *)
LEMMA EntryMeant ==
    ASSUME prog \in Programs, Scoped, NEW q \in Annotations(prog), NEW i \in DOMAIN At(q).stmts,
           At(q).stmts[i].text.kind # "other",
           \A j \in i + 1 .. Len(At(q).stmts) : At(q).stmts[j].src # At(q).stmts[i].src,
           NEW n, n = Means(q, At(q).stmts[i].src)
    PROVE  n \in DOMAIN Entry(At(q)) /\ Entry(At(q))[n] = RangePair(At(q).stmts[i].text)
<1> DEFINE stmts == At(q).stmts
           key(j) == IF stmts[j].text.kind = "other" THEN Hash ELSE Renamed(At(q))[j]
           last == CHOOSE l \in DOMAIN stmts : key(l) = n /\ \A j \in DOMAIN stmts : key(j) = n => j <= l
<1>1. key(i) = n
  BY RenamedMeant
<1>2. \A j \in DOMAIN stmts : Means(q, stmts[j].src) \in Names(stmts[j].src)
  BY SeekNames, SourceFacts DEF Means
<1>3. ASSUME NEW j \in DOMAIN stmts, key(j) = n PROVE stmts[j].src = stmts[i].src
  <2>1. n # Hash
    <3>1. \A d \in Declarations(stmts[i].src) : prog.decls[d].ir # Hash
      BY DeclarationFacts, CandidateFacts
    <3>2. QED
      BY <1>2, <3>1 DEF Names, NoName, Hash
  <2>2. Means(q, stmts[j].src) = n
    BY <1>3, <2>1, RenamedMeant
  <2>3. stmts[i].src \in Sources(q) /\ stmts[j].src \in Sources(q)
    BY SourceFacts
  <2>4. CASE n = NoName
    BY <2>2, <2>3, <2>4 DEF Scoped, Sources, Means
  <2>5. CASE n # NoName
    <3>1. PICK d \in Declarations(stmts[i].src) : n = prog.decls[d].ir
      BY <1>2, <2>5 DEF Names
    <3>2. PICK e \in Declarations(stmts[j].src) : n = prog.decls[e].ir
      BY <1>2, <2>2, <2>5 DEF Names
    <3>3. d = e
      <4>1. d \in DOMAIN prog.decls /\ e \in DOMAIN prog.decls
        BY DEF Declarations
      <4>2. prog.decls[d].ir = prog.decls[e].ir
        BY <3>1, <3>2
      <4>3. QED
        BY <4>1, <4>2, DeclarationFacts
    <3>4. QED
      BY <3>1, <3>2, <3>3 DEF Declarations
  <2>6. QED
    BY <2>4, <2>5
<1>4. ASSUME NEW j \in DOMAIN stmts, key(j) = n PROVE j <= i
  <2>1. DOMAIN stmts = 1 .. Len(stmts) /\ Len(stmts) \in Nat
    BY SourceFacts
  <2>2. j \notin i + 1 .. Len(stmts)
    BY <1>3, <1>4
  <2>3. QED
    BY <2>1, <2>2
<1>5. last = i
  <2> HIDE DEF key
  <2>1. \A l \in DOMAIN stmts :
            key(l) = n /\ (\A j \in DOMAIN stmts : key(j) = n => j <= l) => l = i
    <3>1. TAKE l \in DOMAIN stmts
    <3>2. DOMAIN stmts = 1 .. Len(stmts) /\ Len(stmts) \in Nat
      BY SourceFacts
    <3>3. QED
      BY <1>1, <1>4, <3>2
  <2>2. QED
    BY <1>1, <1>4, <2>1
<1>6. DOMAIN Entry(At(q)) = {key(j) : j \in DOMAIN stmts} /\ n \in DOMAIN Entry(At(q))
  BY <1>1 DEF Entry
<1>7. Entry(At(q))[n] = StatementRange(stmts[last].text)
  BY <1>6 DEF Entry
<1>8. QED
  BY <1>5, <1>6, <1>7 DEF StatementRange

(* Every range of a resolved assertion is kept under the alloca of the     *)
(* declaration that C's scoping rules give to the name, in every function  *)
(* whose scopes the hops of findNameIR do not miss.                        *)
THEOREM NamesResolvedAsInC == Spec => [](Scoped => CorrectAlloca)
<1>1. Layout /\ Entries /\ Scoped => CorrectAlloca
  <2>1. SUFFICES ASSUME Layout, Entries, Scoped,
                        NEW q \in DOMAIN safecodeMap, NEW i \in DOMAIN At(q).stmts,
                        At(q).stmts[i].text.kind # "other",
                        ~\E j \in i + 1 .. Len(At(q).stmts) : At(q).stmts[j].src = At(q).stmts[i].src,
                        NEW n, n = Means(q, At(q).stmts[i].src)
                 PROVE  n \in DOMAIN safecodeMap[q] /\ safecodeMap[q][n] = RangePair(At(q).stmts[i].text)
    BY DEF CorrectAlloca, Means
  <2>2. q \in Annotations(prog) /\ prog \in Programs
    BY <2>1 DEF Layout
  <2>3. n \in DOMAIN Entry(At(q)) /\ Entry(At(q))[n] = RangePair(At(q).stmts[i].text)
    BY <2>1, <2>2, EntryMeant
  <2>4. QED
    BY <2>1, <2>3 DEF Entries
<1>2. Init => Layout /\ Entries
  <2>1. Init => DOMAIN safecodeMap = {}
    BY DEF Init, PassInit
  <2>2. Init => Entries
    BY <2>1 DEF Entries
  <2>3. Init => Layout
    BY InitLayout
  <2>4. QED
    BY <2>2, <2>3
<1>3. Layout /\ Entries /\ [Next]_vars => (Layout /\ Entries)'
  BY LayoutStep, EntriesStep
<1>4. QED
  BY <1>1, <1>2, <1>3, PTL DEF Spec

-----------------------------------------------------------------------------
(* From here on every assertion is one statement, as Frama-C writes them;  *)
(* what it says, and the name it is about.                                 *)
OneClaim == \A q \in Annotations(prog) : Len(At(q).stmts) = 1

Says(q) == At(q).stmts[1].text

(* The entry of such an assertion has one name, its variable's.            *)
LEMMA OneName ==
    ASSUME prog \in Programs, OneClaim, NEW q \in Annotations(prog)
    PROVE  /\ Variable(q) \in Nat /\ DOMAIN Entry(At(q)) = {Variable(q)}
           /\ Entry(At(q))[Variable(q)] = StatementRange(Says(q))
           /\ Says(q).kind = "other" => Variable(q) = Hash
           /\ Says(q).kind # "other" => /\ Variable(q) = Found(q, At(q).stmts[1].src)
                                        /\ Variable(q) \in Names(At(q).stmts[1].src)
           /\ DOMAIN At(q).stmts = {1}
<1> DEFINE stmts == At(q).stmts
           key(j) == IF stmts[j].text.kind = "other" THEN Hash ELSE Renamed(At(q))[j]
           last(n) == CHOOSE l \in DOMAIN stmts : key(l) = n /\ \A j \in DOMAIN stmts : key(j) = n => j <= l
<1>1. DOMAIN stmts = {1}
  <2>1. Len(stmts) = 1 /\ DOMAIN stmts = 1 .. Len(stmts)
    BY SourceFacts DEF OneClaim
  <2>2. QED
    BY <2>1
<1>2. Sources(q) = {stmts[1].src}
  BY <1>1, SourceFacts
<1>3. Renamed(At(q))[1] = Found(q, stmts[1].src)
  BY <1>1, <1>2, RenamedOnce
<1>4. Found(q, stmts[1].src) \in Names(stmts[1].src)
  BY FoundNames, SourceFacts DEF Found
<1>5. Names(stmts[1].src) \in SUBSET Nat
  <2>1. \A d \in Declarations(stmts[1].src) : prog.decls[d].ir \in Nat
    BY DeclarationFacts DEF Declarations
  <2>2. QED
    BY <2>1 DEF Names, NoName
<1>6. key(1) \in Nat
  BY <1>3, <1>4, <1>5 DEF Hash
<1>7. DOMAIN Entry(At(q)) = {key(1)}
  <2>1. DOMAIN Entry(At(q)) = {key(j) : j \in DOMAIN stmts}
    BY DEF Entry
  <2> HIDE DEF key
  <2>2. QED
    BY <1>1, <2>1
<1>8. Variable(q) = key(1)
  <2>1. PICK k \in Nat : k = key(1)
    BY <1>6
  <2>2. Smallest({k}) = k
    BY <2>1 DEF Smallest
  <2> HIDE DEF key
  <2>3. QED
    BY <1>7, <2>1, <2>2 DEF Variable, FirstName
<1>9. Entry(At(q))[key(1)] = StatementRange(stmts[last(key(1))].text)
  BY <1>7 DEF Entry
<1>10. last(key(1)) = 1
  <2> HIDE DEF key
  <2>1. QED
    BY <1>1
<1>11. QED
  BY <1>1, <1>3, <1>4, <1>6, <1>7, <1>8, <1>9, <1>10 DEF Says

(* A load r is covered by the assertion at q: later in its block, with     *)
(* nothing between them that ends a walk, or so in the first successor.    *)
Main(q, r) == q[1] = r[1] /\ q[2] < r[2] /\ Clear(q[1], q[2] + 1, r[2] - 1, Variable(q))

Branch(q, r) ==
    /\ prog.succ[q[1]] # <<>> /\ r[1] = FirstSuccessor(q) /\ ToTheEnd(q)
    /\ Clear(r[1], 1, r[2] - 1, Variable(q))

(* Metadata is that of an assertion that covers the load,                  *)
Sourced ==
    \A r \in DOMAIN metadata : \E q \in Annotations(prog) \ todo :
        /\ At(r).ptr = Variable(q) /\ metadata[r] = GetAnnotation(StatementRange(Says(q)))
        /\ Main(q, r) \/ Branch(q, r)

(* and an assertion whose walk is over has covered its block.              *)
Kept ==
    phase \in {"scan", "run"} =>
        \A q \in Annotations(prog) \ todo, r \in Loads(prog) :
            At(r).ptr = Variable(q) /\ Main(q, r) => r \in DOMAIN metadata

(* Behind an assertion that is being walked from, the walk ends exactly    *)
(* where it should, and covers what it should.                             *)
LEMMA MainCovers ==
    ASSUME Layout, Entries, OneClaim, phase = "scan", NEW q \in todo,
           \A r \in Annotations(prog) : Before(q, r) => r \in todo,
           NEW r \in Positions(prog)
    PROVE  /\ safecodeMap[q] = Entry(At(q)) /\ FirstName(safecodeMap[q]) = Variable(q)
           /\ DOMAIN safecodeMap[q] = {Variable(q)}
           /\ r \in MainWalk(q, Variable(q)) <=>
                q[1] = r[1] /\ q[2] < r[2] /\ Clear(q[1], q[2] + 1, r[2], Variable(q))
           /\ At(r).k = "load" => (r \in MainWalk(q, Variable(q)) <=> Main(q, r))
<1> DEFINE v == Variable(q)
           ends == {p \in PositionsIn(q[1]) : EndsWalk(p, v, safecodeMap)}
<1>1. /\ prog \in Programs /\ q \in Annotations(prog) /\ q \in Positions(prog)
      /\ DOMAIN safecodeMap = Annotations(prog)
  BY DEF Layout, Annotations
<1>2. safecodeMap[q] = Entry(At(q)) /\ FirstName(safecodeMap[q]) = v /\ DOMAIN safecodeMap[q] = {v}
  BY <1>1, OneName DEF Entries, Variable
<1>3. q[1] \in DOMAIN prog.blocks /\ q[2] \in Nat /\ q[2] + 1 \in Nat \ {0} /\ r[2] \in Nat
      /\ r[2] <= Len(Block(r[1])) /\ Len(Block(r[1])) \in Nat /\ r = <<r[1], r[2]>>
      /\ q[1] \in Nat
  BY <1>1, PositionFacts
<1>4. ASSUME NEW h \in q[2] + 1 .. Len(Block(q[1])) PROVE <<q[1], h>> \in ends <=> Stops(<<q[1], h>>, v)
  <2>1. PICK p : p = <<q[1], h>>
    OBVIOUS
  <2>2. h \in Nat /\ h \in DOMAIN Block(q[1]) /\ q[2] < h
    BY <1>1, <1>3, PositionFacts
  <2>3. p \in PositionsIn(q[1]) /\ Before(q, p)
    BY <2>1, <2>2 DEF PositionsIn, Before
  <2>4. p \in Annotations(prog) => p \in todo
    BY <2>3
  <2>5. p \in Annotations(prog) => safecodeMap[p] = Entry(At(p))
    BY <1>1, <2>4 DEF Entries
  <2>6. EndsWalk(p, v, safecodeMap) <=> Stops(p, v)
    BY <1>1, <2>5 DEF EndsWalk, Stops, Variable
  <2>7. QED
    BY <2>1, <2>3, <2>6
<1>5. r \in MainWalk(q, v) <=> q[1] = r[1] /\ q[2] < r[2] /\ Clear(q[1], q[2] + 1, r[2], v)
  <2>1. r \in MainWalk(q, v) <=>
            r[1] = q[1] /\ q[2] + 1 <= r[2] /\ \A h \in q[2] + 1 .. r[2] : <<q[1], h>> \notin ends
    <3> HIDE DEF ends
    <3>1. r \in Reached(q[1], q[2] + 1, ends) <=>
            r[1] = q[1] /\ q[2] + 1 <= r[2] /\ \A h \in q[2] + 1 .. r[2] : <<q[1], h>> \notin ends
      BY <1>1, <1>3, ReachedFacts
    <3>2. QED
      BY <3>1 DEF MainWalk, ends
  <2>2. r[1] = q[1] => \A h \in q[2] + 1 .. r[2] : h \in q[2] + 1 .. Len(Block(q[1]))
    BY <1>3
  <2> HIDE DEF ends, v
  <2>3. QED
    BY <1>3, <1>4, <2>1, <2>2 DEF Clear
<1>6. ASSUME At(r).k = "load" PROVE r \in MainWalk(q, v) <=> Main(q, r)
  <2>1. ~Stops(r, v)
    BY <1>6 DEF Stops, Annotations, At
  <2>2. q[1] = r[1] /\ q[2] < r[2] =>
            (Clear(q[1], q[2] + 1, r[2], v) <=> Clear(q[1], q[2] + 1, r[2] - 1, v))
    <3>1. SUFFICES ASSUME q[1] = r[1], q[2] < r[2]
                   PROVE  Clear(q[1], q[2] + 1, r[2], v) <=> Clear(q[1], q[2] + 1, r[2] - 1, v)
      OBVIOUS
    <3>2. \A h \in q[2] + 1 .. r[2] : h = r[2] \/ h \in q[2] + 1 .. r[2] - 1
      BY <1>3
    <3>3. \A h \in q[2] + 1 .. r[2] - 1 : h \in q[2] + 1 .. r[2]
      BY <1>3
    <3>4. ~Stops(<<q[1], r[2]>>, v)
      BY <1>3, <2>1, <3>1
    <3> HIDE DEF v
    <3>5. QED
      BY <3>2, <3>3, <3>4 DEF Clear
  <2>3. QED
    BY <1>5, <2>2 DEF Main
<1>7. QED
  BY <1>2, <1>5, <1>6

(* The walk over the first successor covers what it should: an assertion   *)
(* about the same name before the load would have ended it, or its own     *)
(* walk, over by then, has annotated the load.                             *)
LEMMA BranchCovers ==
    ASSUME Layout, Entries, OneClaim, Kept, phase = "scan", NEW q \in todo,
           \A r \in Annotations(prog) : Before(q, r) => r \in todo,
           FirstSuccessor(q) \in DOMAIN prog.blocks \ {1},
           NEW r \in BranchLoads(q)
    PROVE  r[1] = FirstSuccessor(q) /\ Clear(r[1], 1, r[2] - 1, Variable(q)) /\ At(r).ptr = Variable(q)
<1> DEFINE v == Variable(q)
           b == FirstSuccessor(q)
           extended(p) == [safecodeMap EXCEPT ![q] = Extended(q, MainMetadata(q),
                                            {<<b, h>> : h \in 1 .. p[2] - 1})]
           ends == {p \in PositionsIn(b) : EndsWalk(p, v, extended(p))}
<1>1. /\ prog \in Programs /\ q \in Annotations(prog) /\ q \in Positions(prog)
      /\ DOMAIN safecodeMap = Annotations(prog) /\ Annotations(prog) \in SUBSET Positions(prog)
  BY DEF Layout, Annotations
<1>2. FirstName(safecodeMap[q]) = v /\ DOMAIN safecodeMap[q] = {v}
  BY <1>1, MainCovers
<1>3. BranchPositions(q) = Reached(b, 1, ends)
  BY <1>2 DEF BranchPositions, BranchWalk
<1>4. r \in BranchPositions(q) /\ At(r).k = "load" /\ At(r).ptr = v /\ r \notin DOMAIN MainMetadata(q)
  BY <1>2, BranchFacts
<1>5. r \in Positions(prog) /\ r[1] = b /\ \A h \in 1 .. r[2] : <<b, h>> \notin ends
  <2> HIDE DEF ends, b
  <2>1. Reached(b, 1, ends) \in SUBSET Positions(prog)
    BY <1>1, ReachedFacts DEF b
  <2>2. QED
    BY <1>1, <1>3, <1>4, <2>1, ReachedFacts DEF b
<1>6. r \in Loads(prog) /\ r[2] \in Nat /\ r[2] <= Len(Block(b)) /\ Len(Block(b)) \in Nat /\ r = <<b, r[2]>>
  BY <1>1, <1>4, <1>5, PositionFacts DEF Loads, At
<1> DEFINE I == {h \in 1 .. r[2] - 1 : Stops(<<b, h>>, v)}
<1>7. SUFFICES ASSUME I # {} PROVE FALSE
  BY <1>4, <1>5 DEF Clear
<1>8. PICK h \in I : \A j \in I : j <= h
  <2>1. I \in SUBSET (1 .. r[2])
    BY <1>6
  <2> HIDE DEF I
  <2>2. QED
    BY <1>6, <1>7, <2>1, LastIndex
<1>9. h \in 1 .. r[2] - 1 /\ h \in Nat /\ h < r[2] /\ Stops(<<b, h>>, v) /\ <<b, h>> \notin ends
  <2>1. h \in 1 .. r[2] - 1 /\ Stops(<<b, h>>, v)
    OBVIOUS
  <2> HIDE DEF I, ends, v
  <2>2. h \in 1 .. r[2] /\ h \in Nat /\ h < r[2]
    BY <1>6, <2>1
  <2>3. QED
    BY <1>5, <2>1, <2>2
<1>10. PICK g : g = <<b, h>>
  OBVIOUS
<1>11. g \in PositionsIn(b) /\ ~EndsWalk(g, v, extended(g)) /\ g[1] = b /\ g[2] = h
  <2>1. h \in DOMAIN Block(b)
    BY <1>1, <1>6, <1>9, PositionFacts
  <2>2. g \in PositionsIn(b)
    BY <1>10, <2>1 DEF PositionsIn
  <2>3. QED
    BY <1>9, <1>10, <2>2
<1>12. g \in Annotations(prog) /\ Variable(g) = v
  BY <1>9, <1>10, <1>11 DEF EndsWalk, Stops
<1>13. g = q \/ g \notin todo
  <2>1. SUFFICES ASSUME g # q, g \in todo PROVE FALSE
    OBVIOUS
  <2>2. extended(g)[g] = safecodeMap[g] /\ safecodeMap[g] = Entry(At(g))
    BY <1>1, <1>12, <2>1 DEF Entries
  <2>3. FirstName(extended(g)[g]) = v
    BY <1>12, <2>2 DEF Variable
  <2> HIDE DEF extended
  <2>4. QED
    BY <1>1, <1>11, <1>12, <2>3 DEF EndsWalk
<1>14. Main(g, r)
  <2>1. \A j \in h + 1 .. r[2] - 1 : j \notin I /\ j \in 1 .. r[2] - 1
    BY <1>6, <1>8, <1>9
  <2>2. Clear(b, h + 1, r[2] - 1, v)
    BY <2>1 DEF Clear
  <2>3. QED
    BY <1>5, <1>9, <1>11, <1>12, <2>2 DEF Main
<1>15. CASE g = q
  <2>1. r \in MainWalk(q, v)
    BY <1>1, <1>4, <1>5, <1>14, <1>15, MainCovers
  <2>2. QED
    BY <1>2, <1>4, <2>1, MainFacts
<1>16. CASE g \notin todo
  <2>1. r \in DOMAIN metadata
    BY <1>4, <1>6, <1>12, <1>14, <1>16 DEF Kept
  <2>2. QED
    BY <1>4, <2>1, MainFacts
<1>17. QED
  BY <1>13, <1>15, <1>16

(* Every step keeps both.                                                  *)
LEMMA SourcedStep ==
    ASSUME Layout, Entries, OneClaim, Sourced, Kept, [Next]_vars
    PROVE  Sourced' /\ Kept'
<1>1. CASE Resolve
  <2>1. phase = "resolve" /\ phase' \in {"resolve", "aborted"} /\ metadata' = metadata
    BY <1>1, ResolveSteps
  <2>2. DOMAIN metadata = {}
    BY <2>1 DEF Layout
  <2>3. QED
    BY <2>1, <2>2 DEF Sourced, Kept
<1>2. CASE Scan
  <2>1. PICK q \in todo :
            /\ q \in Annotations(prog) /\ q \in DOMAIN safecodeMap
            /\ \A r \in Annotations(prog) : Before(q, r) => r \in todo
            /\ todo' = todo \ {q} /\ prog' = prog /\ phase = "scan" /\ phase' = "scan"
            /\ GoesOn(q) => /\ FirstSuccessor(q) \in DOMAIN prog.blocks \ {1}
                            /\ BranchPositions(q) \in SUBSET Positions(prog)
                            /\ metadata' = BranchMetadata(q)
            /\ ~GoesOn(q) => metadata' = MainMetadata(q)
            /\ MainWalk(q, FirstName(safecodeMap[q])) \in SUBSET Positions(prog)
    BY <1>2, ScanSteps
  <2> DEFINE v == Variable(q)
  <2>2. prog \in Programs /\ q \in Positions(prog) /\ Annotations(prog)' = Annotations(prog)
        /\ Loads(prog)' = Loads(prog) /\ Loads(prog) \in SUBSET Positions(prog)
        /\ \A r \in Loads(prog) : At(r).k = "load"
    BY <2>1, Static DEF Layout, Annotations, Loads, At
  <2>3. safecodeMap[q] = Entry(At(q)) /\ FirstName(safecodeMap[q]) = v /\ DOMAIN safecodeMap[q] = {v}
    BY <2>1, <2>2, MainCovers
  <2>4. safecodeMap[q][v] = StatementRange(Says(q))
    BY <2>1, <2>2, <2>3, OneName
  <2>5. GoesOn(q) => ToTheEnd(q)
    <3>1. SUFFICES ASSUME GoesOn(q) PROVE ToTheEnd(q)
      OBVIOUS
    <3>2. MainWalk(q, v) = {q[1]} \X (q[2] + 1 .. Len(Block(q[1])))
      BY <2>3, <3>1 DEF GoesOn, ReachesBranch
    <3>3. Len(Block(q[1])) \in Nat /\ q[2] \in Nat
      BY <2>2, PositionFacts
    <3>4. ASSUME NEW h \in q[2] + 1 .. Len(Block(q[1])) PROVE ~Stops(<<q[1], h>>, v)
      <4> DEFINE p == <<q[1], h>>
      <4>1. p[1] = q[1] /\ p[2] = h
        OBVIOUS
      <4>2. p \in MainWalk(q, v)
        BY <3>2, <4>1
      <4>3. p \in Positions(prog)
        BY <2>1, <2>3, <4>2
      <4>4. Clear(q[1], q[2] + 1, h, v)
        BY <2>1, <4>1, <4>2, <4>3, MainCovers
      <4>5. h \in q[2] + 1 .. h
        BY <3>3
      <4>6. QED
        BY <4>4, <4>5 DEF Clear
    <3>5. QED
      BY <3>4 DEF ToTheEnd, Clear
  <2>6. DOMAIN MainMetadata(q) \subseteq DOMAIN metadata'
    BY <2>1, BranchFacts
  <2>7. ASSUME NEW r \in DOMAIN metadata'
        PROVE  \E p \in Annotations(prog) \ todo' :
                    /\ At(r).ptr = Variable(p) /\ metadata'[r] = GetAnnotation(StatementRange(Says(p)))
                    /\ Main(p, r) \/ Branch(p, r)
    <3>1. CASE r \in DOMAIN metadata
      <4>1. metadata'[r] = metadata[r]
        <5>1. r \in DOMAIN MainMetadata(q) /\ MainMetadata(q)[r] = metadata[r]
          BY <3>1, MainFacts
        <5>2. BranchMetadata(q)[r] = metadata[r]
          BY <5>1, BranchFacts
        <5>3. QED
          BY <2>1, <5>1, <5>2
      <4>2. QED
        BY <2>1, <3>1, <4>1 DEF Sourced
    <3>2. CASE r \in MainLoads(q)
      <4>1. r \in MainWalk(q, v) /\ At(r).k = "load" /\ At(r).ptr = v /\ r \in DOMAIN MainMetadata(q)
            /\ MainMetadata(q)[r] = GetAnnotation(StatementRange(Says(q)))
        <5>1. /\ r \in MainWalk(q, FirstName(safecodeMap[q])) /\ At(r).k = "load"
              /\ At(r).ptr \in DOMAIN safecodeMap[q] /\ r \in DOMAIN MainMetadata(q)
              /\ MainMetadata(q)[r] = GetAnnotation(safecodeMap[q][At(r).ptr])
          BY <3>2, MainFacts
        <5>2. At(r).ptr = v
          BY <2>3, <5>1
        <5>3. QED
          BY <2>3, <2>4, <5>1, <5>2
      <4>2. Main(q, r)
        BY <2>1, <2>3, <4>1, MainCovers
      <4>3. metadata'[r] = MainMetadata(q)[r]
        BY <2>1, <4>1, BranchFacts
      <4>4. QED
        BY <2>1, <4>1, <4>2, <4>3
    <3>3. CASE GoesOn(q) /\ r \in BranchLoads(q)
      <4>1. r[1] = FirstSuccessor(q) /\ Clear(r[1], 1, r[2] - 1, v) /\ At(r).ptr = v
        BY <2>1, <3>3, BranchCovers
      <4>2. metadata'[r] = GetAnnotation(StatementRange(Says(q)))
        <5>1. BranchMetadata(q)[r] = GetAnnotation(safecodeMap[q][At(r).ptr])
          BY <3>3, BranchFacts
        <5>2. QED
          BY <2>1, <2>4, <3>3, <4>1, <5>1
      <4>3. Branch(q, r)
        BY <2>5, <3>3, <4>1 DEF Branch, GoesOn
      <4>4. QED
        BY <2>1, <4>1, <4>2, <4>3
    <3>4. QED
      <4>1. DOMAIN MainMetadata(q) = DOMAIN metadata \cup MainLoads(q)
        BY MainFacts
      <4>2. GoesOn(q) => DOMAIN metadata' = DOMAIN MainMetadata(q) \cup BranchLoads(q)
        BY <2>1, BranchFacts
      <4>3. QED
        BY <2>1, <3>1, <3>2, <3>3, <4>1, <4>2
  <2>8. ASSUME NEW p \in Annotations(prog) \ todo', NEW r \in Loads(prog),
               At(r).ptr = Variable(p), Main(p, r)
        PROVE  r \in DOMAIN metadata'
    <3>1. CASE p = q
      <4>1. r \in MainWalk(q, v)
        BY <2>1, <2>2, <2>8, <3>1, MainCovers
      <4>2. r \in DOMAIN MainMetadata(q)
        BY <2>2, <2>3, <2>8, <3>1, <4>1, MainFacts
      <4>3. QED
        BY <2>6, <4>2
    <3>2. CASE p # q
      <4>1. r \in DOMAIN metadata
        BY <2>1, <2>8, <3>2 DEF Kept
      <4>2. QED
        BY <2>6, <4>1, MainFacts
    <3>3. QED
      BY <3>1, <3>2
  <2>9. QED
    BY <2>1, <2>2, <2>7, <2>8, Static DEF Sourced, Kept, Main, Branch, Says, FirstSuccessor
<1>3. CASE UNCHANGED <<prog, safecodeMap, metadata>>
           /\ \/ phase = "resolve" /\ phase' = "scan" /\ todo = {} /\ todo' = DOMAIN safecodeMap
              \/ phase = "scan" /\ phase' = "run" /\ todo = {} /\ todo' = {}
              \/ phase' = phase /\ todo' = todo
  <2>1. DOMAIN safecodeMap \subseteq Annotations(prog)
    BY DEF Layout
  <2>2. Annotations(prog)' = Annotations(prog) /\ Loads(prog)' = Loads(prog)
    BY <1>3, Static
  <2>3. phase = "resolve" => DOMAIN metadata = {} /\ Annotations(prog) \subseteq todo \cup DOMAIN safecodeMap
    BY DEF Layout
  <2>4. ASSUME phase = "resolve", phase' = "scan", todo = {}, todo' = DOMAIN safecodeMap
        PROVE  Sourced' /\ Kept'
    <3>1. Annotations(prog) \ todo' = {} /\ DOMAIN metadata' = {}
      BY <1>3, <2>1, <2>3, <2>4
    <3>2. QED
      BY <2>2, <3>1 DEF Sourced, Kept
  <2>5. ASSUME todo' = todo, phase \in {"scan", "run"} \/ phase' = phase PROVE Sourced' /\ Kept'
    BY <1>3, <2>2, <2>5, Static DEF Sourced, Kept, Main, Branch, Says, FirstSuccessor
  <2>6. QED
    BY <1>3, <2>4, <2>5
<1>4. QED
  BY <1>1, <1>2, <1>3, OtherSteps

-----------------------------------------------------------------------------
(* The execution.  A pointer with the name of a declared alloca points to  *)
(* its cell.                                                               *)
Declared(v) == \E d \in DOMAIN prog.decls : prog.decls[d].ir = v

(* The name of an alloca is neither empty nor "#".                         *)
LEMMA DeclaredFacts ==
    ASSUME prog \in Programs, NEW v, Declared(v)
    PROVE  /\ v \in Nat \ {NoName, Hash} /\ v \in Cells
           /\ \A r \in Positions(prog) : At(r).k \in {"load", "store"} /\ At(r).ptr = v => At(r).cell = v
<1>1. PICK d \in DOMAIN prog.decls : prog.decls[d].ir = v
  BY DEF Declared
<1>2. v \in Nat \ {NoName, Hash}
  BY <1>1, DeclarationFacts
<1>3. v \in Cells
  BY <1>1 DEF Cells
<1>4. \A r \in Positions(prog) : At(r).k \in {"load", "store"} /\ At(r).ptr = v => At(r).cell = v
  BY <1>1, ProgramsAssumption DEF WellFormed, At
<1>5. QED
  BY <1>2, <1>3, <1>4

(* What an assertion is about, as C has it.                                *)
LEMMA ClaimAbout ==
    ASSUME prog \in Programs, Scoped, OneClaim, NEW q \in Annotations(prog)
    PROVE  /\ Seqs!ToSet(At(q).stmts) = {At(q).stmts[1]}
           /\ Says(q).kind # "other" => Variable(q) = Means(q, At(q).stmts[1].src)
           /\ Says(q).kind # "other" /\ Variable(q) # NoName => Declared(Variable(q))
           /\ Declared(Variable(q)) => Says(q).kind # "other" /\ Variable(q) # NoName
<1>1. Seqs!ToSet(At(q).stmts) = {At(q).stmts[1]}
  <2>1. Seqs!ToSet(At(q).stmts) = {At(q).stmts[i] : i \in DOMAIN At(q).stmts}
    BY DEF Seqs!ToSet
  <2>2. QED
    BY <2>1, OneName
<1>2. At(q).stmts[1].src \in Sources(q)
  BY OneName, SourceFacts
<1>3. Says(q).kind # "other" => Variable(q) = Means(q, At(q).stmts[1].src)
  BY <1>2, OneName, FoundMeant
<1>4. Says(q).kind # "other" /\ Variable(q) # NoName => Declared(Variable(q))
  BY OneName DEF Names, Declarations, Declared
<1>5. Declared(Variable(q)) => Says(q).kind # "other" /\ Variable(q) # NoName
  BY OneName, DeclaredFacts
<1>6. QED
  BY <1>1, <1>3, <1>4, <1>5

(* Execution passes the assertion only if it is true.                      *)
LEMMA AssertionPassed ==
    ASSUME Layout, Machine, Scoped, OneClaim, PassAssertion, NEW v, v = Variable(pc)
    PROVE  /\ pc \in Annotations(prog) /\ pc' = <<pc[1], pc[2] + 1>> /\ prog' = prog
           /\ memory' = memory /\ phase = "run"
           /\ Declared(v) => /\ memory[v] \in Denoted(Says(pc))
                             /\ live' = [c \in Cells |-> IF c = v THEN Says(pc) ELSE live[c]]
                             /\ clobbered' = clobbered \ {v}
           /\ ~Declared(v) => live' = live /\ clobbered' = clobbered
<1> DEFINE s == At(pc).stmts[1]
           claims == {a \in Seqs!ToSet(At(pc).stmts) : a.text.kind # "other" /\ Subject(a) # NoName}
<1>1. pc \in Annotations(prog) /\ prog \in Programs /\ phase = "run"
  BY PcFacts DEF PassAssertion, Layout, Annotations, At
<1>2. pc' = <<pc[1], pc[2] + 1>> /\ prog' = prog /\ memory' = memory
  BY DEF PassAssertion, Step, passVars
<1>3. /\ \A a \in claims : memory[Subject(a)] \in Denoted(a.text)
      /\ live' = [c \in Cells |-> IF \E a \in claims : Subject(a) = c
                                  THEN (CHOOSE a \in claims : Subject(a) = c).text ELSE live[c]]
      /\ clobbered' = clobbered \ {Subject(a) : a \in claims}
  BY DEF PassAssertion
<1>4. Seqs!ToSet(At(pc).stmts) = {s} /\ Subject(s) = Means(pc, s.src) /\ s.text = Says(pc)
  BY <1>1, ClaimAbout DEF Subject, Means, Says
<1>5. CASE Declared(v)
  <2>1. Says(pc).kind # "other" /\ v # NoName /\ v = Means(pc, s.src)
    BY <1>1, <1>5, ClaimAbout
  <2>2. claims = {s} /\ Subject(s) = v
    BY <1>4, <2>1
  <2>3. memory[v] \in Denoted(Says(pc)) /\ clobbered' = clobbered \ {v}
    BY <1>3, <1>4, <2>2
  <2>4. live' = [c \in Cells |-> IF c = v THEN Says(pc) ELSE live[c]]
    <3> HIDE DEF claims, s
    <3>1. ASSUME NEW c \in Cells
          PROVE  (IF \E a \in claims : Subject(a) = c
                  THEN (CHOOSE a \in claims : Subject(a) = c).text ELSE live[c])
                    = IF c = v THEN Says(pc) ELSE live[c]
      BY <1>4, <2>2
    <3>2. QED
      BY <1>3, <3>1
  <2>5. QED
    BY <1>1, <1>2, <1>5, <2>3, <2>4
<1>6. CASE ~Declared(v)
  <2>1. Says(pc).kind = "other" \/ Means(pc, s.src) = NoName
    BY <1>1, <1>6, ClaimAbout
  <2>2. claims = {}
    BY <1>4, <2>1
  <2>3. clobbered' = clobbered /\ live' = [c \in Cells |-> live[c]]
    BY <1>3, <2>2
  <2>4. live = [c \in Cells |-> live[c]]
    BY <1>1 DEF Machine
  <2>5. QED
    BY <1>1, <1>2, <1>6, <2>3, <2>4
<1>7. QED
  BY <1>5, <1>6

(* A store or a call changes its cell.                                     *)
LEMMA CellChanged ==
    ASSUME Layout, Machine, ExecuteStore \/ ExecuteCall, NEW c, c = At(pc).cell
    PROVE  /\ pc \in Positions(prog) /\ At(pc).k \in {"store", "call"} /\ c \in Cells
           /\ pc' = <<pc[1], pc[2] + 1>> /\ prog' = prog /\ phase = "run"
           /\ \A u \in Cells \ {c} : memory'[u] = memory[u] /\ live'[u] = live[u]
           /\ live'[c] = NoText
           /\ \/ At(pc).k = "store" /\ At(pc).ptr = c /\ clobbered' = clobbered \ {c}
              \/ clobbered' = clobbered \cup {c}
<1>1. pc \in Positions(prog) /\ At(pc).k \in {"store", "call"} /\ phase = "run"
  BY PcFacts DEF ExecuteStore, ExecuteCall
<1>2. c \in Cells
  BY <1>1, InstructionFacts DEF Layout
<1>3. /\ Change(c) /\ pc' = <<pc[1], pc[2] + 1>> /\ prog' = prog
      /\ \/ At(pc).k = "store" /\ At(pc).ptr = c /\ clobbered' = clobbered \ {c}
         \/ clobbered' = clobbered \cup {c}
  BY DEF ExecuteStore, ExecuteCall, AtInstruction, Step, passVars
<1>4. PICK w : memory' = [memory EXCEPT ![c] = w] /\ live' = [live EXCEPT ![c] = NoText]
  BY <1>3 DEF Change
<1>5. DOMAIN memory = Cells /\ DOMAIN live = Cells
  BY <1>1 DEF Machine
<1>6. QED
  BY <1>1, <1>2, <1>3, <1>4, <1>5

(* A variable that an assertion still covers is not changed by a store:    *)
(* one to its alloca ends the walk.                                        *)
LEMMA StoreStops ==
    ASSUME prog \in Programs, Watched, NEW q \in Annotations(prog), Declared(Variable(q)),
           NEW r \in Positions(prog), At(r).k = "store", At(r).ptr = Variable(q)
    PROVE  Stops(r, Variable(q))
<1>1. Variable(q) # NoName
  BY DeclaredFacts
<1>2. QED
  BY <1>1 DEF Watched, Stops

(* The cell is covered by an assertion of the block, which says so.        *)
Live ==
    phase = "run" => \A c \in Cells : live[c] # NoText =>
        \E q \in Annotations(prog) :
            /\ q[1] = pc[1] /\ q[2] < pc[2] /\ Clear(q[1], q[2] + 1, pc[2] - 1, c)
            /\ Variable(q) = c /\ Says(q) = live[c] /\ Declared(c)

(* From one index to the next nothing ends a walk if nothing does at it.   *)
LEMMA ClearOn ==
    ASSUME NEW b, NEW i \in Nat, NEW j \in Nat, NEW v
    PROVE  /\ Clear(b, i, (j + 1) - 1, v) => Clear(b, i, j - 1, v)
           /\ Clear(b, i, j - 1, v) /\ ~Stops(<<b, j>>, v) => Clear(b, i, (j + 1) - 1, v)
           /\ i <= j /\ Clear(b, i, (j + 1) - 1, v) => ~Stops(<<b, j>>, v)
<1>1. \A h \in i .. (j + 1) - 1 : h = j \/ h \in i .. j - 1
  OBVIOUS
<1>2. \A h \in i .. j - 1 : h \in i .. (j + 1) - 1
  OBVIOUS
<1>3. i <= j => j \in i .. (j + 1) - 1
  OBVIOUS
<1>4. QED
  BY <1>1, <1>2, <1>3 DEF Clear

(* Every step keeps what covers the cells.                                 *)
LEMMA LiveStep ==
    ASSUME Layout, Machine, OneClaim, Scoped, Watched, Live, [Next]_vars
    PROVE  Live'
<1>1. prog' = prog /\ prog \in Programs
  BY ResolveSteps, ScanSteps, OtherSteps DEF Layout
<1>2. /\ Cells' = Cells /\ Annotations(prog)' = Annotations(prog)
      /\ \A q : Variable(q)' = Variable(q) /\ Says(q)' = Says(q)
      /\ \A b, i, j, v : Clear(b, i, j, v)' = Clear(b, i, j, v)
      /\ \A v : Declared(v)' = Declared(v)
  BY <1>1, Static DEF Says, Declared
<1> DEFINE By(q, c, t, b, j) ==
                /\ q[1] = b /\ q[2] < j /\ Clear(q[1], q[2] + 1, j - 1, c)
                /\ Variable(q) = c /\ Says(q) = t /\ Declared(c)
<1>3. SUFFICES ASSUME phase' = "run"
               PROVE  \A c \in Cells : live'[c] # NoText =>
                            \E q \in Annotations(prog) : By(q, c, live'[c], pc'[1], pc'[2])
  BY <1>2 DEF Live
<1>4. ASSUME NEW c \in Cells, NEW q \in Annotations(prog), By(q, c, live[c], pc[1], pc[2]),
             pc' = <<pc[1], pc[2] + 1>>, ~Stops(pc, c), live'[c] = live[c], pc \in Positions(prog)
      PROVE  By(q, c, live'[c], pc'[1], pc'[2])
  <2>1. pc'[1] = pc[1] /\ pc'[2] = pc[2] + 1 /\ pc = <<pc[1], pc[2]>>
    BY <1>4 DEF Machine
  <2>2. q[2] \in Nat /\ pc[2] \in Nat
    BY <1>1, <1>4, PositionFacts DEF Annotations
  <2>3. Clear(q[1], q[2] + 1, (pc[2] + 1) - 1, c)
    <3>1. q[2] + 1 \in Nat /\ q[1] = pc[1] /\ ~Stops(<<q[1], pc[2]>>, c)
      BY <1>4, <2>1, <2>2
    <3>2. QED
      BY <1>4, <2>2, <3>1, ClearOn
  <2>4. QED
    BY <1>4, <2>1, <2>2, <2>3
<1>5. ASSUME PassAssertion, NEW c \in Cells, live'[c] # NoText
      PROVE  \E q \in Annotations(prog) : By(q, c, live'[c], pc'[1], pc'[2])
  <2>1. PICK v : v = Variable(pc)
    OBVIOUS
  <2>2. /\ pc \in Annotations(prog) /\ pc' = <<pc[1], pc[2] + 1>> /\ phase = "run"
        /\ Declared(v) => live' = [u \in Cells |-> IF u = v THEN Says(pc) ELSE live[u]]
        /\ ~Declared(v) => live' = live
    BY <1>5, <2>1, AssertionPassed
  <2>3. pc \in Positions(prog) /\ At(pc).k = "annot" /\ pc[2] \in Nat
    BY <1>1, <2>2, SourceFacts, PositionFacts
  <2>4. CASE Declared(v) /\ c = v
    <3>1. pc'[1] = pc[1] /\ pc'[2] = pc[2] + 1 /\ live'[c] = Says(pc)
      BY <2>2, <2>4
    <3>2. Clear(pc[1], pc[2] + 1, (pc[2] + 1) - 1, c)
      <4>1. pc[2] + 1 .. (pc[2] + 1) - 1 = {}
        BY <2>3
      <4>2. QED
        BY <4>1 DEF Clear
    <3>3. pc[2] < pc[2] + 1
      BY <2>3
    <3>4. By(pc, c, live'[c], pc'[1], pc'[2])
      <4>1. Variable(pc) = c /\ Declared(c)
        BY <2>1, <2>4
      <4>2. By(pc, c, Says(pc), pc[1], pc[2] + 1)
        BY <3>2, <3>3, <4>1
      <4> HIDE DEF By
      <4>3. QED
        BY <3>1, <4>2
    <3>5. QED
      BY <2>2, <3>4
  <2>5. CASE ~(Declared(v) /\ c = v)
    <3>1. live'[c] = live[c]
      BY <1>5, <2>2, <2>5
    <3>2. PICK q \in Annotations(prog) : By(q, c, live[c], pc[1], pc[2])
      BY <1>5, <2>2, <3>1 DEF Live
    <3>3. ~Stops(pc, c)
      BY <2>1, <2>3, <2>5, <3>2 DEF Stops
    <3>4. By(q, c, live'[c], pc'[1], pc'[2])
      BY <1>4, <2>2, <2>3, <3>1, <3>2, <3>3
    <3>5. QED
      BY <3>4
  <2>6. QED
    BY <2>4, <2>5
<1>6. ASSUME ExecuteLoad, NEW c \in Cells, live'[c] # NoText
      PROVE  \E q \in Annotations(prog) : By(q, c, live'[c], pc'[1], pc'[2])
  <2>1. pc \in Positions(prog) /\ At(pc).k = "load" /\ phase = "run"
    BY <1>6, PcFacts DEF ExecuteLoad
  <2>2. live' = live /\ pc' = <<pc[1], pc[2] + 1>>
    BY <1>6 DEF ExecuteLoad, Step
  <2>3. PICK q \in Annotations(prog) : By(q, c, live[c], pc[1], pc[2])
    BY <1>6, <2>1, <2>2 DEF Live
  <2>4. ~Stops(pc, c)
    BY <2>1 DEF Stops, Annotations, At
  <2>5. By(q, c, live'[c], pc'[1], pc'[2])
    BY <1>4, <2>1, <2>2, <2>3, <2>4
  <2>6. QED
    BY <2>5
<1>7. ASSUME ExecuteStore \/ ExecuteCall, NEW c \in Cells, live'[c] # NoText
      PROVE  \E q \in Annotations(prog) : By(q, c, live'[c], pc'[1], pc'[2])
  <2>1. /\ pc \in Positions(prog) /\ At(pc).k \in {"store", "call"}
        /\ pc' = <<pc[1], pc[2] + 1>> /\ phase = "run"
        /\ \A u \in Cells \ {At(pc).cell} : live'[u] = live[u]
        /\ live'[At(pc).cell] = NoText
    BY <1>7, CellChanged
  <2>2. c # At(pc).cell /\ live'[c] = live[c]
    BY <1>7, <2>1
  <2>3. PICK q \in Annotations(prog) : By(q, c, live[c], pc[1], pc[2])
    BY <1>7, <2>1, <2>2 DEF Live
  <2>4. ~Stops(pc, c)
    <3>1. SUFFICES ASSUME Stops(pc, c) PROVE FALSE
      OBVIOUS
    <3>2. At(pc).k = "store" /\ ReverseName(At(pc).ptr) = c
      BY <2>1, <3>1 DEF Stops, Annotations, At
    <3>3. At(pc).ptr = c
      BY <1>1, <2>1, <2>3, <3>2, DeclaredFacts DEF Watched
    <3>4. QED
      BY <1>1, <2>1, <2>2, <2>3, <3>2, <3>3, DeclaredFacts
  <2>5. By(q, c, live'[c], pc'[1], pc'[2])
    BY <1>4, <2>1, <2>2, <2>3, <2>4
  <2>6. QED
    BY <2>5
<1>8. ASSUME StartRun \/ ExecuteBranch, NEW c \in Cells PROVE live'[c] = NoText
  BY <1>8 DEF StartRun, ExecuteBranch, Nothing
<1>9. ASSUME phase' = phase, UNCHANGED runVars, NEW c \in Cells, live'[c] # NoText
      PROVE  \E q \in Annotations(prog) : By(q, c, live'[c], pc'[1], pc'[2])
  <2>1. phase = "run" /\ live' = live /\ pc' = pc
    BY <1>3, <1>9 DEF runVars
  <2>2. PICK q \in Annotations(prog) : By(q, c, live[c], pc[1], pc[2])
    BY <1>9, <2>1 DEF Live
  <2>3. By(q, c, live'[c], pc'[1], pc'[2])
    BY <2>1, <2>2
  <2>4. QED
    BY <2>3
<1>10. QED
  <2> HIDE DEF By
  <2>1. phase' = "run" => ~Resolve /\ ~Scan
    BY ResolveSteps, ScanSteps
  <2>2. QED
    BY <1>3, <1>5, <1>6, <1>7, <1>8, <1>9, <2>1, OtherSteps

(* What the loads promise of assertions that still cover them: exactly the *)
(* text of the assertion of the block that covers the variable, in every   *)
(* function whose names are resolved as in C and whose stores the walk     *)
(* recognizes.                                                             *)
LEMMA CoveredByOne ==
    ASSUME Layout, Machine, OneClaim, Sourced, Kept, Live, AtInstruction("load"),
           live[At(pc).cell] # NoText, At(pc).ptr = At(pc).cell
    PROVE  pc \in DOMAIN metadata /\ metadata[pc] = GetAnnotation(RangePair(live[At(pc).cell]))
<1> DEFINE v == At(pc).ptr
<1>1. /\ prog \in Programs /\ phase = "run" /\ todo = {} /\ pc \in Positions(prog) /\ At(pc).k = "load"
      /\ pc \in Loads(prog) /\ v \in Cells
  BY PcFacts, InstructionFacts DEF Layout, Loads, At
<1>2. PICK q \in Annotations(prog) :
        /\ q[1] = pc[1] /\ q[2] < pc[2] /\ Clear(q[1], q[2] + 1, pc[2] - 1, v)
        /\ Variable(q) = v /\ Says(q) = live[v] /\ Declared(v)
  BY <1>1 DEF Live
<1>3. pc \in DOMAIN metadata
  BY <1>1, <1>2 DEF Kept, Main
<1>4. PICK p \in Annotations(prog) :
        /\ v = Variable(p) /\ metadata[pc] = GetAnnotation(StatementRange(Says(p)))
        /\ Main(p, pc) \/ Branch(p, pc)
  BY <1>1, <1>3 DEF Sourced
<1>5. /\ Stops(q, v) /\ Stops(p, v)
      /\ q = <<q[1], q[2]>> /\ p = <<p[1], p[2]>>
      /\ q[2] \in Nat \ {0} /\ p[2] \in Nat \ {0} /\ pc[2] \in Nat
  BY <1>1, <1>2, <1>4, PositionFacts DEF Stops, Annotations
<1>6. Main(p, pc)
  <2>1. SUFFICES ASSUME Branch(p, pc) PROVE FALSE
    BY <1>4
  <2>2. Clear(pc[1], 1, pc[2] - 1, v)
    BY <1>4, <2>1 DEF Branch
  <2>3. q[2] \in 1 .. pc[2] - 1
    BY <1>2, <1>5
  <2>4. QED
    BY <1>2, <1>5, <2>2, <2>3 DEF Clear
<1>7. p = q
  <2>1. p[1] = pc[1] /\ p[2] < pc[2] /\ Clear(p[1], p[2] + 1, pc[2] - 1, v)
    BY <1>4, <1>6 DEF Main
  <2>2. ASSUME p[2] < q[2] PROVE FALSE
    <3>1. q[2] \in p[2] + 1 .. pc[2] - 1
      BY <1>2, <1>5, <2>2
    <3>2. QED
      BY <1>2, <1>5, <2>1, <3>1 DEF Clear
  <2>3. ASSUME q[2] < p[2] PROVE FALSE
    <3>1. p[2] \in q[2] + 1 .. pc[2] - 1
      BY <1>5, <2>1, <2>3
    <3>2. QED
      BY <1>2, <1>5, <2>1, <3>1 DEF Clear
  <2>4. p[2] = q[2]
    BY <1>5, <2>2, <2>3
  <2>5. QED
    BY <1>2, <1>5, <2>1, <2>4
<1>8. Says(q).kind # "other"
  BY <1>1, <1>2, OneName, DeclaredFacts
<1>9. QED
  BY <1>2, <1>3, <1>4, <1>7, <1>8 DEF StatementRange

-----------------------------------------------------------------------------
(* What is true of a variable that nothing else has changed: its           *)
(* assertion, while it covers the rest of its block, and after that in     *)
(* blocks that are entered from there only.                                *)
Nearby(q, v) == q[1] = pc[1] /\ q[2] < pc[2] /\ Clear(q[1], q[2] + 1, pc[2] - 1, v)

Away(q, v, B) ==
    /\ prog.succ[q[1]] # <<>> /\ EnteredFrom(q, B) /\ ToTheEnd(q) /\ pc[1] \in B
    /\ Clear(pc[1], 1, pc[2] - 1, v) \/ Unchanged(v)

Truth ==
    phase = "run" => \A q \in Annotations(prog) :
        Declared(Variable(q)) /\ Variable(q) \notin clobbered =>
            /\ Nearby(q, Variable(q)) => memory[Variable(q)] \in Denoted(Says(q))
            /\ \A B \in SUBSET DOMAIN prog.blocks :
                Away(q, Variable(q), B) => memory[Variable(q)] \in Denoted(Says(q))

(* What is clobbered is changed somewhere.                                 *)
Changed == \A c \in clobbered : ~Unchanged(c)

(* Every step keeps that.                                                  *)
LEMMA ChangedStep ==
    ASSUME Layout, Machine, Scoped, OneClaim, Changed, [Next]_vars
    PROVE  Changed'
<1>1. prog' = prog /\ prog \in Programs
  BY ResolveSteps, ScanSteps, OtherSteps DEF Layout
<1>2. \A v : Unchanged(v)' = Unchanged(v)
  BY <1>1, Static
<1>3. CASE clobbered' \subseteq clobbered
  BY <1>2, <1>3 DEF Changed
<1>4. CASE ExecuteStore \/ ExecuteCall
  <2>1. /\ pc \in Positions(prog) /\ At(pc).k \in {"store", "call"}
        /\ clobbered' \subseteq clobbered \cup {At(pc).cell}
    BY <1>4, CellChanged
  <2>2. ~Unchanged(At(pc).cell)
    BY <2>1 DEF Unchanged
  <2>3. QED
    BY <1>2, <2>1, <2>2 DEF Changed
<1>5. QED
  <2>1. PassAssertion => clobbered' \subseteq clobbered
    BY DEF PassAssertion
  <2>2. StartRun \/ ExecuteLoad \/ ExecuteBranch \/ UNCHANGED runVars => clobbered' = clobbered
    BY DEF StartRun, ExecuteLoad, ExecuteBranch, runVars
  <2>3. QED
    BY <1>3, <1>4, <2>1, <2>2, OtherSteps

(* While execution goes on in the block, what covered a variable before    *)
(* covers it still if it does afterwards, and nothing in between has ended *)
(* a walk.                                                                 *)
LEMMA CoveredBefore ==
    ASSUME Layout, Machine, pc' = <<pc[1], pc[2] + 1>>, prog' = prog,
           NEW q \in Annotations(prog), NEW v, v = Variable(q), pc \in Positions(prog)
    PROVE  /\ Nearby(q, v)' /\ q # pc => ~Stops(pc, v) /\ Nearby(q, v)
           /\ \A B \in SUBSET DOMAIN prog.blocks :
                Away(q, v, B)' => (~Stops(pc, v) \/ Unchanged(v)) /\ Away(q, v, B)
<1>1. /\ pc'[1] = pc[1] /\ pc'[2] = pc[2] + 1 /\ pc = <<pc[1], pc[2]>> /\ pc[2] \in Nat \ {0}
      /\ q = <<q[1], q[2]>> /\ q[2] \in Nat /\ prog \in Programs
  BY PositionFacts DEF Machine, Layout, Annotations
<1>2. /\ \A b, i, j : Clear(b, i, j, v)' = Clear(b, i, j, v)
      /\ Unchanged(v)' = Unchanged(v) /\ ToTheEnd(q)' = ToTheEnd(q)
      /\ \A B : EnteredFrom(q, B)' = EnteredFrom(q, B)
  BY Static
<1>3. ASSUME Nearby(q, v)', q # pc
      PROVE  ~Stops(pc, v) /\ Nearby(q, v)
  <2>1. q[1] = pc[1] /\ q[2] < pc[2] + 1 /\ Clear(q[1], q[2] + 1, (pc[2] + 1) - 1, v)
    BY <1>1, <1>2, <1>3 DEF Nearby
  <2>2. q[2] < pc[2]
    BY <1>1, <1>3, <2>1
  <2>3. q[2] + 1 \in Nat /\ q[2] + 1 <= pc[2]
    BY <1>1, <2>2
  <2>4. Clear(q[1], q[2] + 1, pc[2] - 1, v) /\ ~Stops(<<q[1], pc[2]>>, v)
    BY <1>1, <2>1, <2>3, ClearOn
  <2>5. ~Stops(pc, v)
    BY <1>1, <2>1, <2>4
  <2>6. QED
    BY <2>1, <2>2, <2>4, <2>5 DEF Nearby
<1>4. ASSUME NEW B \in SUBSET DOMAIN prog.blocks, Away(q, v, B)'
      PROVE  (~Stops(pc, v) \/ Unchanged(v)) /\ Away(q, v, B)
  <2>1. /\ prog.succ[q[1]] # <<>> /\ EnteredFrom(q, B) /\ ToTheEnd(q) /\ pc[1] \in B
        /\ Clear(pc[1], 1, (pc[2] + 1) - 1, v) \/ Unchanged(v)
    BY <1>1, <1>2, <1>4 DEF Away
  <2>2. CASE Clear(pc[1], 1, (pc[2] + 1) - 1, v)
    <3>1. 1 \in Nat /\ pc[2] \in Nat /\ 1 <= pc[2]
      BY <1>1
    <3>2. Clear(pc[1], 1, pc[2] - 1, v) /\ ~Stops(<<pc[1], pc[2]>>, v)
      BY <2>2, <3>1, ClearOn
    <3>3. QED
      BY <1>1, <2>1, <3>2 DEF Away
  <2>3. CASE Unchanged(v)
    BY <2>1, <2>3 DEF Away
  <2>4. QED
    BY <2>1, <2>2, <2>3
<1>5. QED
  BY <1>3, <1>4

(* So what was true of the variable is true as long as its value stays.    *)
LEMMA StillTrue ==
    ASSUME Layout, Machine, Truth, phase = "run", pc' = <<pc[1], pc[2] + 1>>, prog' = prog,
           NEW q \in Annotations(prog), NEW v, v = Variable(q), Declared(v), v \notin clobbered,
           pc \in Positions(prog)
    PROVE  /\ Nearby(q, v)' /\ q # pc => memory[v] \in Denoted(Says(q))
           /\ \A B \in SUBSET DOMAIN prog.blocks : Away(q, v, B)' => memory[v] \in Denoted(Says(q))
BY CoveredBefore DEF Truth

(* Every step keeps the truth.                                             *)
LEMMA TruthStep ==
    ASSUME Layout, Machine, OneClaim, Scoped, Watched, Changed, Truth, [Next]_vars
    PROVE  Truth'
<1>1. prog' = prog /\ prog \in Programs
  BY ResolveSteps, ScanSteps, OtherSteps DEF Layout
<1>2. /\ Annotations(prog)' = Annotations(prog)
      /\ \A q : Variable(q)' = Variable(q) /\ Says(q)' = Says(q)
      /\ \A v : Declared(v)' = Declared(v)
  BY <1>1, Static DEF Says, Declared
<1>3. SUFFICES ASSUME phase' = "run", NEW q \in Annotations(prog), NEW v, v = Variable(q), Declared(v),
                      v \notin clobbered'
               PROVE  /\ Nearby(q, v)' => memory'[v] \in Denoted(Says(q))
                      /\ \A B \in SUBSET DOMAIN prog.blocks :
                            Away(q, v, B)' => memory'[v] \in Denoted(Says(q))
  <2>1. ASSUME phase' = "run", NEW q \in Annotations(prog), Declared(Variable(q)), Variable(q) \notin clobbered'
        PROVE  /\ Nearby(q, Variable(q))' => memory'[Variable(q)] \in Denoted(Says(q))
               /\ \A B \in SUBSET DOMAIN prog.blocks :
                    Away(q, Variable(q), B)' => memory'[Variable(q)] \in Denoted(Says(q))
    BY <1>2, <1>3, <2>1
  <2>2. QED
    BY <1>1, <1>2, <2>1 DEF Truth, Denoted, Nearby, Away
<1>4. q[2] \in Nat \ {0} /\ q[1] \in DOMAIN prog.blocks /\ q \in Positions(prog) /\ v \in Cells
  BY <1>1, <1>3, PositionFacts, DeclaredFacts DEF Annotations
<1>5. CASE StartRun
  <2>1. pc' = <<1, 1>>
    BY <1>5 DEF StartRun, Machine
  <2>2. ~Nearby(q, v)'
    BY <1>4, <2>1 DEF Nearby
  <2>3. ASSUME NEW B \in SUBSET DOMAIN prog.blocks PROVE ~Away(q, v, B)'
    <3>1. EnteredFrom(q, B)' => 1 \notin B
      BY <1>1, Static DEF EnteredFrom
    <3>2. QED
      BY <2>1, <3>1 DEF Away
  <2>4. QED
    BY <2>2, <2>3
<1>6. CASE PassAssertion
  <2>1. PICK u : u = Variable(pc)
    OBVIOUS
  <2>2. /\ pc \in Annotations(prog) /\ pc' = <<pc[1], pc[2] + 1>> /\ memory' = memory /\ phase = "run"
        /\ Declared(u) => memory[u] \in Denoted(Says(pc)) /\ clobbered' = clobbered \ {u}
        /\ ~Declared(u) => clobbered' = clobbered
    BY <1>6, <2>1, AssertionPassed
  <2>3. u = v \/ v \notin clobbered
    BY <1>3, <2>2
  <2>4. u = v => Stops(pc, v) /\ memory[v] \in Denoted(Says(pc))
    BY <1>3, <2>1, <2>2 DEF Stops
  <2>5. pc \in Positions(prog)
    BY <2>2 DEF Annotations
  <2>6. ASSUME v \notin clobbered
        PROVE  /\ Nearby(q, v)' => memory'[v] \in Denoted(Says(q))
               /\ \A B \in SUBSET DOMAIN prog.blocks : Away(q, v, B)' => memory'[v] \in Denoted(Says(q))
    <3>1. q = pc => memory'[v] \in Denoted(Says(q))
      BY <1>3, <2>1, <2>2, <2>4
    <3>2. QED
      BY <1>1, <1>3, <2>2, <2>5, <2>6, <3>1, StillTrue
  <2>7. ASSUME v \in clobbered
        PROVE  /\ Nearby(q, v)' => memory'[v] \in Denoted(Says(q))
               /\ \A B \in SUBSET DOMAIN prog.blocks : Away(q, v, B)' => memory'[v] \in Denoted(Says(q))
    <3>1. u = v /\ Stops(pc, v) /\ memory[v] \in Denoted(Says(pc)) /\ ~Unchanged(v)
      BY <2>3, <2>4, <2>7 DEF Changed
    <3>2. Nearby(q, v)' => q = pc
      BY <1>1, <1>3, <2>2, <2>5, <3>1, CoveredBefore
    <3>3. \A B \in SUBSET DOMAIN prog.blocks : ~Away(q, v, B)'
      BY <1>1, <1>3, <2>2, <2>5, <3>1, CoveredBefore
    <3>4. QED
      BY <2>2, <3>1, <3>2, <3>3
  <2>8. QED
    BY <2>6, <2>7
<1>7. CASE ExecuteLoad
  <2>1. pc \in Positions(prog) /\ At(pc).k = "load" /\ phase = "run"
    BY <1>7, PcFacts DEF ExecuteLoad
  <2>2. pc' = <<pc[1], pc[2] + 1>> /\ memory' = memory /\ clobbered' = clobbered
    BY <1>7 DEF ExecuteLoad, Step
  <2>3. q # pc
    BY <2>1 DEF Annotations, At
  <2>4. QED
    BY <1>1, <1>3, <2>1, <2>2, <2>3, StillTrue
<1>8. CASE ExecuteStore \/ ExecuteCall
  <2> DEFINE c == At(pc).cell
  <2>1. /\ pc \in Positions(prog) /\ At(pc).k \in {"store", "call"} /\ c \in Cells
        /\ pc' = <<pc[1], pc[2] + 1>> /\ phase = "run"
        /\ \A u \in Cells \ {c} : memory'[u] = memory[u]
        /\ \/ At(pc).k = "store" /\ At(pc).ptr = c /\ clobbered' = clobbered \ {c}
           \/ clobbered' = clobbered \cup {c}
    BY <1>8, CellChanged
  <2>2. q # pc
    BY <2>1 DEF Annotations, At
  <2>3. CASE v = c
    <3>1. At(pc).k = "store" /\ At(pc).ptr = v
      BY <1>3, <2>1, <2>3
    <3>2. Stops(pc, v) /\ ~Unchanged(v)
      BY <1>1, <1>3, <2>1, <2>3, <3>1, StoreStops DEF Unchanged
    <3>3. ~Nearby(q, v)' /\ \A B \in SUBSET DOMAIN prog.blocks : ~Away(q, v, B)'
      BY <1>1, <1>3, <2>1, <2>2, <3>2, CoveredBefore
    <3>4. QED
      BY <3>3
  <2>4. CASE v # c
    <3>1. v \notin clobbered /\ memory'[v] = memory[v]
      BY <1>3, <1>4, <2>1, <2>4
    <3>2. QED
      BY <1>1, <1>3, <2>1, <2>2, <3>1, StillTrue
  <2>5. QED
    BY <2>3, <2>4
<1>9. CASE ExecuteBranch
  <2>1. phase = "run" /\ pc[2] > Len(Block(pc[1])) /\ UNCHANGED <<memory, clobbered>>
    BY <1>9 DEF ExecuteBranch
  <2>2. PICK i \in DOMAIN prog.succ[pc[1]] : pc' = <<prog.succ[pc[1]][i], 1>>
    BY <1>9 DEF ExecuteBranch
  <2>3. PICK s : s = prog.succ[pc[1]][i] /\ s \in Seqs!ToSet(prog.succ[pc[1]])
    BY DEF Seqs!ToSet
  <2>4. pc'[1] = s /\ pc'[2] = 1
    BY <2>2, <2>3
  <2>5. /\ pc[1] \in DOMAIN prog.blocks /\ Len(Block(pc[1])) \in Nat /\ pc[2] = Len(Block(pc[1])) + 1
    BY <1>1, <2>1, PositionFacts DEF Machine
  <2>6. ~Nearby(q, v)'
    BY <1>4, <2>4 DEF Nearby
  <2>7. ASSUME NEW B \in SUBSET DOMAIN prog.blocks, Away(q, v, B)' PROVE memory[v] \in Denoted(Says(q))
    <3>1. /\ prog.succ[q[1]] # <<>> /\ EnteredFrom(q, B) /\ ToTheEnd(q) /\ s \in B
      BY <1>1, <2>4, <2>7, Static DEF Away
    <3>2. \/ pc[1] = q[1]
          \/ pc[1] \in B /\ (Clear(pc[1], 1, Len(Block(pc[1])), v) \/ Unchanged(v))
      BY <1>3, <2>3, <2>5, <3>1 DEF EnteredFrom
    <3>3. CASE pc[1] = q[1]
      <4>1. q[2] < pc[2]
        BY <1>1, <1>4, <2>5, <3>3, PositionFacts
      <4>2. Len(Block(q[1])) = pc[2] - 1
        BY <2>5, <3>3
      <4>3. Clear(q[1], q[2] + 1, pc[2] - 1, v)
        BY <1>3, <3>1, <4>2 DEF ToTheEnd
      <4>4. Nearby(q, v)
        BY <3>3, <4>1, <4>3 DEF Nearby
      <4>5. QED
        BY <1>3, <2>1, <4>4 DEF Truth
    <3>4. CASE pc[1] \in B /\ (Clear(pc[1], 1, Len(Block(pc[1])), v) \/ Unchanged(v))
      <4>1. Len(Block(pc[1])) = pc[2] - 1
        BY <2>5
      <4>2. Away(q, v, B)
        BY <3>1, <3>4, <4>1 DEF Away
      <4>3. QED
        BY <1>3, <2>1, <4>2 DEF Truth
    <3>5. QED
      BY <3>2, <3>3, <3>4
  <2>8. QED
    BY <2>1, <2>6, <2>7
<1>10. CASE phase' = phase /\ UNCHANGED runVars
  <2>1. phase = "run" /\ memory' = memory /\ pc' = pc /\ clobbered' = clobbered
    BY <1>3, <1>10 DEF runVars
  <2>2. Nearby(q, v)' => Nearby(q, v)
    BY <1>1, <2>1, Static DEF Nearby
  <2>3. \A B : Away(q, v, B)' => Away(q, v, B)
    BY <1>1, <2>1, Static DEF Away
  <2>4. QED
    BY <1>3, <2>1, <2>2, <2>3 DEF Truth
<1>11. QED
  <2>1. ~Resolve /\ ~Scan
    BY <1>3, ResolveSteps, ScanSteps
  <2>2. QED
    BY <1>3, <1>5, <1>6, <1>7, <1>8, <1>9, <1>10, <2>1, OtherSteps

(* A load with metadata reads what the assertion behind it says, and the   *)
(* text of the metadata says no more.                                      *)
LEMMA ReadsWithin ==
    ASSUME Layout, Machine, OneClaim, Sourced, Truth, Understood, AtInstruction("load"),
           pc \in DOMAIN metadata, At(pc).cell \notin clobbered
    PROVE  Holds(GetConstantRange(metadata[pc]), memory[At(pc).cell])
<1>1. /\ prog \in Programs /\ phase = "run" /\ pc \in Positions(prog) /\ At(pc).k = "load"
      /\ pc \in Loads(prog) /\ At(pc).ptr \in Nat \ {Hash} /\ Scoped
  BY PcFacts, InstructionFacts DEF Layout, Loads, At, Understood
<1>2. PICK q \in Annotations(prog) :
        /\ At(pc).ptr = Variable(q) /\ metadata[pc] = GetAnnotation(StatementRange(Says(q)))
        /\ Main(q, pc) \/ Branch(q, pc)
  BY DEF Sourced
<1> DEFINE v == Variable(q)
           t == Says(q)
<1>3. t.kind # "other"
  BY <1>1, <1>2, OneName
<1>4. v # NoName
  BY <1>1, <1>2 DEF Understood
<1>5. Declared(v) /\ At(pc).cell = v /\ v \notin clobbered
  BY <1>1, <1>2, <1>3, <1>4, ClaimAbout, DeclaredFacts
<1>6. memory[v] \in Denoted(t)
  <2>1. CASE Main(q, pc)
    <3>1. Nearby(q, v)
      BY <2>1 DEF Main, Nearby
    <3>2. QED
      BY <1>1, <1>5, <3>1 DEF Truth
  <2>2. CASE Branch(q, pc)
    <3>1. prog.succ[q[1]] # <<>> /\ ToTheEnd(q) /\ pc[1] = prog.succ[q[1]][1] /\ Clear(pc[1], 1, pc[2] - 1, v)
      BY <2>2 DEF Branch, FirstSuccessor
    <3>2. PICK B \in SUBSET DOMAIN prog.blocks : pc[1] \in B /\ EnteredFrom(q, B)
      BY <3>1 DEF Understood
    <3>3. Away(q, v, B)
      BY <3>1, <3>2 DEF Away
    <3>4. QED
      BY <1>1, <1>5, <3>3 DEF Truth
  <2>3. QED
    BY <1>2, <2>1, <2>2
<1>7. t.kind \in {"eq", "in", "oneof"} /\ t.lo \in Int /\ t.hi \in Int
  <2>1. 1 \in DOMAIN At(q).stmts
    BY <1>1, OneName
  <2>2. QED
    BY <1>1, <1>3, <2>1, SourceFacts DEF Says
<1>8. Printable(t)
  BY <1>3 DEF Understood, Says
<1>9. StatementRange(t) = RangePair(t)
  BY <1>3 DEF StatementRange
<1>10. SaysOf(GetAnnotation(RangePair(t)), memory[v])
  <2>1. PICK x : x = memory[v] /\ x \in t.lo .. t.hi
    BY <1>6 DEF Denoted
  <2> HIDE DEF t, v
  <2>2. QED
    BY <1>7, <1>8, <2>1, TextPrinted
<1>11. QED
  BY <1>2, <1>5, <1>9, <1>10 DEF SaysOf

(* The inductive invariant.  What it says of metadata needs assertions of  *)
(* one statement, and what it says of the execution the two hypotheses on  *)
(* names.                                                                  *)
IInv ==
    /\ Layout /\ Contents /\ Machine /\ Entries
    /\ OneClaim => Sourced /\ Kept
    /\ Scoped /\ OneClaim => Changed
    /\ Scoped /\ Watched => Live /\ Truth

(* Assertions that are watched are single statements.                      *)
LEMMA WatchedIsOne == Watched => OneClaim
BY DEF Watched, OneClaim

(* It holds in the beginning, and every step keeps it.                     *)
LEMMA Inductive == Spec => []IInv
<1>1. Init => IInv
  <2>1. SUFFICES ASSUME Init PROVE IInv
    OBVIOUS
  <2>2. /\ DOMAIN safecodeMap = {} /\ DOMAIN metadata = {} /\ phase = "resolve"
        /\ clobbered = {}
    BY <2>1 DEF Init, PassInit
  <2>3. QED
    BY <2>1, <2>2, InitLayout DEF IInv, Entries, Sourced, Kept, Changed, Live, Truth
<1>2. IInv /\ [Next]_vars => IInv'
  <2>1. SUFFICES ASSUME IInv, [Next]_vars PROVE IInv'
    OBVIOUS
  <2>2. Layout' /\ Contents' /\ Machine' /\ Entries'
    BY <2>1, LayoutStep, ContentsStep, MachineStep, EntriesStep DEF IInv
  <2>3. prog' = prog
    BY <2>1, ResolveSteps, ScanSteps, OtherSteps DEF IInv
  <2>4. /\ Annotations(prog)' = Annotations(prog) /\ \A q : At(q)' = At(q)
        /\ (Scoped' <=> Scoped) /\ (Watched' <=> Watched)
    BY <2>3, Static
  <2>5. OneClaim' <=> OneClaim
    BY <2>4 DEF OneClaim
  <2>6. OneClaim => Sourced' /\ Kept'
    BY <2>1, SourcedStep DEF IInv
  <2>7. Scoped /\ OneClaim => Changed'
    BY <2>1, ChangedStep DEF IInv
  <2>8. Scoped /\ Watched => Live' /\ Truth'
    BY <2>1, LiveStep, TruthStep, WatchedIsOne DEF IInv
  <2>9. QED
    BY <2>2, <2>4, <2>5, <2>6, <2>7, <2>8 DEF IInv
<1>3. QED
  BY <1>1, <1>2, PTL DEF Spec

(* The value a load with metadata reads lies in the range the metadata     *)
(* stands for, unless a call or a store that the walk does not look at has *)
(* changed it: in every function whose names are resolved as in C, whose   *)
(* stores are recognized, whose assertions survive being printed and read, *)
(* and whose first successors are entered from the assertion's block.      *)
THEOREM LoadsReadWithinRange == Spec => [](Understood => LoadWithinRange)
<1>1. IInv /\ Understood => LoadWithinRange
  <2>1. SUFFICES ASSUME IInv, Understood, AtInstruction("load"), pc \in DOMAIN metadata,
                        At(pc).cell \notin clobbered
                 PROVE  Holds(GetConstantRange(metadata[pc]), memory[At(pc).cell])
    BY DEF LoadWithinRange
  <2>2. Scoped /\ Watched /\ OneClaim
    BY <2>1, WatchedIsOne DEF Understood
  <2>3. QED
    BY <2>1, <2>2, ReadsWithin DEF IInv
<1>2. QED
  BY <1>1, Inductive, PTL

(* A load of a variable that an assertion of its block still covers        *)
(* carries exactly that assertion, in every function whose names are       *)
(* resolved as in C and whose stores are recognized, however its blocks    *)
(* follow each other.                                                      *)
THEOREM CoveredLoadsAnnotated == Spec => [](Scoped /\ Watched => CoveredLoadAnnotated)
<1>1. IInv /\ Scoped /\ Watched => CoveredLoadAnnotated
  <2>1. SUFFICES ASSUME IInv, Scoped, Watched, AtInstruction("load"),
                        live[At(pc).cell] # NoText, At(pc).ptr = At(pc).cell
                 PROVE  /\ pc \in DOMAIN metadata
                        /\ metadata[pc] = GetAnnotation(RangePair(live[At(pc).cell]))
    BY DEF CoveredLoadAnnotated
  <2>2. QED
    BY <2>1, CoveredByOne, WatchedIsOne DEF IInv
<1>2. QED
  BY <1>1, Inductive, PTL
=============================================================================
