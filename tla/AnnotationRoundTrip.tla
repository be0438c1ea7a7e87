------------------------ MODULE AnnotationRoundTrip ------------------------
(***************************************************************************)
(* The life of one annotation, from the assertion Frama-C wrote to the     *)
(* range the optimisations read.  AnnotationMapping reads the assertion    *)
(* (Map) and prints it as the metadata of a load (Attach); every consumer  *)
(* parses that metadata (Parse); AnnotationPropagation prints the range of *)
(* a result (Emit), here a result that equals its operand, so that the     *)
(* text may be printed and parsed any number of times.  A store of a       *)
(* constant starts a life of its own (the second disjunct of Init).        *)
(***************************************************************************)
EXTENDS AssertionTree

CONSTANT
    Stored          \* the constants the program stores

VARIABLES
    env,            \* the values of the names where the assertion holds
    text            \* the text of the annotation, while it is one

vars == <<tree, at, stage, name, range, env, text>>

NoRange == FullSet(W)

(* A range is a legal one of 32 or 64 bits at every stage, whatever was    *)
(* printed and parsed before: no conversion fails the assertion of the     *)
(* constructor (getRangePair, getConstantRange).                           *)
TypeOK ==
    /\ env \in Env
    /\ stage \in {"written", "search", "mapped", "printed", "parsed", "emitted"}
    /\ name \in DOMAIN env \cup {Hash}
    /\ text.kind \in {"eq", "in", "oneof", "other"}
    /\ range \in Ranges(W) \cup Ranges(N)

Init ==
    /\ range = NoRange
    /\ at = Identifier(Hash)
    /\ \/ \E f \in Source :
             /\ stage = "written"
             /\ tree = f.tree /\ text = f.text
             /\ env \in f.true
             /\ name = Hash
       \/ \E n \in UNION {DOMAIN e : e \in Env} :
             /\ stage = "emitted"
             /\ env \in {e \in Env : e[n] \in Stored}
             /\ name = n
             /\ tree = Identifier(n)
             /\ text = TextEq(env[n])

Map == Read /\ UNCHANGED <<env, text>>

Attach ==
    /\ stage = "mapped"
    /\ name # Hash
    /\ text' = GetAnnotation(range)
    /\ stage' = "printed"
    /\ UNCHANGED <<tree, at, name, range, env>>

Parse ==
    /\ stage \in {"printed", "emitted"}
    /\ IF Accepted(GetConstantRange(text))
       THEN range' = GetConstantRange(text) /\ stage' = "parsed"
       ELSE stage' = "aborted" /\ UNCHANGED range
    /\ UNCHANGED <<tree, at, name, env, text>>

Emit ==
    /\ stage = "parsed"
    /\ text' = EmitRange(range)
    /\ stage' = "emitted"
    /\ UNCHANGED <<tree, at, name, range, env>>

Next == Map \/ Attach \/ Parse \/ Emit

(* The compiler runs the mapping pass on one thread to its end.            *)
Spec == Init /\ [][Next]_vars /\ WF_vars(Map)

-----------------------------------------------------------------------------
(* However often an annotation was printed and parsed, the range that a    *)
(* consumer reads still holds of the value Frama-C made its claim about.   *)
(* (getRangePair, getAnnotation, getConstantRange and the propagation pass *)
(* disagree on whether an upper bound is exclusive and on signedness.)     *)
ValueKept == stage = "parsed" => Holds(range, env[name])

(* Printing a range of 64 bits and parsing it back loses no member but the *)
(* smallest integer, whose digits atol cannot read; and a range of 32 bits *)
(* becomes one of 64 that holds of the same numbers read as int            *)
(* (AnnotationPropagation.cpp:347-364, ConstantRangeUtils.cpp:106-112).    *)
Readable(r) == {Signed(r.m, v) : v \in Members(r)} \ {-SignedMin(W)}

NothingNarrowed ==
    [][stage = "emitted" /\ range # NoRange =>
          Readable(range) \subseteq Readable(range')]_vars

(* The mapping pass makes of a tree the range that RangePair makes of its  *)
(* text, by which the other modules know it; and of a tree in none of the  *)
(* three forms, whichever operands are in the wrong place or of another    *)
(* name, a range that no variable gets (getRangePair).                     *)
FormsRead ==
    stage = "mapped" =>
        IF text.kind = "other"
        THEN name = Hash
        ELSE name # Hash /\ range = RangePair(text)

(* The search for the first value of a disjunction comes to an end         *)
(* (AnnotationMapping.cpp:1200-1232).                                      *)
SearchEnds == (stage = "search") ~> (stage # "search")
=============================================================================
