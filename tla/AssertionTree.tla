--------------------------- MODULE AssertionTree ---------------------------
(***************************************************************************)
(* How the mapping pass reads one assertion (getRangePair): the syntax     *)
(* tree the parser made is matched against three forms.  The first value   *)
(* of a disjunction is searched for down the left operands, one step of    *)
(* the loop a state.  What no form matches is the range [0, 1) of the name *)
(* "#", which no variable has.                                             *)
(***************************************************************************)
EXTENDS AcslText

CONSTANTS
    Env,        \* the values the names have where the assertion stands
    Source      \* the assertions Frama-C writes, as formulas

VARIABLES
    tree,       \* the expression of the assertion
    at,         \* tempExp, where the search stands
    stage,      \* where the annotation is
    name,       \* the name the range is about
    range       \* the last range made of the assertion

Hash == "#"

Identifier(n) == [node |-> "identifier", name |-> n]

Integer(n) == [node |-> "integer", value |-> ReadInteger(n)]

Binary(lhs, op, rhs) == [node |-> "binary", lhs |-> lhs, op |-> op, rhs |-> rhs]

(* A formula is a tree, the text of AcslText it stands for, and the        *)
(* environments it is true in.                                             *)
Formula(t, text, true) == [tree |-> t, text |-> text, true |-> true]

TextOther == [kind |-> "other", lo |-> 0, hi |-> 0]

IsBinary(t) == t.node = "binary"

Relates(t, op) ==                       \* name op constant
    IsBinary(t) /\ t.op = op /\ t.lhs.node = "identifier" /\ t.rhs.node = "integer"

IsInterval(t) ==
    /\ IsBinary(t) /\ t.op = "&&"
    /\ Relates(t.lhs, ">=") /\ Relates(t.rhs, "<=")
    /\ t.lhs.lhs.name = t.rhs.lhs.name

IsDisjunction(t) == IsBinary(t) /\ t.op = "||" /\ IsBinary(t.lhs) /\ IsBinary(t.rhs)

Yield(n, r) ==
    /\ IF Accepted(r)
       THEN range' = r /\ name' = n /\ stage' = "mapped"
       ELSE stage' = "aborted" /\ UNCHANGED <<range, name>>
    /\ UNCHANGED <<tree, at>>

Unread == Yield(Hash, MkRange(W, 0, 1))

ReadEquality ==
    /\ stage = "written"
    /\ Relates(tree, "==")
    /\ LET v == tree.rhs.value
       IN  Yield(tree.lhs.name, MkRange(W, Word64(v), Plus(W, Word64(v), 1)))

ReadInterval ==
    /\ stage = "written"
    /\ IsInterval(tree)
    /\ Yield(tree.lhs.lhs.name,
             MkRange(W, Word64(tree.lhs.rhs.value), Word64(tree.rhs.rhs.value)))

ReadNothing ==
    /\ stage = "written"
    /\ ~Relates(tree, "==") /\ ~IsInterval(tree) /\ ~IsDisjunction(tree)
    /\ Unread

StartSearch ==
    /\ stage = "written"
    /\ IsDisjunction(tree)
    /\ stage' = "search"
    /\ at' = tree.lhs
    /\ UNCHANGED <<tree, name, range>>

(* Mutant: the search goes on from where it started.                       *)
DescendFromRoot ==
    /\ stage = "search"
    /\ at.op = "||"
    /\ at' = tree.lhs
    /\ UNCHANGED <<tree, stage, name, range>>

(* A left operand that is not a binary expression leaves the search where  *)
(* it is, and the loop goes round again.                                   *)
Descend ==
    /\ stage = "search"
    /\ at.op = "||"
    /\ at' = IF IsBinary(at.lhs) THEN at.lhs ELSE at
    /\ UNCHANGED <<tree, stage, name, range>>

(* Mutant: the names of the first and the last value are not compared.     *)
FoundAnyName ==
    /\ Relates(tree.rhs, "==")
    /\ Relates(at, "==")

(* Both ends were found, and they are values of one name.                  *)
Found ==
    /\ Relates(tree.rhs, "==")
    /\ Relates(at, "==")
    /\ at.lhs.name = tree.rhs.lhs.name

StopSearch ==
    /\ stage = "search"
    /\ at.op # "||"
    /\ IF Found
       THEN Yield(at.lhs.name, MkRange(W, FromSigned(W, ToInt(at.rhs.value)),
                                          FromSigned(W, ToInt(tree.rhs.rhs.value))))
       ELSE Unread

Read == ReadEquality \/ ReadInterval \/ ReadNothing \/ StartSearch \/ Descend \/ StopSearch
=============================================================================
