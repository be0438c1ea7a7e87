----------------------------- MODULE RemoveIOC -----------------------------
(***************************************************************************)
(* The pass that removes integer overflow checks the ranges show to be     *)
(* redundant (RemoveIOC.cpp), beside one execution of the function.        *)
(*                                                                         *)
(* The front end compiles a checked operation to a call of llvm.s/u        *)
(* add/sub/mul.with.overflow, the extraction of its value, its overflow    *)
(* flag, and a branch at the end of the block; the order of the two        *)
(* extractions and of the two successors depends on the option or builtin  *)
(* that asks for the check (Compiled).  The pass visits the                *)
(* calls in layout order (KeepCheck, ReplaceCheck), puts a plain operation *)
(* before a redundant one and lets every user of the value use the         *)
(* operation; it collects what becomes dead in dequeToDel, the new jumps   *)
(* in dequeToInsert, and empties both from the back when the walk is over  *)
(* (RemoveLast).                                                           *)
(***************************************************************************)
EXTENDS AcslText, Sequences, FiniteSets

CONSTANT Functions      \* the functions the pass may be run on

VARIABLES
    checks,             \* block -> the checked operation that ends it
    body,               \* block -> its instructions
    range,              \* block -> the text on the operation put in, or NoText
    cursor,             \* the block the walk is at
    dequeToDel,         \* the instructions to erase: pairs <<block, kind>>
    dequeToInsert,      \* the targets of the jumps to insert
    status              \* "walk", "remove", "done" or "aborted"

vars == <<checks, body, range, cursor, dequeToDel, dequeToInsert, status>>

-----------------------------------------------------------------------------
(* A block is the record of its check: the form the front end gives it,    *)
(* the operation, the modulus of its type and two operands.  An operand is *)
(* a load with the text of its metadata and the word it reads, the value   *)
(* of the check of an earlier block, the plain operation that replaced     *)
(* one, or a literal.                                                      *)
Signeds == {"smul", "sadd", "ssub"}

Unsigneds == {"umul", "uadd", "usub"}

NoText == [kind |-> "none", lo |-> 0, hi |-> 0]

LoadOf(md, v) == [from |-> "load", md |-> md, word |-> v, block |-> 0]

Literal(v) == [from |-> "literal", md |-> NoText, word |-> v, block |-> 0]

ValueOf(b) == [from |-> "value", md |-> NoText, word |-> 0, block |-> b]

Check(op, ty, a, b) == [form |-> "trap", op |-> op, ty |-> ty, args |-> <<a, b>>]

WithForm(f, c) == [c EXCEPT !.form = f]

Texts == {NoText} \cup [kind : {"eq", "in"}, lo : Int, hi : Int]

Sources == [from : {"load", "literal", "value", "operation"}, md : Texts, word : Nat, block : Nat]

Checks ==
    [form : {"trap", "handler", "builtin", "indirect"}, op : Signeds \cup Unsigneds,
     ty : {N, W}, args : [1 .. 2 -> Sources]]

(* What block b of f may use: a word of its type, of which the metadata    *)
(* holds if it has any, or the value of an earlier check of its type.      *)
Usable(f, b, o) ==
    /\ o.from # "operation" /\ o.word \in Word(f[b].ty)
    /\ o.md # NoText =>
         /\ o.from = "load"
         /\ Accepted(GetConstantRange(o.md))
         /\ Holds(GetConstantRange(o.md), Signed(f[b].ty, o.word))
    /\ o.from = "value" =>
         o.block \in 1 .. b - 1 /\ f[o.block].ty = f[b].ty /\ f[o.block].form # "indirect"

ASSUME FunctionsAssumption ==
    \A f \in Functions :
        f \in Seq(Checks) /\ \A b \in DOMAIN f : \A i \in 1 .. 2 : Usable(f, b, f[b].args[i])

Blocks == DOMAIN checks

(* Control goes on in the next block; the block where it goes on overflow  *)
(* is named by the negative number.                                        *)
Continuation(b) == b + 1

OnOverflow(b) == -b

Instruction(kind, targets) == [kind |-> kind, targets |-> targets]

(* The instructions of a block; only terminators have targets.             *)
Call == Instruction("call", <<>>)
Extract == Instruction("value", <<>>)
Flag == Instruction("flag", <<>>)
Operation == Instruction("operation", <<>>)
IndirectCall == Instruction("indirect", <<>>)

Branch(yes, no) == Instruction("branch", <<yes, no>>)

Jump(target) == Instruction("jump", <<target>>)

Terminators == {"branch", "jump"}

(* The forms of a block: a check that traps or reports tests that there is *)
(* no overflow; one with a handler (-ftrapv-handler) tests that there is,  *)
(* and takes its value from a phi node in the continuation; the overflow   *)
(* builtins extract the flag before the value, and the program branches on *)
(* it; a call through a pointer has no check.                              *)
(* Mutant: the branch of a trap leads back to its own block.               *)
CompiledBack(f, b) ==
    CASE f = "trap"     -> <<Call, Extract, Flag, Branch(b, OnOverflow(b))>>
      [] f = "handler"  -> <<Call, Extract, Flag, Branch(OnOverflow(b), Continuation(b))>>
      [] f = "builtin"  -> <<Call, Flag, Extract, Branch(OnOverflow(b), Continuation(b))>>
      [] f = "indirect" -> <<IndirectCall, Jump(Continuation(b))>>

Compiled(f, b) ==
    CASE f = "trap"     -> <<Call, Extract, Flag, Branch(Continuation(b), OnOverflow(b))>>
      [] f = "handler"  -> <<Call, Extract, Flag, Branch(OnOverflow(b), Continuation(b))>>
      [] f = "builtin"  -> <<Call, Flag, Extract, Branch(OnOverflow(b), Continuation(b))>>
      [] f = "indirect" -> <<IndirectCall, Jump(Continuation(b))>>

-----------------------------------------------------------------------------
(* The execution of the code as it is now: for each block the word its     *)
(* check computes and the block control goes to next, or has gone to when  *)
(* it never came to the block.                                             *)
ExactResult(op, m, x, y) ==
    LET number(w) == IF op \in Signeds THEN Signed(m, w) ELSE w
    IN  CASE op \in {"smul", "umul"} -> number(x) * number(y)
          [] op \in {"sadd", "uadd"} -> number(x) + number(y)
          [] op \in {"ssub", "usub"} -> number(x) - number(y)

OverflowsOn(op, m, x, y) ==
    ExactResult(op, m, x, y) \notin
        IF op \in Signeds THEN -SignedMin(m) .. SignedMax(m) ELSE Word(m)

(* The successor a block's terminator chooses.                             *)
Successor(b, overflow) ==
    LET last == body[b][Len(body[b])]
    IN  IF last.kind = "jump" \/ overflow # (checks[b].form = "trap")
        THEN last.targets[1] ELSE last.targets[2]

(* A handler returns a value, which the continuation uses; a plain signed  *)
(* operation that overflows has no defined outcome: control is nowhere.    *)
HandlerResult == 0

Nowhere == 0

(* What block b does when the blocks before it did what at says.           *)
Step(at, b) ==
    LET came     == at[b - 1]
        c        == checks[b]
        arg(i)   == IF c.args[i].from \in {"load", "literal"}
                    THEN c.args[i].word ELSE at[c.args[i].block].word
        overflow == c.form # "indirect" /\ OverflowsOn(c.op, c.ty, arg(1), arg(2))
        next     == Successor(b, overflow)
    IN  IF came.next # b THEN came
        ELSE IF overflow /\ c.op \in Signeds /\ body[b][Len(body[b])].kind = "jump"
        THEN [next |-> Nowhere, word |-> 0]
        ELSE IF c.form = "handler" /\ next = OnOverflow(b)
        THEN [next |-> Continuation(b), word |-> HandlerResult]
        ELSE [next |-> next, word |-> ExactResult(c.op, c.ty, arg(1), arg(2)) % c.ty]

Executed ==
    LET at[b \in 0 .. Len(checks)] == IF b = 0 THEN [next |-> 1, word |-> 0] ELSE Step(at, b)
    IN  at

Argument(b, i) ==
    LET o == checks[b].args[i]
    IN  IF o.from \in {"load", "literal"} THEN o.word ELSE Executed[o.block].word

Overflows(b) == OverflowsOn(checks[b].op, checks[b].ty, Argument(b, 1), Argument(b, 2))

Reached(b) == Executed[b - 1].next = b

-----------------------------------------------------------------------------
(* removeOverFlowCheck: the metadata of an argument, the range of the      *)
(* operation, and the limits at the width of the first range, from which   *)
(* the largest number is missing.                                          *)
TextOf(o) ==
    CASE o.from = "load"                 -> o.md
      [] o.from = "operation"            -> range[o.block]
      [] o.from \in {"value", "literal"} -> NoText

(* Mutant: the operands of a difference are swapped.                       *)
ResultRangeSwapped(op, a, b) ==
    CASE op \in {"smul", "umul"} -> Multiply(a, b)
      [] op \in {"sadd", "uadd"} -> Add(a, b)
      [] op \in {"ssub", "usub"} -> Sub(b, a)

ResultRange(op, a, b) ==
    CASE op \in {"smul", "umul"} -> Multiply(a, b)
      [] op \in {"sadd", "uadd"} -> Add(a, b)
      [] op \in {"ssub", "usub"} -> Sub(a, b)

Asserts(op, a, b) ==
    IF op \in {"smul", "umul"} THEN MultiplyAsserts(a, b) ELSE AddAsserts(a, b)

(* Mutant: the unsigned limit for every operation.                         *)
LimitUnsigned(op, m) == MkRange(m, 0, m - 1)

Limit(op, m) ==
    IF op \in Signeds THEN MkRange(m, SignedMin(m), SignedMax(m)) ELSE MkRange(m, 0, m - 1)

Known(b) == checks[b].form # "indirect" /\ \A i \in 1 .. 2 : TextOf(checks[b].args[i]) # NoText

OperandRange(b, i) == GetConstantRange(TextOf(checks[b].args[i]))

(* The range of the operation, alone in a set.                             *)
RangesOf(b) ==
    {ResultRange(checks[b].op, x, y) : x \in {OperandRange(b, 1)}, y \in {OperandRange(b, 2)}}

Clash(b) == Asserts(checks[b].op, OperandRange(b, 1), OperandRange(b, 2))

Redundant(b) ==
    /\ Known(b)
    /\ \E result \in RangesOf(b) :
            ContainsRange(Limit(checks[b].op, OperandRange(b, 1).m), result)

(* Mutant: the uses of the value are not replaced.                         *)
ReplacedNowhere(b) == checks

(* replaceAllUsesWith: every use of the value becomes one of the operation.*)
(* With a handler the only one is the phi node.                            *)
Replaced(b) ==
    [c \in Blocks |->
        [checks[c] EXCEPT !.args =
            [i \in 1 .. 2 |->
                IF @[i].from = "value" /\ @[i].block = b /\ checks[b].form = "trap"
                THEN [@[i] EXCEPT !.from = "operation"] ELSE @[i]]]]

(* What follows the call is taken for the value: its uses, of the type of  *)
(* a flag, cannot be replaced by those of a number.                        *)
NotTheValue(b) == body[b][2].kind # "value"

Init ==
    /\ checks \in Functions
    /\ body = [b \in Blocks |-> Compiled(checks[b].form, b)]
    /\ range = [b \in Blocks |-> NoText]
    /\ cursor = 1
    /\ dequeToDel = <<>>
    /\ dequeToInsert = <<>>
    /\ status = "walk"

(* Mutant: a redundant check may be kept.                                  *)
KeepAnyCheck ==
    /\ status = "walk" /\ cursor \in Blocks
    /\ checks[cursor].form # "indirect"
    /\ Known(cursor) => ~Clash(cursor)
    /\ cursor' = cursor + 1
    /\ UNCHANGED <<checks, body, range, dequeToDel, dequeToInsert, status>>

KeepCheck ==
    /\ status = "walk" /\ cursor \in Blocks
    /\ checks[cursor].form # "indirect"
    /\ Known(cursor) => ~Clash(cursor) /\ ~Redundant(cursor)
    /\ cursor' = cursor + 1
    /\ UNCHANGED <<checks, body, range, dequeToDel, dequeToInsert, status>>

ReplaceCheck ==
    /\ status = "walk" /\ cursor \in Blocks
    /\ Known(cursor) /\ ~Clash(cursor) /\ Redundant(cursor) /\ ~NotTheValue(cursor)
    /\ \E result \in RangesOf(cursor) :
            range' = [range EXCEPT ![cursor] = EmitRange(result)]
    /\ checks' = Replaced(cursor)
    /\ body' = [body EXCEPT ![cursor] = <<Operation>> \o @]
    /\ dequeToDel' = dequeToDel \o
            [i \in DOMAIN body[cursor] |-> <<cursor, body[cursor][i].kind>>]
    /\ dequeToInsert' = Append(dequeToInsert, body[cursor][Len(body[cursor])].targets[1])
    /\ cursor' = cursor + 1
    /\ UNCHANGED status

Abort ==
    /\ status' = "aborted"
    /\ UNCHANGED <<checks, body, range, cursor, dequeToDel, dequeToInsert>>

AbortOnWidths ==        \* in the range arithmetic
    /\ status = "walk" /\ cursor \in Blocks
    /\ Known(cursor) /\ Clash(cursor)
    /\ Abort

AbortOnTypes ==         \* in replaceAllUsesWith
    /\ status = "walk" /\ cursor \in Blocks
    /\ Known(cursor) /\ ~Clash(cursor) /\ Redundant(cursor) /\ NotTheValue(cursor)
    /\ Abort

AbortOnIndirectCall ==  \* its called function is null
    /\ status = "walk" /\ cursor \in Blocks
    /\ checks[cursor].form = "indirect"
    /\ Abort

EndWalk ==
    /\ status = "walk" /\ cursor \notin Blocks
    /\ status' = "remove"
    /\ UNCHANGED <<checks, body, range, cursor, dequeToDel, dequeToInsert>>

(* removeInstructionsInDequeToDel, one instruction: in front of a branch   *)
(* goes the last jump collected, before the branch is erased.              *)
Without(s, kind) ==
    IF \E k \in DOMAIN s : s[k].kind = kind
    THEN LET k == CHOOSE k \in DOMAIN s : s[k].kind = kind
         IN  [i \in 1 .. Len(s) - 1 |-> s[IF i < k THEN i ELSE i + 1]]
    ELSE s

(* Mutants: the jumps are taken from the front of the deque; an            *)
(* instruction that was erased stays in the deque; no jump is inserted.    *)
RemoveLastJumpFirst ==
    /\ status = "remove" /\ dequeToDel # <<>>
    /\ LET last == dequeToDel[Len(dequeToDel)]
           b    == last[1]
           rest == Without(body[b], last[2])
       IN  IF last[2] = "branch" /\ dequeToInsert # <<>>
           THEN /\ body' = [body EXCEPT ![b] =
                       Append(rest, Jump(Head(dequeToInsert)))]
                /\ dequeToInsert' = Tail(dequeToInsert)
           ELSE body' = [body EXCEPT ![b] = rest] /\ UNCHANGED dequeToInsert
    /\ dequeToDel' = SubSeq(dequeToDel, 1, Len(dequeToDel) - 1)
    /\ UNCHANGED <<checks, range, cursor, status>>

RemoveLastKept ==
    /\ status = "remove" /\ dequeToDel # <<>>
    /\ LET last == dequeToDel[Len(dequeToDel)]
       IN  body' = [body EXCEPT ![last[1]] = Without(@, last[2])]
    /\ UNCHANGED <<checks, range, cursor, dequeToDel, dequeToInsert, status>>

RemoveLastAlone ==
    /\ status = "remove" /\ dequeToDel # <<>>
    /\ LET last == dequeToDel[Len(dequeToDel)]
       IN  body' = [body EXCEPT ![last[1]] = Without(@, last[2])]
    /\ dequeToDel' = SubSeq(dequeToDel, 1, Len(dequeToDel) - 1)
    /\ UNCHANGED <<checks, range, cursor, dequeToInsert, status>>

RemoveLast ==
    /\ status = "remove" /\ dequeToDel # <<>>
    /\ LET last == dequeToDel[Len(dequeToDel)]
           b    == last[1]
           rest == Without(body[b], last[2])
       IN  IF last[2] = "branch" /\ dequeToInsert # <<>>
           THEN /\ body' = [body EXCEPT ![b] =
                       Append(rest, Jump(dequeToInsert[Len(dequeToInsert)]))]
                /\ dequeToInsert' = SubSeq(dequeToInsert, 1, Len(dequeToInsert) - 1)
           ELSE body' = [body EXCEPT ![b] = rest] /\ UNCHANGED dequeToInsert
    /\ dequeToDel' = SubSeq(dequeToDel, 1, Len(dequeToDel) - 1)
    /\ UNCHANGED <<checks, range, cursor, status>>

EndRemoval ==
    /\ status = "remove" /\ dequeToDel = <<>>
    /\ status' = "done"
    /\ UNCHANGED <<checks, body, range, cursor, dequeToDel, dequeToInsert>>

Next ==
    \/ KeepCheck \/ ReplaceCheck
    \/ AbortOnWidths \/ AbortOnTypes \/ AbortOnIndirectCall
    \/ EndWalk \/ RemoveLast \/ EndRemoval

Spec == Init /\ [][Next]_vars /\ WF_vars(Next)

-----------------------------------------------------------------------------
(* The deques hold instructions and targets of the function, and only an   *)
(* interval is put on an operation (RemoveIOC.cpp:248, 266-276).           *)
TypeOK ==
    /\ checks \in Seq(Checks)
    /\ \A b \in Blocks : \A i \in DOMAIN body[b] :
            body[b][i].kind \in {"operation", "call", "value", "flag", "indirect"} \cup Terminators
    /\ \A b \in Blocks : range[b].kind \in {"none", "in"}
    /\ cursor \in 1 .. Len(checks) + 1
    /\ \A i \in DOMAIN dequeToDel : dequeToDel[i][1] \in Blocks
    /\ \A i \in DOMAIN dequeToInsert :
            \E b \in Blocks : dequeToInsert[i] \in {Continuation(b), OnOverflow(b)}
    /\ status \in {"walk", "remove", "done", "aborted"}

Removed(b) == range[b] # NoText

(* Functions in which a check with a handler is never shown redundant.     *)
HandlersKept ==
    \A f \in Functions : \A b \in DOMAIN f :
        f[b].form = "handler" =>
            \E i \in 1 .. 2 : f[b].args[i].from # "value" /\ f[b].args[i].md = NoText

(* "If the overflow check is redundant" (RemoveIOC.cpp:220): no operation  *)
(* whose check was removed overflows where control reaches it.             *)
RemovedIsRedundant ==
    \A b \in Blocks : Removed(b) /\ Reached(b) => ~Overflows(b)

(* The range put on a plain operation holds of its result, so that the     *)
(* checks further down which rely on it are removed rightly                *)
(* (RemoveIOC.cpp:239-256).  The smallest long is an exception: the text   *)
(* names it, but the parser cannot read it.                                *)
OperationInRange ==
    \A b \in Blocks :
        Removed(b) /\ Reached(b) /\ ~Overflows(b)
            => LET n == Signed(checks[b].ty, Executed[b].word)
               IN  n = -SignedMin(W) \/ Holds(GetConstantRange(range[b]), n)

(* The two deques stay in step: when the pass is done every block has one  *)
(* terminator, at its end, and a block without its check goes on where its *)
(* own check, and no other, would have let it ("the Basic block where the  *)
(* control reaches if there is no overflow", RemoveIOC.cpp:263-309).       *)
BlocksWellFormed ==
    status = "done" =>
        \A b \in Blocks :
            /\ \A i \in DOMAIN body[b] :
                body[b][i].kind \in Terminators <=> i = Len(body[b])
            /\ Removed(b) => body[b][Len(body[b])].targets = <<Continuation(b)>>

(* Nothing that is left uses an instruction that was erased                *)
(* (RemoveIOC.cpp:260 before 291-309).                                     *)
Kinds(b) == {body[b][i].kind : i \in DOMAIN body[b]}

NoUseOfErased ==
    \A b \in Blocks : \A i \in 1 .. 2 :
        LET o == checks[b].args[i]
        IN  o.from \in {"value", "operation"} => o.from \in Kinds(o.block)

(* One walk is enough: no check is left that the ranges known at the end   *)
(* would show to be redundant.                                             *)
NothingLeftToRemove ==
    status = "done" => \A b \in Blocks :
        Known(b) /\ ~Clash(b) /\ Redundant(b) => Removed(b)

(* The pass comes to an end: in the last state of the removal, or in an    *)
(* assertion.                                                              *)
Terminates == <>(status \in {"done", "aborted"})

(* The pass keeps the promise of CheckElimination: a check is there until  *)
(* its branch is erased, and however much of a check has been replaced or  *)
(* erased, the execution of the function takes the same way with the same  *)
(* words (RemoveIOC.cpp:220-309).                                          *)
Elimination ==
    INSTANCE CheckElimination WITH
        Sites   <- Nat,
        checked <- {b \in Blocks : "branch" \in Kinds(b)},
        outcome <- Executed

ChecksEliminated == Elimination!Spec
=============================================================================
