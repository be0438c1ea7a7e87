# CSFV annotation framework: TLA+ verification

The repository is an LLVM 3.5 tree to which a fork has added a way of using
facts that Frama-C proved about a C program. Frama-C's assertions
(`/*@ assert x >= 0 && x <= 10; */`) are kept in the bitcode, turned into
`acsl_range` metadata on instructions, spread over the instructions that use
them, and read by optimisations: checks for integer overflow are removed,
comparisons are folded, loops are rewritten. A range that does not hold is a
miscompilation, so the question of the whole project is one:

> does every range the compiler holds about a value contain that value, through
> every conversion, every pass and every order of instructions, and does every
> optimisation that reads it keep what the program computes?

LLVM itself is the environment of that framework and is not modelled beyond the
meaning of the instructions the passes handle.

## 1. The system

| Part | Source | State it keeps | Operations |
|---|---|---|---|
| Range arithmetic | `lib/IR/ConstantRange.cpp` | two words of one width, exclusive upper bound, possibly wrapped | every operation of the class: membership, the regions of comparisons, set operations, arithmetic, shifts, changes of width |
| Texts of annotations | `lib/Analysis/ConstantRangeUtils.cpp`, `AnnotationMapping.cpp` (`getRangePair`, `getAnnotation`), `AnnotationPropagation.cpp:347-367`, `lib/Analysis/parser.cc` | none; strings in metadata nodes | four conversions between a text and a range |
| AnnotationMapping | `lib/Transforms/AnnotationMapping/AnnotationMapping.cpp` | `mappingMap` (source name to allocas), `reverseNameSCMap`, `safecodeMap` (assertion to name to range), metadata of loads | resolve names by scope; walk from each assertion to the loads it covers, and through a branch |
| AnnotationPropagation | `lib/Transforms/AnnotationPropagation/AnnotationPropagation.cpp` | metadata of instructions | `propagateBinOp`, `propagateStore`, `propagateCastInst` |
| RemoveIOC | `lib/Transforms/RemoveIOC/RemoveIOC.cpp` | `dequeToDel`, `dequeToInsert`, the function | remove redundant `llvm.*.with.overflow` checks, then erase what became dead |
| ACSL parser | `lib/Analysis/parser.cc`, `include/llvm/Analysis/node.h` | a syntax tree | builds it; `getRangePair` walks it |
| Comparison folding | `ConstantRangeUtils.cpp` (`tryConstantFoldCMP`, `foldConstantRanges`), `InstructionSimplify.cpp:1891-2042` | none | fold a comparison by the ranges of its operands |
| Loop optimisations | `ScalarEvolution.cpp:3733-3749, 4816-4848`, which rest on `SimplifyICmpOperands` and `getNumIterationsInRange`; `SimplifyIndVar.cpp:100-200` | none of their own | a load known exactly is a constant; trip counts; remainders and divisions of induction variables |
| Load forwarding | `InstCombineLoadStoreAlloca.cpp:387-396` | none | annotated loads are spared |

The passes never call each other. They meet in the metadata: AnnotationMapping
writes texts on loads, AnnotationPropagation reads them and writes texts on
their users, the consumers read both. So every fact is printed and parsed at
least once, by code that disagrees on three points: whether an upper bound is
inclusive (`getRangePair` keeps the last value of an interval as an exclusive
bound, `getConstantRange` adds one, the propagation pass subtracts one), whether
a bound is printed as a signed number (`getAnnotation` prints unsigned ones),
and the width (`getConstantRange` makes 32 bits of an equality and 64 of
everything else).

### What is hard here

Everything is sequential: one thread, one function at a time, nothing persisted.
There are no crashes, timeouts or messages to model. What a test would hardly
reach is

* **numeric edges**: wrapped, empty and full ranges, products truncated from
  twice the width, a bound on either end of the signed numbers, ranges of
  different widths in one operation;
* **protocols between passes**: text, range, text, range, any number of times;
* **order**: walks run in layout order, but the *last* assertion before a load
  must win; metadata once attached is never replaced; the map one walk reads is
  extended by another walk; an operand later in the layout has no metadata yet;
* **stale facts**: an assertion must not outlive a store, a name, a block;
* **deferred effects**: RemoveIOC replaces uses at once but erases later, from
  two deques that are kept in step only by both being emptied from the back.

`PROJECT.json` lists each hazard at its line, with the properties that cover it
and, where the instance that passes stops short of it, what that instance leaves out.
One has no property, for the reason noted there.

### What makes each part correct

* Range arithmetic: the result contains the result of every pair of members;
  the tests for inclusion and for disjointness are exact.
* Texts: a conversion loses no member, and what one pass writes another can read.
* Mapping: a name is resolved as C resolves it; a load is annotated with the
  assertion that covers it, and with nothing a store has made false.
* Propagation: metadata holds of the value in every execution.
* RemoveIOC: a removed check would not have fired; the function stays well
  formed and executes as before at every moment; the pass ends.
* Comparison folding: the folded value is the value.
* Trip counts: a claimed count is the number of times the backedge is taken.

## 2. The modules

    ConstantRange                     words, ranges, the arithmetic the passes use
      RangeArithmetic                 a register and its range, under any sequence of operations
      RangeConversions                the rest of the class: regions, bounds, unions, shifts, widths
        RangeOperations               RangeArithmetic with every operation of the class
      AcslText                        the texts and the four conversions
        AssertionTree                 one syntax tree, read by getRangePair
          AnnotationRoundTrip         one annotation through the pipeline
        AnnotationMapping             the mapping pass
          AnnotatedRun                the mapping pass, then an execution of what it annotated
        AnnotationPropagation         the propagation pass beside an execution
        RemoveIOC                     the removal of checks beside an execution
                                      implements CheckElimination, what such a pass promises
        Predicates                    the predicates of a comparison, with their swaps and inverses
          CompareFold                 one comparison, simplified beside its execution
          LoopFold                    one loop: its trip count, then its execution

The theorems, for every value of the constants, are in modules of their own (section 5):

    Ranges_proofs                     lemmas: what each operation on ranges returns, what the conversions
                                      keep and the predicates say, at any width
      RangeArithmetic_proofs          soundness and exactness of the class
      AnnotationRoundTrip_proofs, AnnotatedRun_proofs, AnnotationPropagation_proofs,
      RemoveIOC_proofs, CompareFold_proofs, LoopFold_proofs

`MC*.tla` give the constants of each module small values, `MC*.cfg` are the
instances. The word *text* always means one of three shapes: `x == c`,
`x >= lo && x <= hi`, `x == lo || ... || x == hi`, the shapes `getRangePair` and
`getConstantRange` look for. Character strings are abstracted to those records:
no property is about their spelling, except that digits too large for `atol`
saturate (`ReadInteger`).

**ConstantRange** follows the C++ function by function on words of a modulus `m`
instead of a bit width: a range is `[m, lo, hi]`, `lo = hi` is empty at zero and
full at the largest word, `hi < lo` wraps. `multiply` multiplies at `m * m` and
truncates back (`TruncateProduct`, the closed form of `truncate` on a range that
does not wrap). `AddAsserts`, `MultiplyAsserts` and `UDivAsserts` say when the
`assert`s of `APInt` and `ConstantRange` on unequal widths fail: not always,
because each operation returns early on an empty operand (and `add` and `sub` on a full
one) before it touches the words.

**RangeArithmetic** is the abstract specification of what the passes expect of
that class: `val` is a word nobody prints and `acc` the range the compiler keeps
for it; a step applies one operation to both, with a second operand whose range
the compiler knows and whose word only the program knows.

**RangeConversions** is the rest of the class: `MakeICmpRegion` and `MakeConstantRange`, the signed and unsigned bounds,
`UnionWith` with its branches, `Inverse`, `Difference`, extensions and truncation, and/or, shifts, minima and maxima.
**RangeOperations** extends RangeArithmetic with a step for each: a phi node joins, a branch narrows `acc` to
the region of its comparison, a conversion goes to a wider width `D` and back. `NextNumber` has the operations on
numbers, `NextBits` those on bits; `SpecNumber`, with the first alone, is what the theorems are about, and the run takes both.

**AcslText** is `getRangePair` (`RangePair`), `getAnnotation`
(`GetAnnotation`), `getConstantRange` (`GetConstantRange`) and the text of
`propagateBinOp` (`EmitRange`). `W` is the modulus of 64-bit words and `N` that of
32-bit ones; numbers are integers until a constructor cuts them.

**AssertionTree** is `getRangePair` on trees of identifiers, integers and binary
expressions: `ReadEquality`, `ReadInterval` and `ReadNothing` are the cases without
a loop; `StartSearch`, `Descend` and `StopSearch` are the loop that looks for the
first value of a disjunction, one turn a step (`at` is `tempExp`). A formula carries, beside
its tree, the set of environments it is true in, built along with it, so that no evaluator
is needed. The parser groups operators of one kind to the left and gives them the
precedences of C (its tables, `parser.cc:908-960`).

**AnnotationRoundTrip** has one action per conversion: `Map` (reading the tree),
`Attach`, `Parse`, `Emit`. `Emit` leads back to `Parse`, so that a text can be
printed and parsed any number of times, as in a chain of instructions. `FormsRead`
says that the reading of a tree is the operator `RangePair` on its text, by which
AnnotationMapping and AnnotatedRun know it.

**AnnotationMapping** is `runOnFunction`. `Resolve` is one turn of the loop that
parses the assertions and fills `safecodeMap` (`FindNameIR` is `findNameIR`,
`Renamed` is `changeTreeVariableName` for every name in the tree, `Entry` the
assignments to the map, with the texts of kind `other` under `#`). `Climb` is the loop of `findNameIR` from its second turn
on, `Seek` the search C's scoping rules ask for. `WellFormed` says what every function is; it is assumed of `Programs`. `Scan` is one turn of the loop that walks from an
assertion: `MainWalk` through its own block, `BranchWalk` through the first
successor, `EndsWalk` what ends either, `Extended` the names the branch walk
enters into the map. Names are numbers in the order of `std::map<std::string, ...>`,
because the code uses the *first key* of a map as the variable of an assertion.
`PROJECT.json` maps every definition to its lines.

**AnnotatedRun** runs the function after the pass: memory cells are changed by
stores through the variable's own pointer or another one, and by calls; an assertion
is passed only with values for which it is true (that is what Frama-C proved); loads
read. Two history variables serve the properties: `live` is the assertion that covers a
cell in the current block, `clobbered` the cells changed by something the walk does not look
at (a call, a store through another pointer).

**AnnotationPropagation** visits one instruction per step. The step computes the
metadata the pass attaches and the value the instruction has in an execution.
`clean` and `from` are history fields: whether the execution stayed within the
signed numbers (see below), and what was known of the operands.

**RemoveIOC**: a function is a chain of blocks that each end in a checked
operation, in one of the forms clang gives it: `trap` (the check of
`-fsanitize`), `handler` (`-ftrapv-handler`, whose value is a phi node and whose
branch has the handler first), `builtin` (`__builtin_sadd_overflow`, which extracts
the flag before the value), and `indirect`, a call through a pointer.
`KeepCheck`, `ReplaceCheck` and the three aborts (`AbortOnWidths` in the range arithmetic,
`AbortOnTypes` in `replaceAllUsesWith`, `AbortOnIndirectCall` on the null called function) are the ways
one turn of the walk ends, `RemoveLast` one turn of `removeInstructionsInDequeToDel`. `checks`
holds the operands, so that `replaceAllUsesWith` is visible. `Executed` is the
execution of the code as it stands in the current state, half replaced or half erased as it
may be: the words computed and the way control takes.

**CheckElimination** has two variables, the sites that still have a check and the
outcome of the execution; a step drops one site and leaves the outcome alone.
`RemoveIOC!ChecksEliminated` is the refinement: a site is checked while its branch is
there, the outcome is `Executed`.

**LoopFold**: a loop is the record of its variable (width, first word, step, `nsw`), of
the comparison at its backedge and of the bound, which is a constant, an annotated load, or
an operation with metadata. `Orient` brings the comparison into the
form "variable predicate bound" (`ComputeExitLimitFromICmp`), `SimplifyConstant`, `MoveBound`,
`MoveVariable` and `EndSimplify` are one call of `SimplifyICmpOperands`, the `Claim` actions its
continuation with `getNumIterationsInRange` (`Iterations`). After the claim the loop is executed:
`Turn` takes the backedge, `Leave` leaves. A claim `unknown` stands for what the analysis does without the patch.

**CompareFold**: `FoldConstants`, `SwapConstant` and `TryConstantFold` are the
start of `SimplifyICmpInst` in its order.

### Mutants

Operators whose comment begins with "Mutant" are not part of the model. Each is
the plausible wrong version of the definition after it (a dropped guard, an
exclusive bound taken for an inclusive one, a deque emptied from the wrong end).
`PROJECT.json` pairs each with the property that must fail when it takes the
definition's place: no property here is true whatever the code does.

## 3. The runs

Run one with `tlc -config X.cfg M`. "States" are distinct states.

| Run | Module | States | Shows |
|---|---|---|---|
| `MCRangeArithmetic` | RangeOperations | 232 | every sequence of operations of the class on every range of three bits (through a width of four for products and conversions) keeps the word in the range; membership, bounds, complements and the regions of comparisons are exact; unions and intersections are as small as a range can be |
| `MCAnnotationRoundTrip` | AnnotationRoundTrip | 28,963 | the assertions on which the four conversions agree survive any number of round trips; no conversion narrows a range; a tree is read as its text says or not at all; the search in a disjunction ends |
| `MCAnnotatedRun` | AnnotatedRun | 861,637 | every annotated load reads a value in its range unless its variable was changed behind the walk's back; every covered load carries the assertion that covers it; metadata is final; with one level of blocks every name is resolved as C does. `MCInit` asserts of each program the hypotheses of the theorems about these properties (`Scoped`, `Understood`), so that it is an instance of them |
| `MCNestedScopes` | AnnotationMapping | fails | a block in a block: the search skips the function's scope (finding) |
| `MCRenamed` | AnnotatedRun | fails | a store to a parameter does not end an assertion (finding) |
| `MCAnnotationPropagation` | AnnotationPropagation | 1,718,261 | metadata holds in every clean execution, can be read back but for one text, and names one value where the operands do; the pass stops only where a load is known exactly, or at that text |
| `MCRemoveIOC` | RemoveIOC | 21,033 | removed checks would not fire; ranges on the new operations hold; blocks stay well formed; no use of an erased instruction; one walk finds everything; the pass ends; it refines CheckElimination |
| `MCIntChecks` | RemoveIOC | fails | an int check is removed although it fires (finding) |
| `MCLoopFold` | LoopFold | 135,800 | a claimed trip count is how often the backedge is taken; the sanity assertion of the count never fails; unit steps with a known bound are always decided |
| `MCTripCount` | LoopFold | fails | "or equal" to an annotated operation: the count is one too small (finding) |
| `MCCompareFold` | CompareFold | 14,408 | folded comparisons are right; the swap keeps the meaning; ranges decide exactly when disjoint |
| `MCCompareStrict` | CompareFold | fails | neighbouring intervals under a strict comparison fold wrongly (finding) |

### Bounds, and why they are enough

* **Words.** `M = 8` (`MCRangeArithmetic`), and changes of width to and from 4 and 16: all 58 legal ranges with all their
  words, as either operand. Every case distinction of the arithmetic compares
  bounds with each other, with zero and with the modulus; three bits realise every order of
  four bounds around the word. The theorems of section 5 remove the bound.
* **Two widths.** `W` and `N` are 32 and 8, or 16 and 4. What matters is that
  `N` divides `W` and that a long leaves an int's range on both sides; `WidthAssumption`
  says so.
* **Programs of the propagation pass**: `MCSize = 3` instructions of every kind
  over five annotated loads (two exact ints, an int whose lower bound was printed as an unsigned number, a
  long in an interval, and one that goes up to the largest long) and three literals, one of which lets a
  difference reach the text that cannot be read. Three instructions are two operands and an operation, or a
  load and a chain of two operations: the result of an operation, printed and parsed,
  becomes an operand.
* **Assertions** (`MCSource`): every equality and interval of five-bit longs that survives the trip,
  every ascending list of two to four ints that does, and eighteen trees in none of the forms: each
  operand of each form in the wrong place, of another name, or of another operator. Four values put two
  disjunctions below the root, so that the search descends twice.
* **Programs of the mapping pass** (`MCPrograms`). `Forks`: every sequence of up to three
  items (assertions about either of two variables, loads and stores of each) that starts with an
  assertion, before two blocks, the first with every sequence of up to two. `Arms`: conditionals that store
  nothing, for two walks into one block. `Aliased` and `Globals`: every sequence of up to four items
  with calls, stores and loads through a pointer without a name, and a global variable.
  An assertion in no form of its own (`TextOther`) is among the items of `Globals`. Every load has a name of its own, as in LLVM.
  `MCSiblings`: one assertion of one or two statements in any scope and line of three sibling scopes, with the
  name declared in every subset of them. Long enough for assertion, change, load; for two assertions over one
  load; for an assertion after a change; and for a branch walk that meets an assertion of its own.
* **Functions of RemoveIOC**: chains of two and three checks of every operation; the second uses the
  value of the first, the third those of both. Three removed checks put three jumps in the
  deque, enough to tell front from back. Every other form stands before a check it influences.
* **Loops**: all loops over three-bit ints with every first value, step, predicate, side and constant
  bound; loads of either width known exactly or in an interval; operations known exactly, of which the analysis knows
  nothing or what it knows of a quotient, with and without `nsw`. The execution is followed for as many turns as there are words, after
  which the variable has had every value it can have.
* **Comparisons**: all predicates but the strict ones between ranges, intervals over
  five bounds on both sides.

### What the passing runs leave out, by name

A passing run says which inputs it is about; each exclusion below is a disagreement within the
code, where the property really fails.

* *Interval of two values* (`AnnotationMapping.cpp:65`): `x >= 0 && x <= 1` is
  the range [0, 1), whose bounds are one apart; `getAnnotation` prints it as `x == 0`. `Kept`
  has no such interval, and no list from a value to the next.
* *Negative bounds*: `getAnnotation` prints unsigned numbers and `atol` saturates, so a negative
  equality becomes an equality with the low bits of the largest long, cut to 32 bits
  (`ConstantRangeUtils.cpp:80`), and an interval that ends below zero loses its upper bound. An interval from below
  zero to one of the two largest longs becomes empty or illegal when the lower bound saturates. `Kept` has none of them.
* *Lists that are no intervals* (`AnnotationMapping.cpp:1190`): the range runs from the first value of a
  disjunction to its last and nothing between is looked at; its values pass through `int`. `Kept` has lists of ints of one variable
  that ascend, as Frama-C writes them.
* *A bare operand below a disjunction* (`AnnotationMapping.cpp:1222`): in `x || y == 1 || x == 3` the search stays where it
  is for ever. `Descend` models this; `Unreadable` has such operands only directly in the root, where no search starts.
* *Smallest long*: its digits saturate before the minus sign is applied (`parser.cc:598`).
  `NothingNarrowed`, `Clean` and `OperationInRange` except it.
* *The text that cannot be read* (`AnnotationPropagation.cpp:347`): the range of all longs but the second smallest is printed
  with the smallest long on top, which is read as the number after it, so that both bounds are one word and the
  constructor's assertion fails. `Collapsed` is that text; `Sound` and `Rereadable` except it, `AbortNeedsExactLoad` names it.
* *Clean executions* (`Clean` in AnnotationPropagation): ranges are computed modulo the width but
  read back as signed 64-bit numbers, and `sdiv`, `srem` are treated as unsigned; `Sound`
  speaks of executions that do not overflow, that divide non-negative numbers, and whose divisor's range does
  not run past the largest signed number.
* *Longs known exactly* (`ConstantRangeUtils.cpp:80`): an equality is always parsed at 32 bits, so that one on a long
  gives a range of ints to a long. `LoadsAssumption` has equalities on ints only.
* *An int known to be negative*: read as a word of 32 bits, it is zero-extended by `multiply` and by the comparison with
  a 64-bit range, -1 for example to 2^32-1. `LoadsAssumption` has equalities with a number that is not negative, which is
  what AnnotationMapping can leave (see above, *Negative bounds*).
* *Ranges of 32 and 64 bits* (`AnnotationPropagation.cpp:325`): an int known exactly, in an operation with an
  interval or a literal, runs into the assertion on widths. The models follow this to the state `aborted`, and
  `AbortNeedsExactLoad` says that nothing but this and the text above leads there.
* *Casts and stores of values* (`AnnotationPropagation.cpp:474`): the `else` has lost its
  statement, so the test below is its body, and a cast never gets metadata. `Cast` and `StoreValue` model what
  the code does.
* *Assertions with two statements* (`AnnotationMapping.cpp:557`): only the first name is
  compared with stores. The programs of `MCAnnotatedRun` that are executed with a load have one statement per assertion
  (`Watched`).
* *Joins* (`AnnotationMapping.cpp:758`): the walk goes through the unconditional jump at the
  end of an arm into the code after the conditional. In `MCAnnotatedRun` a first successor has one predecessor, which is what
  `Understood` asks for, or nothing is stored on the way to it. The latter are `Arms`: the block before the conditional and its arm
  both walk into the join, so that `Understood` is not said of them, and only TLC covers them.
* *Calls and other pointers* (`AnnotationMapping.cpp:586`): neither ends a walk. `LoadWithinRange` exempts loads of a
  variable that one of them has changed (`clobbered`) and no assertion or store of its own since.
* *Globals* (`AnnotationMapping.cpp:809`): a global has no declaration in the function, so its assertions go to the empty name, which is
  also that of every unnamed pointer, and a local declared once takes its assertions over. In `Globals` the names differ and no unnamed load follows.
* *Names that are resolved otherwise than in C* (`AnnotationMapping.cpp:488, 809, 883`): a scope the search jumps over declares the name
  (finding 1); the only declaration of a name is in a block that does not enclose the assertion; an alloca is called like another name of the
  assertion, and is replaced once more; two names of one assertion have no alloca and share the empty name. `Scoped` states the absence of all four.
* *Beyond the limits* (`RemoveIOC.cpp:149`): the range of a sum or product is modular, so
  operands whose result never fits look harmless. In `MCFunctions` every check lets some values of its operands pass
  (`SomePass`); `MCIntChecks` has a sum that does not.
* *Factors below zero* (`RemoveIOC.cpp:149`): `multiply` treats its operands as unsigned and truncates, so that the product of a
  range of negative numbers can look smaller than it is. In `MCFunctions` no check of `smul` is removed by such a range.
* *Handlers* (`RemoveIOC.cpp:264`): the first successor of a check with a handler is the handler, so a removed one goes on there. The
  checks of this form in `OtherForms` are kept for want of metadata (`HandlersKept`, which `MCRemoveIOC` asserts); with metadata on
  both operands `BlocksWellFormed` fails.
* *Longs beside the largest int* (`ScalarEvolution.cpp:3741`): a load known exactly becomes a constant of 32 bits whatever its type. No
  loop of `MCLoops` compares a long with the largest or smallest int, with -1, or with a zero that is only the low
  bits of what was read; `MCThirds` does. `Counted` states this and the next item; `MCLoopFold` asserts it of its loops.
* *"Or equal" to an operation* (`ScalarEvolution.cpp:4834`): in `MCLoops` the analysis knows nothing of an operation compared this way; where it knows a range and the bound is moved, the operation is the first operand or is annotated with an interval, and the patch claims no count (`Uncounted`).
* *Unsigned sums across zero* (`RemoveIOC.cpp:193`): unsigned operations have operands that
  are not negative in the pairs and chains of `MCRemoveIOC`.
* *Careless comparisons*: `Careful` states what follows, and `MCCompareFold` asserts it of its comparisons. Neighbouring
  intervals under a strict predicate (finding 5), and an equality parsed at 32 bits on a long, are not among them.
* *Largest long and constants on the left* in comparisons (`ConstantRangeUtils.cpp:213`,
  `InstructionSimplify.cpp:1910`, where `Predicate` and not the swapped `Pred` is
  handed on): no interval of `MCCompares` ends at the largest long, and a constant on
  the left of an ordered comparison meets only ranges that do not decide.

## 4. Findings

Five runs are expected to fail; each checks one sentence of the code's own
comments.

1. **Shadowed variables** (`MCNestedScopes`). `findNameIR` goes up one scope the
   first time and two scopes every time after (`AnnotationMapping.cpp:883-887`). Clang opens two
   scopes for an `if` with braces, so a single `if` is enough to skip the function's own
   scope. The assertion is attached to an outer variable of the same name, or to none.
2. **Parameters** (`MCRenamed`). A store ends an assertion only if the *source* name of its
   pointer equals the *IR* name of the assertion (`:596`). They differ for every parameter
   (`x` and `x.addr`), so the range outlives the store.
3. **Int checks** (`MCIntChecks`). The limits in `removeOverFlowCheck` have the width of the
   operand's range, 64 bits for an interval, and not of the operation.
   The run also has a sum of longs whose range lies wholly beyond the limits.
4. **Trip counts** (`MCTripCount`). `SimplifyICmpOperands` makes "or equal" strict by adding one to the bound; the patch then takes
   the lower bound of the operand as it was (`ScalarEvolution.cpp:4834`), so the loop goes on once more than was claimed.
5. **Strict comparisons** (`MCCompareStrict`). The upper bound is exclusive and compared
   strictly, so that [0, 2] < [3, 3] folds to FALSE.

## 5. What is proved

TLAPS (with Z3, Zenon and LS4) checks what follows for every value of the constants: every width of int and long, every set
of loads, assertions, comparisons or loops, functions and trees of every size. Every safety property of a passing
run is stated by a theorem. `PROJECT.json` lists the theorems.

### Assumptions

The constants' assumptions are named in the modules that declare them, and TLC evaluates them on every instance.

| Assumption | Module | Says, and why it is so |
|---|---|---|
| `MAssumption`, `WiderAssumption` | RangeArithmetic, RangeOperations | a width is an even modulus of at least 4, a wider one a multiple of it; a power of two is both, and no proof needs more |
| `BitsAssumption` | RangeOperations | both are powers of two; only `NextBits` needs it, of which nothing is proved |
| `WidthAssumption` | AcslText | the same of int and long |
| `ProgramsAssumption` | AnnotationMapping | functions are as clang and LLVM make them: scopes are numbered from the outside inwards, nothing branches to the first block, names are unique (`assignFreshNamesToUnamedInstructions` names the rest), and a pointer named like an alloca is the alloca |
| `LoadsAssumption`, `ConstantsAssumption`, `SizeAssumption` | AnnotationPropagation | the text of a load can be read and holds of its values, equalities are on ints that are not negative, literals are longs |
| `FunctionsAssumption` | RemoveIOC | checks use constants, loads and the values of earlier checks; metadata that is given holds of the word that is given |
| `ComparesAssumption`, `LoopsAssumption` | CompareFold, LoopFold | operands are words of their type, and what is known of them holds |

Some theorems have one hypothesis more. Each is where the code is wrong, it is in the statement by name, an instance
asserts it or was explored under it, and section 3 says what fails without it:

| Hypothesis | Of | Keeps out |
|---|---|---|
| `Kept`, `TextsFit` | AnnotationRoundTrip | assertions that do not survive the trip; formulas whose text is not that of their tree |
| `Scoped` | AnnotationMapping | names that the search resolves otherwise than C (finding 1) |
| `Watched` | AnnotatedRun | assertions of several statements; stores to an alloca that is called otherwise than its variable (finding 2) |
| `Understood` | AnnotatedRun | assertions that do not survive their conversions; unnamed loads after an assertion on a global; first successors that are entered from elsewhere |
| `HandlersKept` | RemoveIOC | removed checks with a handler, whose jump goes to the handler |
| `WellJudged` | RemoveIOC | the four ways a check is removed that may fail (below) |
| `Careful` | CompareFold | constants on the left, wrapped bounds, neighbouring intervals under a strict predicate |
| `Counted` | LoopFold | loads and operations that are read as another word than the program's; a moved bound |

### ConstantRange, and RangeArithmetic (9 theorems)

`Ranges_proofs` has a lemma per operation: `AddSound`, `SubSound`, `MultiplySound`, `UDivSound`, `IntersectSound`,
`UnionSound`, `MaxSound`, `NarrowSound`, `WidenSound` and others take legal ranges and yield a legal range that contains the
result of every choice of members.

* A range is an arc of the circle of words: `ContainsOffset` says that a word is in a range exactly when its distance
  from the lower bound is below the size, wrapped or not. Sums and differences add distances (`AddOffsets`), and the
  test by which the code recognises a result that has spread around the word is the one that says so.
* Products rest on `ProductMonotone` and on `TruncateSound` (by cases on which multiples of the modulus the product's range spans);
  quotients on `DivMonotone` and on the choice of the smallest divisor that is not zero.
* That unions and intersections are smallest rests on `RangeIsArc` and `SmallerArc`: a legal range that has the members of both
  operands is an arc through the four bounds, and the code compares the sizes of the two candidates.

`RangeArithmetic_proofs` takes them to behaviours. `IInv == TypeOK /\ Sound` is kept by every operation of `NextNumber`; `Sound`
alone is not inductive, since the operations keep members only of legal ranges: with `lo = hi` elsewhere a pair is neither empty nor full.
`TypeCorrect` and `RangeSoundness` are its parts. The exactness of membership, disjointness, bounds, hulls, regions, complements and conversions
(`ContainmentExact` to `ConversionsExact`) is a fact about any legal range, reached or not.

### AnnotationRoundTrip (5)

Three invariants, each about one thing and inductive with the ones before it:

* `Readings`: every range is legal, every text one that can be parsed, and a text that was printed from a range is `EmitRange` of it. From
  this alone `PrintingLosesNothing` (`NothingNarrowed`), with no hypothesis but that literals are integers.
* `Origins`: the tree is that of a formula of `Source`, the search in a disjunction is at a place where it may be, and what
  was read is `RangePair` of the formula's text. A tree is data, and induction over it is out of reach; the places of
  the search are instead the *closed sets* of the tree (`SearchIn`): `at` is in every set that has the root's left operand and, with a node that is
  descended into, the node the loop goes to. `TreesReadAsTexts` (`FormsRead`) follows for trees of every depth.
* `Values`: the text, or the range parsed from it, holds of the value of the claim. With `Kept`, this is `AnnotationKeepsValue`, and with
  `Readings` it is `TypeCorrect`.

### AnnotationMapping and AnnotatedRun (6)

`IInv` relates four things: the program text, the map, the metadata and the execution.

* *The pass.* `Layout` says how far it is, `Contents` that what it holds is legal, `Entries` that an assertion's entry keeps its own
  ranges, although walks through branches add names of loads to it, and that nobody but its own walk does. This and one turn of the walk
  (`ScanSteps`) give `RunTypes` (`TypeOK`). `NoMetadataReplaced` (`MetadataFinal`) needs no invariant: `Covered` leaves out the loads that have metadata.
* *Names.* `findNameIR` and C's rules are two recursive searches up the same scopes. That a function exists that satisfies such a recursive
  equation is `Descends`, for a scope that is the least without one (`LeastNumber`: the library's induction takes an operator as parameter); `ClimbTurns`
  and `SeekTurns` are then the turns of either search. That both end at one declaration is shown with the sets of scopes `Scoped` speaks of: those the hops
  come to (`HopsMeant`), those around the assertion (`OnceMeant`). `RenamedOnce` is that the replacement of one name leaves the others
  alone. `NamesResolvedAsInC` (`CorrectAlloca`) follows, for blocks of any depth and assertions of any number of statements.
* *Metadata.* `CoveredLoadAnnotated` alone is not inductive: it speaks of the loads at `pc`. `Sourced` says of every load with metadata that
  it is that of *some* assertion whose walk is over, and that nothing that ends a walk stands between (`Main` in its block, `Branch` through the end of
  its block and the start of the next); `Kept` that an assertion whose walk is over has left no load of its block without. That a walk ends exactly where it should is `MainCovers` and
  `BranchCovers`; it rests on the order of the walks, since the first name of a later entry must still be its variable when an earlier walk meets
  it. `CoveredLoadsAnnotated` (`CoveredLoadAnnotated`) is then that no other assertion can be the source (`CoveredByOne`): the one that covers
  the load ends every walk that comes from before it or from another block.
* *The execution.* `Live` says which assertion `live` comes from: the last about the cell in this block, with nothing in between that ends a walk. `Truth`
  says that what an assertion states is true in memory at each place its walk reaches: behind it in its block, and, for a set `B` of blocks
  that are entered only from its block or from each other, in the blocks of `B` up to the first change. Calls, and stores through
  other pointers, are in `clobbered`. `LoadsReadWithinRange` (`LoadWithinRange`) puts `Sourced` and `Truth`
  together, and takes the text through its conversions (`Printable`).

`Sourced` and `Kept` stand under "every assertion is one statement", and `Live` and `Truth` under `Scoped` and `Watched`, so that the theorems have only the
hypotheses they need; these are about the program and no step changes them (`Static`). TLC asserts them of the programs of
`MCAnnotatedRun`.

### AnnotationPropagation (6)

`IInv` says of every instruction visited that its text is read as a legal range of the width its form has, that this range holds of the value of a clean
execution, and that an equality that can be an operand stands on an int. The last is the strengthening: `Sound` is not inductive because a
range of 32 bits on a long would be extended differently by different operations. `ResultLegal` and `ResultSound` go through the operations at both
widths, `EmitRead` (Ranges_proofs) takes the result through its text. `Rereadable`, `Folded` and `AbortNeedsExactLoad` follow. The text that
cannot be read (`Collapsed`) was met in the proof of `EmitRead`: TLC had not reached it until a literal was added that makes it.

### RemoveIOC (8)

*The code.* `IInv` has a conjunct per question: `Uses` (what is used is there), `Judged` (a check is removed exactly when the
texts of its operands, final once the walk is past it, make it redundant), `Pending` (each group of four entries of `dequeToDel` is the
check of one block, as far as it is not erased yet), `Jumps` (`dequeToInsert` has the target of each branch still in `dequeToDel`, at the same
place), `Settled` (every other block is as compiled, or emptied). The two deques are in step only because both are emptied from
the back and every removed check has one branch; `Jumps` is that, and it is what `DequesInStep` (`BlocksWellFormed`) and
`UsesSurvive` (`NoUseOfErased`) rest on. `OneWalkEnough` is `Judged` at the end of the walk.

*The execution.* `RemovalJustified` and `OperationsInRange` say that in a state with `WellJudged` no removed check would
have fired, and the range put on an operation holds. `WellJudged` is about the removed checks of the state:

* the operands' ranges have the width of the operation: otherwise the limits have another width (finding 3);
* some pair of words from the ranges passes: a sum is modular, and operands all of whose results overflow look harmless;
* the ranges do not straddle the end of the numbers of the operation, and a factor of `smul` is not negative, unless both
  operands are known exactly: mixed signs make a modular sum small, and `multiply` is unsigned;
* no operation whose text begins with the smallest long is an operand: it is read as the number after it.

TLC has found it true in every state of `MCRemoveIOC`, so that the hypothesis does not empty the statement. The argument is that all pairs of words pass or none does
(`AllPass`): the exact results of straight ranges are consecutive numbers; if one overflowed and another did not, the greatest or the least number
of the type would be a result in between, and that word is in no range `Limit` contains. One pair passes, so all do.
`Executed` is a recursive function over blocks; that its words lie in the ranges is shown for the least block for which they
do not (`WellFoundedInduction`), which has all of its operands before it.

*The refinement.* `ImplementsElimination` is `Spec /\ []WellJudged => ChecksEliminated`, under `HandlersKept`: every step of the pass is a step of
CheckElimination or leaves its variables alone. `StepEliminates` compares `Executed` before and after a step, block by block (`SameExecution`): the replacement of a
value by an operation of the same word, and the removal of a branch whose flag is false, leave the words and the way.

### CompareFold (5) and LoopFold (5)

CompareFold's `IInv` says that operands and predicate were swapped together and that the result is what they fold to. `DecidedExactly` follows from
`DisjointRanges`, for every comparison. `FoldsRight` needs `Careful`: `IntervalsDecide` is the fact that disjoint intervals in the reading
of the predicate are ordered as their bounds are.

LoopFold's `IInv` puts the state of the analysis beside the program: while the condition is rewritten (`Rewritten`), it says of every word
what the program's comparison says (`StrictMeets`, `SimplifiedTruth`), the claim is what `getNumIterationsInRange` answers for that condition (`Claimed`), and
the execution is at `first + step * taken` (`Setting`). `AssertionHolds` needs no more. For `TripCountExact`, `IterationsRight` shows that the answer is the first
turn after which the variable has left the region, and `NextCount` that the execution leaves in that turn. Where the variable and not the bound is moved, the
analysis infers from zero low bits that the first value is not the least one; `Grain` and `Shared` state this as divisibility by the greatest
common divisor, and it is for this that `LoopsAssumption` has widths divisible by four. It infers the same from the flags of the increment:
without signed wrap the variable keeps its sign (`KeptSign`), and, where first value and step are not negative, it does not wrap as an unsigned number either and
never comes below a first value that is not zero (`KeptAbove`). `Setting` has both as conjuncts.

### What is only model-checked

* **Liveness** (`Terminates`, `SearchEnds`), which the prover cannot express without ENABLED. Two specifications assume fairness: weak fairness of the whole
  next-state relation of RemoveIOC, and of `Map` in AnnotationRoundTrip. Both are justified because a pass is a sequential program that nothing interrupts.
* **Operations on bits** (`NextBits`: shifts, and, or, their minima), which rest on powers of two; `^` has no arithmetic in the provers' backends.
* **Joins in which nothing is stored** (`Arms` in `MCAnnotatedRun`), of which `Understood` does not speak.
* The hypotheses themselves: that an instance has `Careful`, `Counted`, `HandlersKept` is an ASSUME of its MC module, that it has `Scoped` and
  `Understood` an assertion in `MCInit`.

## 6. What is not modelled

* The automata of the scanner and the parser (flex and bison output), `double` literals and
  comparisons of ACSL that `getRangePair` never looks for.
* In AnnotationMapping: the older walk over arithmetic, GEPs and `malloc`, `findNameIRNew` and the second version of the collection, all
  of them commented out in the source.
* `foldIVUser` (`SimplifyIndVar.cpp:100-200`): it reads `CR` where it was only assigned for an annotated divisor. What it makes of
  the garbage is compared with the expression of the instruction, so a fold is missed or the compiler stops, but no value changes; a
  model of it would have no property to check.
* The analyses of ScalarEvolution the patches do not touch (claim `unknown`), the rest of LLVM and clang. Most of
  the repository's lines are that compiler, unchanged; only the meaning of the instructions the passes handle is taken from it.
* Load forwarding (`InstCombineLoadStoreAlloca.cpp:387-396`): one condition in front of an LLVM rewriting.
* `InstCombineConstRange.cpp`, `ranges.cpp`, `RemoveIOC/r/`: experiments and earlier
  versions that nothing calls; `foldCRHS`, `foldLHSC`.
* All passes over one function in one module: they meet only in the texts, and each module takes every text the pass before it
  can write, so that the composition has no behaviour that the parts lack.

## 7. What is left

The model is complete as far as sections 2 and 6 say, and every safety property of a passing run is stated by a theorem. Further work would be

1. to weaken `Understood` to joins of which all predecessors keep the variable, so that `Arms` is covered as well;
2. `Sourced` for assertions of several statements, of which the walk watches the first name only;
3. a model of `foldIVUser`, should its use of `CR` be mended.
