CONSTANTS
    W <- MCW
    N <- MCN
    Loops <- MCLoops
SPECIFICATION Spec
INVARIANTS
    TypeOK
    CountExact
    LinearComputation
    UnitStepDecided
\* The loop is left, or has come to every value again.
CHECK_DEADLOCK FALSE
