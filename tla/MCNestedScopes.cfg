CONSTANTS
    W <- MCW
    N <- MCN
    Programs <- MCNested
SPECIFICATION PassSpec
INVARIANT CorrectAlloca
\* The pass ends.
CHECK_DEADLOCK FALSE
