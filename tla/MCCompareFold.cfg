CONSTANTS
    W <- MCW
    N <- MCN
    Compares <- MCCompares
SPECIFICATION Spec
INVARIANTS
    TypeOK
    FoldedRight
    SwapKeepsTruth
    DecidedWhenDisjoint
\* One comparison is simplified.
CHECK_DEADLOCK FALSE
