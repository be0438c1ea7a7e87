CONSTANTS
    W <- MCW
    N <- MCN
    Compares <- MCStrict
SPECIFICATION Spec
INVARIANT FoldedRight
CHECK_DEADLOCK FALSE
