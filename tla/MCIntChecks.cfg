CONSTANTS
    W <- MCW
    N <- MCN
    Functions <- MCBeyond
SPECIFICATION Spec
INVARIANT RemovedIsRedundant
CHECK_DEADLOCK FALSE
