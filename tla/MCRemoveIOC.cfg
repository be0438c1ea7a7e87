CONSTANTS
    W <- MCW
    N <- MCN
    Functions <- MCFunctions
SPECIFICATION Spec
PROPERTIES
    Terminates
    ChecksEliminated
INVARIANTS
    TypeOK
    RemovedIsRedundant
    OperationInRange
    BlocksWellFormed
    NoUseOfErased
    NothingLeftToRemove
\* The pass ends.
CHECK_DEADLOCK FALSE
