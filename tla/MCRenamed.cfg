CONSTANTS
    W <- MCW
    N <- MCN
    Programs <- MCRenamed
    Values <- MCValues
SPECIFICATION Spec
INVARIANT StoreEndsAnnotation
CHECK_DEADLOCK FALSE
