CONSTANTS
    W <- MCW
    N <- MCN
    Programs <- MCPrograms
    Values <- MCValues
SPECIFICATION MCSpec
INVARIANTS
    TypeOK
    CorrectAlloca
    LoadWithinRange
    CoveredLoadAnnotated
PROPERTY MetadataFinal
\* An execution ends where the function returns, and before an assertion
\* that would be false.
CHECK_DEADLOCK FALSE
