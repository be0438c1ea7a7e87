CONSTANTS
    W <- MCW
    N <- MCN
    Loads <- MCLoads
    Constants <- MCConstants
    Size <- MCSize
SPECIFICATION Spec
INVARIANTS
    TypeOK
    Sound
    Rereadable
    Folded
    AbortNeedsExactLoad
\* The pass ends at the end of the function, or in an assertion.
CHECK_DEADLOCK FALSE
