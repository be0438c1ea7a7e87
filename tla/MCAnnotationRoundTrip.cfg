CONSTANTS
    W <- MCW
    N <- MCN
    Env <- MCEnv
    Source <- MCSource
    Stored <- MCStored
SPECIFICATION Spec
INVARIANTS
    TypeOK
    ValueKept
    FormsRead
PROPERTIES
    NothingNarrowed
    SearchEnds
\* An assertion that is not read goes nowhere.
CHECK_DEADLOCK FALSE
