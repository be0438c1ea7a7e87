CONSTANTS
    W <- MCW
    N <- MCN
    Loops <- MCThirds
SPECIFICATION Spec
INVARIANT CountExact
CHECK_DEADLOCK FALSE
