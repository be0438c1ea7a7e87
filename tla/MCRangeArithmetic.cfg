CONSTANTS
    M <- MCM
    D <- MCD
SPECIFICATION SpecOperations
INVARIANTS
    TypeOK
    Sound
    ContainsExact
    DisjointExact
    BoundsExact
    HullsSmallest
    RegionSmallest
    InverseExact
    TruncateExact
