SPECIFICATION Spec
CONSTANTS
    Languages <- All
CHECK_DEADLOCK FALSE
INVARIANTS
    TypeOK
    CoversSource
    HaltsOutsideTypes
    BracketsNest
PROPERTIES
    Settled
