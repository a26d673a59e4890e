SPECIFICATION Spec
CONSTANTS
    Languages <- All
CHECK_DEADLOCK FALSE
INVARIANTS
    TypeOK
    Lossless
    Advances
    Halts
    WellNested
    Canonical
    NoErrorLost
