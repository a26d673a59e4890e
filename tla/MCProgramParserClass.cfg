SPECIFICATION Spec
CONSTANTS
    Languages <- ClassesOnly
CHECK_DEADLOCK FALSE
INVARIANTS
    Halts
