SPECIFICATION Spec
CONSTANTS
    Languages <- OperandsOnly
CHECK_DEADLOCK FALSE
INVARIANTS
    OperatorsKept
