SPECIFICATION Spec
CONSTANTS
    Languages <- DoubleClosingOnly
CHECK_DEADLOCK FALSE
INVARIANTS
    WidthKept
