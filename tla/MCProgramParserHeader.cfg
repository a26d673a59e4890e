SPECIFICATION Spec
CONSTANTS
    Languages <- HeadersOnly
CHECK_DEADLOCK FALSE
INVARIANTS
    CoversSource
