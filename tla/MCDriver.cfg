SPECIFICATION Spec
CONSTANTS
    Bits = 8
    Languages <- EveryLanguage
    AstNodeIndex <- Indices
    INVALID_AST_NODE_INDEX = 0
CHECK_DEADLOCK FALSE
INVARIANTS
    TypeOK
    LowersAccepted
    RedOffsets
    NamesKept
    NamesInOrder
    PlainNumerals
    DumpedOnce
    DumpedAll
PROPERTIES
    Dumps
    Answers
