SPECIFICATION Spec
CONSTANTS
    n1 = n1
    n2 = n2
    n3 = n3
    n4 = n4
    l1 = l1
    l2 = l2
    l3 = l3
    l4 = l4
    f1 = f1
    Nodes <- MCNodes
    Locals <- MCLocals
    Fields <- MCFields
    MaxIndex = 12
    MaxLost = 1
    NoNode = NoNode
    NoSlot = NoSlot
SYMMETRY Symmetry
INVARIANTS
    TypeOK
    RegistryMatches
    CountsMatch
    NoDangling
    NoIndexLeak
    NeverAborts
