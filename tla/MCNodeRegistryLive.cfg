SPECIFICATION FairSpec
CONSTANTS
    n1 = n1
    n2 = n2
    n3 = n3
    n4 = n4
    l1 = l1
    l2 = l2
    l3 = l3
    l4 = l4
    f1 = f1
    Nodes <- MCNodes
    Locals <- MCTwoLocals
    Fields <- MCFields
    MaxIndex = 12
    MaxLost = 0
    NoNode = NoNode
    NoSlot = NoSlot
PROPERTIES
    CallsReturn
    ImplementsLifetime
