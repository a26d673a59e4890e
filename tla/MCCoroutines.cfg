SPECIFICATION FairSpec
CONSTANTS
    f1 = f1
    f2 = f2
    f3 = f3
    f4 = f4
    Frames <- MCFourFrames
    NoFrame = NoFrame
    Failures <- AnyFailures
INVARIANTS
    TypeOK
    ListIsCallChain
    NoDanglingFrame
    NeverTerminates
PROPERTIES
    CalleeFirst
    ImplementsCalls
    Returns
