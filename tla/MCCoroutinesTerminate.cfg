SPECIFICATION Spec
CONSTANTS
    f1 = f1
    f2 = f2
    f3 = f3
    f4 = f4
    Frames <- MCFrames
    NoFrame = NoFrame
    Failures <- AwaiterFails
INVARIANTS
    OutOfMemoryIsAnError
