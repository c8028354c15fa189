CONSTANTS
    Frame <- MCFrame
    Address = {a1, a2, a3, a4, a5, a6, a7, a8, a9, a10}
    Buffer = buffer
    Stack <- MCStack
    StackHash <- HashOf
    Xor16 <- BitXor
SPECIFICATION Spec
INVARIANTS
    PointersIdentifyStacks
    DestructorFreesWhatItOwns
    HashesInStages
CHECK_DEADLOCK FALSE
