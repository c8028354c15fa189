\* Four call stacks compete for three places, so that ties at the end of the
\* list occur; a call stack is suspected by the third test at the earliest.
\* The buffer is what a dump of three entries and a suspect takes: 126 bytes of
\* counts, 30 + 3 * 40 of ranking, 23 + 14 + 1 of suspects, and the null; a
\* report of 50 bytes and 18 for every frame has room for 14 frames there.
CONSTANTS
    Stack = {1, 2, 3, 4}
    RankingSize = 3
    BufferSize = 316
    PointerLen = 14
    FrameLen = 16
    Depth = 14
    SizeModulus = 1048576
    AllocSize = 32
    ScoreThreshold = 2
    MaxAdds = 5
    MaxFrees = 1
    MaxTests = 3
SPECIFICATION Spec
INVARIANTS
    HoldsTheTop
    EntriesAddUp
    DumpFits
    OrderDoesNotDecide
PROPERTY
    SuspectsHoldMemory
CHECK_DEADLOCK FALSE
