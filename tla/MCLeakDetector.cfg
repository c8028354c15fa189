\* A test is due after more than 7 bytes: one at every second allocation.
CONSTANTS
    Null = null
    sampled1 = sampled1
    sampled2 = sampled2
    unsampled = unsampled
    Addr <- MCAddr
    HashByte <- MCHashByte
    Trace <- MCTrace
    CallStackOf <- MCCallStackOf
    SamplingFactor = 1
    StackDepth = 1
    TraceRoom = 32
    DumpInterval = 7
    MaxTotalSize = 32
    Size = {4, 8}
    Stack = {1, 2}
    NumSizeEntries = 3
    RankingSize = 2
    SizeThreshold = 0
    CallStackThreshold = 1
    Word = 64
    Uninitialized = {0}
    AddrMayRepeat = FALSE
    MaxAllocs = 100
    MaxTests = 100
SYMMETRY AddrSymmetry
SPECIFICATION ClientSpec
INVARIANTS
    MapIsSampledHeap
    NothingIsLeftBehind
    TestsKeepTheirInterval
PROPERTY
    ShutdownIsFinal
