\* Files of up to five records; every allocation of a sampled address is followed by a test.
CONSTANTS
    Null = null
    sampled1 = sampled1
    sampled2 = sampled2
    unsampled = unsampled
    Addr <- MCAddr
    HashByte <- MCHashByte
    Trace <- MCTrace
    CallStackOf <- MCCallStackOf
    SamplingFactor = 1
    StackDepth = 1
    TraceRoom = 1
    DumpInterval = 3
    Size = {4}
    Stack = {1, 2}
    NumSizeEntries = 2
    RankingSize = 2
    SizeThreshold = 0
    CallStackThreshold = 0
    Word = 64
    Uninitialized = {0}
    AddrMayRepeat = TRUE
    MaxAllocs = 7
    MaxTests = 7
    Depth = {0, 1, 2, 3}
    MaxRecords = 5
SPECIFICATION ReplaySpec
INVARIANTS
    RepeatsCountOnce
    CountsCoverLive
PROPERTY
    ReplayEnds
CHECK_DEADLOCK FALSE
