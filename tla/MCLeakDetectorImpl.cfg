\* Both tiers at their least thresholds, so that four tests can end in a report.
\* Class 0 holds the size that is too large for the three classes.
CONSTANTS
    Addr = {a1, a2, a3, a4}
    Size = {4, 12}
    Stack = {1, 2}
    NumSizeEntries = 3
    RankingSize = 2
    SizeThreshold = 1
    CallStackThreshold = 1
    Word = 64
    Uninitialized = {60}
    AddrMayRepeat = FALSE
    MaxAllocs = 5
    MaxTests = 4
SYMMETRY AddrSymmetry
SPECIFICATION Spec
INVARIANTS
    TypeOK
    NetAllocsAreLive
    TablesCountLive
    ReferencesAreOwned
    ReportsTakeTime
PROPERTIES
    ReportedStacksHoldMemory
    ReportedStacksHaveCompany
    NetAllocSizeFollowsLiveBytes
    SizesImplementSuspicionRuns
CHECK_DEADLOCK FALSE
