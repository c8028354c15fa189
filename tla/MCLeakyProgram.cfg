CONSTANTS
    NumAddr = 500
    Addr <- MCAddr
    Size = {16, 40, 56, 68}
    Stack = {1, 2, 3, 4, 5, 6}
    NumSizeEntries = 18
    RankingSize = 16
    SizeThreshold = 4
    CallStackThreshold = 4
    Word = 1048576
    Uninitialized = {0}
    AddrMayRepeat = FALSE
    MaxAllocs = 100000
    MaxTests = 10000
    NumPlaces = 5
    PlaceMaps <- MCPlaceMaps
    NumIterations = 6
    AnalysisInterval = 600
    RootSize <- MCRootSize
    PointSize = 16
    RawStack <- MCRawStack
    MappingAddr = 32768
    MappingSize = 8192
SPECIFICATION ProgramSpec
INVARIANTS
    OnlyLeaksReported
PROPERTY
    LeaksAreReported
CHECK_DEADLOCK FALSE
