\* A table that is emptied after its first suspicion and then tested again.
CONSTANTS
    Addr = {a1, a2, a3}
    Size = {4}
    Stack = {1, 2}
    NumSizeEntries = 2
    RankingSize = 2
    SizeThreshold = 1
    CallStackThreshold = 2
    Word = 64
    Uninitialized = {0}
    AddrMayRepeat = FALSE
    MaxAllocs = 5
    MaxTests = 6
SYMMETRY AddrSymmetry
SPECIFICATION Spec
PROPERTY EveryTestScoresEveryStack
CHECK_DEADLOCK FALSE
