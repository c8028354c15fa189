CONSTANTS
    Addr = {a1, a2, a3}
    Size = {4, 12}
    Stack = {1, 2}
    NumSizeEntries = 3
    RankingSize = 2
    SizeThreshold = 1
    CallStackThreshold = 1
    Word = 64
    Uninitialized = {0}
    AddrMayRepeat = FALSE
    MaxAllocs = 4
    MaxTests = 4
SYMMETRY AddrSymmetry
SPECIFICATION Spec
INVARIANT LargerSizesAreIgnored
CHECK_DEADLOCK FALSE
