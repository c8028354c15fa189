\* 0 and 1 share a block, 0 and 8 the indices of page and block in different
\* subclusters, 0 and 32 a chain of clusters.  A batch has fewer entries than a
\* full map, and size 6 exceeds its width.  No step depends on the latest call, so
\* that states which only differ in it are explored once.
CONSTANTS
    Addr = {0, 1, 8, 32}
    Size = {6}
    Hash = {7}
    NoHash = nohash
    NotFound = notfound
    BlockSize = 2
    NumBlocksPerPage = 2
    NumPagesPerSubcluster = 2
    NumSubclustersPerCluster = 2
    ClusterHashTableSize = 2
    EntryBulkAllocCount = 2
    SizeWord = 4
    IdWord = 4
    MaxNumEntries = 3
VIEW structure
SPECIFICATION Spec
INVARIANTS
    EntriesHaveOnePlace
    StatsTellStructure
    SizeCoversMap
PROPERTY
    ImplementsAddressMap
