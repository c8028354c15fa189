CONSTANTS
    Request = {4, 8, 16}
    Random = {1, 4}
    MemoryStart = 16
    MemoryEnd = 80
    HeaderSize = 4
    NextOffset = 5
    PointerSize = 1
    MaxLevel = 5
    Roundup = 4
    PageSize = 8
    PagesPerRegion = 2
    ArenaSize = 4
SPECIFICATION Spec
INVARIANTS
    TypeOK
    BlocksTileMemory
    FreelistWellFormed
    EmptyArenaIsAllPages
PROPERTY
    ImplementsFirstFit
