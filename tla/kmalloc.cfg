SPECIFICATION Spec
CONSTANTS
    MAX_ORDER = 1
    NrBlocks = 2
    NULL = NULL
    PAGE_SHIFT = 2
    LOW_MEMORY = 8
    MIN_KMALLOC_ORDER = 1
    MAX_KMALLOC_ORDER = 1
    EmptyLimit = 2
    Sizes = {2, 4, 5, 9}
INVARIANTS
    TypeOK
    ListsMatchUse
    CountsExact
    LiveIsOwned
    MemoryDisjoint
