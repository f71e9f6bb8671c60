SPECIFICATION BuddySpec
CONSTANTS
    MAX_ORDER = 2
    NrBlocks = 2
    NULL = NULL
INVARIANTS
    Tiling
    Coalesced
    ListsMatchPages
PROPERTY
    ImplementsPageAlloc
