SPECIFICATION Spec
CONSTANTS
    PAGE_SIZE = 4
    MAX_PAGES = 4
    REF_LIMIT = 3
    MemMaps <- MCMemMaps
INVARIANTS
    TypeOK
    Accounting
    OwnersMatchBitmap
    OutOfMemoryIsReal
PROPERTY
    ImplementsFrameAlloc
