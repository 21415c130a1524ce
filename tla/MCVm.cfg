SPECIFICATION MCSpec
CONSTANTS
    Procs = {p1, p2}
    NFRAMES = 10
    NPAGES = 7
    MMAP_BASE = 5
    PAGE_SIZE = 2
    STACK_PAGE = 3
    STACK_PAGES = 2
    Programs <- MCPrograms
    Values = {0, 1}
    Breaks = {6, 8}
    Mmaps <- MCMmaps
    Ranges <- MCRanges
    Stores = {1}
    MAX_CALLS = 5
    REF_LIMIT = 3
SYMMETRY Symmetry
INVARIANTS OwnersMatch WritableIsPrivate NoLeakUnlessMishap
PROPERTY ImplementsMemory
CHECK_DEADLOCK FALSE
