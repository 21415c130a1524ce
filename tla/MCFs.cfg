SPECIFICATION MCSpec
CONSTANTS
    Procs = {p1, p2}
    MAX_FDS = 3
    FIRST_FD = 1
    MAX_NODES = 6
    NFRAMES = 5
    PAGE_SIZE = 2
    Parts <- MCParts
    BootDirs <- MCBootDirs
    BootFiles <- MCBootFiles
    Devices <- MCDevices
    Ids = {0, 1}
    Modes <- MCModes
    Paths <- MCPaths
    OwnPaths <- MCOwnPaths
    OpenFlags <- MCOpenFlags
    DupTargets = {0}
    Bytes = {1}
    Counts = {2}
    MAX_SIZE = 5
    MAX_CALLS = 5
    MAX_PATH = 3
    MAX_FD = 3
    MAX_ID = 1
    MAX_PROC = 1
SYMMETRY Symmetry
INVARIANTS PagesAccounted OffsetInFile TreeIntact
PROPERTIES WritesPermitted ImplementsFiles
CHECK_DEADLOCK FALSE
