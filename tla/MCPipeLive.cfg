SPECIFICATION FairSpec
CONSTANTS
    Procs = {p1, p2}
    MAX_FDS = 3
    FIRST_FD = 1
    MAX_PIPES = 1
    PIPE_BUF_SIZE = 1
    TaskFound = {TRUE, FALSE}
    OpenModes = {"O_RDWR"}
    DupTargets = {}
    Counts = {1}
    MaxSent = 2
PROPERTIES HangupReturns
