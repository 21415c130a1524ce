SPECIFICATION Spec
CONSTANTS
    Procs = {p1, p2}
    MAX_FDS = 3
    FIRST_FD = 1
    MAX_PIPES = 1
    PIPE_BUF_SIZE = 2
    TaskFound = {TRUE}
    OpenModes = {}
    DupTargets = {0}
    Counts = {1}
    MaxSent = 2
INVARIANT WriteEndWritable
