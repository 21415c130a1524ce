SPECIFICATION Spec
CONSTANTS
    MAX_TASKS = 3
    MAX_PROCESSES = 3
    MaxPid = 3
    ForegroundMax = 0
INVARIANT
    LiveProcessHasTask
