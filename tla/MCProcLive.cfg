SPECIFICATION FairSpec
CONSTANTS
    MAX_TASKS = 3
    MAX_PROCESSES = 3
    MaxPid = 4
    ForegroundMax = 0
PROPERTIES
    ReadyRuns
    WaitReturns
