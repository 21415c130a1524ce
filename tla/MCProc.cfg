SPECIFICATION Spec
CONSTANTS
    MAX_TASKS = 3
    MAX_PROCESSES = 3
    MaxPid = 4
    ForegroundMax = 2
INVARIANTS
    TypeOK
    OneRunning
    LiveLinkage
    StoppedIsParked
    NoLostWakeup
    PidsUnique
    RingIntact
    NeverStuck
PROPERTIES
    ZombieUntouched
    OneReportPerStop
    DeadStayDead
