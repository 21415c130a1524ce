SPECIFICATION MCSpec
CONSTANTS
  EDIT_LINE_MAX = 6
  KBD_QUEUE_SIZE = 8
  MAX_LINE = 6
  MAX_STAGES = 3
  MAX_JOBS = 2
  FREE_FDS = 3
  MAX_PROCESSES = 4
  MaxPid = 4
  JobNames <- MCJobNames
  Numbers <- MCNumbers
  Counts = {0, 2}
  Scripts <- MCScripts
  LongScripts <- MCLongScripts
  MAX_DEEDS = 2
INVARIANTS  InputDelivered
CHECK_DEADLOCK FALSE
