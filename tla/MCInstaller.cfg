SPECIFICATION Spec
CONSTANTS
  BLOCK = 10
  NBLOCKS = 12
  NPARTS = 2
  ENTRY = 5
  ARRAY_BLOCKS = 3
  STAGE2_A = 12
  STAGE2_B = 10
  UNINSTALL_DATA_MAX = 14
  EXT = 21
  GUESS2 = 80
  Devices <- MCDevices
  Options <- MCOptions
  MAX_FAULTS = 3
INVARIANTS FailedInstallUndone InstalledAndReversible
CHECK_DEADLOCK FALSE
