SPECIFICATION MCSpec
CONSTANTS
  NCLUSTERS = 4
  SPARE = 1
  NUM_FATS = 2
  ROOT_SLOTS = 3
  DIR_SLOTS = 3
  CLUSTER_SIZE = 2
  FAT_MAX_NODES = 3
  Names = {"a", "b", "long", "."}
  Short <- MCShort
  Handles = {h1, h2}
  Counts = {3}
  Bytes = {1}
  Volumes <- MCVolumes
  SELFTEST = 4
  MAX_FAULTS = 1
  MAX_CALLS = 4
SYMMETRY Symmetry
INVARIANTS EntriesOwnClusters VolumeConsistent
PROPERTY ImplementsVolume
CHECK_DEADLOCK FALSE
