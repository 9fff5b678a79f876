\* Two handlers over two rows of two volumes, below, at and above the time to live.
CONSTANTS
  Rows = {"r1", "r2"}
  Volumes = {"v1", "v2"}
  VolumeOf <- MCVolumeOf
  Threads = {t1, t2}
  t1 = t1
  t2 = t2
  Ttl = 0
  MaxTime = 2
  MaxCalls = 2
  MaxOthers = 1
  MaxFaults = 1
SPECIFICATION Spec
SYMMETRY Symmetry
INVARIANTS
  VolumeAnswersTruthfully
PROPERTIES
  AgingSparesFreshRows
CHECK_DEADLOCK FALSE
