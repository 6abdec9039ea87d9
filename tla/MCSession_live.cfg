SPECIFICATION FairSpec
CONSTANTS
  Procs = {p1, p2}
  Ids = {1}
  Names = {}
  NoName = NoName
  Inodes = {f1, f2}
  NoInode = NoInode
  MaxClock = 1
  Retention = 1
  Faults = FALSE
  Crashes = FALSE
PROPERTIES CallsReturn ExpiredIsCollected
