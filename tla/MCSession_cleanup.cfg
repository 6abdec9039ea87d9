SPECIFICATION Spec
CONSTANTS
  Procs = {p1, p2}
  Ids = {1}
  Names = {a}
  NoName = NoName
  Inodes = {f1, f2}
  NoInode = NoInode
  MaxClock = 1
  Retention = 1
  Faults = FALSE
  Crashes = TRUE
SYMMETRY Perms
PROPERTIES CleanupRemovesOnlyExpired
