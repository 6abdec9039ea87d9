SPECIFICATION SpecNames
CONSTANTS
  Procs = {p1, p2}
  Ids = {1, 2}
  Names = {a}
  NoName = NoName
  Inodes = {f1, f2}
  NoInode = NoInode
  MaxClock = 0
  Retention = 1
  Faults = FALSE
  Crashes = FALSE
SYMMETRY Perms
PROPERTIES NameResolution
