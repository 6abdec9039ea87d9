SPECIFICATION Spec
CONSTANTS
  Procs = {p1, p2}
  Ids = {1}
  Names = {a}
  NoName = NoName
  Inodes = {f1, f2}
  NoInode = NoInode
  MaxClock = 0
  Retention = 0
  Faults = TRUE
  Crashes = TRUE
SYMMETRY Perms
INVARIANTS TypeOK SessionInv ExclusiveOwner MetaCoherent OpenIsComplete
PROPERTIES RemovalJustified OnlyOwnerWrites ImplementsRegister
