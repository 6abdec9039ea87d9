SPECIFICATION FairSpec
CONSTANTS
  Calls = {c1}
  Tools = {"read_file", "write_file", "run_powershell"}
  Dirs = {d1, d2}
  Gone = Gone
  Link = Link
INVARIANTS TypeOK OnlyAllowedEffects RefusalMeansNoEffect
  OkMeansDone EffectWhereBound NoOrphanRuns
PROPERTIES CallEnds
