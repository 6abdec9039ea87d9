SPECIFICATION Spec
CONSTANTS
  Tools = {t1, t2}
  Editors = {}
  Contents = {c1, c2}
  Partial = Partial
  Files = {f1, f2, f3, f4}
  NoFile = NoFile
  Renames = FALSE
  IOErrors = FALSE
SYMMETRY Perms
PROPERTIES RecheckSeesTarget
