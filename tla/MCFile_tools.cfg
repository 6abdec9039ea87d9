SPECIFICATION Spec
CONSTANTS
  Tools = {t1, t2}
  Editors = {x}
  Contents = {c1, c2}
  Partial = Partial
  Files = {f1, f2, f3, f4}
  NoFile = NoFile
  Renames = TRUE
  IOErrors = TRUE
SYMMETRY Perms
INVARIANTS TypeOK NeverPartial
PROPERTIES ImplementsAtomicFile CreateNeverOverwrites SwapReplacesExpected
