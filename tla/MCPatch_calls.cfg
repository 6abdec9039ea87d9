SPECIFICATION Spec
CONSTANTS
  Texts <- MCTexts
  Holding <- MCHolding
  Trailing <- MCTrailing
  Empty = "e"
  Inputs <- MCInputs
INVARIANTS VerdictIsRight PatchIsSplice TerminatorsKept ShownIsPatchable
