SPECIFICATION FairSpec
CONSTANTS
  Calls = {c1, c2}
  NoCall = NoCall
  Kids = {k}
  Faulty = {c1}
  Parents = {c1}
  Prompt = TRUE
INVARIANTS TypeOK OwnPipesOnly ReturnedTreeIsDead OutputIsWhole
  UnconfirmedHasCause HandlesClosedOnce SuccessIsReal
PROPERTIES RunReturns
