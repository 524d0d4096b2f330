CONSTANTS
  Callers = {c1, c2}
  Ids = {i1}
  None = none
  MaxErrors = 2
  MaxDepth = 2
  MaxTokens = 4
  MaxDiags = 2
SPECIFICATION FairSpec
INVARIANTS MutualExclusion Isolation IdleIsClean ErrorBudget
PROPERTIES ResultIsOwned VerdictIsOwn CallReturns
