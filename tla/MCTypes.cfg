CONSTANTS
  AnyType <- MCAnyType
  MaxMemoEntries = 1
  Generations = 3
  MaxSubstitutionClosureEntries = 5
  Graphs <- MCGraphs
  Declared <- MCDeclared
  MaxRetained = 5
  MaxQueries = 2
SPECIFICATION Spec
INVARIANTS
  QueriesAreRight
  SubstitutionsAreRight
