SPECIFICATION Spec
CHECK_DEADLOCK FALSE
CONSTANTS
  Missing = missing
  Key <- MCKey
  Rank <- MCRank
  Worlds <- MCWorlds
  MaxSchemaSources = 4
  MaxSchemaSourceBytes = 3
  MaxSchemaTotalBytes = 14
  MaxSchemaReferences = 6
  MaxSchemaTargetContexts = 4
  MaxSchemaInstantiatedNodes = 10
INVARIANTS
  ReadersAreClosed BudgetsHold GraphIsRight RefusalsAreJustified ContextsAreRight
