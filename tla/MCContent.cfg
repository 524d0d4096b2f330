CONSTANTS
  Terms <- MCTerms
  Wildcards <- MCWildcards
  Admits <- MCAdmits
  MaxContentModelStates = 40
  Declarations <- MCDeclarations
  Members <- MCMembers
  RestrictsType <- MCRestrictsType
  Sources <- MCSources
  Names <- MCNames
  MaxChildren = 5
SPECIFICATION Spec
INVARIANTS ContentIsRight AmbiguityIsRefused RestrictionsAreSubsets
CHECK_DEADLOCK FALSE
