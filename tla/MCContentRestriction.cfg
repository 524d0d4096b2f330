CONSTANTS
  Terms <- MCTerms
  Wildcards <- MCWildcards
  Admits <- MCAdmits
  MaxContentModelStates = 40
  Declarations <- MCDeclarations
  Members <- MCMembers
  RestrictsType <- MCRestrictsType
  Sources <- Restrictions
  Names <- MCNames
  MaxChildren = 5
SPECIFICATION Spec
INVARIANT RestrictionIsSubset
CHECK_DEADLOCK FALSE
