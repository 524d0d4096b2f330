CONSTANTS
  v = v
  w = w
  Names <- MCNames
  Admits <- MCAdmits
  Roots <- MCRoots
  Constraints <- MCConstraints
  Owned <- MCOwned
  Kind <- MCKind
  Refer <- MCRefer
  Selector <- MCSelector
  Field <- MCField
  Nillable = {"x"}
  Values = {v, w}
  NilKey = nil
  NoValue = novalue
  MaxErrors = 2
  MaxScopes <- MCMaxScopes
  MaxEntries <- MCMaxEntries
  Contents <- MCContents
  Attributes <- MCAttributes
  Modes <- MCModes
  MaxDepth <- MCMaxDepth
  MaxElements <- MCMaxElements
SPECIFICATION Spec
INVARIANTS StacksAreOwn Verdict EntryBudget SilenceIsClean
