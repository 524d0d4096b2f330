CONSTANTS
  Texts <- MCTexts
  Kinds <- MCKinds
  Family <- MCFamily
  Space <- MCSpace
  Order <- MCOrder
  Written <- MCWritten
  RawKinds = {"time"}
  StepKinds = {"decimal", "digits", "integer", "time"}
  PartialKinds = {"duration", "time"}
  Same <- MCSame
  SizeOf <- MCSizeOf
  WhiteSpaceOf <- MCWhiteSpaceOf
  Offers <- MCOffers
  MaxDeclared = 2
  MaxDepth = 3
  NoValue = NoValue
  Primitive <- MCPrimitive
  Builtin <- MCBuiltin
  IdentityOf <- MCIdentityOf
  Extremes <- MCExtremes
  Negative = {"-1", "-2147483648"}
  Unresolved = {"p:n", "q:n"}
  Canonical <- MCCanonical
  Numeric <- MCNumeric
  Loose = "a b"
  Companions <- MCCompanions
  Words <- MCWords
  MaxJudged <- MCMaxJudged
  ListCompanions = {"IDREF", "qname"}
SPECIFICATION Spec
INVARIANTS
  FacetsNarrow
  RefusalsAreReal
  RoutesAgree
