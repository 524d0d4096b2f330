CONSTANTS
  Namespaces <- MCNamespaces
  Absent = ""
  Types <- MCTypes
  TypeDerives <- MCTypeDerives
  IdTypes = {"id"}
  UnavailableTypes = {"gone"}
  Canonical <- MCCanonical
  Identity <- MCIdentity
  GlobalAttributes <- MCGlobalAttributes
  AttributeGroups <- MCAttributeGroups
  Children <- MCChildren
  MaxChildren = 2
  InstanceAttributes <- MCInstanceAttributes
  HintedNamespaces = {"u"}
  MaskBits = 1
  MaxRetainedSliceCap = 2
SPECIFICATION Spec
INVARIANTS
  WildcardsMeanIt
  AttributesAreJudged
  RestrictionsAreSound
