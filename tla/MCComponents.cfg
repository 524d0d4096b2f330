SPECIFICATION Spec
CONSTANTS
  Consumed = Consumed
  NoSchema = NoSchema
  Names <- MCNames
  Sources <- MCSources
  MaxUnionEntries = 3
  Depth = 2
INVARIANTS ComponentsAreRight RefusalsAreJustified
PROPERTIES IsPublication CompilationEnds
