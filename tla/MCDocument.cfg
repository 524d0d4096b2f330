CONSTANTS
  byte = byte
  Names <- MCNames
  Tags <- MCTags
  Candidates <- SyntaxTags
  Known <- MCKnown
  Particles <- MCParticles
  Starts <- MCStarts
  Chunks <- MCChunks
  HasIdentityConstraints = TRUE
  MaxInstanceDepth = 3
  MaxInstanceTextBytes = 1
  MaxErrors = 2
SPECIFICATION Spec
INVARIANTS StacksAligned NamesAreInScope ArenasAreOwn PathIsFresh TagsAreJudged
