CONSTANTS
  LineFeed = "lf"
  ByteOrderMark = "mark"
  Capacity = 5
  Inputs <- MCInputs
SPECIFICATION Spec
INVARIANTS TokensAreRight LimitsAreKept
PROPERTIES IsByteSource ParserStops
CHECK_DEADLOCK FALSE
