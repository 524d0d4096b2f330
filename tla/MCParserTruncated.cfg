CONSTANTS
  LineFeed = "lf"
  ByteOrderMark = "mark"
  Capacity = 5
  Inputs <- MCInputs
SPECIFICATION Spec
INVARIANTS TruncationIsReported
CHECK_DEADLOCK FALSE
