CONSTANTS
  Modulus = 32
  Slack <- OffByOne
SPECIFICATION RangesSpec
INVARIANTS Assembled RangesSuffice
CHECK_DEADLOCK FALSE
