SPECIFICATION Spec
CONSTANTS
  TagReset = "pointer"
  Speeds = {424}
  Waits = {4}
  MaxCalls = 1
INVARIANT PowerOnReturns
CHECK_DEADLOCK FALSE
