SPECIFICATION Spec
CONSTANTS
  MaxCalls = 2
  Ids = {a, b}
  ReuseIds = FALSE
  Invalid = {}
  NumOutputs = 2
  Failures = {"exception"}
INVARIANTS
  ErrorReachesAll
CHECK_DEADLOCK FALSE
