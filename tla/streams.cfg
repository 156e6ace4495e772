SPECIFICATION FairSpec
CONSTANTS
  MaxCalls = 3
  Ids = {a, b, c}
  ReuseIds = FALSE
  Invalid = {}
  NumOutputs = 2
  Failures = {"timeout"}
INVARIANTS
  TypeOK
  OpenStreamsTracked
  EndedComplete
PROPERTIES
  StreamsEnd
  NoRestartAfterError
CHECK_DEADLOCK FALSE
