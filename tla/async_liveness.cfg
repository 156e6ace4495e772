SPECIFICATION FairScanSpec
CONSTANTS
  max_batch_size = 2
  max_context_length = 2
  tokens_per_page = 1
  Pages = {p1, p2}
  Buffers = {kv}
  NoPage = NoPage
  API = api
  Managers = {m1}
  EAGER_NUM_STEPS = 2
  EAGER_NUM_KVBLOCKS = 2
  Async = TRUE
  EagerReclaim = TRUE
  StartsDuringForward = TRUE
INVARIANT TermsDoNotWrap
PROPERTIES
  StepReturns
  ManagerEnds
