SPECIFICATION ContentsSpec
CONSTANTS
  max_batch_size = 2
  max_context_length = 3
  tokens_per_page = 2
  Pages = {p1, p2, p3, p4, p5, p6}
  Buffers = {k, v}
  NoPage = NoPage
  API = api
  Managers = {m1}
  EAGER_NUM_STEPS = 3
  EAGER_NUM_KVBLOCKS = 2
  Async = FALSE
  EagerReclaim = TRUE
  StartsDuringForward = TRUE
SYMMETRY PageSymmetry
INVARIANTS
  PageOwnership
  ForwardBacked
  OomOnlyIfOversubscribed
PROPERTIES
  ResidentPagesStay
  ImplementsKVCache
