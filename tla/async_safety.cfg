SPECIFICATION ContentsSpec
CONSTANTS
  max_batch_size = 2
  max_context_length = 3
  tokens_per_page = 2
  Pages = {p1, p2, p3}
  Buffers = {kv}
  NoPage = NoPage
  API = api
  Managers = {m1}
  EAGER_NUM_STEPS = 3
  EAGER_NUM_KVBLOCKS = 2
  Async = TRUE
  EagerReclaim = TRUE
  StartsDuringForward = TRUE
SYMMETRY PageSymmetry
INVARIANTS
  TypeOK
  PageOwnership
  MutualExclusion
  ForwardBacked
  PoolCoversGrowth
  OomOnlyIfOversubscribed
  FreeBlocksExact
PROPERTIES
  ResidentPagesStay
  ImplementsKVCache
