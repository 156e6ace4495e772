SPECIFICATION Spec
CONSTANTS
  NumRequests = 4
  Prompts = {1, 4, 9}
  max_tokens = 3
  max_model_len = 8
  max_num_seqs = 3
  max_num_batched_tokens = 8
  chunk_sizes <- Chunk2
  tokens_per_stage = 8
  block_size = 2
  num_gpu_blocks = 4
  watermark_blocks = 0
  num_pipeline_stages = 1
  Configs <- AllConfigs
INVARIANTS
  TypeOK
  EachSequenceQueuedOnce
  PreemptedNotReadmitted
  PreemptsYoungest
  NoInternalError
  ContextResident
  BatchWithinChunk
