SPECIFICATION FairSpec
CONSTANTS
  NumRequests = 3
  Prompts = {1, 3}
  max_tokens = 3
  max_model_len = 6
  max_num_seqs = 2
  max_num_batched_tokens = 6
  chunk_sizes <- Chunk2
  tokens_per_stage = 8
  block_size = 2
  num_gpu_blocks = 5
  watermark_blocks = 0
  num_pipeline_stages = 1
  Configs <- AllConfigs
INVARIANTS
  ClonesInSync
PROPERTIES
  RequestsServed
