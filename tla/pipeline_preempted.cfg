SPECIFICATION FairSpec
CONSTANTS
  NumRequests = 2
  Prompts = {1, 3}
  max_tokens = 3
  max_model_len = 6
  max_num_seqs = 3
  max_num_batched_tokens = 6
  chunk_sizes <- Chunk4
  tokens_per_stage = 8
  block_size = 2
  num_gpu_blocks = 3
  watermark_blocks = 0
  num_pipeline_stages = 2
  Configs <- SarathiPaged
PROPERTIES
  PreemptedOutputDropped
CHECK_DEADLOCK FALSE
