SPECIFICATION Spec
CONSTANTS
  NumRequests = 2
  Prompts = {2}
  max_tokens = 2
  max_model_len = 4
  max_num_seqs = 2
  max_num_batched_tokens = 6
  chunk_sizes <- Chunk4
  tokens_per_stage = 8
  block_size = 2
  num_gpu_blocks = 2
  watermark_blocks = 0
  num_pipeline_stages = 1
  Configs <- SarathiVAttention
INVARIANTS
  AppendedSlotMapped
