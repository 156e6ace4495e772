SPECIFICATION Spec
CONSTANTS
  PageSizes = {6, 8}
  TokenDims = {1, 2, 3}
  LayerCounts = {1, 2}
  ContextLengths = {1, 3, 4, 5}
  max_batch_size = 2
INVARIANTS
  MappingsReserved
  SlotsDisjoint
  AlignedTokensMapped
