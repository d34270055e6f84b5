CONSTANTS
  live = live
  backfill = backfill
  Writers <- TwoWriters
  Blocks <- ThreeBlocks
  Batches <- NoBatches
  StartBlock = 1
  BatchSize = 2
  HotCount = 9
  IterFails = FALSE
SPECIFICATION RaceSpec
INVARIANT MissingIsTracked
