CONSTANTS
  StartBlock = 3
  LastBlock = 5
  BatchSize = 2
  HotCount = 1
  Blocks <- MCBlocks
  Batches <- MCBatches
  ReadBlocks <- MCReadBlocks
SPECIFICATION Spec
INVARIANTS UnreadableOnlyIfNotLoaded ReadNeverMisses StatusIsStored
PROPERTY CrashSafe
