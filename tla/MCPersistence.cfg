CONSTANTS
  FirstBlock = 2
  LastBlock = 8
  HistFirst = 0
  HistLast = 1
  Blocks <- MCBlocks
  Batches <- MCBatches
  StartBlock = 3
  BatchSize = 2
  HotCount = 1
SPECIFICATION LiveSpec
INVARIANTS
  ContiguousStored
  MissingIsTracked
  LatestIsGreatest
PROPERTIES
  NothingLost
  ImplementsBlockStore
  OversizeDrains
