CONSTANTS
  near = near
  far = far
  LastBlock = 3
  Blocks <- MCBlocks
  Batches <- None
  StartBlock = 1
  BatchSize = 2
  HotCount = 100
  live = live
  backfill = backfill
  Writers <- BothWriters
  IterFails = FALSE
  LiveBlocks <- Jumps
  Peers <- TwoPeers
  PeerRange <- MCPeerRange
  RetryLimit = 1
  MaxHead = 2
  CanFail = TRUE
\* The properties of GapFill assume []Exclusive: other states are not explored.
CONSTRAINT Exclusive
SPECIFICATION LiveBackfillSpec
INVARIANT NoHoles
PROPERTIES WatermarkCatchesUp  FollowsBestPeer
