CONSTANTS
  LastBlock = 2
  Blocks <- MCBlocks
  Forever = 9
  Requests <- AllRequests
  Lookahead = 1
  Capacity = 1
  CanFail = TRUE
SPECIFICATION LiveSpec
INVARIANTS InOrder SuccessIsComplete NoMissedEvent
PROPERTY StoredRangeServed
CHECK_DEADLOCK FALSE
