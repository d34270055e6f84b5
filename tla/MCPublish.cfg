CONSTANTS
  s1 = s1
  s2 = s2
  s3 = s3
  Sessions <- ThreeSessions
  Blocks <- TwoBlocks
  Offers <- OwnBlocks
  Threshold = 0
  MidBlock = FALSE
  Bad <- OnlySecond
SPECIFICATION Spec
CHECK_DEADLOCK FALSE
SYMMETRY Rivals
VIEW NextMatters
INVARIANTS WinnerIsLive AckIsStored SkippedIsNotLost
