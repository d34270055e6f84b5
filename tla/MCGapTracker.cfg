SPECIFICATION TrackerSpec
CONSTANTS
  LastBlock = 7
  Blocks <- MCBlocks
INVARIANT GapsSeparated
INVARIANT LookupIsComplete
PROPERTY TracksMissingBlocks
