---------------------------- MODULE MCGapTracker ----------------------------
(* Instance of GapTracker for TLC: all ranges and blocks of 0 .. LastBlock.  *)
EXTENDS GapTracker

CONSTANT LastBlock     \* bound on the block numbers

MCBlocks == 0 .. LastBlock
=============================================================================
