---------------------------- MODULE MCWriteRace ----------------------------
(* Instance of WriteRace for TLC: two writers that race.*)
EXTENDS WriteRace

CONSTANTS live, backfill

TwoWriters == {live, backfill}
NoBatches == {}
ThreeBlocks == {2, 3, 5}
=============================================================================
