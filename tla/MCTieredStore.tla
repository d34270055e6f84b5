--------------------------- MODULE MCTieredStore ---------------------------
(* Instance of TieredStore for TLC. *)
EXTENDS TieredStore

CONSTANTS LastBlock

MCBlocks == StartBlock .. LastBlock
MCBatches == {<<1, 2>>}
MCReadBlocks == {1, StartBlock + 1}

ASSUME InstanceAssumption == HistoricalApart /\ HistoricalBelow
=============================================================================
