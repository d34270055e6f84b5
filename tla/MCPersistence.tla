--------------------------- MODULE MCPersistence ---------------------------
(* Instance of Persistence for TLC. *)
EXTENDS Persistence

CONSTANTS FirstBlock, LastBlock, HistFirst, HistLast

MCBlocks == FirstBlock .. LastBlock
MCBatches == {r \in {<<HistFirst, HistLast>>} : HistFirst <= HistLast}
=============================================================================
