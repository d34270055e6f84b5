---------------------------- MODULE MCSubscriber ----------------------------
(* Small instances of Subscriber. *)
EXTENDS Subscriber

CONSTANT LastBlock
MCBlocks == 0..LastBlock
AllRequests == [start : MCBlocks \cup {Forever}, end : MCBlocks \cup {Forever}]
=============================================================================
