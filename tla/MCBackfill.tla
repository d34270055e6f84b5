----------------------------- MODULE MCBackfill -----------------------------
(* Small instance of Backfill.  GapFill: one peer has every block, one only   *)
(* the later ones.  Continuous: the heads of the peers move up to MaxHead.    *)
EXTENDS Backfill

CONSTANTS near, far, LastBlock
MCBlocks == 0..LastBlock
None == {}
BothWriters == {live, backfill}
TwoPeers == {near, far}
MCPeerRange == [p \in Peers |-> IF p = far THEN <<0, LastBlock>> ELSE <<2, LastBlock>>]
Jumps == {2, LastBlock}
=============================================================================
