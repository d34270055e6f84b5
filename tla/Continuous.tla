----------------------------- MODULE Continuous -----------------------------
(***************************************************************************)
(* The Continuous mode of the backfill plugin (worker.rs) over the store   *)
(* of Persistence: a Tier 2 node follows the head of its peers over        *)
(* open-ended streams.  It is the only writer, so that its calls of        *)
(* write_block are whole.                                                  *)
(***************************************************************************)
EXTENDS Persistence, Sequences
LOCAL INSTANCE FiniteSets
LOCAL INSTANCE Functions

CONSTANTS Peers, RetryLimit,   \* configured peers, PEER_RETRY_LIMIT
          PeerRange,           \* PeerRange[p][1]: the first block of p
          MaxHead,             \* bound on the peers' heads
          CanFail              \* the latest block may be unreadable

VARIABLES wk,     \* the worker: pc, peers left in this cycle, latest as read
                  \* for this peer, retries, next block of the stream
          head    \* head[p]: the last block of p, NoBlock when it is empty
cVars == <<vars, wk, head>>

First(p) == PeerRange[p][1]
Heads(p) == {NoBlock} \cup First(p)..MaxHead

CInit ==
  /\ Init /\ head \in [Peers -> NoBlock..MaxHead] /\ \A p \in Peers : head[p] \in Heads(p)
  /\ wk = [pc |-> "idle", left |-> <<>>, local |-> -1, tries |-> 0, at |-> 0]

PeerAdvances(p) ==
  /\ head' = [head EXCEPT ![p] = IF @ = NoBlock THEN First(p) ELSE @ + 1]
  /\ head'[p] <= MaxHead /\ UNCHANGED <<vars, wk>>

\* run_continuous_stream_cycle: the peers are shuffled, p comes first.
StartCycleWith(p) ==
  /\ wk.pc = "idle"
  /\ \E order \in Bijection(1..Cardinality(Peers), Peers) :
       Head(order) = p /\ wk' = [wk EXCEPT !.pc = "latest", !.left = order]
  /\ UNCHANGED <<vars, head>>
StartCycle == \E p \in Peers : StartCycleWith(p)

\* The latest block is read once per peer, outside the retry loop; an error
\* counts as "none".
LatestIs(l) ==
  /\ wk.pc = "latest" /\ wk' = [wk EXCEPT !.pc = "status", !.local = l, !.tries = 0]
  /\ UNCHANGED <<vars, head>>
ReadLatest == LatestIs(latest)
LatestFails == CanFail /\ latest # NoBlock /\ LatestIs(NoBlock)

NextPeer(w) == [w EXCEPT !.left = Tail(@), !.tries = 0,
                         !.pc = IF Len(w.left) = 1 THEN "idle" ELSE "latest"]

\* The peer that is asked, and its last_available_block (0 when it is empty).
Peer == Head(wk.left)
PeerHead == IF head[Peer] = NoBlock THEN 0 ELSE head[Peer]

\* The peer does not have the next block yet: its status is asked for again.
Level == /\ wk.pc = "status" /\ PeerHead >= wk.local
         /\ wk.local + 1 > PeerHead /\ wk.local + 1 > 0

\* BUG variant of Follow: the stream starts at the head of the peer.
Follow_from_head ==
  /\ wk.pc = "status" /\ PeerHead >= wk.local /\ ~Level
  /\ wk' = [wk EXCEPT !.pc = "stream", !.at = PeerHead]
  /\ UNCHANGED <<vars, head>>

\* The peer is ahead: stream from the block after the latest one, block 0 for an
\* empty store, whatever the peer's first block is.
Follow ==
  /\ wk.pc = "status" /\ PeerHead >= wk.local /\ ~Level
  /\ wk' = [wk EXCEPT !.pc = "stream", !.at = wk.local + 1]
  /\ UNCHANGED <<vars, head>>

\* The peer is behind, or does not answer: the next one.
LeavePeer ==
  /\ wk.pc = "status" /\ wk' = NextPeer(wk) /\ PeerHead < wk.local
  /\ UNCHANGED <<vars, head>>
Unreachable ==
  /\ wk.pc = "status" /\ wk' = NextPeer(wk) /\ UNCHANGED <<vars, head>>

\* The 5 s pass.
AwaitPeer ==
  /\ Level /\ UNCHANGED cVars

\* The peer has the block that the stream has come to.
Serves == wk.pc = "stream" /\ First(Peer) <= wk.at /\ wk.at <= head[Peer]

\* BUG variant of Fetch: a block may be lost from the stream.
Fetch_lossy ==
  /\ Serves /\ (write_block(wk.at) \/ UNCHANGED vars)
  /\ wk' = [wk EXCEPT !.at = @ + 1] /\ UNCHANGED head

\* stream_from_peer: a block arrives and is written.
Fetch ==
  /\ Serves /\ write_block(wk.at)
  /\ wk' = [wk EXCEPT !.at = @ + 1] /\ UNCHANGED head

\* The peer ends the stream, at once with InvalidStart when the stream begins
\* before its first block (the status is not looked at): a new cycle.
StreamEnds ==
  /\ wk.pc = "stream" /\ wk' = [wk EXCEPT !.pc = "idle", !.left = <<>>]
  /\ UNCHANGED <<vars, head>>

\* An error: the status of the same peer again, with the latest block as it
\* was read before the stream, up to the retry limit.
StreamBreaks ==
  /\ wk.pc = "stream"
  /\ wk' = IF wk.tries = RetryLimit THEN NextPeer(wk)
           ELSE [wk EXCEPT !.pc = "status", !.tries = @ + 1]
  /\ UNCHANGED <<vars, head>>

Worker == StartCycle \/ ReadLatest \/ Follow \/ LeavePeer \/ AwaitPeer \/ Fetch
CNext == \/ Worker \/ LatestFails \/ Unreachable \/ StreamEnds \/ StreamBreaks
         \/ \E p \in Peers : PeerAdvances(p)
=============================================================================
