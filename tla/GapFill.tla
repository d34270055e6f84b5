------------------------------ MODULE GapFill ------------------------------
(***************************************************************************)
(* The GapFill mode of the backfill plugin (worker.rs): cycles over a      *)
(* snapshot of CF_GAPS that fetch each gap from the first peer that covers *)
(* it.  The worker and the live pipeline are the two writers of WriteRace: *)
(* their calls of write_block interleave read by read.  A peer answers in  *)
(* order (Subscriber!InOrder), may be unreachable, may end its stream      *)
(* early and may break off.                                                *)
(***************************************************************************)
EXTENDS WriteRace, Sequences
LOCAL INSTANCE FiniteSets
LOCAL INSTANCE Functions

CONSTANTS live,         \* the writer that stores what the publishers deliver
          backfill,     \* the writer that stores what the worker fetches
          LiveBlocks,   \* blocks the publishers deliver
          Peers,        \* configured peers
          PeerRange,    \* PeerRange[p] = <<first_available, last_available>>
          RetryLimit    \* PEER_RETRY_LIMIT

ASSUME GapFillAssumption ==
  /\ Writers = {live, backfill} /\ live # backfill
  /\ LiveBlocks \subseteq Nat /\ PeerRange \in [Peers -> Nat \X Nat]
  /\ RetryLimit \in Nat

VARIABLE wk         \* the worker: pc, gaps left, peer order, peers left for
                     \* the current gap, retries, next block of the stream
gfVars == <<raceVars, wk>>

GFInit ==
  /\ RaceInit
  /\ wk = [pc |-> "idle", work |-> {}, order |-> <<>>, left |-> <<>>,
           start |-> 0, end |-> 0, tries |-> 0, at |-> 0]

\* The live pipeline calls write_block, and its call goes on.
LiveWrite(b) == Begin(live, b) /\ UNCHANGED wk
LiveCall == (Read(live) \/ Commit(live) \/ CheckSkipped(live)) /\ UNCHANGED wk

\* The call of w returns an error.  Nothing is shared before the commit, so that
\* an error of an earlier read is one of the commit.
CallFails(w) == (At(w, "commit") \/ At(w, "check")) /\ Abort(w)
LiveFails == CallFails(live) /\ UNCHANGED wk

\* The interval ticks: the gaps are read and the peers shuffled.
Tick ==
  /\ wk.pc = "idle" /\ gaps # {}
  /\ \E order \in Bijection(1..Cardinality(Peers), Peers) :
       wk' = [wk EXCEPT !.pc = "gap", !.order = order, !.work = gaps]
  /\ UNCHANGED raceVars

\* Gap g of the snapshot, the next in the order of the keys, clipped to the
\* configured start block.
TakeGap(g) ==
  LET s == IF g[1] > StartBlock THEN g[1] ELSE StartBlock
  IN  /\ wk.pc = "gap" /\ \A h \in wk.work : g[1] <= h[1]
      /\ wk' = IF s > g[2] THEN [wk EXCEPT !.work = @ \ {g}]
               ELSE [wk EXCEPT !.pc = "peer", !.work = @ \ {g}, !.left = wk.order,
                               !.start = s, !.end = g[2], !.tries = 0]
      /\ UNCHANGED raceVars

\* The snapshot is done.
CheckDone ==
  /\ wk.pc = "gap" /\ wk.work = {}
  /\ wk' = [wk EXCEPT !.pc = "idle", !.order = <<>>] /\ UNCHANGED raceVars

NextGap == CheckDone \/ \E g \in wk.work : TakeGap(g)

\* On to the next gap of the snapshot.
LeaveGap(w) == [w EXCEPT !.pc = "gap", !.left = <<>>, !.start = 0, !.end = 0,
                         !.tries = 0, !.at = 0]

\* Try the next peer, or give the gap up for this cycle.
NextPeer(w) == IF Len(w.left) = 1 THEN LeaveGap(w)
               ELSE [w EXCEPT !.pc = "peer", !.left = Tail(@), !.tries = 0, !.at = 0]

\* The peer that is asked.
Peer == Head(wk.left)
Covers(p) == PeerRange[p][1] <= wk.start /\ wk.end <= PeerRange[p][2]

\* BUG variant of Status: the peer need only have the end of the gap.
Status_end_only ==
  /\ wk.pc = "peer"
  /\ wk' = IF wk.end <= PeerRange[Peer][2]
             THEN [wk EXCEPT !.pc = "stream",
                      !.at = IF PeerRange[Peer][1] > wk.start
                               THEN PeerRange[Peer][1] ELSE wk.start]
             ELSE NextPeer(wk)
  /\ UNCHANGED raceVars

\* get_peer_status answers: a peer that covers the gap is asked for it.
Status ==
  /\ wk.pc = "peer"
  /\ wk' = IF Covers(Peer)
             THEN [wk EXCEPT !.pc = "stream", !.at = wk.start] ELSE NextPeer(wk)
  /\ UNCHANGED raceVars

\* No connection, no answer, or (after the retries) an address that is no URI.
Unreachable ==
  /\ wk.pc = "peer" /\ wk' = NextPeer(wk) /\ UNCHANGED raceVars


\* stream_from_peer: a block arrives and is handed to write_block ...
Fetch ==
  /\ wk.pc = "stream" /\ wk.at <= wk.end
  /\ Begin(backfill, wk.at) /\ wk' = [wk EXCEPT !.pc = "write"]

\* ... which reads on ...
WriteReads == Read(backfill) /\ UNCHANGED wk

\* ... and commits; the stream goes on when it returns.
WriteCommits ==
  /\ Commit(backfill) \/ CheckSkipped(backfill)
  /\ wk' = IF loc'[backfill].pc = "idle"
             THEN [wk EXCEPT !.pc = "stream", !.at = @ + 1] ELSE wk

\* The stream ends without an error, after the last block or (the peer gives
\* up and sends a status, which is not looked at) before it: "filled".
StreamEnds ==
  /\ wk.pc = "stream" /\ wk' = LeaveGap(wk)
  /\ UNCHANGED raceVars

\* The same peer again, up to the retry limit.
Retry(w) == IF w.tries = RetryLimit THEN NextPeer(w)
            ELSE [w EXCEPT !.pc = "peer", !.tries = @ + 1, !.at = 0]

\* A gRPC error, or an error of write_block.
StreamBreaks ==
  wk.pc = "stream" /\ wk' = Retry(wk) /\ UNCHANGED raceVars
WriteFails ==
  CallFails(backfill) /\ wk' = Retry(wk)

Worker == Tick \/ NextGap \/ Status \/ Fetch \/ WriteReads \/ WriteCommits \/ StreamEnds
GFNext == \/ (\E b \in LiveBlocks : LiveWrite(b)) \/ LiveCall \/ LiveFails
          \/ Worker \/ Unreachable \/ StreamBreaks \/ WriteFails
=============================================================================
