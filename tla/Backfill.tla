------------------------------ MODULE Backfill ------------------------------
(***************************************************************************)
(* The backfill plugin over the store of Persistence: its task runs the    *)
(* loop of the configured mode, GapFill or Continuous, for the life of the *)
(* process (lib.rs of the plugin).                                         *)
(***************************************************************************)
EXTENDS GapFill

CONSTANTS MaxHead, CanFail         \* Continuous: see there

ASSUME BackfillAssumption == MaxHead \in Nat /\ CanFail \in BOOLEAN

VARIABLES mode,   \* plugins.backfill.mode; wk is the worker of that mode
          head    \* the peers' last available blocks, as they move in Continuous

C == INSTANCE Continuous
allVars == <<gfVars, mode, head>>

BackfillInit ==
  \/ mode = "GapFill" /\ GFInit /\ head = [p \in Peers |-> 0]
  \/ mode = "Continuous" /\ C!CInit /\ loc = [w \in Writers |-> Idle]

\* A step g of the GapFill loop or a step c of the Continuous loop.
InMode(g, c) == \/ mode = "GapFill" /\ g /\ UNCHANGED <<mode, head>>
                \/ mode = "Continuous" /\ c /\ UNCHANGED <<mode, loc>>

\* The loop of start(): one mode, chosen once.
BackfillNext == InMode(GFNext, C!CNext)
BackfillSpec == BackfillInit /\ [][BackfillNext]_allVars

\* Fairness, per mode (the mode never changes, so fairness of InMode(g, c) is
\* fairness of g in the one and of c in the other).  The tasks are polled and the
\* interval ticks.  GapFill: a peer that covers a gap is not unreachable for
\* ever and does not break off before every first block, and the worker's
\* commits do not all fail.  Continuous: a peer ends a stream on which nothing
\* comes (Subscriber!Timeout); every peer comes first after some shuffle, is not
\* unreachable for ever and does not break off its streams before the same block
\* for ever.
BackfillFairness ==
  /\ WF_allVars(InMode(Worker, C!Worker)) /\ WF_allVars(InMode(LiveCall, C!StreamEnds))
  /\ \A p \in Peers :
       /\ SF_allVars(InMode(Status /\ Covers(Peer), C!StartCycleWith(p)))
       /\ SF_allVars(InMode(Fetch, C!Follow /\ C!Peer = p))
       /\ \A b \in C!First(p)..MaxHead :
            SF_allVars(InMode(WriteCommits, C!Fetch /\ C!Peer = p /\ wk.at = b))
LiveBackfillSpec == BackfillSpec /\ BackfillFairness

-----------------------------------------------------------------------------
\* GapFill: what the index lists is fetched in the end, and the contiguous
\* watermark reaches every block that was delivered: no order of live writes,
\* partial streams, failing writes and stale snapshots leaves it stuck behind a
\* gap that is closed (run_single_gap_check, write_block), as long as the calls
\* of the two writers do not overlap, which nothing in the code prevents.
WatermarkCatchesUp ==
  []Exclusive =>
    \A b \in LiveBlocks : (mode = "GapFill" /\ latest >= b) ~> (highest >= b)


\* Continuous: a node fed by one follower has no holes: whatever breaks, ends or
\* restarts, the watermark is the latest block and the gap index stays empty.
NoHoles ==
  mode = "Continuous" => gaps = {} /\ (latest # NoBlock => highest = LatestOrSeed)

\* Continuous: whatever block some peer has is stored in the end, when the peer's
\* first block is not beyond the next one this node needs (an empty node always
\* asks for block 0) and the latest block does not become unreadable again and
\* again, unless the worker stays with a peer that is level with this node and
\* never moves again (run_continuous_stream_cycle asks it every 5 s).
FollowsBestPeer ==
  <>[][~C!LatestFails]_allVars /\ []<>~(mode = "Continuous" /\ C!Level) =>
    \A p \in Peers, b \in 0..MaxHead :
      (/\ mode = "Continuous" /\ C!First(p) <= latest + 1
       /\ C!First(p) <= b /\ b <= head[p]) ~> (b \in Stored)
=============================================================================
