--------------------------- MODULE BackfillProofs ---------------------------
(***************************************************************************)
(* The backfill worker as a client of write_block, for every set of peers, *)
(* retry limit and behaviour of the peers.  The Continuous mode leaves no  *)
(* holes.  The GapFill mode moves no head and no edge of the store,        *)
(* however its calls overlap the live ones; when they do not overlap, the  *)
(* store keeps what PersistenceProofs shows of it.                         *)
(***************************************************************************)
EXTENDS Backfill, PersistenceProofs, Sequences, WellFoundedInduction

\* The worker asks for no block beyond the one after the latest: what it has
\* read as latest may be stale, but latest never falls.
Behind ==
  /\ wk = [pc |-> wk.pc, left |-> wk.left, local |-> wk.local, tries |-> wk.tries, at |-> wk.at]
  /\ wk.local \in Nat \cup {-1} /\ wk.local <= LatestOrSeed
  /\ wk.at \in Nat /\ (wk.pc = "stream" => wk.at <= LatestOrSeed + 1)

FollowInv ==
  mode = "Continuous" =>
    /\ latest \in Nat \cup {NoBlock} /\ gaps = {} /\ highest = LatestOrSeed
    /\ Behind

\* The next block of a stream extends the watermark or lies below it.
LEMMA NextInOrder ==
  ASSUME latest \in Nat \cup {NoBlock}, gaps = {}, highest = LatestOrSeed,
         NEW b \in Nat, b <= LatestOrSeed + 1, C!write_block(b)
  PROVE  /\ latest' \in Nat \cup {NoBlock} /\ gaps' = {} /\ highest' = LatestOrSeed'
         /\ LatestOrSeed <= LatestOrSeed' /\ b <= LatestOrSeed' /\ LatestOrSeed' \in Nat
<1>0. LatestOrSeed \in Nat
  BY SeedNat DEF LatestOrSeed, NoBlock
<1>1. \A m : C!find_containing_gap({}, m) = {}
  BY DEF C!find_containing_gap, C!EntryAtOrBefore
<1>2. C!LatestOrSeed = LatestOrSeed
  BY DEF C!LatestOrSeed, LatestOrSeed, C!Seed, Seed, C!NoBlock, NoBlock
<1>3. PICK n \in highest .. C!NewLatest(b) : C!NewHighest(b, n) /\ highest' = n
  BY DEF C!write_block, C!commit_batch
<1>4. latest' = C!LatestAfter(b) /\ gaps' = C!NewGaps(b)
  BY DEF C!write_block, C!commit_batch
<1>5. CASE b = LatestOrSeed + 1
  <2>1. C!NewLatest(b) = b /\ latest' = b
    BY <1>0, <1>2, <1>4, <1>5 DEF C!NewLatest, C!LatestAfter
  <2>2. highest' = b
    BY <1>0, <1>3, <1>5, <2>1 DEF C!NewHighest, C!WalksTo
  <2>3. gaps' = {}
    BY <1>0, <1>4, <1>5 DEF C!NewGaps
  <2>4. LatestOrSeed' = b
    BY <2>1 DEF LatestOrSeed, NoBlock
  <2> QED BY <1>0, <1>5, <2>1, <2>2, <2>3, <2>4
<1>6. CASE b <= LatestOrSeed
  <2>1. C!NewLatest(b) = LatestOrSeed /\ latest' = latest
    BY <1>0, <1>2, <1>4, <1>6 DEF C!NewLatest, C!LatestAfter
  <2>2. highest' = highest
    BY <1>0, <1>3, <2>1
  <2>3. gaps' = {}
    <3>1. C!fill_gap_block({}, b) = [del |-> {}, put |-> {}]
      BY <1>1 DEF C!fill_gap_block
    <3>2. C!NewGaps(b) = C!ApplyBatch({}, C!fill_gap_block({}, b))
      BY <1>0, <1>6 DEF C!NewGaps
    <3> QED BY <1>4, <3>1, <3>2 DEF C!ApplyBatch
  <2>4. LatestOrSeed' = LatestOrSeed
    BY <2>1 DEF LatestOrSeed, Seed
  <2> QED BY <1>0, <1>6, <2>1, <2>2, <2>3, <2>4
<1> QED BY <1>0, <1>5, <1>6

LEMMA FollowInit == BackfillInit => FollowInv
<1> SUFFICES ASSUME BackfillInit, mode = "Continuous" PROVE FollowInv
  BY DEF FollowInv
<1>1. C!Init /\ wk = [pc |-> "idle", left |-> <<>>, local |-> -1, tries |-> 0, at |-> 0]
  BY DEF BackfillInit, C!CInit
<1>2. latest = NoBlock /\ gaps = {} /\ highest = Seed
  BY <1>1 DEF C!Init, C!NoBlock, NoBlock, C!Seed, Seed
<1>3. LatestOrSeed = Seed
  BY <1>2 DEF LatestOrSeed
<1>4. wk.local = -1 /\ wk.at = 0 /\ wk.pc = "idle"
  BY <1>1
<1>5. wk = [pc |-> wk.pc, left |-> wk.left, local |-> wk.local, tries |-> wk.tries, at |-> wk.at]
  BY <1>1
<1> QED BY <1>2, <1>3, <1>4, <1>5, SeedNat DEF FollowInv, Behind

LEMMA FollowStep ==
  ASSUME FollowInv, mode = "Continuous", mode' = mode, C!CNext
  PROVE  FollowInv'
<1>0. /\ latest \in Nat \cup {NoBlock} /\ gaps = {} /\ highest = LatestOrSeed
      /\ LatestOrSeed \in Nat
      /\ wk = [pc |-> wk.pc, left |-> wk.left, local |-> wk.local, tries |-> wk.tries, at |-> wk.at]
      /\ wk.local \in Nat \cup {-1} /\ wk.local <= LatestOrSeed
      /\ wk.at \in Nat /\ (wk.pc = "stream" => wk.at <= LatestOrSeed + 1)
  BY SeedNat DEF FollowInv, Behind, LatestOrSeed, NoBlock
<1>1. ASSUME UNCHANGED vars, Behind' PROVE FollowInv'
  <2>1. latest' = latest /\ gaps' = gaps /\ highest' = highest
    BY <1>1 DEF vars, dbVars
  <2> QED BY <1>0, <1>1, <2>1 DEF FollowInv, LatestOrSeed, Seed
<1>2. ASSUME UNCHANGED vars PROVE LatestOrSeed' = LatestOrSeed
  BY <1>2 DEF vars, dbVars, LatestOrSeed, Seed
<1>3. C!vars = vars /\ C!vars' = vars'
  BY DEF C!vars, vars, C!dbVars, dbVars
\* The worker goes on to pc and keeps the latest block it has read.
<1>4. ASSUME UNCHANGED vars, NEW pc, pc # "stream", NEW l, NEW t,
             wk' = [wk EXCEPT !.pc = pc, !.left = l, !.tries = t]
      PROVE  FollowInv'
  <2>1. /\ wk' = [pc |-> wk'.pc, left |-> wk'.left, local |-> wk'.local, tries |-> wk'.tries,
                  at |-> wk'.at]
        /\ wk'.local = wk.local /\ wk'.at = wk.at /\ wk'.pc = pc
    BY <1>0, <1>4
  <2>2. Behind'
    BY <1>0, <1>2, <1>4, <2>1 DEF Behind
  <2> QED BY <1>1, <1>4, <2>2
<1>5. CASE C!StartCycle
  <2>1. PICK order : wk' = [wk EXCEPT !.pc = "latest", !.left = order] /\ UNCHANGED C!vars
    BY <1>5 DEF C!StartCycle, C!StartCycleWith
  <2>2. wk' = [wk EXCEPT !.pc = "latest", !.left = order, !.tries = wk.tries]
    BY <1>0, <2>1
  <2> QED BY <1>3, <1>4, <2>1, <2>2
<1>6. CASE C!ReadLatest \/ C!LatestFails
  <2>1. PICK l \in {latest, -1} : wk' = [wk EXCEPT !.pc = "status", !.local = l, !.tries = 0]
    BY <1>6 DEF C!ReadLatest, C!LatestFails, C!LatestIs, C!NoBlock
  <2>2. /\ wk' = [pc |-> wk'.pc, left |-> wk'.left, local |-> wk'.local, tries |-> wk'.tries,
                  at |-> wk'.at]
        /\ wk'.local = l /\ wk'.at = wk.at /\ wk'.pc = "status"
    BY <1>0, <2>1
  <2>3. l \in Nat \cup {-1} /\ l <= LatestOrSeed
    BY <1>0 DEF LatestOrSeed, NoBlock
  <2>4. UNCHANGED vars
    BY <1>3, <1>6 DEF C!ReadLatest, C!LatestFails, C!LatestIs
  <2>5. Behind'
    BY <1>0, <1>2, <2>2, <2>3, <2>4 DEF Behind
  <2> QED BY <1>1, <2>4, <2>5
<1>7. CASE C!Follow
  <2>1. wk' = [wk EXCEPT !.pc = "stream", !.at = wk.local + 1] /\ UNCHANGED vars
    BY <1>3, <1>7 DEF C!Follow
  <2>2. /\ wk' = [pc |-> wk'.pc, left |-> wk'.left, local |-> wk'.local, tries |-> wk'.tries,
                  at |-> wk'.at]
        /\ wk'.local = wk.local /\ wk'.at = wk.local + 1
    BY <1>0, <2>1
  <2>3. Behind'
    BY <1>0, <1>2, <2>1, <2>2 DEF Behind
  <2> QED BY <1>1, <2>1, <2>3
<1>8. CASE C!LeavePeer \/ C!Unreachable \/ (C!StreamBreaks /\ wk' = C!NextPeer(wk))
  <2>1. wk' = C!NextPeer(wk) /\ UNCHANGED vars
    BY <1>3, <1>8 DEF C!LeavePeer, C!Unreachable, C!StreamBreaks
  <2>2. \E pc \in {"idle", "latest"} :
          wk' = [wk EXCEPT !.pc = pc, !.left = Tail(wk.left), !.tries = 0]
    BY <1>0, <2>1 DEF C!NextPeer
  <2> QED BY <1>4, <2>1, <2>2
<1>9. CASE C!AwaitPeer \/ (\E p \in Peers : C!PeerAdvances(p))
  <2>1. UNCHANGED vars /\ wk' = wk
    BY <1>3, <1>9 DEF C!AwaitPeer, C!PeerAdvances, C!cVars
  <2>2. Behind'
    BY <1>0, <1>2, <2>1 DEF Behind
  <2> QED BY <1>1, <2>1, <2>2
<1>10. CASE C!Fetch
  <2>1. wk.pc = "stream" /\ C!write_block(wk.at) /\ wk' = [wk EXCEPT !.at = wk.at + 1]
    BY <1>10 DEF C!Fetch, C!Serves
  <2>2. /\ latest' \in Nat \cup {NoBlock} /\ gaps' = {} /\ highest' = LatestOrSeed'
        /\ LatestOrSeed <= LatestOrSeed' /\ wk.at <= LatestOrSeed' /\ LatestOrSeed' \in Nat
    BY <1>0, <2>1, NextInOrder
  <2>3. /\ wk' = [pc |-> wk'.pc, left |-> wk'.left, local |-> wk'.local, tries |-> wk'.tries,
                  at |-> wk'.at]
        /\ wk'.local = wk.local /\ wk'.at = wk.at + 1
    BY <1>0, <2>1
  <2>4. Behind'
    BY <1>0, <2>2, <2>3 DEF Behind
  <2> QED BY <2>2, <2>4 DEF FollowInv
<1>11. CASE C!StreamEnds
  <2>1. wk' = [wk EXCEPT !.pc = "idle", !.left = <<>>, !.tries = wk.tries] /\ UNCHANGED vars
    BY <1>0, <1>3, <1>11 DEF C!StreamEnds
  <2> QED BY <1>4, <2>1
<1>12. CASE C!StreamBreaks
  <2>1. CASE wk' = [wk EXCEPT !.pc = "status", !.tries = wk.tries + 1]
    <3>1. wk' = [wk EXCEPT !.pc = "status", !.left = wk.left, !.tries = wk.tries + 1]
      BY <1>0, <2>1
    <3>2. UNCHANGED vars
      BY <1>3, <1>12 DEF C!StreamBreaks
    <3> QED BY <1>4, <3>1, <3>2
  <2> QED BY <1>8, <1>12, <2>1 DEF C!StreamBreaks
<1> QED BY <1>5, <1>6, <1>7, <1>8, <1>9, <1>10, <1>11, <1>12 DEF C!CNext, C!Worker

LEMMA FollowNext ==
  ASSUME FollowInv, [BackfillNext]_allVars PROVE FollowInv'
<1>1. CASE mode = "Continuous" /\ C!CNext /\ UNCHANGED <<mode, loc>>
  BY <1>1, FollowStep
<1>2. CASE mode = "GapFill" /\ UNCHANGED mode
  BY <1>2 DEF FollowInv
<1>3. CASE UNCHANGED allVars
  BY <1>3 DEF allVars, gfVars, raceVars, vars, dbVars, FollowInv, Behind, LatestOrSeed, Seed
<1> QED BY <1>1, <1>2, <1>3 DEF BackfillNext, InMode

\* A Tier 2 node that is fed by run_continuous_stream_cycle alone has no holes:
\* the latest block is the contiguous watermark and the gap index is empty,
\* whatever peers it follows, however streams end and break, and although
\* latest_persisted is read once for all the retries of a peer.
THEOREM NeverHoles == BackfillSpec => []NoHoles
<1>1. FollowInv /\ [BackfillNext]_allVars => FollowInv'
  BY FollowNext
<1>2. FollowInv => NoHoles
  BY DEF FollowInv, NoHoles
<1> QED BY <1>1, <1>2, FollowInit, PTL DEF BackfillSpec

-----------------------------------------------------------------------------
(* The calls of the GapFill worker and of the live pipeline, however they   *)
(* overlap and whatever their lookups in the gap index miss.                *)

LEMMA LeastNumber ==
  ASSUME NEW T \in SUBSET Nat, T # {}
  PROVE  \E m \in T : \A n \in T : m <= n
<1> DEFINE R == OpToRel(<, Nat)
<1>1. IsWellFoundedOn(R, Nat)
  BY NatLessThanWellFounded
<1>2. \A x, y \in Nat : x < y => <<x, y>> \in R
  BY DEF OpToRel
<1> HIDE DEF R
<1>3. PICK m \in T : \A n \in T : ~(<<n, m>> \in R)
  BY <1>1, WFMin
<1>4. ASSUME NEW n \in T PROVE m <= n
  <2>1. n \in Nat /\ m \in Nat
    OBVIOUS
  <2>2. ~(n < m)
    BY <1>2, <1>3, <2>1
  <2> QED BY <2>1, <2>2
<1> QED BY <1>4

\* On any column family, separated or not, the sweep of add_gap_range ends at
\* the end of the range or of an entry.
LEMMA MergeEnds ==
  ASSUME NEW cf \in SUBSET GapEntry, NEW s \in Nat, NEW e \in Nat,
         NEW top \in Int, e < top, \A g \in cf : g[2] < top
  PROVE  \A g \in MergeBatch(cf, s, e).put : g \in GapEntry /\ g[2] < top
<1> DEFINE ends == {f \in {e} \cup {g[2] : g \in cf} : e <= f /\ SweepClosed(cf, s, f)}
           above == {k \in Nat : e <= k /\ \A g \in cf : g[2] <= k}
           Least(f) == f \in ends /\ \A h \in ends : f <= h
<1>1. \A g \in cf : g[1] \in Nat /\ g[2] \in Nat
  BY DEF GapEntry
<1>2. PICK k \in above : \A n \in above : k <= n
  <2>1. top - 1 \in above
    BY <1>1
  <2>2. above \in SUBSET Nat /\ above # {}
    BY <2>1
  <2> HIDE DEF above
  <2> QED BY <2>2, LeastNumber
<1>3. k \in ends
  <2>1. k = e \/ \E g \in cf : g[2] = k
    <3> SUFFICES ASSUME k # e, \A g \in cf : g[2] # k PROVE FALSE
      OBVIOUS
    <3>1. k - 1 \in above
      BY <1>1
    <3> QED BY <1>2, <3>1
  <2>2. SweepClosed(cf, s, k)
    BY DEF SweepClosed
  <2> QED BY <2>1, <2>2
<1>4. ends \in SUBSET Nat /\ \A f \in ends : f < top
  BY <1>1
<1>5. \E f : Least(f)
  <2> HIDE DEF ends
  <2> QED BY <1>3, <1>4, LeastNumber
<1>6. SweepEnd(cf, s, e) = CHOOSE f : Least(f)
  BY DEF SweepEnd
<1>7. Least(SweepEnd(cf, s, e))
  <2> HIDE DEF Least
  <2> QED BY <1>5, <1>6
<1>8. SweepEnd(cf, s, e) \in Nat /\ SweepEnd(cf, s, e) < top
  BY <1>4, <1>7
<1> QED BY <1>8 DEF MergeBatch, GapEntry

LEMMA FillEnds ==
  ASSUME NEW cf \in SUBSET GapEntry, NEW n \in Nat, NEW top \in Int, \A g \in cf : g[2] < top
  PROVE  \A g \in fill_gap_block(cf, n).put : g \in GapEntry /\ g[2] < top
<1> DEFINE c == find_containing_gap(cf, n)
<1>1. \A g \in c : g[1] \in Nat /\ g[2] \in Nat /\ n <= g[2] /\ g[2] < top
  BY DEF find_containing_gap, EntryAtOrBefore, GapEntry
<1>2. fill_gap_block(cf, n).put = {<<g[1], n - 1>> : g \in {h \in c : n > h[1]}}
                                    \cup {<<n + 1, g[2]>> : g \in {h \in c : n < h[2]}}
  BY DEF fill_gap_block
<1> HIDE DEF c
<1>3. ASSUME NEW g \in c, n > g[1]
      PROVE  <<g[1], n - 1>> \in GapEntry /\ n - 1 < top
  BY <1>1, <1>3 DEF GapEntry
<1>4. ASSUME NEW g \in c, n < g[2]
      PROVE  <<n + 1, g[2]>> \in GapEntry /\ g[2] < top
  BY <1>1, <1>4 DEF GapEntry
<1> QED BY <1>2, <1>3, <1>4

\* What the store promises of its head and edges, calls overlapping or not.
Edges ==
  /\ latest \in Nat \cup {NoBlock} /\ highest \in Nat /\ Seed <= highest
  /\ gaps \subseteq GapEntry /\ \A g \in gaps : g[2] < latest
  /\ latest # NoBlock => trueEarliest # NoBlock /\ earliestHot # NoBlock

\* Latest once call l of writer w has committed.
Top(w, l) == IF w = live /\ l.b > LatestOrSeed THEN l.b ELSE latest

\* What the locals of a call stay good for while the other writer commits: only
\* the live writer moves latest, and nobody clears an edge.
CallOK(w, l) ==
  /\ l.b \in Nat /\ (w = backfill => l.b < latest)
  /\ l.pc # "latest" =>
       /\ l.latest \in Nat
       /\ w = live => l.latest = LatestOrSeed
       /\ w = backfill => l.b <= l.latest
  /\ l.pc \notin {"latest", "earliest"} =>
       /\ ~ l.setEarliest => trueEarliest # NoBlock
       /\ w = backfill => ~ l.setEarliest
  /\ l.pc \notin {"latest", "earliest", "highest"} => l.highest \in Nat /\ Seed <= l.highest
  /\ l.pc \in {"left", "sweep"} => l.b > l.highest + 1
  /\ l.pc = "sweep" => l.s \in Nat /\ l.e \in Nat /\ l.e < Top(w, l)
  /\ \A g \in l.gapBatch.put : g \in GapEntry /\ g[2] < Top(w, l)
  /\ l.pc = "commit" => /\ ~ l.setHot => earliestHot # NoBlock
                        /\ w = backfill => ~ l.setHot

CallsOK ==
  /\ loc = [w \in Writers |-> loc[w]]
  /\ \A w \in Writers : LocalsShape(loc[w]) /\ (Inside(w) => CallOK(w, loc[w]))

LEMMA EdgeNumbers ==
  ASSUME Edges
  PROVE  /\ latest \in Int /\ LatestOrSeed \in Nat /\ latest <= LatestOrSeed
         /\ Seed \in Nat /\ highest \in Nat
         /\ latest # NoBlock => LatestOrSeed = latest
         /\ latest = NoBlock => LatestOrSeed = Seed /\ gaps = {}
<1>1. Seed \in Nat /\ latest \in Nat \cup {-1} /\ highest \in Nat
  BY SeedNat DEF Edges, NoBlock
<1>2. ASSUME latest = NoBlock PROVE gaps = {}
  BY <1>2 DEF Edges, NoBlock, GapEntry
<1> QED BY <1>1, <1>2 DEF LatestOrSeed, NoBlock

\* The entries of the index end below what latest will be.
LEMMA TopBound ==
  ASSUME Edges, NEW w \in Writers, NEW l, l.b \in Nat, w = backfill => l.b < latest
  PROVE  /\ Top(w, l) \in Int /\ latest <= Top(w, l)
         /\ \A g \in gaps : g[2] < Top(w, l)
         /\ l.b > Seed => l.b - 1 < Top(w, l)
<1>0. w \in {live, backfill}
  BY GapFillAssumption
<1>1. /\ latest \in Int /\ LatestOrSeed \in Nat /\ latest <= LatestOrSeed /\ Seed \in Nat
      /\ latest # NoBlock => LatestOrSeed = latest
      /\ latest = NoBlock => LatestOrSeed = Seed
  BY EdgeNumbers
<1>2. Top(w, l) \in Int /\ latest <= Top(w, l)
  BY <1>1 DEF Top
<1>3. ASSUME NEW g \in gaps PROVE g[2] < Top(w, l)
  BY <1>1, <1>2 DEF Edges, GapEntry
<1>4. ASSUME l.b > Seed PROVE l.b - 1 < Top(w, l)
  <2>1. CASE w = live /\ l.b > LatestOrSeed
    BY <2>1 DEF Top
  <2>2. CASE ~(w = live /\ l.b > LatestOrSeed)
    <3>1. Top(w, l) = latest
      BY <2>2 DEF Top
    <3> QED BY <1>0, <1>1, <1>4, <2>2, <3>1
  <2> QED BY <2>1, <2>2
<1> QED BY <1>2, <1>3, <1>4

\* An answer stays good when the edges stay set and latest grows, as long as the
\* live writer is alone in moving it.
LEMMA CallKept ==
  ASSUME Edges, Edges', NEW w \in Writers, CallOK(w, loc'[w]), latest <= latest',
         trueEarliest # NoBlock => trueEarliest' # NoBlock,
         earliestHot # NoBlock => earliestHot' # NoBlock,
         w = live => latest' = latest
  PROVE  CallOK(w, loc[w])'
<1> DEFINE l == loc'[w]
<1>1. latest \in Int /\ latest' \in Int
  BY DEF Edges, NoBlock
<1>2. w = live => LatestOrSeed' = LatestOrSeed
  BY DEF LatestOrSeed, Seed
<1>3. w \in {live, backfill} /\ live # backfill
  BY GapFillAssumption
<1>4. l.b \in Nat /\ (w = backfill => l.b < latest)
  BY DEF CallOK
<1>5. Top(w, l) \in Int
  BY <1>4, TopBound
<1>6. Top(w, l) <= Top(w, loc[w])' /\ Top(w, loc[w])' \in Int
  <2>1. CASE w = live
    <3>1. Top(w, loc[w])' = Top(w, l)
      BY <1>2, <2>1 DEF Top
    <3> QED BY <1>5, <3>1
  <2>2. CASE w = backfill
    <3>1. Top(w, loc[w])' = latest' /\ Top(w, l) = latest
      BY <1>3, <2>2 DEF Top
    <3> QED BY <1>1, <3>1
  <2> QED BY <1>3, <2>1, <2>2
<1>7. (w = backfill => l.b < latest')
  BY <1>1, <1>4
<1>8. l.pc = "sweep" => l.e < Top(w, loc[w])'
  <2>1. l.pc = "sweep" => l.e \in Nat /\ l.e < Top(w, l)
    BY DEF CallOK
  <2> QED BY <1>5, <1>6, <2>1
<1>9. ASSUME NEW g \in l.gapBatch.put PROVE g \in GapEntry /\ g[2] < Top(w, loc[w])'
  <2>1. g \in GapEntry /\ g[2] < Top(w, l)
    BY DEF CallOK
  <2> QED BY <1>5, <1>6, <2>1 DEF GapEntry
<1> QED BY <1>2, <1>4, <1>7, <1>8, <1>9 DEF CallOK, Seed

\* The parts of CallOK that hold from the start of the call.
LEMMA CallBegins ==
  ASSUME Edges, CallsOK, NEW w \in Writers, NEW b \in Nat, w = backfill => b < latest,
         Begin(w, b)
  PROVE  LocalsShape(loc'[w]) /\ CallOK(w, loc'[w]) /\ loc'[w].pc = "latest" /\ loc'[w].b = b
<1>1. PICK f \in BOOLEAN : loc'[w] = [Idle EXCEPT !.pc = "latest", !.b = b, !.wasGapFill = f]
  <2>1. PICK found \in Seen(find_containing_gap(gaps, b)) :
          loc' = [loc EXCEPT ![w] = [Idle EXCEPT !.pc = "latest", !.b = b,
                                                 !.wasGapFill = found # {}]]
    BY DEF Begin, Goto
  <2>2. loc = [v \in Writers |-> loc[v]]
    BY DEF CallsOK
  <2> QED BY <2>1, <2>2
<1>2. /\ LocalsShape(loc'[w]) /\ loc'[w].pc = "latest" /\ loc'[w].b = b
      /\ loc'[w].gapBatch = NoGapChange
  BY <1>1, IdleShape DEF LocalsShape
<1> QED BY <1>2 DEF CallOK, NoGapChange

LEMMA CallReadsHead ==
  ASSUME Edges, CallsOK, NEW w \in Writers, ReadLatest(w) \/ ReadTrueEarliest(w)
  PROVE  LocalsShape(loc'[w]) /\ CallOK(w, loc'[w]) /\ loc'[w].b = loc[w].b
<1> DEFINE l == loc[w]
<1>0. /\ l = loc[w] /\ LocalsShape(l) /\ loc = [v \in Writers |-> loc[v]]
      /\ Inside(w) => CallOK(w, l)
  BY DEF CallsOK
<1>a. /\ latest \in Int /\ LatestOrSeed \in Nat
      /\ latest # NoBlock => LatestOrSeed = latest /\ trueEarliest # NoBlock
  BY EdgeNumbers DEF Edges
<1>1. CASE ReadLatest(w)
  <2>1. l.pc = "latest" /\ loc'[w] = [l EXCEPT !.pc = "earliest", !.latest = LatestOrSeed]
    BY <1>0, <1>1 DEF ReadLatest, At, Goto
  <2> HIDE DEF l
  <2>2. /\ LocalsShape(loc'[w]) /\ loc'[w].pc = "earliest" /\ loc'[w].latest = LatestOrSeed
        /\ loc'[w].b = l.b /\ loc'[w].gapBatch = l.gapBatch
    BY <1>0, <2>1 DEF LocalsShape
  <2>3. /\ l.b \in Nat /\ (w = backfill => l.b < latest)
        /\ \A g \in l.gapBatch.put : g \in GapEntry /\ g[2] < Top(w, l)
    BY <1>0, <2>1 DEF Inside, CallOK
  <2>4. w = backfill => l.b <= LatestOrSeed
    BY <1>a, <2>3 DEF NoBlock
  <2>5. Top(w, loc'[w]) = Top(w, l)
    BY <2>2 DEF Top
  <2>6. CallOK(w, loc'[w])
    BY <1>a, <2>2, <2>3, <2>4, <2>5 DEF CallOK
  <2> QED BY <1>0, <2>2, <2>6
<1>2. CASE ReadTrueEarliest(w)
  <2>1. /\ l.pc = "earliest"
        /\ loc'[w] = [l EXCEPT !.pc = "highest", !.setEarliest = trueEarliest = NoBlock]
    BY <1>0, <1>2 DEF ReadTrueEarliest, At, Goto
  <2> HIDE DEF l
  <2>2. /\ LocalsShape(loc'[w]) /\ loc'[w].pc = "highest" /\ loc'[w].latest = l.latest
        /\ loc'[w].setEarliest = (trueEarliest = NoBlock)
        /\ loc'[w].b = l.b /\ loc'[w].gapBatch = l.gapBatch
    BY <1>0, <2>1 DEF LocalsShape
  <2>3. /\ l.b \in Nat /\ (w = backfill => l.b < latest)
        /\ \A g \in l.gapBatch.put : g \in GapEntry /\ g[2] < Top(w, l)
        /\ l.latest \in Nat /\ (w = live => l.latest = LatestOrSeed)
        /\ w = backfill => l.b <= l.latest
    BY <1>0, <2>1 DEF Inside, CallOK
  <2>4. w = backfill => trueEarliest # NoBlock
    BY <1>a, <2>3 DEF NoBlock
  <2>5. Top(w, loc'[w]) = Top(w, l)
    BY <2>2 DEF Top
  <2>6. CallOK(w, loc'[w])
    BY <2>2, <2>3, <2>4, <2>5 DEF CallOK
  <2> QED BY <1>0, <2>2, <2>6
<1> QED BY <1>1, <1>2

\* What every later read finds in the locals.
Midway(w, l) ==
  /\ l.b \in Nat /\ (w = backfill => l.b < latest)
  /\ l.latest \in Nat /\ (w = live => l.latest = LatestOrSeed)
  /\ w = backfill => l.b <= l.latest
  /\ ~ l.setEarliest => trueEarliest # NoBlock
  /\ w = backfill => ~ l.setEarliest

LEMMA CallBranches ==
  ASSUME Edges, CallsOK, NEW w \in Writers, ReadHighest(w)
  PROVE  LocalsShape(loc'[w]) /\ CallOK(w, loc'[w]) /\ loc'[w].b = loc[w].b
<1> DEFINE l == loc[w]
<1>0. /\ l = loc[w] /\ LocalsShape(l) /\ loc = [v \in Writers |-> loc[v]]
      /\ Inside(w) => CallOK(w, l)
  BY DEF CallsOK
<1>1. l.pc = "highest"
  BY DEF ReadHighest, At
<1>2. \/ l.b > highest + 1 /\ loc'[w] = [l EXCEPT !.pc = "left", !.highest = highest]
      \/ l.b = highest + 1 /\ loc'[w] = [l EXCEPT !.pc = "walk", !.highest = l.b]
      \/ l.b <= highest /\ loc'[w] = [l EXCEPT !.pc = "fill", !.highest = highest]
  BY <1>0 DEF ReadHighest, Goto
<1> HIDE DEF l
<1>3. Midway(w, l) /\ \A g \in l.gapBatch.put : g \in GapEntry /\ g[2] < Top(w, l)
  BY <1>0, <1>1 DEF Inside, CallOK, Midway
<1>4. /\ LocalsShape(loc'[w]) /\ loc'[w].latest = l.latest /\ loc'[w].b = l.b
      /\ loc'[w].setEarliest = l.setEarliest /\ loc'[w].gapBatch = l.gapBatch
      /\ \/ l.b > highest + 1 /\ loc'[w].pc = "left" /\ loc'[w].highest = highest
         \/ l.b = highest + 1 /\ loc'[w].pc = "walk" /\ loc'[w].highest = l.b
         \/ l.b <= highest /\ loc'[w].pc = "fill" /\ loc'[w].highest = highest
  <2>1. CASE l.b > highest + 1 /\ loc'[w] = [l EXCEPT !.pc = "left", !.highest = highest]
    BY <1>0, <2>1 DEF LocalsShape
  <2>2. CASE l.b = highest + 1 /\ loc'[w] = [l EXCEPT !.pc = "walk", !.highest = l.b]
    BY <1>0, <2>2 DEF LocalsShape
  <2>3. CASE l.b <= highest /\ loc'[w] = [l EXCEPT !.pc = "fill", !.highest = highest]
    BY <1>0, <2>3 DEF LocalsShape
  <2> QED BY <1>2, <2>1, <2>2, <2>3
<1>5. highest \in Nat /\ Seed <= highest /\ Seed \in Nat /\ l.b \in Nat
  BY <1>3, SeedNat DEF Edges, Midway
<1>6. /\ loc'[w].highest \in Nat /\ Seed <= loc'[w].highest
      /\ loc'[w].pc = "left" => l.b > loc'[w].highest + 1
      /\ loc'[w].pc \in {"left", "walk", "fill"}
  BY <1>4, <1>5
<1>7. Top(w, loc'[w]) = Top(w, l)
  BY <1>4 DEF Top
<1>8. CallOK(w, loc'[w])
  BY <1>3, <1>4, <1>6, <1>7 DEF CallOK, Midway
<1> QED BY <1>0, <1>4, <1>8

LEMMA CallReadsGaps ==
  ASSUME Edges, CallsOK, NEW w \in Writers, ReadLeft(w) \/ Sweep(w) \/ Fill(w)
  PROVE  LocalsShape(loc'[w]) /\ CallOK(w, loc'[w]) /\ loc'[w].b = loc[w].b
<1> DEFINE l == loc[w]
<1>0. /\ l = loc[w] /\ LocalsShape(l) /\ loc = [v \in Writers |-> loc[v]]
      /\ Inside(w) => CallOK(w, l)
  BY DEF CallsOK
<1>a. gaps \subseteq GapEntry /\ highest \in Nat /\ Seed \in Nat
  BY SeedNat DEF Edges
<1>b. ASSUME l.pc \in {"left", "sweep", "fill"}
      PROVE  /\ Midway(w, l) /\ l.highest \in Nat /\ Seed <= l.highest
             /\ \A g \in l.gapBatch.put : g \in GapEntry /\ g[2] < Top(w, l)
             /\ Top(w, l) \in Int /\ \A g \in gaps : g[2] < Top(w, l)
             /\ l.b > Seed => l.b - 1 < Top(w, l)
  <2>1. CallOK(w, l)
    BY <1>0, <1>b DEF Inside
  <2> HIDE DEF l
  <2>2. /\ Midway(w, l) /\ l.highest \in Nat /\ Seed <= l.highest
        /\ \A g \in l.gapBatch.put : g \in GapEntry /\ g[2] < Top(w, l)
    BY <1>b, <2>1 DEF CallOK, Midway
  <2>3. l.b \in Nat /\ (w = backfill => l.b < latest)
    BY <2>2 DEF Midway
  <2> QED BY <2>2, <2>3, TopBound DEF l
<1>1. CASE ReadLeft(w)
  <2> DEFINE G(x) == CHOOSE h \in x : TRUE
             S(x) == IF x = {} THEN l.highest + 1 ELSE G(x)[1]
             E(x) == IF x = {} \/ G(x)[2] <= l.b - 1 THEN l.b - 1 ELSE G(x)[2]
  <2>1. l.pc = "left"
    BY <1>1 DEF ReadLeft, At
  <2>2. PICK x \in Seen(LeftNeighbour(gaps, l.highest + 1)) :
          loc' = [loc EXCEPT ![w] = [loc[w] EXCEPT !.pc = "sweep", !.s = S(x), !.e = E(x)]]
    BY <1>1 DEF ReadLeft, Goto
  <2>3. ASSUME x # {} PROVE G(x) \in gaps
    <3>1. x \subseteq gaps
      <4>1. LeftNeighbour(gaps, l.highest + 1) \subseteq gaps
        BY DEF LeftNeighbour, EntryAtOrBefore
      <4> QED BY <2>2, <4>1 DEF Seen
    <3>2. G(x) \in x
      BY <2>3
    <3> QED BY <3>1, <3>2
  <2> HIDE DEF G, l
  <2>4. l.b > l.highest + 1 /\ l.b \in Nat /\ l.highest \in Nat /\ l.b > Seed
    <3>1. l.b > l.highest + 1
      BY <1>0, <2>1 DEF Inside, CallOK
    <3> QED BY <1>a, <1>b, <2>1, <3>1 DEF Midway
  <2>5. S(x) \in Nat /\ E(x) \in Nat /\ E(x) < Top(w, l)
    <3>1. x # {} => G(x)[1] \in Nat /\ G(x)[2] \in Nat /\ G(x)[2] < Top(w, l)
      BY <1>a, <1>b, <2>1, <2>3 DEF GapEntry
    <3> QED BY <1>b, <2>1, <2>4, <3>1
  <2>6. loc'[w] = [l EXCEPT !.pc = "sweep", !.s = S(x), !.e = E(x)]
    <3> HIDE DEF S, E
    <3> QED BY <1>0, <2>2
  <2> HIDE DEF S, E
  <2>7. /\ LocalsShape(loc'[w]) /\ loc'[w].latest = l.latest /\ loc'[w].b = l.b
        /\ loc'[w].setEarliest = l.setEarliest /\ loc'[w].highest = l.highest
        /\ loc'[w].gapBatch = l.gapBatch
        /\ loc'[w].pc = "sweep" /\ loc'[w].s = S(x) /\ loc'[w].e = E(x)
    BY <1>0, <2>6 DEF LocalsShape
  <2>8. Top(w, loc'[w]) = Top(w, l)
    BY <2>7 DEF Top
  <2>9. CallOK(w, loc'[w])
    BY <1>b, <2>1, <2>4, <2>5, <2>7, <2>8 DEF CallOK, Midway
  <2> QED BY <1>0, <2>7, <2>9
<1>2. CASE Sweep(w)
  <2>1. PICK seen \in Swept :
          loc' = [loc EXCEPT ![w] = [loc[w] EXCEPT !.pc = "front",
                                       !.gapBatch = MergeBatch(seen, l.s, l.e)]]
    BY <1>2 DEF Sweep, Goto
  <2>2. l.pc = "sweep"
    BY <1>2 DEF Sweep, At
  <2>3. seen \in SUBSET gaps
    BY <2>1 DEF Swept
  <2> DEFINE m == MergeBatch(seen, l.s, l.e)
  <2>4. loc'[w] = [l EXCEPT !.pc = "front", !.gapBatch = m]
    <3> HIDE DEF m
    <3> QED BY <1>0, <2>1 DEF m
  <2> HIDE DEF l
  <2>5. l.s \in Nat /\ l.e \in Nat /\ l.e < Top(w, l)
    BY <1>0, <2>2 DEF Inside, CallOK
  <2>6. \A g \in m.put : g \in GapEntry /\ g[2] < Top(w, l)
    <3>1. seen \in SUBSET GapEntry /\ Top(w, l) \in Int /\ \A g \in seen : g[2] < Top(w, l)
      BY <1>a, <1>b, <2>2, <2>3
    <3> QED BY <2>5, <3>1, MergeEnds
  <2> HIDE DEF m
  <2>7. /\ LocalsShape(loc'[w]) /\ loc'[w].latest = l.latest /\ loc'[w].b = l.b
        /\ loc'[w].setEarliest = l.setEarliest /\ loc'[w].highest = l.highest
        /\ loc'[w].pc = "front" /\ loc'[w].gapBatch = m
    BY <1>0, <2>4 DEF LocalsShape
  <2>8. Top(w, loc'[w]) = Top(w, l)
    BY <2>7 DEF Top
  <2>9. CallOK(w, loc'[w])
    BY <1>b, <2>2, <2>6, <2>7, <2>8 DEF CallOK, Midway
  <2> QED BY <1>0, <2>7, <2>9
<1>3. CASE Fill(w)
  <2>1. PICK seen \in Seen(gaps) :
          loc' = [loc EXCEPT ![w] = [loc[w] EXCEPT !.pc = "walk",
                                       !.gapBatch = fill_gap_block(seen, l.b)]]
    BY <1>3 DEF Fill, Goto
  <2>2. l.pc = "fill"
    BY <1>3 DEF Fill, At
  <2>3. seen \in SUBSET gaps
    BY <2>1 DEF Seen
  <2> DEFINE f == fill_gap_block(seen, l.b)
  <2>4. loc'[w] = [l EXCEPT !.pc = "walk", !.gapBatch = f]
    <3> HIDE DEF f
    <3> QED BY <1>0, <2>1 DEF f
  <2> HIDE DEF l
  <2>5. l.b \in Nat
    BY <1>b, <2>2 DEF Midway
  <2>6. \A g \in f.put : g \in GapEntry /\ g[2] < Top(w, l)
    <3>1. seen \in SUBSET GapEntry /\ Top(w, l) \in Int /\ \A g \in seen : g[2] < Top(w, l)
      BY <1>a, <1>b, <2>2, <2>3
    <3> QED BY <2>5, <3>1, FillEnds
  <2> HIDE DEF f
  <2>7. /\ LocalsShape(loc'[w]) /\ loc'[w].latest = l.latest /\ loc'[w].b = l.b
        /\ loc'[w].setEarliest = l.setEarliest /\ loc'[w].highest = l.highest
        /\ loc'[w].pc = "walk" /\ loc'[w].gapBatch = f
    BY <1>0, <2>4 DEF LocalsShape
  <2>8. Top(w, loc'[w]) = Top(w, l)
    BY <2>7 DEF Top
  <2>9. CallOK(w, loc'[w])
    BY <1>b, <2>2, <2>6, <2>7, <2>8 DEF CallOK, Midway
  <2> QED BY <1>0, <2>7, <2>9
<1> QED BY <1>1, <1>2, <1>3

LEMMA CallReadsLast ==
  ASSUME Edges, CallsOK, NEW w \in Writers, Walk(w) \/ ReadEarliestHot(w)
  PROVE  LocalsShape(loc'[w]) /\ CallOK(w, loc'[w]) /\ loc'[w].b = loc[w].b
<1> DEFINE l == loc[w]
<1>0. /\ l = loc[w] /\ LocalsShape(l) /\ loc = [v \in Writers |-> loc[v]]
      /\ Inside(w) => CallOK(w, l)
  BY DEF CallsOK
<1>1. l.pc \in {"walk", "front"}
  BY DEF Walk, ReadEarliestHot, At
<1>2. Midway(w, l) /\ l.highest \in Nat /\ Seed <= l.highest /\ Seed \in Nat
  BY <1>0, <1>1, SeedNat DEF Inside, CallOK, Midway
<1>3. \A g \in l.gapBatch.put : g \in GapEntry /\ g[2] < Top(w, l)
  BY <1>0, <1>1 DEF Inside, CallOK
<1>4. CASE Walk(w)
  <2>1. \/ loc'[w] = [l EXCEPT !.highest = l.highest + 1]
        \/ loc'[w] = [l EXCEPT !.pc = "front"]
    BY <1>0, <1>4 DEF Walk, Goto
  <2>2. l.pc = "walk"
    BY <1>4 DEF Walk, At
  <2> HIDE DEF l
  <2>3. /\ LocalsShape(loc'[w]) /\ loc'[w].latest = l.latest /\ loc'[w].b = l.b
        /\ loc'[w].setEarliest = l.setEarliest /\ loc'[w].gapBatch = l.gapBatch
        /\ loc'[w].pc \in {"walk", "front"}
        /\ loc'[w].highest \in {l.highest, l.highest + 1}
    <3>1. CASE loc'[w] = [l EXCEPT !.highest = l.highest + 1]
      BY <1>0, <2>2, <3>1 DEF LocalsShape
    <3>2. CASE loc'[w] = [l EXCEPT !.pc = "front"]
      BY <1>0, <3>2 DEF LocalsShape
    <3> QED BY <2>1, <3>1, <3>2
  <2>4. loc'[w].highest \in Nat /\ Seed <= loc'[w].highest
    BY <1>2, <2>3
  <2>5. Top(w, loc'[w]) = Top(w, l)
    BY <2>3 DEF Top
  <2>6. CallOK(w, loc'[w])
    BY <1>2, <1>3, <2>3, <2>4, <2>5 DEF CallOK, Midway
  <2> QED BY <1>0, <2>3, <2>6
<1>5. CASE ReadEarliestHot(w)
  <2>1. loc'[w] = [l EXCEPT !.pc = "commit", !.setHot = earliestHot = NoBlock]
    BY <1>0, <1>5 DEF ReadEarliestHot, Goto
  <2> HIDE DEF l
  <2>2. /\ LocalsShape(loc'[w]) /\ loc'[w].latest = l.latest /\ loc'[w].b = l.b
        /\ loc'[w].setEarliest = l.setEarliest /\ loc'[w].gapBatch = l.gapBatch
        /\ loc'[w].pc = "commit" /\ loc'[w].highest = l.highest
        /\ loc'[w].setHot = (earliestHot = NoBlock)
    BY <1>0, <2>1 DEF LocalsShape
  <2>3. w = backfill => earliestHot # NoBlock
    BY <1>2, EdgeNumbers DEF Midway, Edges, NoBlock
  <2>4. Top(w, loc'[w]) = Top(w, l)
    BY <2>2 DEF Top
  <2>5. CallOK(w, loc'[w])
    BY <1>2, <1>3, <2>2, <2>3, <2>4 DEF CallOK, Midway
  <2> QED BY <1>0, <2>2, <2>5
<1> QED BY <1>4, <1>5

\* The commit moves latest to Top, and only the live writer's moves it or an edge.
LEMMA CallCommits ==
  ASSUME Edges, CallsOK, NEW w \in Writers, Commit(w)
  PROVE  /\ Edges' /\ latest <= latest'
         /\ trueEarliest # NoBlock => trueEarliest' # NoBlock
         /\ earliestHot # NoBlock => earliestHot' # NoBlock
         /\ w = backfill => UNCHANGED <<latest, trueEarliest, earliestHot>>
<1> DEFINE l == loc[w]
<1>1. /\ l.pc = "commit" /\ CallOK(w, l)
      /\ latest' = IF l.b > l.latest THEN l.b ELSE latest
      /\ trueEarliest' = IF l.setEarliest THEN l.b ELSE trueEarliest
      /\ gaps' = ApplyBatch(gaps, l.gapBatch)
      /\ highest' = IF l.b > l.highest + 1 THEN highest ELSE l.highest
      /\ earliestHot' = IF l.setHot THEN l.b ELSE earliestHot
  BY DEF Commit, At, CallsOK, Inside
<1> HIDE DEF l
<1>2. /\ Midway(w, l) /\ l.highest \in Nat /\ Seed <= l.highest
      /\ ~ l.setHot => earliestHot # NoBlock
      /\ w = backfill => ~ l.setHot
      /\ \A g \in l.gapBatch.put : g \in GapEntry /\ g[2] < Top(w, l)
  BY <1>1 DEF CallOK, Midway
<1>3. /\ l.b \in Nat /\ l.latest \in Nat
      /\ (w = live => l.latest = LatestOrSeed) /\ (w = backfill => l.b <= l.latest)
      /\ w = backfill => l.b < latest
      /\ ~ l.setEarliest => trueEarliest # NoBlock
      /\ w = backfill => ~ l.setEarliest
  BY <1>2 DEF Midway
<1>4. w \in {live, backfill} /\ live # backfill
  BY GapFillAssumption
<1>5. latest' = Top(w, l)
  <2>1. CASE w = live
    BY <1>1, <1>3, <2>1 DEF Top
  <2>2. CASE w = backfill
    BY <1>1, <1>3, <1>4, <2>2 DEF Top
  <2> QED BY <1>4, <2>1, <2>2
<1>6. Top(w, l) \in Int /\ latest <= Top(w, l) /\ \A g \in gaps : g[2] < Top(w, l)
  BY <1>3, TopBound
<1>7. latest' \in Nat \cup {NoBlock}
  BY <1>1, <1>3 DEF Edges
<1>8. gaps' \subseteq GapEntry /\ \A g \in gaps' : g[2] < latest'
  <2>1. \A g \in gaps' : g \in gaps \/ g \in l.gapBatch.put
    BY <1>1 DEF ApplyBatch
  <2> QED BY <1>2, <1>5, <1>6, <2>1 DEF Edges
<1>9. highest' \in Nat /\ Seed <= highest'
  BY <1>1, <1>2 DEF Edges
<1>10. /\ trueEarliest' # NoBlock
       /\ earliestHot' # NoBlock
  BY <1>1, <1>2, <1>3 DEF NoBlock
<1>11. Edges'
  BY <1>7, <1>8, <1>9, <1>10 DEF Edges, Seed
<1>12. w = backfill => UNCHANGED <<latest, trueEarliest, earliestHot>>
  BY <1>1, <1>2, <1>3
<1> QED BY <1>5, <1>6, <1>10, <1>11, <1>12

LEMMA EdgesKept == ASSUME Edges, UNCHANGED dbVars PROVE Edges'
BY DEF Edges, dbVars, Seed

\* A step of one call that writes nothing.
LEMMA QuietCall ==
  ASSUME Edges, CallsOK, NEW w \in Writers, UNCHANGED dbVars,
         NEW x, loc' = [loc EXCEPT ![w] = x], LocalsShape(x),
         x.pc \in {"idle", "check"} \/ CallOK(w, x)
  PROVE  CallsOK'
<1>1. /\ loc' = [v \in Writers |-> loc'[v]] /\ loc'[w] = x
      /\ \A v \in Writers \ {w} : loc'[v] = loc[v]
  <2>1. loc = [v \in Writers |-> loc[v]]
    BY DEF CallsOK
  <2> QED BY <2>1
<1>2. Edges' /\ latest' = latest /\ trueEarliest' = trueEarliest /\ earliestHot' = earliestHot
  BY EdgesKept DEF dbVars
<1>3. latest <= latest'
  BY <1>2 DEF Edges, NoBlock
<1>4. ASSUME NEW v \in Writers
      PROVE  LocalsShape(loc'[v]) /\ (Inside(v)' => CallOK(v, loc'[v]))
  BY <1>1 DEF CallsOK, Inside
<1>5. ASSUME NEW v \in Writers
      PROVE  LocalsShape(loc[v])' /\ (Inside(v)' => CallOK(v, loc[v])')
  <2>1. LocalsShape(loc[v])'
    BY <1>4 DEF LocalsShape
  <2>2. ASSUME Inside(v)' PROVE CallOK(v, loc[v])'
    BY <1>2, <1>3, <1>4, <2>2, CallKept
  <2> QED BY <2>1, <2>2
<1> QED BY <1>1, <1>5 DEF CallsOK

\* A step of the call of w: the worker's calls move no head and no edge.
LEMMA CallStep ==
  ASSUME Edges, CallsOK, NEW w \in Writers,
         \/ \E b \in Nat : Begin(w, b) /\ (w = backfill => b < latest)
         \/ Read(w) \/ Commit(w) \/ CheckSkipped(w) \/ Abort(w)
  PROVE  /\ Edges' /\ CallsOK' /\ latest <= latest'
         /\ \A v \in Writers \ {w} : loc'[v] = loc[v]
         /\ w = backfill => UNCHANGED <<latest, trueEarliest, earliestHot>>
<1>0. loc = [v \in Writers |-> loc[v]] /\ latest \in Int
  BY DEF CallsOK, Edges, NoBlock
<1>a. ASSUME UNCHANGED dbVars PROVE Edges' /\ latest <= latest'
                                    /\ UNCHANGED <<latest, trueEarliest, earliestHot>>
  BY <1>0, <1>a, EdgesKept DEF dbVars
<1>b. ASSUME NEW x, loc' = [loc EXCEPT ![w] = x] PROVE \A v \in Writers \ {w} : loc'[v] = loc[v]
  BY <1>0, <1>b
<1>1. CASE (\E b \in Nat : Begin(w, b) /\ (w = backfill => b < latest)) \/ Read(w)
  <2>1. /\ \E x : loc' = [loc EXCEPT ![w] = x]
        /\ UNCHANGED vars
    BY <1>1 DEF Begin, Read, ReadLatest, ReadTrueEarliest, ReadHighest, ReadLeft, Sweep, Fill,
                Walk, ReadEarliestHot, Goto
  <2>2. PICK x : loc' = [loc EXCEPT ![w] = x]
    BY <2>1
  <2>3. x = loc'[w]
    BY <1>0, <2>2
  <2>4. LocalsShape(loc'[w]) /\ CallOK(w, loc'[w])
    BY <1>1, CallBegins, CallReadsHead, CallBranches, CallReadsGaps, CallReadsLast DEF Read
  <2>5. LocalsShape(x) /\ CallOK(w, x)
    BY <2>3, <2>4
  <2>6. UNCHANGED dbVars
    BY <2>1 DEF vars
  <2>7. CallsOK'
    BY <2>2, <2>5, <2>6, QuietCall
  <2> QED BY <1>a, <1>b, <2>2, <2>6, <2>7
<1>2. CASE Abort(w) \/ CheckSkipped(w)
  <2>1. loc' = [loc EXCEPT ![w] = Idle] /\ UNCHANGED dbVars
    BY <1>2 DEF Abort, CheckSkipped, Goto, vars, dbVars
  <2>2. CallsOK'
    BY <2>1, IdleShape, QuietCall
  <2> QED BY <1>a, <1>b, <2>1, <2>2
<1>3. CASE Commit(w)
  <2> DEFINE x == IF loc[w].wasGapFill THEN [loc[w] EXCEPT !.pc = "check"] ELSE Idle
  <2>1. loc' = [loc EXCEPT ![w] = x] /\ LocalsShape(loc[w])
    BY <1>3 DEF Commit, CallsOK
  <2>2. LocalsShape(x) /\ x.pc \in {"idle", "check"}
    <3>1. LocalsShape([loc[w] EXCEPT !.pc = "check"])
      BY <2>1 DEF LocalsShape
    <3>2. [loc[w] EXCEPT !.pc = "check"].pc = "check"
      BY <2>1 DEF LocalsShape
    <3> QED BY <3>1, <3>2, IdleShape
  <2> HIDE DEF x
  <2>3. /\ Edges' /\ latest <= latest'
        /\ trueEarliest # NoBlock => trueEarliest' # NoBlock
        /\ earliestHot # NoBlock => earliestHot' # NoBlock
        /\ w = backfill => UNCHANGED <<latest, trueEarliest, earliestHot>>
    BY <1>3, CallCommits
  <2>4. loc' = [v \in Writers |-> loc'[v]] /\ loc'[w] = x
    BY <1>0, <2>1
  <2>5. ASSUME NEW v \in Writers
        PROVE  LocalsShape(loc[v])' /\ (Inside(v)' => CallOK(v, loc[v])')
    <3>1. CASE v = w
      BY <2>2, <2>4, <3>1 DEF LocalsShape, Inside
    <3>2. CASE v # w
      <4>1. loc'[v] = loc[v]
        BY <1>b, <2>1, <3>2
      <4>2. LocalsShape(loc'[v]) /\ (Inside(v)' => CallOK(v, loc'[v]))
        BY <4>1 DEF CallsOK, Inside
      <4>3. v = live => latest' = latest
        BY <2>3, <3>2, GapFillAssumption
      <4>4. ASSUME Inside(v)' PROVE CallOK(v, loc[v])'
        BY <2>3, <4>2, <4>3, <4>4, CallKept
      <4> QED BY <4>2, <4>4 DEF LocalsShape
    <3> QED BY <3>1, <3>2
  <2>6. CallsOK'
    BY <2>4, <2>5 DEF CallsOK
  <2> QED BY <1>b, <2>1, <2>3, <2>6
<1> QED BY <1>1, <1>2, <1>3

-----------------------------------------------------------------------------
\* The worker works on a snapshot of the index, so its gaps may be closed
\* meanwhile, but they end below the latest block, which never falls.
Shape == wk = [pc |-> wk.pc, work |-> wk.work, order |-> wk.order, left |-> wk.left,
               start |-> wk.start, end |-> wk.end, tries |-> wk.tries, at |-> wk.at]

Snapshot ==
  /\ Shape
  /\ wk.work \subseteq GapEntry /\ \A g \in wk.work : g[2] < latest
  /\ wk.pc \in {"peer", "stream", "write"} =>
       wk.start \in Nat /\ wk.end \in Nat /\ wk.end < latest
  /\ wk.pc \in {"stream", "write"} => wk.at \in Nat

\* The worker waits for the call it has made.
Paired == loc[backfill].pc # "idle" => wk.pc = "write"

EdgeInv == Edges /\ CallsOK /\ Snapshot /\ Paired

\* A step that leaves the gaps of the snapshot alone.
LEMMA SnapshotMoves ==
  ASSUME Snapshot, latest \in Int, latest' \in Int, latest <= latest', Shape',
         wk'.work = wk.work,
         wk'.pc \in {"peer", "stream", "write"} =>
           /\ wk.pc \in {"peer", "stream", "write"}
           /\ wk'.start = wk.start /\ wk'.end = wk.end,
         wk'.pc \in {"stream", "write"} => wk'.at \in Nat
  PROVE  Snapshot'
<1>1. \A g \in wk'.work : g[2] < latest'
  <2> SUFFICES ASSUME NEW g \in wk.work PROVE g[2] < latest'
    OBVIOUS
  <2>1. g \in GapEntry /\ g[2] < latest
    BY DEF Snapshot
  <2> QED BY <2>1 DEF GapEntry
<1>2. wk.pc \in {"peer", "stream", "write"} =>
        wk.start \in Nat /\ wk.end \in Nat /\ wk.end < latest'
  BY DEF Snapshot
<1> QED BY <1>1, <1>2 DEF Snapshot

\* The worker takes its snapshot, or the next gap of it.
LEMMA SnapshotTaken ==
  ASSUME Edges, Snapshot, latest' = latest, Tick \/ NextGap
  PROVE  Snapshot' /\ wk.pc # "write"
<1>0. latest \in Int /\ StartBlock \in Nat
  BY ConstantsAssumption DEF Edges, NoBlock
<1>1. CASE Tick
  <2>1. PICK order : wk' = [wk EXCEPT !.pc = "gap", !.order = order, !.work = gaps]
    BY <1>1 DEF Tick
  <2>2. wk'.pc = "gap" /\ wk'.work = gaps /\ Shape'
    BY <2>1 DEF Snapshot, Shape
  <2>3. gaps \subseteq GapEntry /\ \A g \in gaps : g[2] < latest
    BY DEF Edges
  <2>4. wk.pc = "idle"
    BY <1>1 DEF Tick
  <2> QED BY <1>0, <2>2, <2>3, <2>4 DEF Snapshot
<1>2. CASE CheckDone
  <2>1. wk' = [wk EXCEPT !.pc = "idle", !.order = <<>>] /\ wk.pc = "gap"
    BY <1>2 DEF CheckDone
  <2>2. Shape' /\ wk'.work = wk.work /\ wk'.pc = "idle"
    BY <2>1 DEF Snapshot, Shape
  <2> QED BY <1>0, <2>1, <2>2, SnapshotMoves
<1>3. ASSUME NEW g \in wk.work, TakeGap(g) PROVE Snapshot' /\ wk.pc # "write"
  <2> DEFINE s == IF g[1] > StartBlock THEN g[1] ELSE StartBlock
             rest == wk.work \ {g}
  <2>1. /\ wk.pc = "gap"
        /\ wk' = IF s > g[2] THEN [wk EXCEPT !.work = rest]
                 ELSE [wk EXCEPT !.pc = "peer", !.work = rest, !.left = wk.order,
                                 !.start = s, !.end = g[2], !.tries = 0]
    BY <1>3 DEF TakeGap
  <2>2. g[1] \in Nat /\ g[2] \in Nat /\ g[2] < latest
    BY DEF Snapshot, GapEntry
  <2>3. s \in Nat
    BY <1>0, <2>2
  <2>4. rest \subseteq GapEntry /\ \A h \in rest : h[2] < latest
    BY DEF Snapshot
  <2> HIDE DEF s, rest
  <2>5. CASE s > g[2]
    <3>1. wk' = [wk EXCEPT !.work = rest]
      BY <2>1, <2>5
    <3>2. Shape' /\ wk'.work = rest /\ wk'.pc = "gap"
      BY <2>1, <3>1 DEF Snapshot, Shape
    <3> QED BY <1>0, <2>1, <2>4, <3>2 DEF Snapshot
  <2>6. CASE ~(s > g[2])
    <3>1. wk' = [wk EXCEPT !.pc = "peer", !.work = rest, !.left = wk.order,
                           !.start = s, !.end = g[2], !.tries = 0]
      BY <2>1, <2>6
    <3>2. /\ Shape' /\ wk'.work = rest /\ wk'.pc = "peer"
          /\ wk'.start = s /\ wk'.end = g[2]
      BY <3>1 DEF Snapshot, Shape
    <3> QED BY <1>0, <2>1, <2>2, <2>3, <2>4, <3>2 DEF Snapshot
  <2> QED BY <2>5, <2>6
<1> QED BY <1>1, <1>2, <1>3 DEF NextGap

\* The worker goes on to the next gap, to the next peer or to another try.
LEMMA PeerLeft ==
  ASSUME Snapshot, latest \in Int, latest' \in Int, latest <= latest',
         wk.pc \in {"peer", "stream", "write"},
         wk' \in {LeaveGap(wk), NextPeer(wk), Retry(wk)}
  PROVE  Snapshot'
<1>1. CASE wk' = LeaveGap(wk)
  <2>1. Shape' /\ wk'.work = wk.work /\ wk'.pc = "gap"
    BY <1>1 DEF LeaveGap, Snapshot, Shape
  <2> QED BY <2>1, SnapshotMoves
<1>2. CASE wk' = [wk EXCEPT !.pc = "peer", !.left = Tail(wk.left), !.tries = 0, !.at = 0]
  <2>1. /\ Shape' /\ wk'.work = wk.work /\ wk'.pc = "peer"
        /\ wk'.start = wk.start /\ wk'.end = wk.end
    BY <1>2 DEF Snapshot, Shape
  <2> QED BY <2>1, SnapshotMoves
<1>3. CASE wk' = [wk EXCEPT !.pc = "peer", !.tries = wk.tries + 1, !.at = 0]
  <2>1. /\ Shape' /\ wk'.work = wk.work /\ wk'.pc = "peer"
        /\ wk'.start = wk.start /\ wk'.end = wk.end
    BY <1>3 DEF Snapshot, Shape
  <2> QED BY <2>1, SnapshotMoves
<1> QED BY <1>1, <1>2, <1>3 DEF NextPeer, Retry

LEMMA PeerAsked ==
  ASSUME Edges, Snapshot, latest' = latest,
         Status \/ Unreachable \/ StreamEnds \/ StreamBreaks
  PROVE  Snapshot' /\ wk.pc # "write"
<1>0. latest \in Int /\ latest' \in Int /\ latest <= latest'
  BY DEF Edges, NoBlock
<1>1. wk.pc \in {"peer", "stream"}
  BY DEF Status, Unreachable, StreamEnds, StreamBreaks
<1>2. CASE wk' \in {LeaveGap(wk), NextPeer(wk), Retry(wk)}
  BY <1>0, <1>1, <1>2, PeerLeft
<1>3. CASE wk' \notin {LeaveGap(wk), NextPeer(wk), Retry(wk)}
  <2>1. wk' = [wk EXCEPT !.pc = "stream", !.at = wk.start] /\ wk.pc = "peer"
    BY <1>3 DEF Status, Unreachable, StreamEnds, StreamBreaks
  <2>2. /\ Shape' /\ wk'.work = wk.work /\ wk'.start = wk.start /\ wk'.end = wk.end
        /\ wk'.pc = "stream" /\ wk'.at = wk.start
    BY <2>1 DEF Snapshot, Shape
  <2>3. wk.start \in Nat
    BY <2>1 DEF Snapshot
  <2> QED BY <1>0, <2>1, <2>2, <2>3, SnapshotMoves
<1> QED BY <1>2, <1>3

\* Every step of the two writers and the worker.
LEMMA EdgeStep ==
  ASSUME EdgeInv, GFNext
  PROVE  /\ EdgeInv' /\ latest <= latest'
         /\ loc'[backfill] # loc[backfill] => UNCHANGED <<latest, trueEarliest, earliestHot>>
<1>0. /\ Edges /\ CallsOK /\ Snapshot /\ Paired /\ latest \in Int
      /\ live \in Writers /\ backfill \in Writers /\ live # backfill
  BY GapFillAssumption DEF EdgeInv, Edges, NoBlock
<1>a. ASSUME Edges' PROVE latest' \in Int
  BY <1>a DEF Edges, NoBlock
<1>b. ASSUME UNCHANGED wk, Edges', latest <= latest' PROVE Snapshot'
  <2>1. /\ Shape' /\ wk'.work = wk.work /\ wk'.start = wk.start /\ wk'.end = wk.end
        /\ wk'.pc = wk.pc /\ wk'.at = wk.at
    BY <1>0, <1>b DEF Snapshot, Shape
  <2>2. wk.pc \in {"stream", "write"} => wk.at \in Nat
    BY <1>0 DEF Snapshot
  <2> QED BY <1>0, <1>a, <1>b, <2>1, <2>2, SnapshotMoves
<1>1. CASE (\E b \in LiveBlocks : LiveWrite(b)) \/ LiveCall \/ LiveFails
  <2>1. /\ UNCHANGED wk
        /\ \/ \E b \in Nat : Begin(live, b)
           \/ Read(live) \/ Commit(live) \/ CheckSkipped(live) \/ Abort(live)
    BY <1>1, GapFillAssumption DEF LiveWrite, LiveCall, LiveFails, CallFails
  <2>2. Edges' /\ CallsOK' /\ latest <= latest' /\ loc'[backfill] = loc[backfill]
    BY <1>0, <2>1, CallStep
  <2>3. Snapshot' /\ Paired'
    BY <1>0, <1>b, <2>1, <2>2 DEF Paired
  <2> QED BY <2>2, <2>3 DEF EdgeInv
<1>2. CASE Tick \/ NextGap \/ Status \/ Unreachable \/ StreamEnds \/ StreamBreaks
  <2>1. UNCHANGED raceVars
    BY <1>2 DEF Tick, NextGap, CheckDone, TakeGap, Status, StreamEnds, Unreachable,
                StreamBreaks
  <2>2. UNCHANGED dbVars /\ loc' = loc /\ latest' = latest
    BY <2>1 DEF raceVars, vars, dbVars
  <2>3. Snapshot' /\ wk.pc # "write"
    BY <1>0, <1>2, <2>2, SnapshotTaken, PeerAsked
  <2>4. Edges'
    BY <1>0, <2>2, EdgesKept
  <2>5. CallsOK'
    <3>1. /\ loc[live] = loc[live] /\ loc = [v \in Writers |-> loc[v]]
          /\ LocalsShape(loc[live]) /\ (Inside(live) => CallOK(live, loc[live]))
      BY <1>0 DEF CallsOK
    <3>2. loc' = [loc EXCEPT ![live] = loc[live]]
      BY <2>2, <3>1
    <3> QED BY <1>0, <2>2, <3>1, <3>2, QuietCall DEF Inside
  <2>6. Paired'
    BY <1>0, <2>2, <2>3 DEF Paired
  <2> QED BY <1>0, <2>2, <2>3, <2>4, <2>5, <2>6 DEF EdgeInv
<1>3. CASE Fetch
  <2>1. /\ wk.pc = "stream" /\ wk.at <= wk.end /\ Begin(backfill, wk.at)
        /\ wk' = [wk EXCEPT !.pc = "write"]
    BY <1>3 DEF Fetch
  <2>2. wk.at \in Nat /\ wk.at < latest
    BY <1>0, <2>1 DEF Snapshot
  <2>3. /\ Edges' /\ CallsOK' /\ latest <= latest'
        /\ UNCHANGED <<latest, trueEarliest, earliestHot>>
    BY <1>0, <2>1, <2>2, CallStep
  <2>4. /\ Shape' /\ wk'.work = wk.work /\ wk'.start = wk.start /\ wk'.end = wk.end
        /\ wk'.pc = "write" /\ wk'.at = wk.at
    BY <1>0, <2>1 DEF Snapshot, Shape
  <2>5. Snapshot'
    BY <1>0, <1>a, <2>1, <2>2, <2>3, <2>4, SnapshotMoves
  <2> QED BY <2>3, <2>4, <2>5 DEF EdgeInv, Paired
<1>4. CASE WriteReads \/ WriteCommits \/ WriteFails
  <2>1. /\ loc[backfill].pc # "idle"
        /\ Read(backfill) \/ Commit(backfill) \/ CheckSkipped(backfill) \/ Abort(backfill)
    BY <1>4 DEF WriteReads, WriteCommits, WriteFails, CallFails, Read, ReadLatest,
                ReadTrueEarliest, ReadHighest, ReadLeft, Sweep, Fill, Walk, ReadEarliestHot,
                Commit, CheckSkipped, Abort, At
  <2>2. wk.pc = "write" /\ wk.at \in Nat
    BY <1>0, <2>1 DEF Paired, Snapshot
  <2>3. /\ Edges' /\ CallsOK' /\ latest <= latest' /\ latest' \in Int
        /\ UNCHANGED <<latest, trueEarliest, earliestHot>>
    BY <1>0, <1>a, <2>1, CallStep
  <2>4. CASE UNCHANGED wk
    <3>1. Snapshot' /\ Paired'
      BY <1>b, <2>2, <2>3, <2>4 DEF Paired
    <3> QED BY <2>3, <3>1 DEF EdgeInv
  <2>5. CASE WriteCommits /\ wk' # wk
    <3>1. wk' = [wk EXCEPT !.pc = "stream", !.at = wk.at + 1] /\ loc'[backfill].pc = "idle"
      BY <2>5 DEF WriteCommits
    <3>2. /\ Shape' /\ wk'.work = wk.work /\ wk'.start = wk.start /\ wk'.end = wk.end
          /\ wk'.pc = "stream" /\ wk'.at = wk.at + 1
      BY <1>0, <3>1 DEF Snapshot, Shape
    <3>3. Snapshot'
      BY <1>0, <2>2, <2>3, <3>2, SnapshotMoves
    <3> QED BY <2>3, <3>1, <3>3 DEF EdgeInv, Paired
  <2>6. CASE WriteFails
    <3>1. wk' = Retry(wk) /\ loc' = [loc EXCEPT ![backfill] = Idle]
      BY <2>6 DEF WriteFails, CallFails, Abort, Goto
    <3>2. Snapshot'
      BY <1>0, <2>2, <2>3, <3>1, PeerLeft
    <3>3. loc = [v \in Writers |-> loc[v]]
      BY <1>0 DEF CallsOK
    <3>4. loc'[backfill].pc = "idle"
      BY <1>0, <3>1, <3>3, IdleShape
    <3> QED BY <2>3, <3>2, <3>4 DEF EdgeInv, Paired
  <2> QED BY <1>4, <2>4, <2>5, <2>6 DEF WriteReads
<1> QED BY <1>1, <1>2, <1>3, <1>4 DEF GFNext, Worker

LEMMA EdgeStutter == ASSUME EdgeInv, UNCHANGED gfVars PROVE EdgeInv'
<1>1. UNCHANGED dbVars /\ loc' = loc /\ wk' = wk /\ latest' = latest
  BY DEF gfVars, raceVars, vars, dbVars
<1>2. live \in Writers
  BY GapFillAssumption
<1>3. /\ loc = [v \in Writers |-> loc[v]]
      /\ LocalsShape(loc[live]) /\ (Inside(live) => CallOK(live, loc[live]))
  BY <1>2 DEF EdgeInv, CallsOK
<1>4. loc' = [loc EXCEPT ![live] = loc[live]]
  BY <1>1, <1>2, <1>3
<1>5. CallsOK'
  BY <1>1, <1>2, <1>3, <1>4, QuietCall DEF EdgeInv, Inside
<1>6. Edges'
  BY <1>1, EdgesKept DEF EdgeInv
<1>7. Snapshot' /\ Paired'
  BY <1>1 DEF EdgeInv, Snapshot, Shape, Paired
<1> QED BY <1>5, <1>6, <1>7 DEF EdgeInv

LEMMA EdgeInit == ASSUME GFInit PROVE EdgeInv
<1>1. /\ Init /\ loc = [w \in Writers |-> Idle]
      /\ wk = [pc |-> "idle", work |-> {}, order |-> <<>>, left |-> <<>>,
               start |-> 0, end |-> 0, tries |-> 0, at |-> 0]
  BY DEF GFInit, RaceInit
<1>2. Edges
  BY <1>1, SeedNat DEF Init, Edges
<1>3. CallsOK
  <2>1. ASSUME NEW w \in Writers PROVE loc[w] = Idle
    BY <1>1
  <2> QED BY <1>1, <2>1, IdleShape DEF CallsOK, Inside
<1>4. Snapshot
  <2>1. wk.pc = "idle" /\ wk.work = {} /\ Shape
    BY <1>1 DEF Shape
  <2> QED BY <2>1 DEF Snapshot
<1>5. Paired
  BY <1>1, GapFillAssumption, IdleShape DEF Paired
<1> QED BY <1>2, <1>3, <1>4, <1>5 DEF EdgeInv

\* The GapFill worker stays behind the live head: no step of a call it makes
\* moves latest_persisted or an edge of the store, however stale its snapshot of
\* CF_GAPS is (run_single_gap_check) and whatever the live pipeline commits
\* between its reads (write_block).
StaysBehind ==
  [][mode = "GapFill" /\ loc'[backfill] # loc[backfill] =>
       UNCHANGED <<latest, trueEarliest, earliestHot>>]_allVars

\* For every behaviour of peers and live writers, with the calls of the two
\* overlapping in any way and lookups in the gap index failing, filling gaps
\* moves no head and no edge.
THEOREM GapFillStaysBehind == BackfillSpec => StaysBehind
<1> DEFINE I == mode = "GapFill" => EdgeInv
           A == mode = "GapFill" /\ loc'[backfill] # loc[backfill] =>
                  UNCHANGED <<latest, trueEarliest, earliestHot>>
<1>1. BackfillInit => I
  BY EdgeInit DEF BackfillInit
<1>2. I /\ [BackfillNext]_allVars => I' /\ [A]_allVars
  <2> SUFFICES ASSUME I, [BackfillNext]_allVars PROVE I' /\ [A]_allVars
    OBVIOUS
  <2>1. CASE mode = "GapFill" /\ GFNext /\ UNCHANGED <<mode, head>>
    BY <2>1, EdgeStep
  <2>2. CASE mode = "Continuous" /\ UNCHANGED <<mode, loc>>
    BY <2>2
  <2>3. CASE UNCHANGED allVars
    <3>1. UNCHANGED gfVars /\ mode' = mode
      BY <2>3 DEF allVars
    <3> QED BY <2>3, <3>1, EdgeStutter
  <2> QED BY <2>1, <2>2, <2>3 DEF BackfillNext, InMode
<1>3. StaysBehind <=> [][A]_allVars
  BY DEF StaysBehind
<1> QED BY <1>1, <1>2, <1>3, PTL DEF BackfillSpec

-----------------------------------------------------------------------------
(* The store under the worker, when the calls of the two writers exclude    *)
(* each other and lookups in the gap index do not fail.                     *)

\* write_block and the variables are those of Persistence in both modes.
LEMMA SameWrite == ASSUME NEW b, C!write_block(b) PROVE write_block(b)
BY DEF C!write_block, write_block, C!commit_batch, commit_batch, C!LatestAfter, LatestAfter,
      C!NewLatest, NewLatest, C!LatestOrSeed, LatestOrSeed, C!NoBlock, NoBlock, C!Seed, Seed,
      C!NewGaps, NewGaps, C!NewHighest, NewHighest, C!WalksTo, WalksTo,
      C!find_containing_gap, find_containing_gap, C!EntryAtOrBefore, EntryAtOrBefore,
      C!ApplyBatch, ApplyBatch, C!add_gap_range, add_gap_range, C!fill_gap_block,
      fill_gap_block, C!MergeBatch, MergeBatch, C!SweepEnd, SweepEnd, C!SweepClosed,
      SweepClosed, C!LeftNeighbour, LeftNeighbour, C!NoGapChange, NoGapChange

LEMMA SameVars == C!vars = vars /\ C!vars' = vars' /\ (C!Init <=> Init)
BY DEF C!vars, vars, C!dbVars, dbVars, C!Init, Init, C!NoBlock, NoBlock, C!Seed, Seed

\* The invariant of the composition.
WorkerInv ==
  /\ RaceInv /\ FollowInv
  /\ mode = "GapFill" => EdgeInv
  /\ mode = "Continuous" => \A w \in Writers : ~ Inside(w)

LEMMA WorkerInit == BackfillInit => WorkerInv
<1> SUFFICES ASSUME BackfillInit PROVE WorkerInv
  OBVIOUS
<1>1. RaceInit
  BY SameVars DEF BackfillInit, GFInit, RaceInit, C!CInit
<1>2. \A w \in Writers : ~ Inside(w)
  <2>1. ASSUME NEW w \in Writers PROVE loc[w] = Idle
    BY <1>1 DEF RaceInit
  <2> QED BY <2>1, IdleShape DEF Inside
<1>3. mode = "GapFill" => EdgeInv
  BY EdgeInit DEF BackfillInit
<1> QED BY <1>1, <1>2, <1>3, RaceInvInit, FollowInit DEF WorkerInv

\* A step of the GapFill mode is a step of one of the two writers, or touches
\* neither the store nor a call.
LEMMA GapFillIsRace ==
  ASSUME Blocks = Nat, EdgeInv, GFNext PROVE [RaceNext]_raceVars
<1>0. live \in Writers /\ backfill \in Writers /\ LiveBlocks \subseteq Nat
  BY GapFillAssumption
<1>1. CASE (\E b \in LiveBlocks : LiveWrite(b)) \/ LiveCall \/ LiveFails
  <2>1. Step(live)
    BY <1>0, <1>1 DEF LiveWrite, LiveCall, LiveFails, CallFails, Step
  <2> QED BY <1>0, <2>1 DEF RaceNext
<1>2. CASE Tick \/ NextGap \/ Status \/ Unreachable \/ StreamEnds \/ StreamBreaks
  BY <1>2 DEF Tick, NextGap, CheckDone, TakeGap, Status, StreamEnds, Unreachable,
              StreamBreaks
<1>3. CASE Fetch \/ WriteReads \/ WriteCommits \/ WriteFails
  <2>1. Fetch => wk.at \in Nat
    BY DEF Fetch, EdgeInv, Snapshot
  <2>2. Step(backfill)
    BY <1>3, <2>1 DEF Fetch, WriteReads, WriteCommits, WriteFails, CallFails, Step
  <2> QED BY <1>0, <2>2 DEF RaceNext
<1> QED BY <1>1, <1>2, <1>3 DEF GFNext, Worker

\* A block the Continuous worker stores, while no call is under way.
LEMMA WholeWrite ==
  ASSUME RaceInv, \A w \in Writers : ~ Inside(w), UNCHANGED loc, NEW b \in Nat, write_block(b)
  PROVE  /\ RaceInv' /\ Stored' = Stored \cup {b}
         /\ latest <= latest' /\ highest <= highest' /\ earliestHot <= earliestHot'
<1>1. /\ Inv' /\ Stored' = Stored \cup {b}
      /\ latest <= latest' /\ highest <= highest' /\ earliestHot <= earliestHot'
  BY WriteBlockPreserves DEF RaceInv
<1>2. loc' = [w \in Writers |-> loc'[w]]
  BY DEF RaceInv
<1>3. ASSUME NEW w \in Writers PROVE LocalsShape(loc[w])' /\ ~ Inside(w)'
  BY DEF RaceInv, LocalsShape, Inside
<1> QED BY <1>1, <1>2, <1>3 DEF RaceInv

\* Every step of the composition stores one block or leaves the store alone, and
\* keeps the invariant.
LEMMA WorkerStep ==
  ASSUME Blocks = Nat, ~ IterFails, WorkerInv, Exclusive, [BackfillNext]_allVars
  PROVE  /\ WorkerInv'
         /\ \/ Stored' = Stored /\ highest' = highest
            \/ \E b \in Blocks : Stored' = Stored \cup {b}
         /\ latest <= latest' /\ highest <= highest' /\ earliestHot <= earliestHot'
<1>0. RaceInv /\ FollowInv
  BY DEF WorkerInv
<1>1. FollowInv'
  BY <1>0, FollowNext
<1>2. CASE mode = "GapFill" /\ GFNext /\ UNCHANGED <<mode, head>>
  <2>1. EdgeInv /\ EdgeInv' /\ mode' = "GapFill"
    BY <1>2, EdgeStep DEF WorkerInv
  <2>2. [RaceNext]_raceVars
    BY <1>2, <2>1, GapFillIsRace
  <2> QED BY <1>0, <1>1, <2>1, <2>2, RaceStep DEF WorkerInv
<1>3. CASE mode = "Continuous" /\ C!CNext /\ UNCHANGED <<mode, loc>>
  <2>0. /\ mode' = "Continuous" /\ \A w \in Writers : ~ Inside(w) /\ ~ Inside(w)'
    BY <1>3 DEF WorkerInv, Inside
  <2>1. CASE C!Fetch
    <3>1. C!write_block(wk.at)
      BY <2>1 DEF C!Fetch
    <3>2. wk.at \in Nat
      BY <1>0, <1>3 DEF FollowInv, Behind
    <3>3. write_block(wk.at)
      BY <3>1, SameWrite
    <3>4. /\ RaceInv' /\ Stored' = Stored \cup {wk.at}
          /\ latest <= latest' /\ highest <= highest' /\ earliestHot <= earliestHot'
      BY <1>0, <1>3, <2>0, <3>2, <3>3, WholeWrite
    <3> QED BY <1>1, <2>0, <3>2, <3>4 DEF WorkerInv
  <2>2. CASE ~C!Fetch
    <3>1. UNCHANGED vars
      BY <1>3, <2>2, SameVars DEF C!CNext, C!Worker, C!StartCycle, C!StartCycleWith,
           C!ReadLatest, C!LatestFails, C!LatestIs, C!Follow, C!LeavePeer, C!AwaitPeer,
           C!Unreachable, C!StreamEnds, C!StreamBreaks, C!PeerAdvances, C!cVars
    <3>2. UNCHANGED raceVars
      BY <1>3, <3>1 DEF raceVars
    <3> QED BY <1>0, <1>1, <2>0, <3>2, RaceStep DEF WorkerInv
  <2> QED BY <2>1, <2>2
<1>4. CASE UNCHANGED allVars
  <2>1. UNCHANGED gfVars /\ UNCHANGED raceVars /\ mode' = mode /\ loc' = loc
    BY <1>4 DEF allVars, gfVars, raceVars
  <2>2. EdgeInv => EdgeInv'
    BY <2>1, EdgeStutter
  <2>3. \A w \in Writers : Inside(w)' <=> Inside(w)
    BY <2>1 DEF Inside
  <2> QED BY <1>0, <1>1, <2>1, <2>2, <2>3, RaceStep DEF WorkerInv
<1> QED BY <1>2, <1>3, <1>4 DEF BackfillNext, InMode

LEMMA WorkerAlways ==
  Blocks = Nat /\ ~ IterFails => (BackfillSpec /\ []Exclusive => []WorkerInv)
<1> SUFFICES ASSUME Blocks = Nat, ~ IterFails PROVE BackfillSpec /\ []Exclusive => []WorkerInv
  OBVIOUS
<1>1. WorkerInv /\ Exclusive /\ [BackfillNext]_allVars => WorkerInv'
  BY WorkerStep
<1> QED BY <1>1, WorkerInit, PTL DEF BackfillSpec

\* A backfill worker in either mode, with its stale snapshots, partial streams,
\* failing writes and retries, leaves the store what it is under the live writer
\* alone, as long as its calls of write_block do not overlap the live ones: the
\* contiguous watermark passes stored blocks only, every hole is in the gap
\* index and latest_persisted is the greatest block and can be read back
\* (stream_from_peer and the live pipeline, both through write_block).
THEOREM BackfillKeepsStore ==
  Blocks = Nat /\ ~ IterFails =>
    (BackfillSpec /\ []Exclusive =>
       [](ContiguousStored /\ MissingIsTracked /\ LatestIsGreatest))
<1>1. WorkerInv => ContiguousStored /\ MissingIsTracked /\ LatestIsGreatest
  BY DEF WorkerInv, RaceInv, Inv
<1> QED BY <1>1, WorkerAlways, PTL

\* Under the same conditions no stream of a peer loses a block or moves a
\* watermark back (worker.rs, write_block).
THEOREM BackfillLosesNothing ==
  Blocks = Nat /\ ~ IterFails => (BackfillSpec /\ []Exclusive => NothingLost)
<1> SUFFICES ASSUME Blocks = Nat, ~ IterFails PROVE BackfillSpec /\ []Exclusive => NothingLost
  OBVIOUS
<1>1. WorkerInv /\ Exclusive /\ [BackfillNext]_allVars =>
        [/\ Stored \subseteq Stored'
         /\ latest <= latest' /\ highest <= highest' /\ earliestHot <= earliestHot']_vars
  BY WorkerStep
<1> QED BY <1>1, WorkerAlways, PTL DEF BackfillSpec, NothingLost

\* Under the same conditions the plugin of either mode is a client of the
\* abstract store that stores one block at a time.
THEOREM BackfillRefinesBlockStore ==
  Blocks = Nat /\ ~ IterFails => (BackfillSpec /\ []Exclusive => ImplementsBlockStore)
<1> SUFFICES ASSUME Blocks = Nat, ~ IterFails
             PROVE  BackfillSpec /\ []Exclusive => ImplementsBlockStore
  OBVIOUS
<1>1. BackfillInit => Store!Init
  <2>1. BackfillInit => Init
    BY SameVars DEF BackfillInit, GFInit, RaceInit, C!CInit
  <2> QED BY <2>1 DEF Init, Store!Init, Stored
<1>2. ASSUME WorkerInv, Exclusive, [BackfillNext]_allVars PROVE [Store!Next]_(Store!vars)
  <2>1. /\ WorkerInv'
        /\ \/ Stored' = Stored /\ highest' = highest
           \/ \E b \in Blocks : Stored' = Stored \cup {b}
        /\ highest <= highest'
    BY <1>2, WorkerStep
  <2>2. CASE Stored' = Stored /\ highest' = highest
    BY <2>2 DEF Store!vars
  <2>3. ASSUME NEW b \in Blocks, Stored' = Stored \cup {b} PROVE Store!Store(b)
    <3>1. Inv /\ Inv'
      BY <1>2, <2>1 DEF WorkerInv, RaceInv
    <3>2. highest \in Int /\ highest' \in Int
      <4>1. TypeOK /\ TypeOK'
        BY <3>1 DEF Inv
      <4> QED BY <4>1 DEF TypeOK
    <3>3. \A n \in Seed + 1 .. highest' : n \in Stored'
      BY <3>1 DEF Inv, ContiguousStored, Seed
    <3> QED BY <2>1, <2>3, <3>2, <3>3 DEF Store!Store, Store!Vouched
  <2> QED BY <2>1, <2>2, <2>3 DEF Store!Next
<1> QED BY <1>1, <1>2, WorkerAlways, PTL DEF BackfillSpec, ImplementsBlockStore, Store!Spec
=============================================================================
