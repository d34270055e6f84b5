----------------------------- MODULE WriteRace -----------------------------
(***************************************************************************)
(* write_block (persistence plugin, service.rs) taken apart: every read of *)
(* RocksDB is a step of its own, the commit of the WriteBatch is one, and  *)
(* the archiver runs in between.  Each caller (the persistence event loop, *)
(* a backfill worker) is a writer; write_block takes no lock, so several   *)
(* writers may be inside it at once.                                       *)
(***************************************************************************)
EXTENDS Persistence

CONSTANTS Writers,     \* callers of write_block
          IterFails    \* an iterator over CF_GAPS may fail

ASSUME RaceAssumption == IterFails \in BOOLEAN

VARIABLE loc           \* loc[w]: locals of w's call

raceVars == <<vars, loc>>

\* The locals of write_block before the call reads anything.
Idle == [pc |-> "idle", b |-> 0, wasGapFill |-> FALSE, latest |-> 0,
         setEarliest |-> FALSE, highest |-> 0, gapBatch |-> NoGapChange,
         s |-> 0, e |-> 0, setHot |-> FALSE]

RaceInit == Init /\ loc = [w \in Writers |-> Idle]

\* Writer w is at pc and moves to the given locals; nothing shared changes.
At(w, pc) == loc[w].pc = pc
Goto(w, l) == loc' = [loc EXCEPT ![w] = l] /\ UNCHANGED vars

\* What a lookup that should find entry set g may find: an error of the iterator
\* is taken for "no entry" (if let Some(Ok(..))), and the call goes on.
Seen(g) == {g} \cup IF IterFails THEN {{}} ELSE {}

\* What the forward sweep may see of CF_GAPS: an error of its iterator is taken
\* for the end (while let Some(Ok(..))).
Swept == {gaps} \cup IF IterFails THEN {{g \in gaps : g[1] < h[1]} : h \in gaps} ELSE {}

\* The call arrives; was_gap_fill is read first.
Begin(w, b) ==
  /\ At(w, "idle")
  /\ \E found \in Seen(find_containing_gap(gaps, b)) :
       Goto(w, [Idle EXCEPT !.pc = "latest", !.b = b, !.wasGapFill = found # {}])

ReadLatest(w) ==
  At(w, "latest") /\ Goto(w, [loc[w] EXCEPT !.pc = "earliest", !.latest = LatestOrSeed])

ReadTrueEarliest(w) ==
  /\ At(w, "earliest")
  /\ Goto(w, [loc[w] EXCEPT !.pc = "highest", !.setEarliest = trueEarliest = NoBlock])

\* The watermark decides between the three branches; "extends the contiguous
\* sequence" starts its walk at the block itself.
ReadHighest(w) ==
  LET b == loc[w].b
  IN  /\ At(w, "highest")
      /\ \/ /\ b > highest + 1
            /\ Goto(w, [loc[w] EXCEPT !.pc = "left", !.highest = highest])
         \/ /\ b = highest + 1
            /\ Goto(w, [loc[w] EXCEPT !.pc = "walk", !.highest = b])
         \/ /\ b <= highest
            /\ Goto(w, [loc[w] EXCEPT !.pc = "fill", !.highest = highest])

\* add_gap_range, first iterator: the bounds after looking left.
ReadLeft(w) ==
  LET start == loc[w].highest + 1
      end   == loc[w].b - 1
  IN  /\ At(w, "left")
      /\ \E left \in Seen(LeftNeighbour(gaps, start)) :
           LET l == CHOOSE g \in left : TRUE
           IN  Goto(w, [loc[w] EXCEPT !.pc = "sweep",
                          !.s = IF left = {} THEN start ELSE l[1],
                          !.e = IF left = {} \/ l[2] <= end THEN end ELSE l[2]])

\* add_gap_range, second iterator: the sweep and the operations it queues.
Sweep(w) ==
  /\ At(w, "sweep")
  /\ \E seen \in Swept :
       Goto(w, [loc[w] EXCEPT !.pc = "front",
                  !.gapBatch = MergeBatch(seen, loc[w].s, loc[w].e)])

\* fill_gap_block: an entry that is not found is not filled.
Fill(w) ==
  /\ At(w, "fill")
  /\ \E seen \in Seen(gaps) :
       Goto(w, [loc[w] EXCEPT !.pc = "walk", !.gapBatch = fill_gap_block(seen, loc[w].b)])

\* One turn of the walk: the next block is at most the new latest and in no gap
\* of the committed index, or the walk ends.
Walk(w) ==
  LET next  == loc[w].highest + 1
      bound == IF loc[w].b > loc[w].latest THEN loc[w].b ELSE loc[w].latest
  IN  /\ At(w, "walk")
      /\ \E found \in Seen(find_containing_gap(gaps, next)) :
           Goto(w, IF next <= bound /\ found = {} THEN [loc[w] EXCEPT !.highest = next]
                   ELSE [loc[w] EXCEPT !.pc = "front"])

ReadEarliestHot(w) ==
  /\ At(w, "front")
  /\ Goto(w, [loc[w] EXCEPT !.pc = "commit", !.setHot = earliestHot = NoBlock])

\* commit_batch: everything the call queued, atomically.  The jump-ahead branch
\* queues no watermark.
Commit(w) ==
  LET l == loc[w]
  IN  /\ At(w, "commit")
      /\ hot' = hot \cup {l.b}
      /\ latest' = IF l.b > l.latest THEN l.b ELSE latest
      /\ trueEarliest' = IF l.setEarliest THEN l.b ELSE trueEarliest
      /\ gaps' = ApplyBatch(gaps, l.gapBatch)
      /\ highest' = IF l.b > l.highest + 1 THEN highest ELSE l.highest
      /\ earliestHot' = IF l.setHot THEN l.b ELSE earliestHot
      /\ loc' = [loc EXCEPT ![w] = IF l.wasGapFill THEN [l EXCEPT !.pc = "check"] ELSE Idle]
      /\ UNCHANGED <<cold, skipped, trigger, cycling>>

\* After the commit: notify the archiver if the block's batch is marked.
CheckSkipped(w) ==
  /\ At(w, "check")
  /\ trigger' = (trigger \/ (loc[w].b \div BatchSize) * BatchSize \in skipped)
  /\ loc' = [loc EXCEPT ![w] = Idle]
  /\ UNCHANGED <<hot, cold, latest, trueEarliest, earliestHot, highest, gaps, skipped,
                 cycling>>

\* An error of a get, of the commit or of the lookup after it (the iterators
\* swallow theirs): the call returns it.  Before the commit nothing is written,
\* after it the archiver is not notified.
Abort(w) == ~ At(w, "idle") /\ Goto(w, Idle)

\* A call under way reads on.
Read(w) ==
  \/ ReadLatest(w) \/ ReadTrueEarliest(w) \/ ReadHighest(w)
  \/ ReadLeft(w) \/ Sweep(w) \/ Fill(w) \/ Walk(w) \/ ReadEarliestHot(w)

Step(w) ==
  \/ \E b \in Blocks : Begin(w, b)
  \/ Read(w) \/ Commit(w) \/ CheckSkipped(w) \/ Abort(w)

RaceNext == (\E w \in Writers : Step(w)) \/ (Archiver /\ UNCHANGED loc)

RaceSpec == RaceInit /\ [][RaceNext]_raceVars

-----------------------------------------------------------------------------
\* Writer w has begun to read and has not committed yet.
Inside(w) == loc[w].pc \notin {"idle", "check"}

\* What a lock around the body of write_block, up to the commit, would give.
Exclusive == \A v, w \in Writers : v # w => ~ Inside(v) \/ ~ Inside(w)
=============================================================================
