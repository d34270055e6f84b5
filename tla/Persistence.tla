---------------------------- MODULE Persistence ----------------------------
(***************************************************************************)
(* The persistence plugin with whole handlers as actions: write_block and  *)
(* write_block_batch (service.rs), the metadata and gap bookkeeping of the *)
(* StateManager (state.rs), the hot tier (hot_tier.rs) and the archiver    *)
(* task (lib.rs, cold_storage/archiver.rs), one action per iteration of    *)
(* its loop.  One write runs at a time; WriteRace takes the writes apart   *)
(* and TieredStore takes the archiver, its files and crashes apart.        *)
(***************************************************************************)
EXTENDS GapTracker   \* Blocks: the numbers handed to write_block; gaps: CF_GAPS

CONSTANTS Batches,     \* historical ranges <<first, last>> for write_block_batch
          StartBlock,  \* core.start_block_number
          BatchSize,   \* archive_batch_size
          HotCount     \* hot_storage_block_count

ASSUME ConstantsAssumption ==
  /\ Batches \subseteq Nat \X Nat
  /\ StartBlock \in Nat
  /\ BatchSize \in Nat \ {0}
  /\ HotCount \in Nat

VARIABLES
  hot,                 \* CF_HOT_BLOCKS: blocks in the hot tier
  cold,                \* blocks in archives
  latest,              \* LATEST_PERSISTED_KEY
  trueEarliest,        \* TRUE_EARLIEST_PERSISTED_KEY
  earliestHot,         \* EARLIEST_HOT_KEY
  highest,             \* HIGHEST_CONTIGUOUS_KEY
  skipped,             \* CF_SKIPPED_BATCHES: set of batch starts
  trigger,             \* a permit of Archiver.trigger (Notify) is pending
  cycling              \* the archiver task is inside run_archival_cycle

dbVars == <<hot, cold, latest, trueEarliest, earliestHot, highest, gaps, skipped>>
vars == <<dbVars, trigger, cycling>>

NoBlock == -1          \* Option::None; Some(n) is n

\* start_block_number.saturating_sub(1)
Seed == IF StartBlock = 0 THEN 0 ELSE StartBlock - 1

\* Blocks some tier can return.
Stored == hot \cup cold

TypeOK ==
  /\ hot \subseteq Nat /\ cold \subseteq Nat
  /\ latest \in Nat \cup {NoBlock}
  /\ trueEarliest \in Nat \cup {NoBlock}
  /\ earliestHot \in Nat \cup {NoBlock}
  /\ highest \in Nat
  /\ gaps \subseteq GapEntry
  /\ skipped \subseteq Nat
  /\ trigger \in BOOLEAN /\ cycling \in BOOLEAN

\* The state after initialize() on an empty database: highest_contiguous is
\* seeded, everything else is unset, the archiver task waits.
Init ==
  /\ hot = {} /\ cold = {}
  /\ latest = NoBlock /\ trueEarliest = NoBlock /\ earliestHot = NoBlock
  /\ highest = Seed
  /\ gaps = {} /\ skipped = {}
  /\ trigger = FALSE /\ cycling = FALSE

-----------------------------------------------------------------------------
(* write_block *)

LatestOrSeed == IF latest = NoBlock THEN Seed ELSE latest

\* max(latest_persisted, block_number)
NewLatest(b) == IF b > LatestOrSeed THEN b ELSE LatestOrSeed

\* BUG variant of LatestAfter: the last block written wins.
LatestAfter_overwrite(b) == b

\* latest_persisted is only written when it grows.
LatestAfter(b) == IF NewLatest(b) > LatestOrSeed THEN NewLatest(b) ELSE latest

\* BUG variant of WalksTo: the loop does not look for gaps.
WalksTo_blind(g, h, bound, n) ==
  h <= n /\ (n = bound \/ (bound < h /\ n = h))

\* The loop that walks highest_contiguous forward from h stops at n: every
\* block passed is at most bound and in no gap, and n + 1 is not.
WalksTo(g, h, bound, n) ==
  /\ h <= n
  /\ \A m \in h + 1 .. n : m <= bound /\ find_containing_gap(g, m) = {}
  /\ n + 1 > bound \/ find_containing_gap(g, n + 1) # {}

\* BUG variant of NewGaps: the gap before a block that jumps ahead ends one
\* block early.
NewGaps_short(b) ==
  IF b > highest + 1 THEN ApplyBatch(gaps, add_gap_range(gaps, highest + 1, b - 2))
  ELSE IF b = highest + 1 THEN gaps
  ELSE ApplyBatch(gaps, fill_gap_block(gaps, b))

\* The gap index after block b: a block that jumps ahead opens a gap, the next
\* block in order leaves the index alone, any other block fills.
NewGaps(b) ==
  IF b > highest + 1 THEN ApplyBatch(gaps, add_gap_range(gaps, highest + 1, b - 1))
  ELSE IF b = highest + 1 THEN gaps
  ELSE ApplyBatch(gaps, fill_gap_block(gaps, b))

\* n is the contiguous watermark after block b.  The walk reads the index as it
\* was before this batch.
NewHighest(b, n) ==
  \/ b > highest + 1 /\ n = highest
  \/ b = highest + 1 /\ WalksTo(gaps, b, NewLatest(b), n)
  \/ b <= highest /\ WalksTo(gaps, highest, NewLatest(b), n)

\* The WriteBatch of write_block for block b, which commit_batch writes at once.
commit_batch(b) ==
  /\ hot' = hot \cup {b}
  /\ latest' = LatestAfter(b)
  /\ trueEarliest' = IF trueEarliest = NoBlock THEN b ELSE trueEarliest
  /\ gaps' = NewGaps(b)
  /\ \E n \in highest .. NewLatest(b) : NewHighest(b, n) /\ highest' = n
  /\ earliestHot' = IF earliestHot = NoBlock THEN b ELSE earliestHot
  /\ UNCHANGED <<cold, skipped, cycling>>

\* The whole of write_block for block b: one atomic commit, then the check
\* whether a skipped batch may now be complete.
write_block(b) ==
  /\ commit_batch(b)
  /\ trigger' = (trigger \/ (/\ find_containing_gap(gaps, b) # {}
                             /\ (b \div BatchSize) * BatchSize \in skipped))

\* write_block_batch: a historical range goes straight to an archive; only
\* true_earliest is updated.
write_block_batch(first, last) ==
  /\ first <= last
  /\ cold' = cold \cup first .. last
  /\ trueEarliest' = IF trueEarliest = NoBlock \/ first < trueEarliest
                     THEN first ELSE trueEarliest
  /\ UNCHANGED <<hot, latest, earliestHot, highest, gaps, skipped, trigger, cycling>>

-----------------------------------------------------------------------------
(* The archiver task *)

Window(s) == s .. s + BatchSize - 1

\* latest_persisted.unwrap_or(0).saturating_sub(earliest_hot) + 1
HotSpan ==
  LET l == IF latest = NoBlock THEN 0 ELSE latest
  IN  (IF l > earliestHot THEN l - earliestHot ELSE 0) + 1

\* A write notification or the 30 s timer starts a cycle; a pending permit is
\* consumed by the former (and may be left pending by the latter).
WakeArchiver ==
  /\ ~cycling
  /\ cycling' = TRUE
  /\ trigger' \in {FALSE, trigger}
  /\ UNCHANGED dbVars

\* Nothing to archive, or the hot tier is within its limit: the cycle returns.
CycleDone ==
  /\ cycling
  /\ earliestHot = NoBlock \/ HotSpan <= HotCount
  /\ cycling' = FALSE
  /\ UNCHANGED <<dbVars, trigger>>

\* The hot tier has a first block and is above its limit.
CanArchive ==
  /\ cycling
  /\ earliestHot # NoBlock /\ HotSpan > HotCount

\* Move the blocks from earliest_hot to the archive and advance the front.
MoveBatch(blocks) ==
  /\ cold' = cold \cup blocks
  /\ hot' = hot \ blocks
  /\ earliestHot' = earliestHot + BatchSize
  /\ skipped' = skipped \ {earliestHot}
  /\ UNCHANGED <<latest, trueEarliest, highest, gaps, trigger, cycling>>

\* BUG variant: a batch once marked as skipped is not tried again.
ArchiveBatch_no_retry ==
  /\ CanArchive /\ earliestHot \notin skipped
  /\ Window(earliestHot) \subseteq hot
  /\ MoveBatch(Window(earliestHot))

\* BUG variant: one block too many is deleted from the hot tier, and the skip
\* marker stays.
ArchiveBatch_overdelete ==
  /\ CanArchive
  /\ Window(earliestHot) \subseteq hot
  /\ cold' = cold \cup Window(earliestHot)
  /\ hot' = hot \ (earliestHot .. earliestHot + BatchSize)
  /\ earliestHot' = earliestHot + BatchSize
  /\ UNCHANGED <<latest, trueEarliest, highest, gaps, skipped, trigger, cycling>>

\* The first batch of the hot tier is complete: archive_batch moves it to the
\* cold tier and the loop continues.
ArchiveBatch ==
  /\ CanArchive
  /\ Window(earliestHot) \subseteq hot
  /\ MoveBatch(Window(earliestHot))

\* The first batch has a hole: it is marked skipped and the cycle ends.
SkipBatch ==
  /\ CanArchive
  /\ ~(Window(earliestHot) \subseteq hot)
  /\ skipped' = skipped \cup {earliestHot}
  /\ cycling' = FALSE
  /\ UNCHANGED <<hot, cold, latest, trueEarliest, earliestHot, highest, gaps, trigger>>

\* run_archival_cycle returns an error (logged by the task) before a commit.
CycleFails ==
  /\ cycling
  /\ cycling' = FALSE
  /\ UNCHANGED <<dbVars, trigger>>

Archiver == WakeArchiver \/ CycleDone \/ ArchiveBatch \/ SkipBatch \/ CycleFails

Next == \/ \E b \in Blocks : write_block(b)
        \/ \E r \in Batches : write_block_batch(r[1], r[2])
        \/ Archiver

Spec == Init /\ [][Next]_vars
-----------------------------------------------------------------------------
(* Properties *)

\* highest_contiguous vouches for a prefix: every block above the seed and up
\* to it is stored, although write_block never looks at the blocks it walks
\* over and the archiver moves blocks between tiers meanwhile.
ContiguousStored == \A n \in Seed + 1 .. highest : n \in Stored

\* "No gap found, so this block must also exist" (write_block): every block
\* between the watermarks that is not stored lies in a gap entry.
MissingIsTracked ==
  \A n \in Seed .. latest : n > highest => n \in Stored \/ MissingIn(gaps, n)

\* latest_persisted is the greatest block written one at a time, and once set
\* it can be read back; the contiguous watermark does not overtake it.
LatestIsGreatest ==
  /\ \A n \in hot : n <= LatestOrSeed
  /\ latest # NoBlock => latest \in Stored
  /\ highest <= LatestOrSeed

\* The archiver marks at most one batch as skipped, the one the hot tier
\* starts with, and forgets it when that batch is archived.
OnlyFrontSkipped == skipped \subseteq {earliestHot}

\* A stored block never disappears and no watermark moves backwards.
NothingLost ==
  [][/\ Stored \subseteq Stored'
     /\ latest <= latest' /\ highest <= highest' /\ earliestHot <= earliestHot']_vars

\* The store as its clients see it.
Store == INSTANCE BlockStore WITH stored <- Stored, contiguous <- highest

\* write_block, write_block_batch and the archiver implement BlockStore.
ImplementsBlockStore == Store!Spec

\* The 30 s timer always fires again, a cycle that runs takes its next step,
\* and archive I/O does not fail for ever.
Fairness ==
  /\ WF_vars(WakeArchiver)
  /\ WF_vars(CycleDone) /\ WF_vars(SkipBatch)
  /\ SF_vars(ArchiveBatch)

LiveSpec == Spec /\ Fairness

\* A complete first batch of an oversized hot tier is eventually archived,
\* also when the notification for it never came (write_block looks up the
\* skipped batch by a multiple of archive_batch_size, the archiver stores the
\* first hot block).
OversizeDrains ==
  \A s \in Blocks :
    (earliestHot = s /\ Window(s) \subseteq hot /\ HotSpan > HotCount)
      ~> earliestHot > s
=============================================================================
