----------------------------- MODULE GapTracker -----------------------------
(***************************************************************************)
(* The gap half of the StateManager (persistence plugin, state.rs) driven  *)
(* by one writer: every operation computes its batch from the column       *)
(* family and commits it before the next operation starts.                 *)
(***************************************************************************)
EXTENDS GapIndex

CONSTANT Blocks        \* block numbers callers use

ASSUME BlocksAssumption == Blocks \subseteq Nat

VARIABLE gaps          \* CF_GAPS: set of <<start, end>>

GapTypeOK == gaps \subseteq GapEntry

TrackerInit == gaps = {}

AddGapRange(start, end) == gaps' = ApplyBatch(gaps, add_gap_range(gaps, start, end))

FillGapBlock(n) == gaps' = ApplyBatch(gaps, fill_gap_block(gaps, n))

TrackerNext == \/ \E start, end \in Blocks : AddGapRange(start, end)
        \/ \E n \in Blocks : FillGapBlock(n)

TrackerSpec == TrackerInit /\ [][TrackerNext]_gaps

-----------------------------------------------------------------------------
\* The ranges in CF_GAPS never overlap and never touch, whatever sequence of
\* add_gap_range and fill_gap_block calls produced them.
GapsSeparated == Separated(gaps)

\* find_containing_gap inspects one entry only, the one at or before n.  That
\* is enough: it answers Some exactly when some entry contains n.
LookupIsComplete ==
  \A n \in Blocks : find_containing_gap(gaps, n) # {} <=> MissingIn(gaps, n)

\* The representation is exact: the column family behaves like the plain set
\* of missing blocks.
Missing == INSTANCE MissingBlocks
             WITH missing <- UNION {g[1] .. g[2] : g \in gaps}

\* The abstract specification, named for the configuration file: every
\* add_gap_range and fill_gap_block changes the set of missing blocks by
\* exactly the range or the block it was given.
TracksMissingBlocks == Missing!Spec
=============================================================================
