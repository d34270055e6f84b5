------------------------------ MODULE GapIndex ------------------------------
(***************************************************************************)
(* The gap index of the StateManager (persistence plugin, state.rs): the   *)
(* column family CF_GAPS maps the first block of a missing range to its    *)
(* last block.  A key/value pair is a pair <<start, end>> and the column   *)
(* family is a set of such pairs with distinct starts.  All operators are  *)
(* constant: they read one state of the column family and compute either   *)
(* an answer or the write batch that the caller will commit.  The          *)
(* iterators do not fail here; WriteRace has the ones that do.             *)
(***************************************************************************)
EXTENDS Integers

\* The key/value pairs CF_GAPS can hold.
GapEntry == Nat \X Nat

\* The blocks one entry stands for.
InGap(g, n) == g[1] <= n /\ n <= g[2]

\* The blocks the whole column family declares missing.
MissingIn(gaps, n) == \E g \in gaps : InGap(g, n)

\* iterator_cf(From(n), Reverse).next(): the entry with the greatest key not
\* above n, as a set of at most one entry.
EntryAtOrBefore(gaps, n) ==
  {g \in gaps : g[1] <= n /\ \A h \in gaps : h[1] <= n => h[1] <= g[1]}

\* BUG variant of find_containing_gap: the last block of a range is left out.
find_containing_gap_strict(gaps, n) ==
  {g \in EntryAtOrBefore(gaps, n) : n < g[2]}

\* The entry that contains n, as a set of at most one entry (Option).
find_containing_gap(gaps, n) ==
  {g \in EntryAtOrBefore(gaps, n) : n <= g[2]}

-----------------------------------------------------------------------------
(* Write batches.  RocksDB applies a batch atomically, in the order of its  *)
(* operations; both writers of CF_GAPS delete first and put afterwards.      *)

GapBatch == [del : SUBSET Nat, put : SUBSET GapEntry]

NoGapChange == [del |-> {}, put |-> {}]

\* The column family after db.write(batch).
ApplyBatch(gaps, batch) ==
  {g \in gaps : g[1] \notin batch.del /\ \A p \in batch.put : p[1] # g[1]}
    \cup batch.put

-----------------------------------------------------------------------------
(* add_gap_range: merge [start, end] with every entry it overlaps or        *)
(* touches.                                                                  *)

\* The entry to the left that overlaps or touches [start, ...].
LeftNeighbour(gaps, start) ==
  {g \in EntryAtOrBefore(gaps, start) : g[2] + 1 >= start}

\* f is a fixed point of the forward sweep from key s: no entry that starts
\* at or before f + 1 ends beyond f.
SweepClosed(gaps, s, f) ==
  \A g \in gaps : s <= g[1] /\ g[1] <= f + 1 => g[2] <= f

\* final_end after the forward sweep that starts at key s with final_end = e.
\* The loop visits keys in ascending order, raises final_end to the end of
\* each entry visited and breaks at the first key above final_end + 1: it
\* stops at the least fixed point at or above e.
SweepEnd(gaps, s, e) ==
  LET ends == {f \in {e} \cup {g[2] : g \in gaps} :
                 e <= f /\ SweepClosed(gaps, s, f)}
  IN  CHOOSE f \in ends : \A h \in ends : f <= h

\* The batch for the range start..end once the bounds after looking left are
\* known: s is final_start, e is final_end before the sweep.
MergeBatch(gaps, s, e) ==
  LET f == SweepEnd(gaps, s, e)
  IN  [del |-> {g[1] : g \in {h \in gaps : s <= h[1] /\ h[1] <= f + 1}},
       put |-> {<<s, f>>}]

\* BUG variant of add_gap_range: touching ranges to the left are not merged.
add_gap_range_no_adjacency(gaps, start, end) ==
  LET left == {g \in EntryAtOrBefore(gaps, start) : g[2] >= start}
      l    == CHOOSE g \in left : TRUE
  IN  IF end < start THEN NoGapChange
      ELSE IF left = {} THEN MergeBatch(gaps, start, end)
      ELSE MergeBatch(gaps, l[1], IF l[2] > end THEN l[2] ELSE end)

add_gap_range(gaps, start, end) ==
  LET left == LeftNeighbour(gaps, start)
      l    == CHOOSE g \in left : TRUE
  IN  IF end < start THEN NoGapChange
      ELSE IF left = {} THEN MergeBatch(gaps, start, end)
      ELSE MergeBatch(gaps, l[1], IF l[2] > end THEN l[2] ELSE end)

-----------------------------------------------------------------------------
(* fill_gap_block: split the entry that contains block n around n.          *)

\* BUG variant of fill_gap_block: the right half is not written back.
fill_gap_block_left_only(gaps, n) ==
  LET c == find_containing_gap(gaps, n)
  IN  [del |-> {g[1] : g \in c},
       put |-> {<<g[1], n - 1>> : g \in {h \in c : n > h[1]}}]

fill_gap_block(gaps, n) ==
  LET c == find_containing_gap(gaps, n)
  IN  [del |-> {g[1] : g \in c},
       put |-> {<<g[1], n - 1>> : g \in {h \in c : n > h[1]}}
                 \cup {<<n + 1, g[2]>> : g \in {h \in c : n < h[2]}}]

-----------------------------------------------------------------------------
\* The entries are ranges, no two of which overlap or touch.  This is what
\* makes "the entry at or before n" the only candidate to contain n.
Separated(gaps) ==
  /\ \A g \in gaps : g[1] <= g[2]
  /\ \A g, h \in gaps : g # h => g[2] + 1 < h[1] \/ h[2] + 1 < g[1]
=============================================================================
