------------------------- MODULE PersistenceProofs --------------------------
(***************************************************************************)
(* The gap index, by itself (GapTracker) and inside the persistence plugin *)
(* with its watermarks, for every start block, batch size, hot tier limit  *)
(* and set of blocks; then the calls of write_block read by read           *)
(* (WriteRace), for any number of writers that exclude each other.         *)
(***************************************************************************)
EXTENDS WriteRace, TLAPS

-----------------------------------------------------------------------------
(* What find_containing_gap, add_gap_range and fill_gap_block do to a column *)
(* family of separated ranges, for every column family.                      *)

\* On separated ranges the reverse seek of find_containing_gap finds an entry
\* exactly when some entry contains the block.
LEMMA FindIsComplete ==
  ASSUME NEW cf \in SUBSET GapEntry, Separated(cf), NEW n \in Nat
  PROVE  /\ find_containing_gap(cf, n) # {} <=> MissingIn(cf, n)
         /\ \A g \in cf : InGap(g, n) <=> g \in find_containing_gap(cf, n)
<1>1. ASSUME NEW g \in cf, InGap(g, n), NEW h \in cf, h[1] <= n
      PROVE  h[1] <= g[1]
  <2>1. /\ g[1] \in Nat /\ g[2] \in Nat /\ h[1] \in Nat /\ h[2] \in Nat
    BY DEF GapEntry
  <2>2. CASE h = g
    BY <2>1, <2>2
  <2>3. CASE h # g
    BY <1>1, <2>1, <2>3 DEF Separated, InGap
  <2> QED BY <2>2, <2>3
<1>2. \A g \in cf : InGap(g, n) => g \in find_containing_gap(cf, n)
  BY <1>1 DEF find_containing_gap, EntryAtOrBefore, InGap
<1>3. \A g \in cf : g \in find_containing_gap(cf, n) => InGap(g, n)
  BY DEF find_containing_gap, EntryAtOrBefore, InGap
<1>4. find_containing_gap(cf, n) \subseteq cf
  BY DEF find_containing_gap, EntryAtOrBefore
<1> QED BY <1>2, <1>3, <1>4 DEF MissingIn

\* The end computed by the forward sweep of add_gap_range: either the sweep
\* changed nothing, or it stopped at the end of the one entry that reaches
\* beyond the range; no other entry starts inside or right after the result.
LEMMA SweepResult ==
  ASSUME NEW cf \in SUBSET GapEntry, Separated(cf),
         NEW s \in Nat, NEW e \in Nat
  PROVE  LET f == SweepEnd(cf, s, e)
         IN  /\ f \in Nat /\ e <= f
             /\ SweepClosed(cf, s, f)
             /\ f = e \/ \E g \in cf : s <= g[1] /\ g[1] <= e + 1 /\ g[2] = f
<1> DEFINE ends == {f \in {e} \cup {g[2] : g \in cf} :
                      e <= f /\ SweepClosed(cf, s, f)}
<1> DEFINE Least(f) == f \in ends /\ \A h \in ends : f <= h
<1> DEFINE Good(f) == f = e \/ \E g \in cf : s <= g[1] /\ g[1] <= e + 1 /\ g[2] = f
<1>1. \A g \in cf : g[1] \in Nat /\ g[2] \in Nat
  BY DEF GapEntry
<1>2. ends \subseteq Nat
  BY <1>1
<1>3. \E f : Least(f) /\ Good(f)
  <2>1. CASE \E g \in cf : s <= g[1] /\ g[1] <= e + 1 /\ g[2] > e
    <3>1. PICK g \in cf : s <= g[1] /\ g[1] <= e + 1 /\ g[2] > e
      BY <2>1
    <3>2. \A h \in cf : s <= h[1] /\ h[1] <= g[2] + 1 => h[2] <= g[2]
      <4>1. SUFFICES ASSUME NEW h \in cf, h[1] <= g[2] + 1, h # g
                     PROVE  h[2] <= g[2]
        BY <1>1
      <4>2. g[2] + 1 < h[1] \/ h[2] + 1 < g[1]
        BY <4>1 DEF Separated
      <4>3. g[1] <= g[2]
        BY DEF Separated
      <4> QED BY <1>1, <4>1, <4>2, <4>3
    <3>3. SweepClosed(cf, s, g[2])
      BY <3>2 DEF SweepClosed
    <3>4. g[2] \in ends
      BY <1>1, <3>1, <3>3
    <3>5. ASSUME NEW h \in ends PROVE g[2] <= h
      <4>1. h \in Nat /\ e <= h /\ SweepClosed(cf, s, h)
        BY <1>2, <3>5
      <4>2. g[1] <= h + 1
        BY <1>1, <3>1, <4>1
      <4> QED BY <3>1, <4>1, <4>2 DEF SweepClosed
    <3>6. Good(g[2])
      BY <3>1
    <3> QED BY <3>4, <3>5, <3>6
  <2>2. CASE ~ \E g \in cf : s <= g[1] /\ g[1] <= e + 1 /\ g[2] > e
    <3>1. SweepClosed(cf, s, e)
      BY <1>1, <2>2 DEF SweepClosed
    <3>2. e \in ends
      BY <3>1
    <3> QED BY <3>2
  <2> QED BY <2>1, <2>2
<1>4. PICK f : Least(f) /\ Good(f)
  BY <1>3
<1>5. Least(SweepEnd(cf, s, e))
  BY <1>4 DEF SweepEnd
<1>6. SweepEnd(cf, s, e) = f
  <2> DEFINE x == SweepEnd(cf, s, e)
  <2>1. x <= f /\ f <= x /\ x \in Nat /\ f \in Nat
    BY <1>2, <1>4, <1>5
  <2> HIDE DEF x
  <2>2. x = f
    BY <2>1
  <2> QED BY <2>2 DEF x
<1>7. Good(SweepEnd(cf, s, e))
  BY <1>4, <1>6
<1> HIDE DEF Good
<1>8. SweepEnd(cf, s, e) \in Nat
  BY <1>2, <1>5
<1>9. e <= SweepEnd(cf, s, e) /\ SweepClosed(cf, s, SweepEnd(cf, s, e))
  BY <1>5
<1> QED BY <1>7, <1>8, <1>9 DEF Good

\* Committing a merged range replaces the entries inside or right after it.
LEMMA MergeBatchApplied ==
  ASSUME NEW cf \in SUBSET GapEntry, Separated(cf),
         NEW s \in Nat, NEW e \in Nat, s <= e
  PROVE  LET f == SweepEnd(cf, s, e)
         IN  ApplyBatch(cf, MergeBatch(cf, s, e))
               = {g \in cf : g[1] < s \/ g[1] > f + 1} \cup {<<s, f>>}
<1> DEFINE f == SweepEnd(cf, s, e)
<1>1. f \in Nat /\ e <= f
  BY SweepResult
<1>2. \A g \in cf : g[1] \in Nat
  BY DEF GapEntry
<1> DEFINE batch == MergeBatch(cf, s, e)
<1>3. /\ batch.del = {g[1] : g \in {h \in cf : s <= h[1] /\ h[1] <= f + 1}}
      /\ batch.put = {<<s, f>>}
  BY DEF MergeBatch
<1> HIDE DEF f, batch
<1>4. ASSUME NEW g \in cf
      PROVE  (g[1] \notin batch.del /\ \A p \in batch.put : p[1] # g[1])
               <=> (g[1] < s \/ g[1] > f + 1)
  <2>1. g[1] \in batch.del <=> (s <= g[1] /\ g[1] <= f + 1)
    BY <1>3
  <2>2. (\A p \in batch.put : p[1] # g[1]) <=> g[1] # s
    BY <1>3
  <2> QED BY <1>1, <1>2, <2>1, <2>2
<1>5. ApplyBatch(cf, batch)
        = {g \in cf : g[1] < s \/ g[1] > f + 1} \cup {<<s, f>>}
  BY <1>3, <1>4 DEF ApplyBatch
<1> QED BY <1>5 DEF f, batch

\* A range that no entry to its left overlaps or touches: merging it keeps the
\* entries separated and adds exactly the blocks of the range.
LEMMA MergeIsExact ==
  ASSUME NEW cf \in SUBSET GapEntry, Separated(cf),
         NEW s \in Nat, NEW e \in Nat, s <= e,
         \A g \in cf : g[1] < s => g[2] + 1 < s
  PROVE  LET after == ApplyBatch(cf, MergeBatch(cf, s, e))
         IN  /\ after \in SUBSET GapEntry
             /\ Separated(after)
             /\ \A n \in Nat : MissingIn(after, n)
                                 <=> MissingIn(cf, n) \/ (s <= n /\ n <= e)
<1> DEFINE f == SweepEnd(cf, s, e)
<1> DEFINE after == ApplyBatch(cf, MergeBatch(cf, s, e))
<1>1. /\ f \in Nat /\ e <= f
      /\ \A g \in cf : s <= g[1] /\ g[1] <= f + 1 => g[2] <= f
      /\ f = e \/ \E g \in cf : s <= g[1] /\ g[1] <= e + 1 /\ g[2] = f
  BY SweepResult DEF SweepClosed
<1>2. after = {g \in cf : g[1] < s \/ g[1] > f + 1} \cup {<<s, f>>}
  BY MergeBatchApplied
<1>3. \A g \in cf : g[1] \in Nat /\ g[2] \in Nat /\ g[1] <= g[2]
  BY DEF GapEntry, Separated
<1> HIDE DEF f, after
<1> DEFINE new == <<s, f>>
<1>4. new \in GapEntry /\ new[1] = s /\ new[2] = f
  BY <1>1 DEF GapEntry
<1> HIDE DEF new
<1>5. after \in SUBSET GapEntry
  BY <1>2, <1>4 DEF new
<1>6. Separated(after)
  <2>1. \A g \in after : g[1] <= g[2]
    BY <1>1, <1>2, <1>3, <1>4 DEF new
  <2>2. ASSUME NEW g \in cf, g[1] < s \/ g[1] > f + 1
        PROVE  g[2] + 1 < new[1] \/ new[2] + 1 < g[1]
    BY <1>1, <1>3, <1>4, <2>2
  <2>3. ASSUME NEW g \in after, NEW h \in after, g # h
        PROVE  g[2] + 1 < h[1] \/ h[2] + 1 < g[1]
    <3>1. CASE g \in cf /\ h \in cf
      BY <2>3, <3>1 DEF Separated
    <3>2. CASE g = new
      BY <1>2, <2>2, <2>3, <3>2 DEF new
    <3>3. CASE h = new
      BY <1>2, <2>2, <2>3, <3>3 DEF new
    <3> QED BY <1>2, <3>1, <3>2, <3>3 DEF new
  <2> QED BY <2>1, <2>3 DEF Separated
<1>7. ASSUME NEW n \in Nat
      PROVE  MissingIn(after, n) <=> MissingIn(cf, n) \/ (s <= n /\ n <= e)
  <2>1. ASSUME MissingIn(cf, n) PROVE MissingIn(after, n)
    <3>1. PICK g \in cf : g[1] <= n /\ n <= g[2]
      BY <2>1 DEF MissingIn, InGap
    <3>2. CASE g[1] < s \/ g[1] > f + 1
      BY <1>2, <3>1, <3>2 DEF MissingIn, InGap
    <3>3. CASE s <= g[1] /\ g[1] <= f + 1
      <4>1. new[1] <= n /\ n <= new[2]
        BY <1>1, <1>3, <1>4, <3>1, <3>3
      <4> QED BY <1>2, <4>1 DEF MissingIn, InGap, new
    <3> QED BY <1>1, <1>3, <3>2, <3>3
  <2>2. ASSUME s <= n, n <= e PROVE MissingIn(after, n)
    <3>1. new[1] <= n /\ n <= new[2]
      BY <1>1, <1>4, <2>2
    <3> QED BY <1>2, <3>1 DEF MissingIn, InGap, new
  <2>3. ASSUME MissingIn(after, n), ~ (s <= n /\ n <= e)
        PROVE  MissingIn(cf, n)
    <3>1. PICK g \in after : g[1] <= n /\ n <= g[2]
      BY <2>3 DEF MissingIn, InGap
    <3>2. CASE g \in cf
      BY <3>1, <3>2 DEF MissingIn, InGap
    <3>3. CASE g = new
      <4>1. s <= n /\ n <= f /\ e < n
        BY <1>1, <1>4, <2>3, <3>1, <3>3
      <4>2. PICK h \in cf : s <= h[1] /\ h[1] <= e + 1 /\ h[2] = f
        BY <1>1, <4>1
      <4>3. h[1] <= n /\ n <= h[2]
        BY <1>3, <4>1, <4>2
      <4> QED BY <4>3 DEF MissingIn, InGap
    <3> QED BY <1>2, <3>1, <3>2, <3>3 DEF new
  <2> QED BY <2>1, <2>2, <2>3
<1> QED BY <1>5, <1>6, <1>7 DEF after

\* add_gap_range keeps the entries separated and declares missing exactly the
\* blocks of the range it is given (none when end < start).
LEMMA AddGapIsExact ==
  ASSUME NEW cf \in SUBSET GapEntry, Separated(cf),
         NEW start \in Nat, NEW end \in Int
  PROVE  LET after == ApplyBatch(cf, add_gap_range(cf, start, end))
         IN  /\ after \in SUBSET GapEntry
             /\ Separated(after)
             /\ \A n \in Nat : MissingIn(after, n)
                                 <=> MissingIn(cf, n) \/ (start <= n /\ n <= end)
<1> DEFINE left == LeftNeighbour(cf, start)
<1> DEFINE after == ApplyBatch(cf, add_gap_range(cf, start, end))
<1>0. \A g \in cf : g[1] \in Nat /\ g[2] \in Nat /\ g[1] <= g[2]
  BY DEF GapEntry, Separated
<1>1. CASE end < start
  <2>1. after = cf
    BY <1>1 DEF add_gap_range, NoGapChange, ApplyBatch
  <2>2. \A n \in Nat : ~ (start <= n /\ n <= end)
    BY <1>1
  <2> QED BY <2>1, <2>2
<1>2. CASE start <= end /\ left = {}
  <2>1. end \in Nat
    BY <1>2
  <2>2. after = ApplyBatch(cf, MergeBatch(cf, start, end))
    BY <1>2 DEF add_gap_range
  <2>3. ASSUME NEW g \in cf, g[1] < start PROVE g[2] + 1 < start
    \* The entry at or before start does not reach start - 1, and every other
    \* entry below start lies to its left.
    <3>1. SUFFICES ASSUME g[2] + 1 >= start PROVE FALSE
      BY <1>0
    <3>2. ASSUME NEW h \in cf, h[1] <= start PROVE h[1] <= g[1]
      <4>1. CASE h = g
        BY <1>0, <4>1
      <4>2. CASE h # g
        <5>1. g[2] + 1 < h[1] \/ h[2] + 1 < g[1]
          BY <4>2 DEF Separated
        <5> QED BY <1>0, <2>3, <3>1, <3>2, <5>1
      <4> QED BY <4>1, <4>2
    <3>3. g \in left
      BY <1>0, <2>3, <3>1, <3>2 DEF LeftNeighbour, EntryAtOrBefore
    <3> QED BY <1>2, <3>3
  <2> QED BY <1>2, <2>1, <2>2, <2>3, MergeIsExact
<1>3. CASE start <= end /\ left # {}
  <2> DEFINE l == CHOOSE g \in left : TRUE
  <2> DEFINE e == IF l[2] > end THEN l[2] ELSE end
  <2>1. l \in left
    BY <1>3
  <2>2. after = ApplyBatch(cf, MergeBatch(cf, l[1], e))
    BY <1>3 DEF add_gap_range
  <2> HIDE DEF l
  <2>3. l \in cf /\ l[1] <= start /\ l[2] + 1 >= start
    BY <2>1 DEF LeftNeighbour, EntryAtOrBefore
  <2>4. l[1] \in Nat /\ l[2] \in Nat /\ l[1] <= l[2] /\ e \in Nat /\ l[1] <= e
    BY <1>0, <1>3, <2>3
  <2>5. \A g \in cf : g[1] < l[1] => g[2] + 1 < l[1]
    <3>1. SUFFICES ASSUME NEW g \in cf, g[1] < l[1] PROVE g[2] + 1 < l[1]
      OBVIOUS
    <3>2. g # l
      BY <2>4, <3>1
    <3>3. l[2] + 1 < g[1] \/ g[2] + 1 < l[1]
      BY <2>3, <3>2 DEF Separated
    <3> QED BY <1>0, <2>4, <3>1, <3>3
  <2>6. ASSUME NEW n \in Nat
        PROVE  MissingIn(cf, n) \/ (l[1] <= n /\ n <= e)
                 <=> MissingIn(cf, n) \/ (start <= n /\ n <= end)
    <3>1. l[1] <= n /\ n <= l[2] => MissingIn(cf, n)
      BY <2>3 DEF MissingIn, InGap
    <3> QED BY <1>3, <2>3, <2>4, <3>1
  <2>7. /\ after \in SUBSET GapEntry
        /\ Separated(after)
        /\ \A n \in Nat : MissingIn(after, n)
                            <=> MissingIn(cf, n) \/ (l[1] <= n /\ n <= e)
    <3> HIDE DEF e, after
    <3> QED BY <2>2, <2>4, <2>5, MergeIsExact
  <2> QED BY <2>6, <2>7
<1> QED BY <1>1, <1>2, <1>3

\* fill_gap_block keeps the entries separated and takes exactly one block out
\* of the missing ones (none when the block is in no entry).
LEMMA FillGapIsExact ==
  ASSUME NEW cf \in SUBSET GapEntry, Separated(cf), NEW b \in Nat
  PROVE  LET after == ApplyBatch(cf, fill_gap_block(cf, b))
         IN  /\ after \in SUBSET GapEntry
             /\ Separated(after)
             /\ \A n \in Nat : MissingIn(after, n) <=> MissingIn(cf, n) /\ n # b
<1> DEFINE batch == fill_gap_block(cf, b)
<1> DEFINE after == ApplyBatch(cf, batch)
<1> DEFINE c == find_containing_gap(cf, b)
<1>0. \A g \in cf : g[1] \in Nat /\ g[2] \in Nat /\ g[1] <= g[2] /\ g = <<g[1], g[2]>>
  BY DEF GapEntry, Separated
<1>1. \A g \in cf : InGap(g, b) <=> g \in c
  BY FindIsComplete
<1>2. c \subseteq cf
  BY DEF find_containing_gap, EntryAtOrBefore
<1>3. /\ batch.del = {g[1] : g \in c}
      /\ batch.put = {<<g[1], b - 1>> : g \in {h \in c : b > h[1]}}
                       \cup {<<b + 1, g[2]>> : g \in {h \in c : b < h[2]}}
  BY DEF fill_gap_block
<1>4. CASE c = {}
  <2>1. batch.del = {} /\ batch.put = {}
    BY <1>3, <1>4
  <2>2. after = cf
    BY <2>1 DEF ApplyBatch
  <2>3. \A n \in Nat : MissingIn(cf, n) => n # b
    BY <1>1, <1>4 DEF MissingIn
  <2> QED BY <2>2, <2>3
<1>5. CASE c # {}
  <2>1. PICK g \in cf : g \in c
    BY <1>2, <1>5
  <2>2. g[1] \in Nat /\ g[2] \in Nat /\ g[1] <= b /\ b <= g[2]
    BY <1>0, <1>1, <2>1 DEF InGap
  <2>3. \A h \in cf : h # g => g[2] + 1 < h[1] \/ h[2] + 1 < g[1]
    BY DEF Separated
  <2>4. c = {g}
    BY <1>0, <1>1, <1>2, <2>1, <2>2, <2>3 DEF InGap
  <2> DEFINE lo == <<g[1], b - 1>>
  <2> DEFINE hi == <<b + 1, g[2]>>
  <2>5. batch.del = {g[1]} /\ batch.put = {p \in {lo} : b > g[1]} \cup {p \in {hi} : b < g[2]}
    BY <1>3, <2>4
  <2>6. /\ lo[1] = g[1] /\ lo[2] = b - 1 /\ hi[1] = b + 1 /\ hi[2] = g[2]
        /\ b > g[1] => lo \in GapEntry
        /\ b < g[2] => hi \in GapEntry
    BY <2>2 DEF GapEntry
  <2> HIDE DEF lo, hi, batch, c
  <2>7. after = {h \in cf : h # g} \cup {p \in {lo} : b > g[1]}
                  \cup {p \in {hi} : b < g[2]}
    <3>1. ASSUME NEW h \in cf
          PROVE  (h[1] \notin batch.del /\ \A p \in batch.put : p[1] # h[1]) <=> h # g
      <4>1. CASE h = g
        BY <2>5, <4>1
      <4>2. CASE h # g
        <5>1. h[1] # g[1] /\ (b < g[2] => h[1] # b + 1)
          BY <1>0, <2>2, <2>3, <4>2
        <5> QED BY <2>5, <2>6, <4>2, <5>1
      <4> QED BY <4>1, <4>2
    <3> QED BY <2>5, <3>1 DEF ApplyBatch
  <2> HIDE DEF after
  <2>8. after \in SUBSET GapEntry
    BY <2>6, <2>7
  <2>9. Separated(after)
    <3>1. \A h \in after : h[1] <= h[2]
      BY <1>0, <2>2, <2>6, <2>7
    <3>2. ASSUME NEW h \in cf, h # g
          PROVE  /\ h[2] + 1 < lo[1] \/ lo[2] + 1 < h[1]
                 /\ h[2] + 1 < hi[1] \/ hi[2] + 1 < h[1]
      BY <1>0, <2>2, <2>3, <2>6, <3>2
    <3>3. lo[2] + 1 < hi[1]
      BY <2>2, <2>6
    <3>4. ASSUME NEW h \in after, NEW k \in after, h # k
          PROVE  h[2] + 1 < k[1] \/ k[2] + 1 < h[1]
      <4>1. CASE h \in cf /\ k \in cf /\ h # g /\ k # g
        BY <3>4, <4>1 DEF Separated
      <4>2. CASE h \in cf /\ h # g /\ k \in {lo, hi}
        BY <3>2, <4>2
      <4>3. CASE k \in cf /\ k # g /\ h \in {lo, hi}
        BY <3>2, <4>3
      <4>4. CASE h \in {lo, hi} /\ k \in {lo, hi}
        BY <3>3, <3>4, <4>4
      <4> QED BY <2>7, <4>1, <4>2, <4>3, <4>4
    <3> QED BY <3>1, <3>4 DEF Separated
  <2>10. ASSUME NEW n \in Nat
         PROVE  MissingIn(after, n) <=> MissingIn(cf, n) /\ n # b
    <3>1. ASSUME MissingIn(after, n) PROVE MissingIn(cf, n) /\ n # b
      <4>1. PICK h \in after : h[1] <= n /\ n <= h[2]
        BY <3>1 DEF MissingIn, InGap
      <4>2. CASE h \in cf /\ h # g
        <5>1. n # b
          BY <1>0, <2>2, <2>3, <4>1, <4>2
        <5> QED BY <4>1, <4>2, <5>1 DEF MissingIn, InGap
      <4>3. CASE (h = lo /\ b > g[1]) \/ (h = hi /\ b < g[2])
        <5>1. g[1] <= n /\ n <= g[2] /\ n # b
          BY <2>2, <2>6, <4>1, <4>3
        <5> QED BY <5>1 DEF MissingIn, InGap
      <4> QED BY <2>7, <4>2, <4>3
    <3>2. ASSUME MissingIn(cf, n), n # b PROVE MissingIn(after, n)
      <4>1. PICK h \in cf : h[1] <= n /\ n <= h[2]
        BY <3>2 DEF MissingIn, InGap
      <4>2. CASE h # g
        BY <2>7, <4>1, <4>2 DEF MissingIn, InGap
      <4>3. CASE h = g /\ n < b
        <5>1. lo \in after /\ lo[1] <= n /\ n <= lo[2]
          BY <2>2, <2>6, <2>7, <4>1, <4>3
        <5> QED BY <5>1 DEF MissingIn, InGap
      <4>4. CASE h = g /\ n > b
        <5>1. hi \in after /\ hi[1] <= n /\ n <= hi[2]
          BY <2>2, <2>6, <2>7, <4>1, <4>4
        <5> QED BY <5>1 DEF MissingIn, InGap
      <4> QED BY <3>2, <4>2, <4>3, <4>4
    <3> QED BY <3>1, <3>2
  <2> QED BY <2>8, <2>9, <2>10 DEF after, batch
<1> QED BY <1>4, <1>5

-----------------------------------------------------------------------------
(* GapTracker: the index of one writer *)

\* The inductive invariant: entries of the right type that are separated.
GapInv == GapTypeOK /\ GapsSeparated

LEMMA GapInvInductive ==
  ASSUME GapInv, [TrackerNext]_gaps
  PROVE  GapInv'
<1> USE BlocksAssumption
<1>0. gaps \in SUBSET GapEntry /\ Separated(gaps)
  BY DEF GapInv, GapTypeOK, GapsSeparated
<1>1. ASSUME NEW start \in Blocks, NEW end \in Blocks, AddGapRange(start, end)
      PROVE  GapInv'
  <2>1. start \in Nat /\ end \in Int
    OBVIOUS
  <2> QED BY <1>0, <1>1, <2>1, AddGapIsExact
          DEF AddGapRange, GapInv, GapTypeOK, GapsSeparated
<1>2. ASSUME NEW n \in Blocks, FillGapBlock(n)
      PROVE  GapInv'
  <2>1. n \in Nat
    OBVIOUS
  <2> QED BY <1>0, <1>2, <2>1, FillGapIsExact
          DEF FillGapBlock, GapInv, GapTypeOK, GapsSeparated
<1>3. CASE UNCHANGED gaps
  BY <1>3 DEF GapInv, GapTypeOK, GapsSeparated
<1> QED BY <1>1, <1>2, <1>3 DEF TrackerNext

LEMMA GapInvAlways == TrackerSpec => []GapInv
<1>1. TrackerInit => GapInv
  BY DEF TrackerInit, GapInv, GapTypeOK, GapsSeparated, Separated
<1> QED BY <1>1, GapInvInductive, PTL DEF TrackerSpec

\* No sequence of add_gap_range and fill_gap_block calls makes two entries of
\* CF_GAPS overlap or touch.
THEOREM AlwaysSeparated == TrackerSpec => []GapsSeparated
<1>1. GapInv => GapsSeparated
  BY DEF GapInv
<1> QED BY <1>1, GapInvAlways, PTL

\* The single reverse seek of find_containing_gap is always enough.
THEOREM LookupAlwaysComplete == TrackerSpec => []LookupIsComplete
<1>1. GapInv => LookupIsComplete
  <2>1. ASSUME GapInv, NEW n \in Blocks
        PROVE  find_containing_gap(gaps, n) # {} <=> MissingIn(gaps, n)
    <3>1. gaps \in SUBSET GapEntry /\ Separated(gaps) /\ n \in Nat
      BY <2>1, BlocksAssumption DEF GapInv, GapTypeOK, GapsSeparated
    <3> QED BY <3>1, FindIsComplete
  <2> QED BY <2>1 DEF LookupIsComplete
<1> QED BY <1>1, GapInvAlways, PTL

-----------------------------------------------------------------------------
(* GapTracker implements MissingBlocks *)

Union(gs) == UNION {g[1] .. g[2] : g \in gs}

LEMMA UnionIsMissing ==
  ASSUME NEW gs \in SUBSET GapEntry
  PROVE  /\ Union(gs) \subseteq Nat
         /\ \A n \in Nat : n \in Union(gs) <=> MissingIn(gs, n)
<1>1. \A g \in gs : g[1] \in Nat /\ g[2] \in Nat
  BY DEF GapEntry
<1>2. \A n : n \in Union(gs) <=> \E g \in gs : n \in g[1] .. g[2]
  BY DEF Union
<1>3. \A g \in gs : \A n : n \in g[1] .. g[2] <=> n \in Nat /\ g[1] <= n /\ n <= g[2]
  BY <1>1
<1> QED BY <1>2, <1>3 DEF MissingIn, InGap

LEMMA UnionAfterAdd ==
  ASSUME NEW old \in SUBSET GapEntry, Separated(old), NEW s \in Nat, NEW e \in Nat
  PROVE  Union(ApplyBatch(old, add_gap_range(old, s, e))) = Union(old) \cup s .. e
<1> DEFINE new == ApplyBatch(old, add_gap_range(old, s, e))
<1>1. /\ new \in SUBSET GapEntry
      /\ \A n \in Nat : MissingIn(new, n) <=> MissingIn(old, n) \/ (s <= n /\ n <= e)
  BY AddGapIsExact
<1> HIDE DEF new
<1>2. /\ Union(new) \subseteq Nat /\ \A n \in Nat : n \in Union(new) <=> MissingIn(new, n)
      /\ Union(old) \subseteq Nat /\ \A n \in Nat : n \in Union(old) <=> MissingIn(old, n)
  BY <1>1, UnionIsMissing
<1>3. s .. e \subseteq Nat /\ \A n \in Nat : n \in s .. e <=> s <= n /\ n <= e
  OBVIOUS
<1>4. Union(new) = Union(old) \cup s .. e
  BY <1>1, <1>2, <1>3
<1> QED BY <1>4 DEF new

LEMMA UnionAfterFill ==
  ASSUME NEW old \in SUBSET GapEntry, Separated(old), NEW b \in Nat
  PROVE  Union(ApplyBatch(old, fill_gap_block(old, b))) = Union(old) \ {b}
<1> DEFINE new == ApplyBatch(old, fill_gap_block(old, b))
<1>1. /\ new \in SUBSET GapEntry
      /\ \A n \in Nat : MissingIn(new, n) <=> MissingIn(old, n) /\ n # b
  BY FillGapIsExact
<1> HIDE DEF new
<1>2. /\ Union(new) \subseteq Nat /\ \A n \in Nat : n \in Union(new) <=> MissingIn(new, n)
      /\ Union(old) \subseteq Nat /\ \A n \in Nat : n \in Union(old) <=> MissingIn(old, n)
  BY <1>1, UnionIsMissing
<1>3. Union(new) = Union(old) \ {b}
  BY <1>1, <1>2
<1> QED BY <1>3 DEF new

\* CF_GAPS implements a plain set of missing blocks: add_gap_range adds its
\* range and fill_gap_block removes its block, whatever merging and splitting
\* of entries that takes.
THEOREM ImplementsMissingBlocks == TrackerSpec => TracksMissingBlocks
<1> USE BlocksAssumption
<1>1. TrackerInit => Missing!Init
  BY DEF TrackerInit, Missing!Init
<1>2. ASSUME GapInv, [TrackerNext]_gaps
      PROVE  [Missing!Next]_(UNION {g[1] .. g[2] : g \in gaps})
  <2>1. gaps \in SUBSET GapEntry /\ Separated(gaps)
    BY <1>2 DEF GapInv, GapTypeOK, GapsSeparated
  <2>2. ASSUME NEW start \in Blocks, NEW end \in Blocks, AddGapRange(start, end)
        PROVE  Missing!DeclareMissing(start, end)
    <3>1. start \in Nat /\ end \in Nat
      OBVIOUS
    <3>2. Union(gaps') = Union(gaps) \cup start .. end
      BY <2>1, <2>2, <3>1, UnionAfterAdd DEF AddGapRange
    <3> QED BY <3>2 DEF Missing!DeclareMissing, Union
  <2>3. ASSUME NEW n \in Blocks, FillGapBlock(n)
        PROVE  Missing!Arrive(n)
    <3>1. n \in Nat
      OBVIOUS
    <3>2. Union(gaps') = Union(gaps) \ {n}
      BY <2>1, <2>3, <3>1, UnionAfterFill DEF FillGapBlock
    <3> QED BY <3>2 DEF Missing!Arrive, Union
  <2>4. CASE UNCHANGED gaps
    BY <2>4
  <2> QED BY <1>2, <2>2, <2>3, <2>4 DEF TrackerNext, Missing!Next
<1> QED BY <1>1, <1>2, GapInvAlways, PTL DEF TrackerSpec, TracksMissingBlocks, Missing!Spec

-----------------------------------------------------------------------------
(* The persistence plugin *)

\* The inductive invariant.  ContiguousStored alone is not inductive: the walk
\* of write_block trusts the gap index, so the index has to cover every hole up
\* to latest (MissingIsTracked), its lookup has to be exact (GapsSeparated),
\* and the watermarks have to be ordered.
Inv ==
  /\ TypeOK
  /\ GapsSeparated
  /\ ContiguousStored
  /\ MissingIsTracked
  /\ LatestIsGreatest
  /\ OnlyFrontSkipped
  /\ Seed <= highest
  /\ latest # NoBlock => Seed < latest

LEMMA SeedNat == Seed \in Nat
BY ConstantsAssumption DEF Seed

LEMMA InvInit == Init => Inv
<1>1. ASSUME Init PROVE Inv
  <2>1. TypeOK
    BY <1>1, SeedNat DEF Init, TypeOK, NoBlock
  <2>2. GapsSeparated
    BY <1>1 DEF Init, GapsSeparated, Separated
  <2>3. ContiguousStored /\ MissingIsTracked
    BY <1>1, SeedNat DEF Init, ContiguousStored, MissingIsTracked, NoBlock
  <2>4. LatestIsGreatest /\ OnlyFrontSkipped
    BY <1>1, SeedNat DEF Init, LatestIsGreatest, OnlyFrontSkipped, LatestOrSeed
  <2> QED BY <1>1, <2>1, <2>2, <2>3, <2>4, SeedNat DEF Inv, Init
<1> QED BY <1>1

\* write_block changes the gap index and the contiguous watermark so that the
\* blocks the watermark passes were stored before or are the new block, and
\* every other hole stays in the index.
LEMMA BookkeepResult ==
  ASSUME Inv, NEW b \in Nat, NEW newLatest \in Nat, newLatest = NewLatest(b),
         gaps' = NewGaps(b),
         \E n \in highest .. newLatest : NewHighest(b, n) /\ highest' = n
  PROVE  /\ gaps' \in SUBSET GapEntry
         /\ Separated(gaps')
         /\ highest' \in Nat /\ highest <= highest' /\ highest' <= newLatest
         /\ \A n \in highest + 1 .. highest' : n \in Stored \cup {b}
         /\ \A n \in Nat : highest' < n /\ n <= newLatest =>
              n \in Stored \cup {b} \/ MissingIn(gaps', n)
<1>0. /\ gaps \in SUBSET GapEntry /\ Separated(gaps) /\ highest \in Nat
      /\ latest \in Nat \cup {NoBlock} /\ Seed \in Nat /\ Seed <= highest
      /\ LatestOrSeed \in Nat /\ highest <= LatestOrSeed
      /\ newLatest = (IF b > LatestOrSeed THEN b ELSE LatestOrSeed)
  BY SeedNat DEF Inv, TypeOK, GapsSeparated, LatestIsGreatest, LatestOrSeed, NoBlock,
                 NewLatest
<1>1. \A n \in Nat : n > highest /\ n <= LatestOrSeed => n \in Stored \/ MissingIn(gaps, n)
  <2>1. CASE latest = NoBlock
    BY <1>0, <2>1 DEF LatestOrSeed
  <2>2. CASE latest # NoBlock
    BY <1>0, <2>2 DEF LatestOrSeed, Inv, MissingIsTracked, NoBlock
  <2> QED BY <2>1, <2>2
<1>2. \A n \in Nat : find_containing_gap(gaps, n) # {} <=> MissingIn(gaps, n)
  BY <1>0, FindIsComplete
<1>3. CASE /\ b > highest + 1
           /\ gaps' = ApplyBatch(gaps, add_gap_range(gaps, highest + 1, b - 1))
           /\ highest' = highest
  <2>1. /\ gaps' \in SUBSET GapEntry /\ Separated(gaps')
        /\ \A n \in Nat : MissingIn(gaps', n)
                            <=> MissingIn(gaps, n) \/ (highest + 1 <= n /\ n <= b - 1)
    <3>1. highest + 1 \in Nat /\ b - 1 \in Int
      BY <1>0
    <3> QED BY <1>0, <1>3, <3>1, AddGapIsExact
  <2>2. ASSUME NEW n \in highest + 1 .. newLatest
        PROVE  n \in Stored \cup {b} \/ MissingIn(gaps', n)
    <3>1. n \in Nat /\ n > highest /\ n <= newLatest
      BY <1>0
    <3>2. CASE n <= LatestOrSeed
      BY <1>1, <2>1, <3>1, <3>2
    <3>3. CASE n > LatestOrSeed
      <4>1. n <= b
        BY <1>0, <3>1, <3>3
      <4> QED BY <1>0, <2>1, <3>1, <4>1
    <3> QED BY <1>0, <3>1, <3>2, <3>3
  <2> QED BY <1>0, <1>3, <2>1, <2>2
<1>4. CASE /\ b = highest + 1
           /\ gaps' = gaps
           /\ highest' \in highest .. newLatest
           /\ WalksTo(gaps, b, newLatest, highest')
  <2>1. /\ highest' \in b .. newLatest
        /\ \A m \in b + 1 .. highest' : m <= newLatest /\ find_containing_gap(gaps, m) = {}
    BY <1>0, <1>4 DEF WalksTo
  <2>2. ASSUME NEW n \in highest + 1 .. newLatest
        PROVE  n \in Stored \cup {b} \/ MissingIn(gaps, n)
    <3>1. n \in Nat /\ n > highest /\ n <= newLatest
      BY <1>0
    <3>2. CASE n <= LatestOrSeed
      BY <1>1, <3>1, <3>2
    <3>3. CASE n > LatestOrSeed
      BY <1>0, <1>4, <3>1, <3>3
    <3> QED BY <1>0, <3>1, <3>2, <3>3
  <2>3. ASSUME NEW n \in highest + 1 .. highest'
        PROVE  n \in Stored \cup {b}
    <3>1. CASE n = b
      BY <3>1
    <3>2. CASE n # b
      <4>1. n \in Nat /\ n \in b + 1 .. highest' /\ n \in highest + 1 .. newLatest
        BY <1>0, <1>4, <2>1, <3>2
      <4> QED BY <1>2, <2>1, <2>2, <4>1
    <3> QED BY <3>1, <3>2
  <2>4. highest' \in Nat /\ highest <= highest' /\ highest' <= newLatest
    BY <1>0, <1>4, <2>1
  <2>5. \A n \in Nat : highest' < n /\ n <= newLatest => n \in highest + 1 .. newLatest
    BY <1>0, <2>4
  <2> QED BY <1>0, <1>4, <2>2, <2>3, <2>4, <2>5
<1>5. CASE /\ b <= highest
           /\ gaps' = ApplyBatch(gaps, fill_gap_block(gaps, b))
           /\ highest' \in highest .. newLatest
           /\ WalksTo(gaps, highest, newLatest, highest')
  <2>1. /\ highest' \in highest .. newLatest
        /\ \A m \in highest + 1 .. highest' :
             m <= newLatest /\ find_containing_gap(gaps, m) = {}
    BY <1>5 DEF WalksTo
  <2>2. highest' \in Nat /\ highest <= highest' /\ highest' <= newLatest
        /\ newLatest = LatestOrSeed
    BY <1>0, <1>5, <2>1
  <2>3. /\ gaps' \in SUBSET GapEntry /\ Separated(gaps')
        /\ \A n \in Nat : MissingIn(gaps', n) <=> MissingIn(gaps, n) /\ n # b
    BY <1>0, <1>5, FillGapIsExact
  <2>4. ASSUME NEW n \in highest + 1 .. newLatest
        PROVE  n \in Nat /\ n # b /\ (n \in Stored \/ MissingIn(gaps, n))
    BY <1>0, <1>1, <1>5, <2>2
  <2>5. ASSUME NEW n \in highest + 1 .. highest' PROVE n \in Stored
    <3>1. n \in highest + 1 .. newLatest
      BY <1>0, <2>2
    <3> QED BY <1>2, <2>1, <2>4, <3>1
  <2>6. ASSUME NEW n \in Nat, highest' < n, n <= newLatest
        PROVE  n \in Stored \/ MissingIn(gaps', n)
    <3>1. n \in highest + 1 .. newLatest
      BY <1>0, <2>2, <2>6
    <3> QED BY <2>3, <2>4, <3>1
  <2> QED BY <2>2, <2>3, <2>5, <2>6
<1>6. PICK n \in highest .. newLatest : NewHighest(b, n) /\ highest' = n
  OBVIOUS
<1>7. b > highest + 1 \/ b = highest + 1 \/ b <= highest
  BY <1>0
<1>8. CASE b > highest + 1
  <2>1. highest' = highest /\ gaps' = ApplyBatch(gaps, add_gap_range(gaps, highest + 1, b - 1))
    BY <1>0, <1>6, <1>8 DEF NewHighest, NewGaps
  <2> QED BY <1>3, <1>8, <2>1
<1>9. CASE b = highest + 1
  <2>1. gaps' = gaps /\ WalksTo(gaps, b, newLatest, highest')
    BY <1>0, <1>6, <1>9 DEF NewHighest, NewGaps
  <2> QED BY <1>4, <1>6, <1>9, <2>1
<1>10. CASE b <= highest
  <2>1. /\ gaps' = ApplyBatch(gaps, fill_gap_block(gaps, b))
        /\ WalksTo(gaps, highest, newLatest, highest')
    BY <1>0, <1>6, <1>10 DEF NewHighest, NewGaps
  <2> QED BY <1>5, <1>6, <1>10, <2>1
<1> QED BY <1>7, <1>8, <1>9, <1>10

\* The commit of a write keeps the invariant, adds its block and moves no
\* watermark back.
LEMMA CommitPreserves ==
  ASSUME Inv, NEW b \in Nat, commit_batch(b), trigger' \in BOOLEAN
  PROVE  /\ Inv'
         /\ Stored' = Stored \cup {b}
         /\ highest <= highest' /\ latest <= latest' /\ earliestHot <= earliestHot'
<1> DEFINE newLatest == NewLatest(b)
<1>0. /\ b \in Nat /\ Seed \in Nat /\ Seed <= highest /\ highest \in Nat
      /\ latest \in Nat \cup {-1} /\ earliestHot \in Nat \cup {-1}
      /\ trueEarliest \in Nat \cup {-1}
      /\ LatestOrSeed \in Nat /\ latest <= LatestOrSeed /\ Seed <= LatestOrSeed
      /\ latest # -1 => Seed < latest
  BY SeedNat, ConstantsAssumption DEF Inv, TypeOK, LatestOrSeed, NoBlock
<1>1. newLatest \in Nat /\ LatestOrSeed <= newLatest /\ b <= newLatest
  BY <1>0 DEF NewLatest
<1>2. /\ gaps' = NewGaps(b)
      /\ \E n \in highest .. newLatest : NewHighest(b, n) /\ highest' = n
  BY DEF commit_batch
<1>3. /\ gaps' \in SUBSET GapEntry
      /\ Separated(gaps')
      /\ highest' \in Nat /\ highest <= highest' /\ highest' <= newLatest
      /\ \A n \in highest + 1 .. highest' : n \in Stored \cup {b}
      /\ \A n \in Nat : highest' < n /\ n <= newLatest =>
           n \in Stored \cup {b} \/ MissingIn(gaps', n)
  BY <1>0, <1>1, <1>2, BookkeepResult
<1>4. Stored' = Stored \cup {b}
  BY DEF commit_batch, Stored
<1>5. latest' \in Nat \cup {-1} /\ LatestOrSeed' = newLatest /\ latest <= latest'
  <2>1. latest' = IF b > LatestOrSeed THEN b ELSE latest
    BY <1>0 DEF commit_batch, LatestAfter, NewLatest
  <2>2. latest' \in Nat \cup {-1} /\ latest <= latest'
    BY <1>0, <2>1
  <2>3. CASE b > LatestOrSeed
    BY <1>0, <2>1, <2>3 DEF NewLatest, LatestOrSeed, NoBlock
  <2>4. CASE ~(b > LatestOrSeed)
    BY <1>0, <2>1, <2>4 DEF NewLatest, LatestOrSeed, NoBlock, Seed
  <2> QED BY <2>2, <2>3, <2>4
<1>6. earliestHot' \in Nat \cup {-1} /\ earliestHot <= earliestHot'
  BY <1>0 DEF commit_batch, NoBlock
<1>7. TypeOK'
  <2>1. trueEarliest' \in Nat \cup {NoBlock}
    BY <1>0 DEF commit_batch, NoBlock
  <2>2. hot' \subseteq Nat /\ cold' \subseteq Nat /\ skipped' \subseteq Nat
    BY <1>0 DEF commit_batch, Inv, TypeOK
  <2>3. trigger' \in BOOLEAN /\ cycling' \in BOOLEAN
    BY DEF commit_batch, Inv, TypeOK
  <2> QED BY <1>3, <1>5, <1>6, <2>1, <2>2, <2>3 DEF TypeOK, NoBlock
<1>8. ContiguousStored'
  <2>1. SUFFICES ASSUME NEW n \in Nat, Seed < n, n <= highest'
                 PROVE  n \in Stored'
    BY <1>0, <1>3 DEF ContiguousStored, Seed
  <2>2. CASE n <= highest
    <3>1. n \in Seed + 1 .. highest
      BY <1>0, <2>1, <2>2
    <3> QED BY <1>4, <3>1 DEF Inv, ContiguousStored
  <2>3. CASE n > highest
    <3>1. n \in highest + 1 .. highest'
      BY <1>0, <1>3, <2>1, <2>3
    <3> QED BY <1>3, <1>4, <3>1
  <2> QED BY <1>0, <2>1, <2>2, <2>3
<1>9. MissingIsTracked'
  <2>1. SUFFICES ASSUME NEW n \in Nat, n <= latest', n > highest'
                 PROVE  n \in Stored' \/ MissingIn(gaps', n)
    BY <1>0, <1>3, <1>5 DEF MissingIsTracked, Seed
  <2>2. highest' < n /\ n <= newLatest
    BY <1>0, <1>3, <1>5, <2>1 DEF LatestOrSeed, NoBlock
  <2> QED BY <1>3, <1>4, <2>2
<1>10. LatestIsGreatest'
  <2>1. \A n \in hot' : n <= LatestOrSeed'
    <3>1. \A n \in hot : n \in Nat /\ n <= LatestOrSeed
      BY DEF Inv, TypeOK, LatestIsGreatest
    <3>2. \A n \in hot' : n \in hot \/ n = b
      BY DEF commit_batch
    <3> HIDE DEF newLatest
    <3> QED BY <1>0, <1>1, <1>5, <3>1, <3>2
  <2>2. latest' # NoBlock => latest' \in Stored'
    <3>1. latest' = latest \/ latest' = b
      BY <1>0 DEF commit_batch, LatestAfter, NewLatest
    <3> QED BY <1>4, <3>1 DEF Inv, LatestIsGreatest
  <2> QED BY <1>3, <1>5, <2>1, <2>2 DEF LatestIsGreatest
<1>11. OnlyFrontSkipped'
  <2>1. skipped' = skipped /\ skipped \subseteq Nat /\ skipped \subseteq {earliestHot}
    BY DEF commit_batch, Inv, TypeOK, OnlyFrontSkipped
  <2>2. earliestHot' = earliestHot \/ earliestHot = -1
    BY DEF commit_batch, NoBlock
  <2> QED BY <2>1, <2>2 DEF OnlyFrontSkipped
<1>12. Seed' = Seed /\ Seed <= highest' /\ (latest' # -1 => Seed < latest')
  <2>1. Seed' = Seed /\ Seed <= highest'
    BY <1>0, <1>3 DEF Seed
  <2>2. latest' # -1 => Seed < latest'
    BY <1>0 DEF commit_batch, LatestAfter, NewLatest, NoBlock
  <2> QED BY <2>1, <2>2
<1>13. Inv'
  BY <1>3, <1>7, <1>8, <1>9, <1>10, <1>11, <1>12 DEF Inv, GapsSeparated, NoBlock
<1> QED BY <1>3, <1>4, <1>5, <1>6, <1>13

\* A write keeps the invariant, adds its block and moves no watermark back.
LEMMA WriteBlockPreserves ==
  ASSUME Inv, NEW b \in Nat, write_block(b)
  PROVE  /\ Inv'
         /\ Stored' = Stored \cup {b}
         /\ highest <= highest' /\ latest <= latest' /\ earliestHot <= earliestHot'
<1>1. commit_batch(b)
  BY DEF write_block
<1>2. trigger' \in BOOLEAN
  BY DEF write_block, Inv, TypeOK
<1> QED BY <1>1, <1>2, CommitPreserves

\* A historical batch only adds its range.
LEMMA WriteBatchPreserves ==
  ASSUME Inv, NEW r \in Batches, write_block_batch(r[1], r[2])
  PROVE  Inv' /\ Stored' = Stored \cup r[1] .. r[2]
<1>0. r[1] \in Nat /\ r[2] \in Nat
  BY BlocksAssumption, ConstantsAssumption
<1>1. /\ cold' = cold \cup r[1] .. r[2]
      /\ trueEarliest' \in {r[1], trueEarliest}
      /\ UNCHANGED <<hot, latest, earliestHot, highest, gaps, skipped, trigger, cycling>>
  BY DEF write_block_batch
<1>2. Stored' = Stored \cup r[1] .. r[2]
  BY <1>1 DEF Stored
<1>3. TypeOK'
  <2>1. r[1] .. r[2] \subseteq Nat
    BY <1>0
  <2>2. cold' \subseteq Nat
    BY <1>1, <2>1 DEF Inv, TypeOK
  <2> QED BY <1>0, <1>1, <2>2 DEF Inv, TypeOK
<1>4. ContiguousStored' /\ MissingIsTracked' /\ LatestIsGreatest'
  BY <1>1, <1>2 DEF Inv, ContiguousStored, MissingIsTracked, LatestIsGreatest,
                    LatestOrSeed, Seed
<1>5. GapsSeparated' /\ OnlyFrontSkipped'
  BY <1>1 DEF Inv, GapsSeparated, OnlyFrontSkipped
<1>6. Seed' <= highest' /\ (latest' # NoBlock => Seed' < latest')
  BY <1>1 DEF Inv, Seed
<1> QED BY <1>2, <1>3, <1>4, <1>5, <1>6 DEF Inv, NoBlock

\* The archiver moves a whole batch or marks one; it changes neither the set of
\* stored blocks nor what the writers maintain.
LEMMA ArchiverPreserves ==
  ASSUME Inv, Archiver
  PROVE  /\ Inv' /\ Stored' = Stored
         /\ UNCHANGED <<highest, latest>> /\ earliestHot <= earliestHot'
<1>0. /\ BatchSize \in Nat \ {0} /\ earliestHot \in Nat \cup {-1}
  BY BlocksAssumption, ConstantsAssumption DEF Inv, TypeOK, NoBlock
<1>1. UNCHANGED <<latest, highest, gaps, trueEarliest>>
  BY DEF Archiver, WakeArchiver, CycleDone, ArchiveBatch, MoveBatch, SkipBatch, CycleFails, dbVars
<1>2. /\ Stored' = Stored /\ hot' \subseteq hot /\ OnlyFrontSkipped'
      /\ hot' \subseteq Nat /\ cold' \subseteq Nat /\ skipped' \subseteq Nat
      /\ earliestHot' \in Nat \cup {-1} /\ earliestHot <= earliestHot'
  <2>1. CASE ArchiveBatch
    <3>1. earliestHot \in Nat /\ Window(earliestHot) \subseteq hot
      BY <1>0, <2>1 DEF ArchiveBatch, CanArchive, NoBlock
    <3>2. Stored' = Stored /\ hot' \subseteq hot /\ hot \subseteq Nat /\ cold' \subseteq Nat
      BY <2>1, <3>1 DEF ArchiveBatch, MoveBatch, Stored, Inv, TypeOK
    <3>3. earliestHot' \in Nat /\ earliestHot <= earliestHot'
      BY <1>0, <2>1, <3>1 DEF ArchiveBatch, MoveBatch
    <3>4. skipped' = {}
      BY <2>1 DEF ArchiveBatch, MoveBatch, Inv, OnlyFrontSkipped
    <3> QED BY <3>2, <3>3, <3>4 DEF OnlyFrontSkipped
  <2>2. CASE SkipBatch
    <3>1. earliestHot \in Nat /\ UNCHANGED <<hot, cold, earliestHot>>
          /\ skipped' = skipped \cup {earliestHot}
      BY <1>0, <2>2 DEF SkipBatch, CanArchive, NoBlock
    <3> QED BY <1>0, <3>1 DEF Inv, TypeOK, OnlyFrontSkipped, Stored
  <2>3. CASE WakeArchiver \/ CycleDone \/ CycleFails
    <3>1. UNCHANGED <<hot, cold, earliestHot, skipped>>
      BY <2>3 DEF WakeArchiver, CycleDone, CycleFails, dbVars
    <3> QED BY <1>0, <3>1 DEF Inv, TypeOK, OnlyFrontSkipped, Stored
  <2> QED BY <2>1, <2>2, <2>3 DEF Archiver
<1>3. trigger' \in BOOLEAN /\ cycling' \in BOOLEAN
  BY DEF Archiver, WakeArchiver, CycleDone, ArchiveBatch, MoveBatch, SkipBatch, CycleFails,
         Inv, TypeOK
<1>4. TypeOK'
  BY <1>1, <1>2, <1>3 DEF Inv, TypeOK, NoBlock
<1>5. ContiguousStored' /\ MissingIsTracked' /\ LatestIsGreatest' /\ GapsSeparated'
  BY <1>1, <1>2 DEF Inv, ContiguousStored, MissingIsTracked, LatestIsGreatest,
                    LatestOrSeed, Seed, GapsSeparated
<1>6. Seed' <= highest' /\ (latest' # NoBlock => Seed' < latest')
  BY <1>1 DEF Inv, Seed
<1> QED BY <1>1, <1>2, <1>4, <1>5, <1>6 DEF Inv, NoBlock

LEMMA StutterPreserves ==
  ASSUME Inv, UNCHANGED vars
  PROVE  Inv'
BY DEF Inv, vars, dbVars, TypeOK, GapsSeparated, ContiguousStored, MissingIsTracked,
       LatestIsGreatest, OnlyFrontSkipped, Stored, LatestOrSeed, Seed

LEMMA InvAlways == Spec => []Inv
<1>1. Inv /\ [Next]_vars => Inv'
  BY WriteBlockPreserves, WriteBatchPreserves, ArchiverPreserves, StutterPreserves,
     BlocksAssumption DEF Next
<1> QED BY <1>1, InvInit, PTL DEF Spec

\* Type correctness of the database of the persistence plugin.
THEOREM TypeCorrect == Spec => []TypeOK
<1>1. Inv => TypeOK
  BY DEF Inv
<1> QED BY <1>1, InvAlways, PTL

\* The contiguous watermark that write_block advances without looking at the
\* blocks it passes only ever passes stored blocks.
THEOREM ContiguousAlwaysStored == Spec => []ContiguousStored
<1>1. Inv => ContiguousStored
  BY DEF Inv
<1> QED BY <1>1, InvAlways, PTL

\* A block below latest_persisted that is in no gap entry exists, which is the
\* assumption write_block's walk is built on.
THEOREM HolesAlwaysTracked == Spec => []MissingIsTracked
<1>1. Inv => MissingIsTracked
  BY DEF Inv
<1> QED BY <1>1, InvAlways, PTL

\* Neither a write nor the archiver loses a block or moves a watermark back.
THEOREM NothingEverLost == Spec => NothingLost
<1>1. ASSUME Inv, [Next]_vars
      PROVE  [/\ Stored \subseteq Stored'
              /\ latest <= latest' /\ highest <= highest'
              /\ earliestHot <= earliestHot']_vars
  <2>0. latest \in Int /\ highest \in Int /\ earliestHot \in Int
    BY <1>1 DEF Inv, TypeOK, NoBlock
  <2>1. ASSUME NEW b \in Blocks, write_block(b)
        PROVE  /\ Stored \subseteq Stored'
               /\ latest <= latest' /\ highest <= highest' /\ earliestHot <= earliestHot'
    BY <1>1, <2>1, BlocksAssumption, WriteBlockPreserves
  <2>2. ASSUME NEW r \in Batches, write_block_batch(r[1], r[2])
        PROVE  /\ Stored \subseteq Stored'
               /\ latest <= latest' /\ highest <= highest' /\ earliestHot <= earliestHot'
    <3>1. Stored' = Stored \cup r[1] .. r[2]
      BY <1>1, <2>2, WriteBatchPreserves
    <3>2. UNCHANGED <<latest, highest, earliestHot>>
      BY <2>2 DEF write_block_batch
    <3> QED BY <2>0, <3>1, <3>2
  <2>3. CASE Archiver
    BY <1>1, <2>0, <2>3, ArchiverPreserves
  <2> QED BY <1>1, <2>1, <2>2, <2>3 DEF Next
<1> QED BY <1>1, InvAlways, PTL DEF Spec, NothingLost

\* latest_persisted is the greatest block written one at a time and can be read
\* back, with writes, batches and the archiver in any order (write_block).
THEOREM LatestAlwaysGreatest == Spec => []LatestIsGreatest
<1>1. Inv => LatestIsGreatest
  BY DEF Inv
<1> QED BY <1>1, InvAlways, PTL

\* Tiers, gap index and archiver are invisible to clients: the plugin is a set
\* of stored blocks with a sound contiguous watermark.
THEOREM RefinesBlockStore == Spec => ImplementsBlockStore
<1>1. Init => Store!Init
  BY DEF Init, Store!Init, Stored
<1>2. ASSUME Inv, [Next]_vars
      PROVE  [Store!Next]_(Store!vars)
  <2>1. ASSUME NEW b \in Blocks, write_block(b)
        PROVE  Store!Store(b)
    <3>1. Inv' /\ Stored' = Stored \cup {b} /\ highest <= highest'
      BY <1>2, <2>1, BlocksAssumption, WriteBlockPreserves
    <3>2. highest \in Int /\ highest' \in Int
      BY <1>2, <3>1 DEF Inv, TypeOK
    <3>3. \A n \in Seed + 1 .. highest' : n \in Stored'
      BY <3>1 DEF Inv, ContiguousStored, Seed
    <3> QED BY <3>1, <3>2, <3>3 DEF Store!Store, Store!Vouched
  <2>2. ASSUME NEW r \in Batches, write_block_batch(r[1], r[2])
        PROVE  Store!StoreRange(r[1], r[2])
    BY <1>2, <2>2, WriteBatchPreserves DEF Store!StoreRange, write_block_batch
  <2>3. CASE Archiver
    BY <1>2, <2>3, ArchiverPreserves DEF Store!vars
  <2>4. CASE UNCHANGED vars
    BY <2>4 DEF vars, dbVars, Store!vars, Stored
  <2> QED BY <1>2, <2>1, <2>2, <2>3, <2>4 DEF Next, Store!Next
<1> QED BY <1>1, <1>2, InvAlways, PTL DEF Spec, ImplementsBlockStore, Store!Spec

-----------------------------------------------------------------------------
(* write_block taken apart *)

LocalsShape(l) ==
  l = [pc |-> l.pc, b |-> l.b, wasGapFill |-> l.wasGapFill, latest |-> l.latest,
       setEarliest |-> l.setEarliest, highest |-> l.highest, gapBatch |-> l.gapBatch,
       s |-> l.s, e |-> l.e, setHot |-> l.setHot]

\* Where the walk for block b starts.
WalkFrom(b) == IF b = highest + 1 THEN b ELSE highest

\* The walk for block b has come to h.
Walked(b, h) ==
  /\ b <= highest + 1
  /\ h \in WalkFrom(b) .. NewLatest(b)
  /\ \A m \in WalkFrom(b) + 1 .. h : find_containing_gap(gaps, m) = {}

\* Every answer the call has kept in its locals is still the database's, and
\* what it has queued is what the whole of write_block would commit now.
ReadsCurrent(l) ==
  /\ l.b \in Blocks
  /\ l.pc # "latest" => l.latest = LatestOrSeed
  /\ l.pc \notin {"latest", "earliest"} => (l.setEarliest <=> trueEarliest = NoBlock)
  /\ l.pc \in {"latest", "earliest", "highest"} => l.gapBatch = NoGapChange
  /\ l.pc \in {"left", "sweep"} => l.b > highest + 1 /\ l.highest = highest
  /\ l.pc = "sweep" => MergeBatch(gaps, l.s, l.e) = add_gap_range(gaps, highest + 1, l.b - 1)
  /\ l.pc = "fill" => l.b <= highest /\ l.highest = highest
  /\ l.pc = "walk" => Walked(l.b, l.highest)
  /\ l.pc \in {"walk", "front", "commit"} => ApplyBatch(gaps, l.gapBatch) = NewGaps(l.b)
  /\ l.pc \in {"front", "commit"} =>
       l.highest \in highest .. NewLatest(l.b) /\ NewHighest(l.b, l.highest)
  /\ l.pc = "commit" => (l.setHot <=> earliestHot = NoBlock)

\* The invariant of the calls, as long as they exclude each other.
RaceInv ==
  /\ Inv
  /\ loc = [w \in Writers |-> loc[w]]
  /\ \A w \in Writers : LocalsShape(loc[w]) /\ (Inside(w) => ReadsCurrent(loc[w]))

\* The steps from the first read up to the commit.
ReadStep(w) == (\E b \in Blocks : Begin(w, b)) \/ Read(w)

\* A lookup whose iterator does not fail sees what is there.
LEMMA NoIterFails ==
  ASSUME ~ IterFails PROVE (\A g : Seen(g) = {g}) /\ Swept = {gaps}
BY DEF Seen, Swept

LEMMA IdleShape == LocalsShape(Idle) /\ Idle.pc = "idle" /\ Idle.gapBatch = NoGapChange
BY DEF LocalsShape, Idle

\* Answers stay current while nobody commits: the archiver moves blocks and the
\* first hot block, but does not set or clear the keys write_block branches on.
LEMMA Carried ==
  ASSUME NEW w \in Writers, ReadsCurrent(loc'[w]),
         UNCHANGED <<latest, trueEarliest, highest, gaps>>,
         earliestHot' = NoBlock <=> earliestHot = NoBlock
  PROVE  ReadsCurrent(loc[w])'
<1>1. LatestOrSeed' = LatestOrSeed
  BY DEF LatestOrSeed
<1>2. NewLatest(loc[w].b)' = NewLatest(loc'[w].b)
  BY <1>1 DEF NewLatest
<1>3. NewGaps(loc[w].b)' = NewGaps(loc'[w].b)
  BY DEF NewGaps
<1>4. NewHighest(loc[w].b, loc[w].highest)' <=> NewHighest(loc'[w].b, loc'[w].highest)
  BY <1>2 DEF NewHighest
<1>5. Walked(loc[w].b, loc[w].highest)' <=> Walked(loc'[w].b, loc'[w].highest)
  BY <1>2 DEF Walked, WalkFrom
<1> QED BY <1>1, <1>2, <1>3, <1>4, <1>5 DEF ReadsCurrent

LEMMA NoGapChangeApplied == ASSUME NEW g PROVE ApplyBatch(g, NoGapChange) = g
BY DEF ApplyBatch, NoGapChange

LEMMA StoreNumbers ==
  ASSUME Inv, NEW b \in Blocks
  PROVE  /\ b \in Nat /\ highest \in Nat /\ LatestOrSeed \in Nat /\ NewLatest(b) \in Nat
         /\ highest <= LatestOrSeed /\ LatestOrSeed <= NewLatest(b) /\ b <= NewLatest(b)
<1>1. b \in Nat /\ highest \in Nat /\ LatestOrSeed \in Nat /\ highest <= LatestOrSeed
  BY BlocksAssumption, SeedNat DEF Inv, TypeOK, LatestIsGreatest, LatestOrSeed
<1> QED BY <1>1 DEF NewLatest

LEMMA BeginRead ==
  ASSUME RaceInv, ~ IterFails, NEW w \in Writers, NEW b \in Blocks, Begin(w, b)
  PROVE  LocalsShape(loc'[w]) /\ ReadsCurrent(loc'[w])
<1> DEFINE f == find_containing_gap(gaps, b) # {}
<1>1. loc'[w] = [Idle EXCEPT !.pc = "latest", !.b = b, !.wasGapFill = f]
  <2>1. PICK found \in Seen(find_containing_gap(gaps, b)) :
          loc' = [loc EXCEPT ![w] = [Idle EXCEPT !.pc = "latest", !.b = b,
                                                 !.wasGapFill = found # {}]]
    BY DEF Begin, Goto
  <2>2. found = find_containing_gap(gaps, b)
    BY NoIterFails
  <2>3. loc = [v \in Writers |-> loc[v]]
    BY DEF RaceInv
  <2> QED BY <2>1, <2>2, <2>3
<1> HIDE DEF f
<1>2. /\ LocalsShape(loc'[w]) /\ loc'[w].pc = "latest" /\ loc'[w].b = b
      /\ loc'[w].gapBatch = NoGapChange
  BY <1>1, IdleShape DEF LocalsShape
<1> QED BY <1>2 DEF ReadsCurrent

LEMMA FirstReads ==
  ASSUME RaceInv, NEW w \in Writers, ReadLatest(w) \/ ReadTrueEarliest(w)
  PROVE  LocalsShape(loc'[w]) /\ ReadsCurrent(loc'[w])
<1> DEFINE l == loc[w]
<1>0. /\ l = loc[w] /\ LocalsShape(l) /\ loc = [v \in Writers |-> loc[v]]
      /\ Inside(w) => ReadsCurrent(l)
  BY DEF RaceInv
<1>1. CASE ReadLatest(w)
  <2>1. l.pc = "latest" /\ loc'[w] = [l EXCEPT !.pc = "earliest", !.latest = LatestOrSeed]
    BY <1>0, <1>1 DEF ReadLatest, At, Goto
  <2> HIDE DEF l
  <2>2. /\ LocalsShape(loc'[w]) /\ loc'[w].pc = "earliest" /\ loc'[w].latest = LatestOrSeed
        /\ loc'[w].b = l.b /\ loc'[w].gapBatch = l.gapBatch
    BY <1>0, <2>1 DEF LocalsShape
  <2>3. l.b \in Blocks /\ l.gapBatch = NoGapChange
    BY <1>0, <2>1 DEF Inside, ReadsCurrent
  <2> QED BY <2>2, <2>3 DEF ReadsCurrent
<1>2. CASE ReadTrueEarliest(w)
  <2>1. /\ l.pc = "earliest"
        /\ loc'[w] = [l EXCEPT !.pc = "highest", !.setEarliest = trueEarliest = NoBlock]
    BY <1>0, <1>2 DEF ReadTrueEarliest, At, Goto
  <2> HIDE DEF l
  <2>2. /\ LocalsShape(loc'[w]) /\ loc'[w].pc = "highest" /\ loc'[w].latest = l.latest
        /\ loc'[w].setEarliest = (trueEarliest = NoBlock)
        /\ loc'[w].b = l.b /\ loc'[w].gapBatch = l.gapBatch
    BY <1>0, <2>1 DEF LocalsShape
  <2>3. l.b \in Blocks /\ l.gapBatch = NoGapChange /\ l.latest = LatestOrSeed
    BY <1>0, <2>1 DEF Inside, ReadsCurrent
  <2> QED BY <2>2, <2>3 DEF ReadsCurrent
<1> QED BY <1>1, <1>2

LEMMA BranchRead ==
  ASSUME RaceInv, NEW w \in Writers, ReadHighest(w)
  PROVE  LocalsShape(loc'[w]) /\ ReadsCurrent(loc'[w])
<1> DEFINE l == loc[w]
<1>0. /\ l = loc[w] /\ LocalsShape(l) /\ loc = [v \in Writers |-> loc[v]]
      /\ Inside(w) => ReadsCurrent(l)
  BY DEF RaceInv
<1>1. l.pc = "highest"
  BY DEF ReadHighest, At
<1>2. \/ l.b > highest + 1 /\ loc'[w] = [l EXCEPT !.pc = "left", !.highest = highest]
      \/ l.b = highest + 1 /\ loc'[w] = [l EXCEPT !.pc = "walk", !.highest = l.b]
      \/ l.b <= highest /\ loc'[w] = [l EXCEPT !.pc = "fill", !.highest = highest]
  BY <1>0 DEF ReadHighest, Goto
<1> HIDE DEF l
<1>3. /\ l.b \in Blocks /\ l.gapBatch = NoGapChange /\ l.latest = LatestOrSeed
      /\ l.setEarliest <=> trueEarliest = NoBlock
  BY <1>0, <1>1 DEF Inside, ReadsCurrent
<1>4. /\ LocalsShape(loc'[w]) /\ loc'[w].latest = l.latest /\ loc'[w].b = l.b
      /\ loc'[w].setEarliest = l.setEarliest /\ loc'[w].gapBatch = l.gapBatch
      /\ \/ l.b > highest + 1 /\ loc'[w].pc = "left" /\ loc'[w].highest = highest
         \/ l.b = highest + 1 /\ loc'[w].pc = "walk" /\ loc'[w].highest = l.b
         \/ l.b <= highest /\ loc'[w].pc = "fill" /\ loc'[w].highest = highest
  <2>1. CASE l.b > highest + 1 /\ loc'[w] = [l EXCEPT !.pc = "left", !.highest = highest]
    BY <1>0, <2>1 DEF LocalsShape
  <2>2. CASE l.b = highest + 1 /\ loc'[w] = [l EXCEPT !.pc = "walk", !.highest = l.b]
    BY <1>0, <2>2 DEF LocalsShape
  <2>3. CASE l.b <= highest /\ loc'[w] = [l EXCEPT !.pc = "fill", !.highest = highest]
    BY <1>0, <2>3 DEF LocalsShape
  <2> QED BY <1>2, <2>1, <2>2, <2>3
<1>5. /\ l.b \in Nat /\ highest \in Nat /\ NewLatest(l.b) \in Nat /\ l.b <= NewLatest(l.b)
  BY <1>3, StoreNumbers DEF RaceInv
<1>6. CASE loc'[w].pc = "left"
  BY <1>3, <1>4, <1>6 DEF ReadsCurrent
<1>7. CASE loc'[w].pc = "fill"
  BY <1>3, <1>4, <1>7 DEF ReadsCurrent
<1>8. CASE loc'[w].pc = "walk"
  <2>1. l.b = highest + 1 /\ loc'[w].highest = l.b
    BY <1>4, <1>8
  <2>2. NewGaps(l.b) = gaps /\ WalkFrom(l.b) = l.b
    BY <1>5, <2>1 DEF NewGaps, WalkFrom
  <2>3. Walked(l.b, l.b)
    <3>1. \A m \in l.b + 1 .. l.b : FALSE
      BY <1>5
    <3> QED BY <1>5, <2>1, <2>2, <3>1 DEF Walked
  <2>4. ApplyBatch(gaps, l.gapBatch) = NewGaps(l.b)
    BY <1>3, <2>2, NoGapChangeApplied
  <2> QED BY <1>3, <1>4, <1>8, <2>1, <2>3, <2>4 DEF ReadsCurrent
<1> QED BY <1>4, <1>6, <1>7, <1>8

LEMMA GapReads ==
  ASSUME RaceInv, ~ IterFails, NEW w \in Writers, ReadLeft(w) \/ Sweep(w) \/ Fill(w)
  PROVE  LocalsShape(loc'[w]) /\ ReadsCurrent(loc'[w])
<1> DEFINE l == loc[w]
<1>0. /\ l = loc[w] /\ LocalsShape(l) /\ loc = [v \in Writers |-> loc[v]]
      /\ Inside(w) => ReadsCurrent(l)
  BY DEF RaceInv
<1>1. CASE ReadLeft(w)
  <2> DEFINE G(x) == CHOOSE h \in x : TRUE
             S(x) == IF x = {} THEN l.highest + 1 ELSE G(x)[1]
             E(x) == IF x = {} \/ G(x)[2] <= l.b - 1 THEN l.b - 1 ELSE G(x)[2]
             left == LeftNeighbour(gaps, l.highest + 1)
             g == G(left)
             s == S(left)
             e == E(left)
  <2>1. l.pc = "left" /\ loc'[w] = [l EXCEPT !.pc = "sweep", !.s = s, !.e = e]
    <3>1. PICK x \in Seen(LeftNeighbour(gaps, l.highest + 1)) :
            loc' = [loc EXCEPT ![w] = [loc[w] EXCEPT !.pc = "sweep", !.s = S(x), !.e = E(x)]]
      BY <1>1 DEF ReadLeft, Goto
    <3>2. x = left
      BY NoIterFails
    <3>3. l.pc = "left"
      BY <1>1 DEF ReadLeft, At
    <3> HIDE DEF G, S, E
    <3> QED BY <1>0, <3>1, <3>2, <3>3
  <2> HIDE DEF l
  <2>2. /\ l.b \in Blocks /\ l.latest = LatestOrSeed
        /\ l.setEarliest <=> trueEarliest = NoBlock
        /\ l.b > highest + 1 /\ l.highest = highest
    BY <1>0, <2>1 DEF Inside, ReadsCurrent
  <2>3. highest \in Nat /\ l.b \in Nat
    BY <2>2, StoreNumbers DEF RaceInv
  <2>4. ASSUME left # {} PROVE g \in gaps /\ g[2] \in Nat
    <3>1. g \in left
      BY <2>4
    <3> QED BY <3>1 DEF LeftNeighbour, EntryAtOrBefore, RaceInv, Inv, TypeOK, GapEntry
  <2>5. MergeBatch(gaps, s, e) = add_gap_range(gaps, highest + 1, l.b - 1)
    <3>0. ~(l.b - 1 < highest + 1) /\ l.b - 1 \in Int
      BY <2>2, <2>3
    <3>1. CASE left = {}
      BY <2>2, <3>0, <3>1 DEF add_gap_range
    <3>2. CASE left # {}
      <4>1. s = g[1] /\ e = IF g[2] > l.b - 1 THEN g[2] ELSE l.b - 1
        BY <2>4, <3>0, <3>2
      <4> QED BY <2>2, <3>0, <3>2, <4>1 DEF add_gap_range
    <3> QED BY <3>1, <3>2
  <2> HIDE DEF s, e
  <2>6. /\ LocalsShape(loc'[w]) /\ loc'[w].latest = l.latest /\ loc'[w].b = l.b
        /\ loc'[w].setEarliest = l.setEarliest /\ loc'[w].highest = l.highest
        /\ loc'[w].pc = "sweep" /\ loc'[w].s = s /\ loc'[w].e = e
    BY <1>0, <2>1 DEF LocalsShape
  <2> QED BY <2>2, <2>5, <2>6 DEF ReadsCurrent
<1>2. CASE Sweep(w)
  <2> DEFINE m == MergeBatch(gaps, l.s, l.e)
  <2>1. l.pc = "sweep" /\ loc'[w] = [l EXCEPT !.pc = "front", !.gapBatch = m]
    BY <1>0, <1>2, NoIterFails DEF Sweep, At, Goto
  <2> HIDE DEF l
  <2>2. /\ l.b \in Blocks /\ l.latest = LatestOrSeed
        /\ l.setEarliest <=> trueEarliest = NoBlock
        /\ l.b > highest + 1 /\ l.highest = highest
        /\ m = add_gap_range(gaps, highest + 1, l.b - 1)
    BY <1>0, <2>1 DEF Inside, ReadsCurrent
  <2>3. ApplyBatch(gaps, m) = NewGaps(l.b)
    BY <2>2 DEF NewGaps
  <2>4. highest \in highest .. NewLatest(l.b) /\ NewHighest(l.b, highest)
    BY <2>2, StoreNumbers DEF NewHighest, RaceInv
  <2> HIDE DEF m
  <2>5. /\ LocalsShape(loc'[w]) /\ loc'[w].latest = l.latest /\ loc'[w].b = l.b
        /\ loc'[w].setEarliest = l.setEarliest /\ loc'[w].highest = l.highest
        /\ loc'[w].pc = "front" /\ loc'[w].gapBatch = m
    BY <1>0, <2>1 DEF LocalsShape
  <2> QED BY <2>2, <2>3, <2>4, <2>5 DEF ReadsCurrent
<1>3. CASE Fill(w)
  <2> DEFINE f == fill_gap_block(gaps, l.b)
  <2>1. l.pc = "fill" /\ loc'[w] = [l EXCEPT !.pc = "walk", !.gapBatch = f]
    <3>1. Seen(gaps) = {gaps}
      BY NoIterFails
    <3>2. /\ l.pc = "fill"
          /\ loc' = [loc EXCEPT ![w] = [loc[w] EXCEPT !.pc = "walk", !.gapBatch = f]]
      BY <1>3, <3>1 DEF Fill, At, Goto
    <3> QED BY <1>0, <3>2
  <2> HIDE DEF l
  <2>2. /\ l.b \in Blocks /\ l.latest = LatestOrSeed
        /\ l.setEarliest <=> trueEarliest = NoBlock
        /\ l.b <= highest /\ l.highest = highest
    BY <1>0, <2>1 DEF Inside, ReadsCurrent
  <2>3. /\ l.b \in Nat /\ highest \in Nat /\ NewLatest(l.b) \in Nat
        /\ highest <= NewLatest(l.b)
    BY <2>2, StoreNumbers DEF RaceInv
  <2>4. ApplyBatch(gaps, f) = NewGaps(l.b) /\ WalkFrom(l.b) = highest
    BY <2>2, <2>3 DEF NewGaps, WalkFrom
  <2>5. Walked(l.b, highest)
    <3>1. \A m \in highest + 1 .. highest : FALSE
      BY <2>3
    <3> QED BY <2>2, <2>3, <2>4, <3>1 DEF Walked
  <2> HIDE DEF f
  <2>6. /\ LocalsShape(loc'[w]) /\ loc'[w].latest = l.latest /\ loc'[w].b = l.b
        /\ loc'[w].setEarliest = l.setEarliest /\ loc'[w].highest = l.highest
        /\ loc'[w].pc = "walk" /\ loc'[w].gapBatch = f
    BY <1>0, <2>1 DEF LocalsShape
  <2> QED BY <2>2, <2>4, <2>5, <2>6 DEF ReadsCurrent
<1> QED BY <1>1, <1>2, <1>3

LEMMA LastReads ==
  ASSUME RaceInv, ~ IterFails, NEW w \in Writers, Walk(w) \/ ReadEarliestHot(w)
  PROVE  LocalsShape(loc'[w]) /\ ReadsCurrent(loc'[w])
<1> DEFINE l == loc[w]
<1>0. /\ l = loc[w] /\ LocalsShape(l) /\ loc = [v \in Writers |-> loc[v]]
      /\ Inside(w) => ReadsCurrent(l)
  BY DEF RaceInv
<1>1. CASE Walk(w)
  <2> DEFINE next == l.highest + 1
             bound == IF l.b > l.latest THEN l.b ELSE l.latest
             on == next <= bound /\ find_containing_gap(gaps, next) = {}
  <2>1. /\ l.pc = "walk"
        /\ loc'[w] = IF on THEN [l EXCEPT !.highest = next] ELSE [l EXCEPT !.pc = "front"]
    BY <1>0, <1>1, NoIterFails DEF Walk, At, Goto
  <2> HIDE DEF l
  <2>2. /\ l.b \in Blocks /\ l.latest = LatestOrSeed
        /\ l.setEarliest <=> trueEarliest = NoBlock
        /\ l.b <= highest + 1
        /\ l.highest \in WalkFrom(l.b) .. NewLatest(l.b)
        /\ \A m \in WalkFrom(l.b) + 1 .. l.highest : find_containing_gap(gaps, m) = {}
        /\ ApplyBatch(gaps, l.gapBatch) = NewGaps(l.b)
    BY <1>0, <2>1 DEF Inside, ReadsCurrent, Walked
  <2>3. /\ l.b \in Nat /\ highest \in Nat /\ NewLatest(l.b) \in Nat
        /\ highest <= NewLatest(l.b) /\ l.b <= NewLatest(l.b)
    BY <2>2, StoreNumbers DEF RaceInv
  <2>4. bound = NewLatest(l.b)
    BY <2>2 DEF NewLatest
  <2>5. /\ WalkFrom(l.b) \in Nat /\ highest <= WalkFrom(l.b)
        /\ l.highest \in Nat /\ WalkFrom(l.b) <= l.highest /\ l.highest <= NewLatest(l.b)
    BY <2>2, <2>3 DEF WalkFrom
  <2>6. CASE on
    <3>1. /\ LocalsShape(loc'[w]) /\ loc'[w].latest = l.latest /\ loc'[w].b = l.b
          /\ loc'[w].setEarliest = l.setEarliest /\ loc'[w].gapBatch = l.gapBatch
          /\ loc'[w].pc = "walk" /\ loc'[w].highest = next
      BY <1>0, <2>1, <2>6 DEF LocalsShape
    <3>2. next \in WalkFrom(l.b) .. NewLatest(l.b)
      BY <2>3, <2>4, <2>5, <2>6
    <3>3. \A m \in WalkFrom(l.b) + 1 .. next : find_containing_gap(gaps, m) = {}
      BY <2>2, <2>5, <2>6
    <3>4. Walked(l.b, next)
      BY <2>2, <3>2, <3>3 DEF Walked
    <3> HIDE DEF next
    <3> QED BY <2>2, <3>1, <3>4 DEF ReadsCurrent
  <2>7. CASE ~ on
    <3>1. /\ LocalsShape(loc'[w]) /\ loc'[w].latest = l.latest /\ loc'[w].b = l.b
          /\ loc'[w].setEarliest = l.setEarliest /\ loc'[w].gapBatch = l.gapBatch
          /\ loc'[w].pc = "front" /\ loc'[w].highest = l.highest
      BY <1>0, <2>1, <2>7 DEF LocalsShape
    <3>2. WalksTo(gaps, WalkFrom(l.b), NewLatest(l.b), l.highest)
      <4>1. \A m \in WalkFrom(l.b) + 1 .. l.highest : m <= NewLatest(l.b)
        BY <2>3, <2>5
      <4>2. next > NewLatest(l.b) \/ find_containing_gap(gaps, next) # {}
        <5>1. ~(next <= NewLatest(l.b)) \/ find_containing_gap(gaps, next) # {}
          BY <2>4, <2>7
        <5>2. next \in Int /\ NewLatest(l.b) \in Int
          BY <2>3, <2>5
        <5> HIDE DEF next
        <5> QED BY <5>1, <5>2
      <4> QED BY <2>2, <2>5, <4>1, <4>2 DEF WalksTo
    <3>3. l.highest \in highest .. NewLatest(l.b)
      BY <2>3, <2>5
    <3>4. NewHighest(l.b, l.highest)
      BY <2>2, <2>3, <3>2 DEF NewHighest, WalkFrom
    <3> QED BY <2>2, <3>1, <3>3, <3>4 DEF ReadsCurrent
  <2> QED BY <2>6, <2>7
<1>2. CASE ReadEarliestHot(w)
  <2>1. /\ l.pc = "front"
        /\ loc'[w] = [l EXCEPT !.pc = "commit", !.setHot = earliestHot = NoBlock]
    BY <1>0, <1>2 DEF ReadEarliestHot, At, Goto
  <2> HIDE DEF l
  <2>2. /\ LocalsShape(loc'[w]) /\ loc'[w].latest = l.latest /\ loc'[w].b = l.b
        /\ loc'[w].setEarliest = l.setEarliest /\ loc'[w].gapBatch = l.gapBatch
        /\ loc'[w].pc = "commit" /\ loc'[w].highest = l.highest
        /\ loc'[w].setHot = (earliestHot = NoBlock)
    BY <1>0, <2>1 DEF LocalsShape
  <2>3. /\ l.b \in Blocks /\ l.latest = LatestOrSeed
        /\ l.setEarliest <=> trueEarliest = NoBlock
        /\ ApplyBatch(gaps, l.gapBatch) = NewGaps(l.b)
        /\ l.highest \in highest .. NewLatest(l.b) /\ NewHighest(l.b, l.highest)
    BY <1>0, <2>1 DEF Inside, ReadsCurrent
  <2> QED BY <2>2, <2>3 DEF ReadsCurrent
<1> QED BY <1>1, <1>2

\* The commit of a call whose reads are current is the commit of the whole of
\* write_block.
LEMMA CommitIsWhole ==
  ASSUME RaceInv, NEW w \in Writers, Commit(w)
  PROVE  loc[w].b \in Blocks /\ commit_batch(loc[w].b) /\ trigger' = trigger
<1> DEFINE l == loc[w]
<1>1. /\ l.pc = "commit" /\ ReadsCurrent(l)
      /\ hot' = hot \cup {l.b}
      /\ latest' = IF l.b > l.latest THEN l.b ELSE latest
      /\ trueEarliest' = IF l.setEarliest THEN l.b ELSE trueEarliest
      /\ gaps' = ApplyBatch(gaps, l.gapBatch)
      /\ highest' = IF l.b > l.highest + 1 THEN highest ELSE l.highest
      /\ earliestHot' = IF l.setHot THEN l.b ELSE earliestHot
      /\ UNCHANGED <<cold, skipped, trigger, cycling>>
  BY DEF Commit, At, RaceInv, Inside
<1> HIDE DEF l
<1>2. /\ l.b \in Blocks /\ l.latest = LatestOrSeed
      /\ l.setEarliest <=> trueEarliest = NoBlock
      /\ ApplyBatch(gaps, l.gapBatch) = NewGaps(l.b)
      /\ l.highest \in highest .. NewLatest(l.b) /\ NewHighest(l.b, l.highest)
      /\ l.setHot <=> earliestHot = NoBlock
  BY <1>1 DEF ReadsCurrent
<1>3. /\ l.b \in Nat /\ highest \in Nat /\ LatestOrSeed \in Nat /\ NewLatest(l.b) \in Nat
      /\ l.highest \in Nat /\ highest <= l.highest
  BY <1>2, StoreNumbers DEF RaceInv
<1>4. latest' = LatestAfter(l.b)
  BY <1>1, <1>2, <1>3 DEF LatestAfter, NewLatest
<1>5. highest' = l.highest
  <2>1. CASE l.b > highest + 1
    BY <1>1, <1>2, <1>3, <2>1 DEF NewHighest
  <2>2. CASE ~(l.b > highest + 1)
    BY <1>1, <1>3, <2>2
  <2> QED BY <2>1, <2>2
<1>6. commit_batch(l.b)
  BY <1>1, <1>2, <1>4, <1>5 DEF commit_batch
<1> QED BY <1>1, <1>2, <1>6 DEF l

\* A step of the database that commits nothing leaves the other calls' reads
\* current.
LEMMA OthersCarried ==
  ASSUME RaceInv, NEW W \in SUBSET Writers, Inv',
         loc' = [v \in Writers |-> loc'[v]],
         \A v \in Writers \ W : loc'[v] = loc[v],
         \A v \in W : /\ LocalsShape(loc'[v])
                      /\ loc'[v].pc \in {"idle", "check"} \/ ReadsCurrent(loc'[v]),
         UNCHANGED <<latest, trueEarliest, highest, gaps>>,
         earliestHot' = NoBlock <=> earliestHot = NoBlock
  PROVE  RaceInv'
<1>1. ASSUME NEW v \in Writers
      PROVE  LocalsShape(loc'[v]) /\ (Inside(v)' => ReadsCurrent(loc'[v]))
  BY DEF RaceInv, Inside
<1>2. ASSUME NEW v \in Writers
      PROVE  LocalsShape(loc[v])' /\ (Inside(v)' => ReadsCurrent(loc[v])')
  <2>1. LocalsShape(loc[v])'
    BY <1>1 DEF LocalsShape
  <2>2. ASSUME Inside(v)' PROVE ReadsCurrent(loc[v])'
    BY <1>1, <2>2, Carried
  <2> QED BY <2>1, <2>2
<1> QED BY <1>2 DEF RaceInv

LEMMA RaceInvInit == RaceInit => RaceInv
<1> SUFFICES ASSUME RaceInit PROVE RaceInv
  OBVIOUS
<1>1. Inv /\ loc = [w \in Writers |-> Idle]
  BY InvInit DEF RaceInit
<1>2. ASSUME NEW w \in Writers PROVE loc[w] = Idle
  BY <1>1
<1> QED BY <1>1, <1>2, IdleShape DEF RaceInv, Inside

\* A step that changes nothing but locals and the archiver's permit.
LEMMA PermitOnly ==
  ASSUME Inv, UNCHANGED <<dbVars, cycling>>, trigger' \in BOOLEAN
  PROVE  Inv' /\ Stored' = Stored
BY DEF Inv, dbVars, TypeOK, GapsSeparated, ContiguousStored, MissingIsTracked, Stored,
       LatestIsGreatest, LatestOrSeed, OnlyFrontSkipped

LEMMA ArchiverCarries ==
  ASSUME Inv, Archiver
  PROVE  /\ UNCHANGED <<latest, trueEarliest, highest, gaps>>
         /\ earliestHot' = NoBlock <=> earliestHot = NoBlock
<1>1. UNCHANGED <<latest, trueEarliest, highest, gaps>>
  BY DEF Archiver, WakeArchiver, CycleDone, ArchiveBatch, SkipBatch, CycleFails, MoveBatch,
         dbVars
<1>2. CASE ArchiveBatch
  <2>1. earliestHot # NoBlock /\ earliestHot' = earliestHot + BatchSize
    BY <1>2 DEF ArchiveBatch, CanArchive, MoveBatch
  <2>2. earliestHot \in Nat \cup {NoBlock} /\ BatchSize \in Nat
    BY ConstantsAssumption DEF Inv, TypeOK
  <2> QED BY <1>1, <2>1, <2>2 DEF NoBlock
<1>3. CASE ~ ArchiveBatch
  BY <1>1, <1>3 DEF Archiver, WakeArchiver, CycleDone, SkipBatch, CycleFails, dbVars
<1> QED BY <1>2, <1>3

\* A step of one call that only reads.
LEMMA QuietStep ==
  ASSUME RaceInv, NEW w \in Writers, UNCHANGED <<dbVars, cycling>>, trigger' \in BOOLEAN,
         NEW x, loc' = [loc EXCEPT ![w] = x], LocalsShape(x),
         x.pc \in {"idle", "check"} \/ ReadsCurrent(x)
  PROVE  RaceInv' /\ Stored' = Stored
<1>1. Inv' /\ Stored' = Stored
  BY PermitOnly DEF RaceInv
<1>2. /\ loc' = [v \in Writers |-> loc'[v]] /\ loc'[w] = x
      /\ \A v \in Writers \ {w} : loc'[v] = loc[v]
  <2>1. loc = [v \in Writers |-> loc[v]]
    BY DEF RaceInv
  <2> QED BY <2>1
<1>3. UNCHANGED <<latest, trueEarliest, highest, gaps, earliestHot>>
  BY DEF dbVars
<1>4. \A v \in {w} : LocalsShape(loc'[v])
                       /\ (loc'[v].pc \in {"idle", "check"} \/ ReadsCurrent(loc'[v]))
  BY <1>2
<1>5. {w} \in SUBSET Writers
  OBVIOUS
<1> QED BY <1>1, <1>2, <1>3, <1>4, <1>5, OthersCarried

\* One step of a call or of the archiver, while calls exclude each other.
LEMMA RaceStep ==
  ASSUME RaceInv, ~ IterFails, Exclusive, [RaceNext]_raceVars
  PROVE  /\ RaceInv'
         /\ \/ Stored' = Stored /\ highest' = highest
            \/ \E b \in Blocks : Stored' = Stored \cup {b}
         /\ latest <= latest' /\ highest <= highest' /\ earliestHot <= earliestHot'
<1>0. /\ Inv /\ latest \in Int /\ highest \in Int /\ earliestHot \in Int
      /\ trigger \in BOOLEAN
  BY DEF RaceInv, Inv, TypeOK, NoBlock
<1>a. ASSUME UNCHANGED <<dbVars, cycling>>, RaceInv', Stored' = Stored
      PROVE  /\ Stored' = Stored /\ highest' = highest
             /\ latest <= latest' /\ highest <= highest' /\ earliestHot <= earliestHot'
  BY <1>0, <1>a DEF dbVars
<1>b. UNCHANGED vars => UNCHANGED <<dbVars, cycling>> /\ trigger' \in BOOLEAN
  BY <1>0 DEF vars
<1>1. ASSUME NEW w \in Writers, ReadStep(w)
      PROVE  RaceInv' /\ Stored' = Stored /\ UNCHANGED <<dbVars, cycling>>
  <2>1. /\ \E x : loc' = [loc EXCEPT ![w] = x]
        /\ UNCHANGED vars
    BY <1>1 DEF ReadStep, Begin, Read, ReadLatest, ReadTrueEarliest, ReadHighest, ReadLeft, Sweep, Fill,
                Walk, ReadEarliestHot, Goto
  <2>2. PICK x : loc' = [loc EXCEPT ![w] = x]
    BY <2>1
  <2>3. x = loc'[w]
    BY <2>2 DEF RaceInv
  <2>4. LocalsShape(loc'[w]) /\ ReadsCurrent(loc'[w])
    BY <1>1, BeginRead, FirstReads, BranchRead, GapReads, LastReads DEF ReadStep, Read
  <2>5. LocalsShape(x) /\ ReadsCurrent(x)
    BY <2>3, <2>4
  <2> QED BY <1>b, <2>1, <2>2, <2>5, QuietStep
<1>2. ASSUME NEW w \in Writers, Abort(w)
      PROVE  RaceInv' /\ Stored' = Stored /\ UNCHANGED <<dbVars, cycling>>
  <2>1. loc' = [loc EXCEPT ![w] = Idle] /\ UNCHANGED vars
    BY <1>2 DEF Abort, Goto
  <2> QED BY <1>b, <2>1, IdleShape, QuietStep
<1>3. ASSUME NEW w \in Writers, CheckSkipped(w)
      PROVE  RaceInv' /\ Stored' = Stored /\ UNCHANGED <<dbVars, cycling>>
  <2>1. loc' = [loc EXCEPT ![w] = Idle] /\ UNCHANGED <<dbVars, cycling>>
    BY <1>3 DEF CheckSkipped, dbVars
  <2>2. trigger' \in BOOLEAN
    BY <1>3 DEF CheckSkipped
  <2> QED BY <2>1, <2>2, IdleShape, QuietStep
<1>4. ASSUME NEW w \in Writers, Commit(w)
      PROVE  /\ RaceInv' /\ Stored' = Stored \cup {loc[w].b} /\ loc[w].b \in Blocks
             /\ latest <= latest' /\ highest <= highest' /\ earliestHot <= earliestHot'
  <2>1. loc[w].b \in Blocks /\ commit_batch(loc[w].b) /\ trigger' \in BOOLEAN
    BY <1>0, <1>4, CommitIsWhole
  <2>2. /\ Inv' /\ Stored' = Stored \cup {loc[w].b}
        /\ latest <= latest' /\ highest <= highest' /\ earliestHot <= earliestHot'
    BY <1>0, <2>1, BlocksAssumption, CommitPreserves
  <2>3. /\ loc = [v \in Writers |-> loc[v]] /\ LocalsShape(loc[w]) /\ Inside(w)
        /\ loc' = [loc EXCEPT ![w] = IF loc[w].wasGapFill THEN [loc[w] EXCEPT !.pc = "check"]
                                     ELSE Idle]
    BY <1>4 DEF RaceInv, Commit, At, Inside
  <2>4. LocalsShape(loc'[w]) /\ loc'[w].pc \in {"idle", "check"}
    <3>1. CASE loc[w].wasGapFill
      <4>1. loc'[w] = [loc[w] EXCEPT !.pc = "check"]
        BY <2>3, <3>1
      <4> QED BY <2>3, <4>1 DEF LocalsShape
    <3>2. CASE ~ loc[w].wasGapFill
      <4>1. loc'[w] = Idle
        BY <2>3, <3>2
      <4> QED BY <4>1, IdleShape
    <3> QED BY <3>1, <3>2
  <2>5. ASSUME NEW v \in Writers PROVE LocalsShape(loc[v])' /\ ~ Inside(v)'
    <3>1. CASE v = w
      BY <2>4, <3>1 DEF LocalsShape, Inside
    <3>2. CASE v # w
      <4>1. loc'[v] = loc[v] /\ ~ Inside(v) /\ LocalsShape(loc[v])
        BY <2>3, <3>2 DEF Exclusive, RaceInv
      <4> QED BY <4>1 DEF Inside, LocalsShape
    <3> QED BY <3>1, <3>2
  <2>6. loc' = [v \in Writers |-> loc'[v]]
    BY <2>3
  <2> QED BY <2>1, <2>2, <2>5, <2>6 DEF RaceInv
<1>5. ASSUME Archiver, UNCHANGED loc
      PROVE  /\ RaceInv' /\ Stored' = Stored /\ highest' = highest
             /\ latest <= latest' /\ highest <= highest' /\ earliestHot <= earliestHot'
  <2>1. /\ Inv' /\ Stored' = Stored /\ earliestHot <= earliestHot'
    BY <1>0, <1>5, ArchiverPreserves
  <2>2. /\ UNCHANGED <<latest, trueEarliest, highest, gaps>>
        /\ earliestHot' = NoBlock <=> earliestHot = NoBlock
    BY <1>0, <1>5, ArchiverCarries
  <2>3. loc' = [v \in Writers |-> loc'[v]] /\ \A v \in Writers \ {} : loc'[v] = loc[v]
    BY <1>5 DEF RaceInv
  <2>4. {} \in SUBSET Writers
    OBVIOUS
  <2>5. RaceInv'
    BY <2>1, <2>2, <2>3, <2>4, OthersCarried
  <2> QED BY <1>0, <2>1, <2>2, <2>5
<1>6. ASSUME UNCHANGED raceVars
      PROVE  RaceInv' /\ Stored' = Stored /\ UNCHANGED <<dbVars, cycling>>
  <2>1. UNCHANGED <<dbVars, cycling>> /\ trigger' \in BOOLEAN /\ UNCHANGED loc
    BY <1>b, <1>6 DEF raceVars
  <2>2. /\ Inv' /\ Stored' = Stored
    BY <1>0, <2>1, PermitOnly
  <2>3. UNCHANGED <<latest, trueEarliest, highest, gaps, earliestHot>>
    BY <2>1 DEF dbVars
  <2>4. loc' = [v \in Writers |-> loc'[v]] /\ \A v \in Writers \ {} : loc'[v] = loc[v]
    BY <2>1 DEF RaceInv
  <2>5. {} \in SUBSET Writers
    OBVIOUS
  <2> QED BY <2>1, <2>2, <2>3, <2>4, <2>5, OthersCarried
<1>7. CASE \E w \in Writers : Step(w)
  BY <1>a, <1>1, <1>2, <1>3, <1>4, <1>7 DEF Step, ReadStep
<1>8. CASE Archiver /\ UNCHANGED loc
  BY <1>5, <1>8
<1> QED BY <1>a, <1>6, <1>7, <1>8 DEF RaceNext

LEMMA RaceAlways == ~ IterFails => (RaceSpec /\ []Exclusive => []RaceInv)
<1> SUFFICES ASSUME ~ IterFails PROVE RaceSpec /\ []Exclusive => []RaceInv
  OBVIOUS
<1>1. RaceInv /\ Exclusive /\ [RaceNext]_raceVars => RaceInv'
  BY RaceStep
<1> QED BY <1>1, RaceInvInit, PTL DEF RaceSpec

\* Mutual exclusion from the first read to the commit, and lookups in the gap
\* index that do not take an error for "no gap", are all that write_block lacks:
\* with them, any number of writers that interleave with each other and
\* with the archiver read by read, fail anywhere, and check for a skipped batch
\* outside the exclusion, keep what Persistence promises of atomic writes.
THEOREM ExclusionKeepsStore ==
  ~ IterFails =>
    (RaceSpec /\ []Exclusive => [](ContiguousStored /\ MissingIsTracked /\ LatestIsGreatest))
<1>1. RaceInv => ContiguousStored /\ MissingIsTracked /\ LatestIsGreatest
  BY DEF RaceInv, Inv
<1> QED BY <1>1, RaceAlways, PTL

\* Under the same conditions no step of a call or of the archiver loses a block
\* or moves a watermark back.
THEOREM ExclusionLosesNothing == ~ IterFails => (RaceSpec /\ []Exclusive => NothingLost)
<1> SUFFICES ASSUME ~ IterFails PROVE RaceSpec /\ []Exclusive => NothingLost
  OBVIOUS
<1>1. RaceInv /\ Exclusive /\ [RaceNext]_raceVars =>
        [/\ Stored \subseteq Stored'
         /\ latest <= latest' /\ highest <= highest' /\ earliestHot <= earliestHot']_vars
  BY RaceStep
<1> QED BY <1>1, RaceAlways, PTL DEF RaceSpec, NothingLost

\* And clients cannot tell the calls that read step by step from atomic ones:
\* they still see the BlockStore.
THEOREM ExclusionRefinesBlockStore ==
  ~ IterFails => (RaceSpec /\ []Exclusive => ImplementsBlockStore)
<1> SUFFICES ASSUME ~ IterFails PROVE RaceSpec /\ []Exclusive => ImplementsBlockStore
  OBVIOUS
<1>1. RaceInit => Store!Init
  BY DEF RaceInit, Init, Store!Init, Stored
<1>2. ASSUME RaceInv, Exclusive, [RaceNext]_raceVars PROVE [Store!Next]_(Store!vars)
  <2>1. /\ RaceInv'
        /\ \/ Stored' = Stored /\ highest' = highest
           \/ \E b \in Blocks : Stored' = Stored \cup {b}
        /\ highest <= highest'
    BY <1>2, RaceStep
  <2>2. CASE Stored' = Stored /\ highest' = highest
    BY <2>2 DEF Store!vars
  <2>3. ASSUME NEW b \in Blocks, Stored' = Stored \cup {b} PROVE Store!Store(b)
    <3>1. highest \in Int /\ highest' \in Int
      <4>1. TypeOK /\ TypeOK'
        BY <1>2, <2>1 DEF RaceInv, Inv
      <4> QED BY <4>1 DEF TypeOK
    <3>2. \A n \in Seed + 1 .. highest' : n \in Stored'
      BY <2>1 DEF RaceInv, Inv, ContiguousStored, Seed
    <3> QED BY <2>1, <2>3, <3>1, <3>2 DEF Store!Store, Store!Vouched
  <2> QED BY <2>1, <2>2, <2>3 DEF Store!Next
<1> QED BY <1>1, <1>2, RaceAlways, PTL DEF RaceSpec, ImplementsBlockStore, Store!Spec
=============================================================================
