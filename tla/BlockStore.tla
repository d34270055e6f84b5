----------------------------- MODULE BlockStore -----------------------------
(***************************************************************************)
(* What the persistence plugin promises its clients (BlockReader and       *)
(* BlockWriter in rock-node-core), without tiers, gaps or watermarks other *)
(* than the contiguous one: stored blocks stay stored, and every block     *)
(* above the seed up to the contiguous watermark is stored.                *)
(***************************************************************************)
EXTENDS Integers

CONSTANTS Blocks,      \* block numbers that may be written one at a time
          Batches,     \* historical ranges <<first, last>>
          Seed         \* value the contiguous watermark is seeded with

VARIABLES stored,      \* blocks read_block can return
          contiguous   \* get_highest_contiguous_block_number()

vars == <<stored, contiguous>>

Init == stored = {} /\ contiguous = Seed

\* The blocks the watermark vouches for are in s.
Vouched(s, c) == \A n \in Seed + 1 .. c : n \in s

\* A client stores one block; the watermark may advance.
Store(b) ==
  /\ stored' = stored \cup {b}
  /\ contiguous' \in Int
  /\ contiguous' >= contiguous
  /\ Vouched(stored', contiguous')

\* A client stores a historical range; the watermark stays.
StoreRange(first, last) ==
  /\ stored' = stored \cup first .. last
  /\ UNCHANGED contiguous

Next == \/ \E b \in Blocks : Store(b)
        \/ \E r \in Batches : StoreRange(r[1], r[2])

Spec == Init /\ [][Next]_vars
=============================================================================
