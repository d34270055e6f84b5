--------------------------- MODULE MissingBlocks ---------------------------
(***************************************************************************)
(* What the gap index promises, without its representation: a set of       *)
(* missing blocks to which a range can be added and from which one block   *)
(* can be taken.                                                           *)
(***************************************************************************)
EXTENDS Integers

CONSTANT Blocks        \* block numbers callers use

VARIABLE missing

Init == missing = {}

\* A range is declared missing.
DeclareMissing(start, end) == missing' = missing \cup start .. end

\* A missing block has arrived.
Arrive(n) == missing' = missing \ {n}

Next == \/ \E start, end \in Blocks : DeclareMissing(start, end)
        \/ \E n \in Blocks : Arrive(n)

Spec == Init /\ [][Next]_missing
=============================================================================
