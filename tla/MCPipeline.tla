----------------------------- MODULE MCPipeline -----------------------------
(* Small instance of Pipeline: blocks 0 and 1, block 1 again, and block 1 in *)
(* an event that says 2.                                                     *)
EXTENDS Pipeline

CONSTANTS k0, k1, again, renumbered

MCKeys == {k0, k1, again, renumbered}
MCBlockOf == [k \in Keys |-> CASE k = k0 -> 0 [] k = renumbered -> 2 [] OTHER -> 1]
MCHeaderOf == [k \in Keys |-> IF k = k0 THEN 0 ELSE 1]
None == {}
OnlyK0 == {k0}
OnlyK1 == {k1}
=============================================================================
