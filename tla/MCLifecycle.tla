---------------------------- MODULE MCLifecycle -----------------------------
(* Configurations of Lifecycle for TLC: every plugin on in some of them, few *)
(* background loops at a time, and each fault.                               *)
EXTENDS Lifecycle

On(ps) == [off |-> Plugins \ (ps \cup {"persistence"}), late |-> FALSE, peers |-> TRUE,
           mode |-> "GapFill", faults |-> {}]
MCConfigs ==
  {On({"publish", "verifier"}), On({"publish", "observability", "status", "query"}),
   On({"publish", "state", "query"}), On({"publish", "backfill", "subscriber"}),
   On({"verifier", "state", "access"}),
   [On({"publish", "state", "query", "backfill", "access"})
      EXCEPT !.late = TRUE, !.mode = "Continuous"],
   [On({"publish", "backfill"}) EXCEPT !.peers = FALSE],
   On({"observability", "subscriber"})}
  \cup {[On({"publish", "observability"}) EXCEPT !.faults = {f}] : f \in {"storage", "grpc", "http"}}
=============================================================================
