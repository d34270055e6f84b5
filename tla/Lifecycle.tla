----------------------------- MODULE Lifecycle ------------------------------
(***************************************************************************)
(* The life of a node: main.rs initialises the plugins, collects their     *)
(* gRPC services, starts them, waits for a signal and stops them in        *)
(* reverse, while the tasks they spawned run beside it.  Every plugin's    *)
(* initialize, register_grpc_services, start and stop is an action.  A     *)
(* task is woken by Notify::notify_waiters only if it is waiting then.     *)
(***************************************************************************)
EXTENDS Naturals, Sequences

\* Configurations: plugins switched off, start_block_number > 0, peers given,
\* the backfill mode, and what is wrong with the storage or an address.
CONSTANT Configs

Plugins == {"persistence", "verifier", "publish", "subscriber", "access", "status",
            "observability", "state", "query", "backfill"}

ASSUME ConfigAssumption ==
  Configs \subseteq [off : SUBSET Plugins, late : BOOLEAN, peers : BOOLEAN,
                     mode : {"GapFill", "Continuous"},
                     faults : SUBSET {"storage", "grpc", "http"}]

\* Tasks on the runtime; a plugin's own loop has the plugin's name.
Tasks == {"persistence", "verifier", "publish", "observability", "state", "backfill",
          "archiver", "grpc", "reader capability", "verified capability"}

VARIABLES
  cfg,        \* the configuration
  main,       \* main.rs: phase, position in the list of plugins, and whether
              \* start() has set the flag of the plugin at that position
  ctx,        \* plugins that hold the AppContext
  providers,  \* service_providers
  caps,       \* the capability registry
  services,   \* plugins with a service in the routes
  running,    \* plugins whose running flag is set
  task,       \* task[t]: none, spawned, waiting (in its select), busy, woken, ended
  session     \* a publisher's response channel: none, open or full

vars == <<cfg, main, ctx, providers, caps, services, running, task, session>>
wiring == <<ctx, providers, caps, services>>

Enabled(p) == p \notin cfg.off

\* Step 6 of main: the list of plugins; the verifier is there only if enabled.
Order ==
  <<"persistence">> \o (IF Enabled("verifier") THEN <<"verifier">> ELSE <<>>)
  \o <<"publish", "subscriber", "access", "status", "observability", "state",
       "query", "backfill">>

Init ==
  /\ cfg \in Configs
  /\ main = [pc |-> "initialize", i |-> 1, flagged |-> FALSE]
  /\ ctx = {} /\ providers = {"database"} /\ caps = {} /\ services = {}
  /\ running = {} /\ task = [t \in Tasks |-> "none"] /\ session = "none"

\* main is at plugin p in the loop of the phase; the next plugin; the `?`.
At(phase, p) == main.pc = phase /\ main.i <= Len(Order) /\ p = Order[main.i]
Advance == main' = [main EXCEPT !.i = @ + 1, !.flagged = FALSE]
Abort == main' = [main EXCEPT !.pc = "aborted"]
Spawn(ts) == task' = [t \in Tasks |-> IF t \in ts THEN "spawned" ELSE task[t]]

-----------------------------------------------------------------------------
(* initialize *)

\* Scans the storage, spawns the archiver and the registration of
\* ProvidesBlockReader, provides the reader and the writer.
InitPersistence ==
  /\ At("initialize", "persistence")
  /\ IF "storage" \in cfg.faults THEN Abort /\ UNCHANGED <<ctx, providers, task>>
     ELSE /\ Advance /\ ctx' = ctx \cup {"persistence"}
          /\ providers' = providers \cup {"reader", "writer"}
          /\ Spawn({"archiver", "reader capability"})
  /\ UNCHANGED <<cfg, caps, services, running, session>>

InitVerifier ==
  /\ At("initialize", "verifier")
  /\ Advance /\ ctx' = ctx \cup {"verifier"} /\ Spawn({"verified capability"})
  /\ UNCHANGED <<cfg, providers, caps, services, running, session>>

\* A disabled publish plugin does not even keep the context.
InitPublish ==
  /\ At("initialize", "publish")
  /\ Advance /\ ctx' = IF Enabled("publish") THEN ctx \cup {"publish"} ELSE ctx
  /\ UNCHANGED <<cfg, providers, caps, services, running, task, session>>

\* Provides the state reader if it is enabled and finds database and reader.
InitState ==
  /\ At("initialize", "state")
  /\ IF Enabled("state") /\ ~({"database", "reader"} \subseteq providers)
     THEN Abort /\ UNCHANGED <<ctx, providers>>
     ELSE /\ Advance /\ ctx' = ctx \cup {"state"}
          /\ providers' = IF Enabled("state") THEN providers \cup {"state"} ELSE providers
  /\ UNCHANGED <<cfg, caps, services, running, task, session>>

InitPlain(p) ==
  /\ At("initialize", p)
  /\ Advance /\ ctx' = ctx \cup {p}
  /\ UNCHANGED <<cfg, providers, caps, services, running, task, session>>

InitSubscriber == InitPlain("subscriber")
InitAccess == InitPlain("access")
InitStatus == InitPlain("status")
\* BUG variant of InitObservability: the server is spawned at once.
InitObservability_eager ==
  /\ At("initialize", "observability")
  /\ Advance /\ ctx' = ctx \cup {"observability"} /\ Spawn({"observability"})
  /\ UNCHANGED <<cfg, providers, caps, services, running, session>>

InitObservability == InitPlain("observability")
InitQuery == InitPlain("query")
InitBackfill == InitPlain("backfill")

\* The gRPC address is parsed.
Collect ==
  /\ main.pc = "initialize" /\ main.i > Len(Order)
  /\ main' = IF "grpc" \in cfg.faults THEN [main EXCEPT !.pc = "aborted"]
             ELSE [main EXCEPT !.pc = "register", !.i = 1]
  /\ UNCHANGED <<cfg, wiring, running, task, session>>

-----------------------------------------------------------------------------
(* register_grpc_services *)

\* BUG variant of Register: a missing provider is an error.
Register_strict(p, needs) ==
  /\ At("register", p)
  /\ IF p \notin ctx \/ (Enabled(p) /\ ~(needs \subseteq providers))
     THEN Abort /\ UNCHANGED services
     ELSE /\ Advance /\ services' = IF Enabled(p) THEN services \cup {p} ELSE services
  /\ UNCHANGED <<cfg, ctx, providers, caps, running, task, session>>

\* Shared by the plugins with services: an error without the context; a service
\* is added if the plugin is enabled and finds the provider it needs.
Register(p, needs) ==
  /\ At("register", p)
  /\ IF p \notin ctx THEN Abort /\ UNCHANGED services
     ELSE /\ Advance
          /\ services' = IF Enabled(p) /\ needs \subseteq providers
                         THEN services \cup {p} ELSE services
  /\ UNCHANGED <<cfg, ctx, providers, caps, running, task, session>>

RegisterPublish == Register("publish", {})
RegisterSubscriber == Register("subscriber", {})
RegisterAccess == Register("access", {"reader"})
RegisterStatus == Register("status", {"reader"})
RegisterQuery == Register("query", {"state"})

\* The default of the Plugin trait: no service.
RegisterNone ==
  /\ \E p \in {"persistence", "verifier", "observability", "state", "backfill"} :
       At("register", p)
  /\ Advance /\ UNCHANGED <<cfg, wiring, running, task, session>>

\* The server is spawned if there is a service; the start loop begins.
Serve ==
  /\ main.pc = "register" /\ main.i > Len(Order)
  /\ main' = [main EXCEPT !.pc = "start", !.i = 1]
  /\ Spawn(IF services = {} THEN {} ELSE {"grpc"})
  /\ UNCHANGED <<cfg, wiring, running, session>>

-----------------------------------------------------------------------------
(* start *)

\* BUG variant of Start: the loop is spawned before the flag is set.
Start_late_flag(p) ==
  /\ At("start", p)
  /\ IF main.flagged
     THEN Advance /\ running' = running \cup {p} /\ UNCHANGED task
     ELSE /\ main' = [main EXCEPT !.flagged = TRUE]
          /\ Spawn({p}) /\ UNCHANGED running
  /\ UNCHANGED <<cfg, wiring, session>>

\* A plugin with a loop sets its flag, then spawns the loop.
Start(p) ==
  /\ At("start", p)
  /\ IF main.flagged
     THEN Advance /\ Spawn({p}) /\ UNCHANGED running
     ELSE /\ main' = [main EXCEPT !.flagged = TRUE]
          /\ running' = running \cup {p} /\ UNCHANGED task
  /\ UNCHANGED <<cfg, wiring, session>>

\* start() returns Ok without a loop.
StartNothing(p) ==
  /\ At("start", p) /\ Advance /\ UNCHANGED <<cfg, wiring, running, task, session>>

\* start() fails.
StartFails(p) ==
  /\ At("start", p) /\ Abort /\ UNCHANGED <<cfg, wiring, running, task, session>>

StartPersistence == Start("persistence")
StartVerifier == Start("verifier")

\* The address is parsed before the flag is set.
StartObservability ==
  IF ~Enabled("observability") THEN StartNothing("observability")
  ELSE IF "http" \in cfg.faults THEN StartFails("observability")
  ELSE Start("observability")

\* Neither a disabled plugin nor one with a later start block applies blocks.
StartState ==
  IF Enabled("state") /\ ~cfg.late THEN Start("state") ELSE StartNothing("state")

\* BackfillWorker::new needs the database, the reader and the writer.
StartBackfill ==
  IF ~(Enabled("backfill") /\ cfg.peers) THEN StartNothing("backfill")
  ELSE IF {"database", "reader", "writer"} \subseteq providers THEN Start("backfill")
  ELSE StartFails("backfill")

\* The cleanup task never ends, so the order of spawn and flag does not matter.
StartPublish ==
  /\ At("start", "publish")
  /\ IF "publish" \notin ctx THEN Abort /\ UNCHANGED <<running, task>>
     ELSE Advance /\ Spawn({"publish"}) /\ running' = running \cup {"publish"}
  /\ UNCHANGED <<cfg, wiring, session>>

\* Only a flag.
StartPlain(p) ==
  /\ At("start", p)
  /\ Advance /\ running' = IF Enabled(p) THEN running \cup {p} ELSE running
  /\ UNCHANGED <<cfg, wiring, task, session>>

StartSubscriber == StartPlain("subscriber")
StartAccess == StartPlain("access")
StartStatus == StartPlain("status")
StartQuery == StartPlain("query")

\* report_plugin_startup_status, then the node waits for a signal.
Up ==
  /\ main.pc = "start" /\ main.i > Len(Order)
  /\ main' = [main EXCEPT !.pc = "up"]
  /\ UNCHANGED <<cfg, wiring, running, task, session>>

-----------------------------------------------------------------------------
(* Tasks *)

Alive == main.pc \notin {"aborted", "exited"}
Goes(t, from, to) ==
  /\ Alive /\ task[t] = from /\ task' = [task EXCEPT ![t] = to]
  /\ UNCHANGED <<cfg, main, ctx, providers, services, session>>

\* The loop is left: it clears the flag of its plugin on the way out.
Ends(t, from) == Goes(t, from, "ended") /\ running' = running \ {t} /\ UNCHANGED caps
Turns(t, from, to) == Goes(t, from, to) /\ UNCHANGED <<running, caps>>

\* CapabilityRegistry::register, from a task of its own.
RegisterReader ==
  /\ Goes("reader capability", "spawned", "ended")
  /\ caps' = caps \cup {"ProvidesBlockReader"} /\ UNCHANGED running
RegisterVerified ==
  /\ Goes("verified capability", "spawned", "ended")
  /\ caps' = caps \cup {"ProvidesVerifiedBlocks"} /\ UNCHANGED running

\* The persistence loop looks once whether blocks come from the verifier.  If
\* they should but it has not registered yet, the loop has no input and ends.
PersistenceLoop ==
  IF Enabled("verifier") /\ "ProvidesVerifiedBlocks" \notin caps
  THEN Ends("persistence", "spawned") ELSE Turns("persistence", "spawned", "waiting")

Loop(t) == Turns(t, "spawned", "waiting")
VerifierLoop == Loop("verifier")
BackfillLoop == Loop("backfill")
ArchiverLoop == Loop("archiver")
CleanupLoop == Loop("publish")

\* The last processed block may be unreadable.
StateLoop == Loop("state") \/ Ends("state", "spawned")

\* An event, a trigger or a tick is handled outside the select, which does not
\* see a notification meanwhile (the Continuous backfill runs inside it).
Works(t) ==
  /\ t \in {"persistence", "verifier", "state", "archiver", "backfill"}
  /\ t = "backfill" => cfg.mode = "GapFill"
  /\ Turns(t, "waiting", "busy") \/ Turns(t, "busy", "waiting")

\* A failed application or a lagged receiver ends the state loop.
StateHalts == Ends("state", "busy")

\* A notified loop leaves.
Leaves(t) == Ends(t, "woken")

\* The servers bind their port or give up.
ObservabilityServes ==
  Turns("observability", "spawned", "waiting") \/ Ends("observability", "spawned")
GrpcServes == Turns("grpc", "spawned", "waiting") \/ Turns("grpc", "spawned", "ended")

\* A publisher connects, falls behind with reading its responses, catches up,
\* or goes.
Publisher(from, to) ==
  /\ Alive /\ session = from /\ session' = to
  /\ to = "open" /\ from = "none" => task["grpc"] = "waiting" /\ "publish" \in services
  /\ UNCHANGED <<cfg, main, wiring, running, task>>

-----------------------------------------------------------------------------
(* Shutdown *)

\* notify_waiters wakes the tasks that are waiting; the change of a watch, which
\* the two servers have, is also seen by one that gets there later.
Wake(ts) ==
  LET hears(t) == t \in ts /\ \/ task[t] = "waiting"
                              \/ task[t] = "spawned" /\ t \in {"grpc", "observability"}
  IN  task' = [t \in Tasks |-> IF hears(t) THEN "woken" ELSE task[t]]

\* shutdown_signal returns; the gRPC server is told.
Signal ==
  /\ main.pc = "up"
  /\ main' = [main EXCEPT !.pc = "stop", !.i = Len(Order)]
  /\ Wake({"grpc"})
  /\ UNCHANGED <<cfg, wiring, running, session>>

\* The plugins are visited in reverse.
Turn(p) == main.pc = "stop" /\ main.i > 0 /\ p = Order[main.i]
Visited == main' = [main EXCEPT !.i = @ - 1]

\* A plugin that is not running is passed over.
StopSkips ==
  /\ \E p \in Plugins \ running : Turn(p)
  /\ Visited /\ UNCHANGED <<cfg, wiring, running, task, session>>

\* BUG variant of Stop: the plugin waits for its loop.
Stop_joins(p, ts) ==
  /\ Turn(p) /\ p \in running
  /\ IF main.flagged
     THEN /\ \A t \in ts : task[t] \in {"none", "ended"}
          /\ main' = [main EXCEPT !.i = @ - 1, !.flagged = FALSE]
          /\ running' = running \ {p} /\ UNCHANGED task
     ELSE main' = [main EXCEPT !.flagged = TRUE] /\ Wake(ts) /\ UNCHANGED running
  /\ UNCHANGED <<cfg, wiring, session>>

\* Notify the tasks and clear the flag, whether a task heard it or not; nothing
\* waits for a task.  (observability's stop() fails, before it clears the flag,
\* when its server is gone: the server's task clears the flag itself, and main
\* logs the error and goes on.)
Stop(p, ts) ==
  /\ Turn(p) /\ p \in running
  /\ Visited /\ Wake(ts) /\ running' = running \ {p}
  /\ UNCHANGED <<cfg, wiring, session>>

StopPersistence == Stop("persistence", {"persistence", "archiver"})
StopVerifier == Stop("verifier", {"verifier"})
StopState == Stop("state", {"state"})
StopBackfill == Stop("backfill", {"backfill"})
StopObservability == Stop("observability", {"observability"})
StopSubscriber == Stop("subscriber", {})
StopAccess == Stop("access", {})
StopStatus == Stop("status", {})
StopQuery == Stop("query", {})

\* EndStream is sent to the publisher, which waits for room in its channel.
StopPublish ==
  /\ Turn("publish") /\ "publish" \in running /\ session # "full"
  /\ Visited /\ running' = running \ {"publish"}
  /\ session' \in IF session = "open" THEN {"open", "full"} ELSE {session}
  /\ UNCHANGED <<cfg, wiring, task>>

\* After 250 ms the process ends, whatever its tasks do (a spawn_blocking closure
\* that is running is waited for; such closures end by themselves).
Exit ==
  /\ main.pc = "stop" /\ main.i = 0
  /\ main' = [main EXCEPT !.pc = "exited"]
  /\ UNCHANGED <<cfg, wiring, running, task, session>>

-----------------------------------------------------------------------------
Initialise ==
  \/ InitPersistence \/ InitVerifier \/ InitPublish \/ InitSubscriber \/ InitAccess
  \/ InitStatus \/ InitObservability \/ InitState \/ InitQuery \/ InitBackfill
  \/ Collect
RegisterAll ==
  \/ RegisterPublish \/ RegisterSubscriber \/ RegisterAccess \/ RegisterStatus
  \/ RegisterQuery \/ RegisterNone \/ Serve
StartAll ==
  \/ StartPersistence \/ StartVerifier \/ StartPublish \/ StartSubscriber \/ StartAccess
  \/ StartStatus \/ StartObservability \/ StartState \/ StartQuery \/ StartBackfill
  \/ Up
StopAll ==
  \/ StopSkips \/ StopPersistence \/ StopVerifier \/ StopPublish \/ StopSubscriber
  \/ StopAccess \/ StopStatus \/ StopObservability \/ StopState \/ StopQuery
  \/ StopBackfill \/ Exit
Main == Initialise \/ RegisterAll \/ StartAll \/ StopAll

Runtime ==
  \/ RegisterReader \/ RegisterVerified \/ PersistenceLoop \/ VerifierLoop
  \/ BackfillLoop \/ ArchiverLoop \/ CleanupLoop \/ StateLoop \/ StateHalts
  \/ ObservabilityServes \/ GrpcServes
  \/ \E t \in Tasks : Works(t) \/ Leaves(t)
  \/ Publisher("none", "open") \/ Publisher("open", "full")
  \/ Publisher("full", "open") \/ Publisher("open", "none") \/ Publisher("full", "none")

Next == Main \/ Signal \/ Runtime
Spec == Init /\ [][Next]_vars

\* The main task is polled, and a send that waits for room in a bounded channel
\* of tokio is served in turn, so that it does not lose every place that comes
\* free.  Nothing is assumed of the other tasks, of publishers or of the
\* operator.
LiveSpec == Spec /\ WF_vars(Main) /\ SF_vars(StopPublish)

-----------------------------------------------------------------------------
\* is_running tells the truth while the node is up: a plugin with a loop that
\* is flagged has a loop that has not ended, however soon the loop ended after
\* it was spawned (start() sets the flag first; the loop clears it).
FlagIsHonest ==
  \A p \in running \cap {"persistence", "verifier", "state", "backfill", "observability"} :
    \/ task[p] \in {"spawned", "waiting", "busy", "woken"}
    \/ At("start", p) /\ main.flagged

\* readiness_check
Ready == "ProvidesBlockReader" \in caps

\* A probe that is answered READY finds a node whose reader is provided and
\* whose enabled block services are all in the routes of a spawned server,
\* although the capability comes from a task of its own (readiness_check).
ReadyIsServed ==
  task["observability"] = "waiting" /\ Ready =>
    /\ "reader" \in providers
    /\ \A p \in {"publish", "subscriber", "access", "status"} :
         Enabled(p) => p \in services /\ task["grpc"] # "none"

\* With sound storage and addresses the node comes up whichever plugins are
\* switched off, the publish plugin excepted: main.rs gives up when a plugin
\* returns an error, and a disabled publish plugin has no context.
ComesUp ==
  main.pc = "initialize" /\ cfg.faults = {} /\ Enabled("publish") ~> main.pc = "up"

\* After a signal the process ends, whatever its loops are doing and however
\* often a publisher falls behind, unless from some time on the publisher reads
\* none of its responses (PublishPlugin::stop awaits room in the channel of every
\* session).
ShutsDown == []<>(session # "full") => (main.pc = "stop" ~> main.pc = "exited")
=============================================================================
