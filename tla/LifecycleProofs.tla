-------------------------- MODULE LifecycleProofs ---------------------------
(***************************************************************************)
(* The running flags and the readiness probe, for every configuration and  *)
(* every interleaving of main with the tasks it has spawned.               *)
(***************************************************************************)
EXTENDS Lifecycle, Integers, SequenceTheorems, TLAPS

Loops == {"persistence", "verifier", "state", "backfill", "observability"}
Going == {"spawned", "waiting", "busy", "woken"}

\* The plugins whose start() sets a flag and then spawns a loop.
Startable(p) ==
  \/ p \in {"persistence", "verifier"}
  \/ p = "observability" /\ Enabled(p) /\ "http" \notin cfg.faults
  \/ p = "state" /\ Enabled(p) /\ ~cfg.late
  \/ /\ p = "backfill" /\ Enabled(p) /\ cfg.peers
     /\ {"database", "reader", "writer"} \subseteq providers

Phases == {"initialize", "register", "start", "up", "stop", "aborted", "exited"}

Types ==
  /\ main \in [pc : Phases, i : Int, flagged : BOOLEAN]
  /\ main.pc \in {"initialize", "register", "start"} => main.i >= 1
  /\ main.pc = "stop" => main.i <= Len(Order)
  /\ task \in [Tasks -> {"none", "ended"} \cup Going]

\* The inductive invariant.  A set flag means that start() is between its two
\* steps, and can take the second.
Inv ==
  /\ Types
  /\ main.flagged => /\ main.pc = "start" /\ main.i <= Len(Order)
                     /\ Startable(Order[main.i])
  /\ FlagIsHonest

\* The plugins whose services readiness is about.
BlockServices == {"publish", "subscriber", "access", "status"}

\* The list begins with persistence, and every plugin with a block service is on
\* it.
LEMMA OrderFacts ==
  /\ Len(Order) \in Nat /\ Len(Order) >= 1 /\ Order[1] = "persistence"
  /\ \A p \in BlockServices : \E j \in 1 .. Len(Order) : Order[j] = p
<1> DEFINE A == <<"persistence">>
           B == IF Enabled("verifier") THEN <<"verifier">> ELSE <<>>
           C == <<"publish", "subscriber", "access", "status", "observability", "state",
                  "query", "backfill">>
<1>1. A \in Seq(Plugins) /\ Len(A) = 1 /\ A[1] = "persistence"
  BY DEF Plugins
<1>2. B \in Seq(Plugins) /\ Len(B) \in {0, 1}
  <2>1. CASE Enabled("verifier")
    BY <2>1 DEF Plugins
  <2>2. CASE ~Enabled("verifier")
    BY <2>2
  <2> QED BY <2>1, <2>2
<1>3. C \in Seq(Plugins) /\ Len(C) = 8
      /\ C[1] = "publish" /\ C[2] = "subscriber" /\ C[3] = "access" /\ C[4] = "status"
  BY DEF Plugins
<1>4. Order = (A \o B) \o C
  BY DEF Order
<1> HIDE DEF A, B, C
<1>5. /\ A \o B \in Seq(Plugins) /\ Len(A \o B) = 1 + Len(B)
      /\ \A j \in 1 .. 1 + Len(B) : (A \o B)[j] = IF j <= 1 THEN A[j] ELSE B[j - 1]
  <2>1. A \in Seq(Plugins) /\ B \in Seq(Plugins) /\ Len(A) = 1
    BY <1>1, <1>2
  <2>2. /\ A \o B \in Seq(Plugins) /\ Len(A \o B) = Len(A) + Len(B)
        /\ \A j \in 1 .. Len(A) + Len(B) :
             (A \o B)[j] = IF j <= Len(A) THEN A[j] ELSE B[j - Len(A)]
    BY <2>1, ConcatProperties
  <2> QED BY <2>1, <2>2
<1>6. /\ Len(Order) = 9 + Len(B)
      /\ \A j \in 1 .. 9 + Len(B) :
           Order[j] = IF j <= 1 + Len(B) THEN (A \o B)[j] ELSE C[j - (1 + Len(B))]
  <2> DEFINE D == A \o B
  <2>1. D \in Seq(Plugins) /\ Len(D) = 1 + Len(B) /\ Order = D \o C
    BY <1>4, <1>5
  <2> HIDE DEF D, Order
  <2>2. /\ Len(D \o C) = Len(D) + Len(C)
        /\ \A j \in 1 .. Len(D) + Len(C) :
             (D \o C)[j] = IF j <= Len(D) THEN D[j] ELSE C[j - Len(D)]
    <3>1. D \in Seq(Plugins) /\ C \in Seq(Plugins)
      BY <1>3, <2>1
    <3> QED BY <3>1, ConcatProperties
  <2>3. /\ Len(Order) = 9 + Len(B)
        /\ \A j \in 1 .. 9 + Len(B) :
             Order[j] = IF j <= 1 + Len(B) THEN D[j] ELSE C[j - (1 + Len(B))]
    <3>1. Len(D) = 1 + Len(B) /\ Len(C) = 8 /\ Len(B) \in Nat
      BY <1>2, <1>3, <2>1
    <3>2. Len(D) + Len(C) = 9 + Len(B)
      BY <3>1
    <3> QED BY <2>1, <2>2, <3>1, <3>2
  <2> QED BY <2>3 DEF D
<1> HIDE DEF Order
<1>7. Order[1] = "persistence"
  BY <1>1, <1>2, <1>5, <1>6
<1>8. ASSUME NEW p \in BlockServices PROVE \E j \in 1 .. Len(Order) : Order[j] = p
  <2>1. PICK k \in 1 .. 4 : C[k] = p
    BY <1>3 DEF BlockServices
  <2>2. /\ 1 + Len(B) + k \in 1 .. Len(Order) /\ ~(1 + Len(B) + k <= 1 + Len(B))
        /\ 1 + Len(B) + k - (1 + Len(B)) = k
    BY <1>2, <1>6
  <2> QED BY <1>6, <2>1, <2>2
<1> QED BY <1>2, <1>6, <1>7, <1>8

LEMMA InvInit == Init => Inv
<1> SUFFICES ASSUME Init PROVE Inv
  OBVIOUS
<1>1. main = [pc |-> "initialize", i |-> 1, flagged |-> FALSE] /\ running = {}
      /\ task = [t \in Tasks |-> "none"]
  BY DEF Init
<1>2. main.pc = "initialize" /\ main.i = 1 /\ main.flagged = FALSE
  BY <1>1
<1>3. Types
  BY <1>1, <1>2 DEF Types, Phases
<1> QED BY <1>1, <1>2, <1>3 DEF Inv, FlagIsHonest

LEMMA SameOrder == cfg' = cfg => Order' = Order /\ \A p : Enabled(p)' = Enabled(p)
BY DEF Order, Enabled

\* A step of main outside start(): nothing becomes running, no loop ends.
LEMMA MainStep ==
  ASSUME Inv, ~main.flagged, cfg' = cfg, Types', ~main'.flagged, running' \subseteq running,
         \A t \in Loops : task[t] \in Going => task'[t] \in Going
  PROVE  Inv'
<1>1. FlagIsHonest'
  BY DEF Inv, FlagIsHonest, Going, Loops
<1> QED BY <1>1, SameOrder DEF Inv

\* A step of a task, or of a publisher.
LEMMA TaskStep ==
  ASSUME Inv, UNCHANGED <<cfg, main, providers>>, running' \subseteq running,
         task' \in [Tasks -> {"none", "ended"} \cup Going],
         \A t \in Loops : t \in running' /\ task[t] \in Going => task'[t] \in Going
  PROVE  Inv'
<1>1. Order' = Order /\ \A p : Enabled(p)' = Enabled(p)
  BY SameOrder
<1>2. Types'
  BY <1>1 DEF Inv, Types
<1>3. FlagIsHonest'
  BY <1>1 DEF Inv, FlagIsHonest, Going, Loops, At
<1>4. main'.flagged => Startable(Order[main.i])'
  <2>1. Startable(Order[main.i]) => Startable(Order[main.i])'
    BY <1>1 DEF Startable
  <2> QED BY <2>1 DEF Inv
<1> QED BY <1>1, <1>2, <1>3, <1>4 DEF Inv

LEMMA SpawnType ==
  ASSUME Types, task' = task \/ \E ts : Spawn(ts)
  PROVE  /\ task' \in [Tasks -> {"none", "ended"} \cup Going]
         /\ \A t \in Tasks : task[t] \in Going => task'[t] \in Going
BY DEF Types, Spawn, Going

LEMMA WakeType ==
  ASSUME Types, task' = task \/ \E ts : Wake(ts)
  PROVE  /\ task' \in [Tasks -> {"none", "ended"} \cup Going]
         /\ \A t \in Tasks : task[t] \in Going => task'[t] \in Going
BY DEF Types, Wake, Going

LEMMA LoopsAreTasks == Loops \subseteq Tasks
BY DEF Loops, Tasks

\* How main moves in the loops over the plugins.
LEMMA Moves ==
  ASSUME Types, cfg' = cfg,
         \/ Advance /\ main.pc \in {"initialize", "register", "start"}
         \/ Abort
         \/ main' = [main EXCEPT !.pc = "aborted"]
         \/ main' = [main EXCEPT !.pc = "register", !.i = 1]
         \/ main' = [main EXCEPT !.pc = "start", !.i = 1]
         \/ main' = [main EXCEPT !.pc = "up"],
         task' \in [Tasks -> {"none", "ended"} \cup Going]
  PROVE  /\ Types' /\ main'.pc # "stop"
         /\ main'.flagged => main.flagged
<1>1. main \in [pc : Phases, i : Int, flagged : BOOLEAN] /\ Order' = Order
  BY SameOrder DEF Types
<1>2. CASE Advance /\ main.pc \in {"initialize", "register", "start"}
  <2>1. main.i >= 1 /\ main.i + 1 >= 1 /\ main.i + 1 \in Int
    BY <1>1, <1>2 DEF Types
  <2>2. /\ main' \in [pc : Phases, i : Int, flagged : BOOLEAN] /\ main'.i = main.i + 1
        /\ main'.pc = main.pc /\ main'.flagged = FALSE
    BY <1>1, <1>2, <2>1 DEF Advance
  <2> QED BY <1>2, <2>1, <2>2 DEF Types
<1>3. CASE Abort \/ main' = [main EXCEPT !.pc = "aborted"] \/ main' = [main EXCEPT !.pc = "up"]
  <2>1. /\ main' \in [pc : Phases, i : Int, flagged : BOOLEAN]
        /\ main'.pc \in {"aborted", "up"} /\ main'.flagged = main.flagged
    BY <1>1, <1>3 DEF Abort, Phases
  <2> QED BY <2>1 DEF Types
<1>4. CASE \/ main' = [main EXCEPT !.pc = "register", !.i = 1]
           \/ main' = [main EXCEPT !.pc = "start", !.i = 1]
  <2>1. /\ main' \in [pc : Phases, i : Int, flagged : BOOLEAN] /\ main'.i = 1
        /\ main'.pc \in {"register", "start"} /\ main'.flagged = main.flagged
    <3>1. 1 \in Int /\ {"register", "start"} \subseteq Phases
      BY DEF Phases
    <3> QED BY <1>1, <1>4, <3>1
  <2> QED BY <2>1 DEF Types
<1> QED BY <1>2, <1>3, <1>4

LEMMA EarlySteps ==
  ASSUME Inv, Initialise \/ RegisterAll \/ Up
  PROVE  Inv'
<1>1. ~main.flagged
  <2>1. CASE Initialise \/ RegisterAll
    <3>1. main.pc \in {"initialize", "register"}
      BY <2>1 DEF Initialise, RegisterAll, InitPersistence, InitVerifier, InitPublish,
           InitSubscriber, InitAccess, InitStatus, InitObservability, InitState, InitQuery,
           InitBackfill, InitPlain, Collect, RegisterPublish, RegisterSubscriber, RegisterAccess,
           RegisterStatus, RegisterQuery, RegisterNone, Register, Serve, At
    <3> QED BY <3>1 DEF Inv
  <2>2. CASE Up
    <3>1. main.i \in Int /\ Len(Order) \in Nat /\ main.i > Len(Order)
      BY <2>2, OrderFacts DEF Up, Inv, Types
    <3>2. ~(main.i <= Len(Order))
      BY <3>1
    <3> QED BY <3>2 DEF Inv
  <2> QED BY <2>1, <2>2
<1>2. cfg' = cfg /\ running' = running
  BY DEF Initialise, RegisterAll, InitPersistence, InitVerifier, InitPublish,
         InitSubscriber, InitAccess, InitStatus, InitObservability, InitState, InitQuery,
         InitBackfill, InitPlain, Collect, RegisterPublish, RegisterSubscriber, RegisterAccess,
         RegisterStatus, RegisterQuery, RegisterNone, Register, Serve, Up
<1>3. task' = task \/ \E ts : Spawn(ts)
  BY DEF Initialise, RegisterAll, InitPersistence, InitVerifier, InitPublish,
         InitSubscriber, InitAccess, InitStatus, InitObservability, InitState, InitQuery,
         InitBackfill, InitPlain, Collect, RegisterPublish, RegisterSubscriber, RegisterAccess,
         RegisterStatus, RegisterQuery, RegisterNone, Register, Serve, Up
<1>4. \/ Advance /\ main.pc \in {"initialize", "register", "start"}
      \/ Abort
      \/ main' = [main EXCEPT !.pc = "aborted"]
      \/ main' = [main EXCEPT !.pc = "register", !.i = 1]
      \/ main' = [main EXCEPT !.pc = "start", !.i = 1]
      \/ main' = [main EXCEPT !.pc = "up"]
  BY DEF Initialise, RegisterAll, InitPersistence, InitVerifier, InitPublish,
         InitSubscriber, InitAccess, InitStatus, InitObservability, InitState, InitQuery,
         InitBackfill, InitPlain, Collect, RegisterPublish, RegisterSubscriber, RegisterAccess,
         RegisterStatus, RegisterQuery, RegisterNone, Register, Serve, Up, At
<1>5. /\ task' \in [Tasks -> {"none", "ended"} \cup Going]
      /\ \A t \in Tasks : task[t] \in Going => task'[t] \in Going
  BY <1>3, SpawnType DEF Inv
<1>6. Types' /\ main'.pc # "stop" /\ ~main'.flagged
  BY <1>1, <1>2, <1>4, <1>5, Moves DEF Inv
<1> QED BY <1>1, <1>2, <1>5, <1>6, MainStep, LoopsAreTasks

\* The two steps of a start() with a loop.
LEMMA StartLoop ==
  ASSUME Inv, NEW p \in Loops, Startable(p), Start(p)
  PROVE  Inv'
<1>1. /\ main \in [pc : Phases, i : Int, flagged : BOOLEAN] /\ Order' = Order
      /\ cfg' = cfg /\ providers' = providers /\ Len(Order) \in Nat
      /\ main.pc = "start" /\ main.i <= Len(Order) /\ p = Order[main.i] /\ main.i >= 1
  BY SameOrder, OrderFacts DEF Inv, Types, Start, At, wiring
<1>2. CASE main.flagged
  <2>1. Advance /\ Spawn({p}) /\ running' = running
    BY <1>2 DEF Start
  <2>2. /\ task' \in [Tasks -> {"none", "ended"} \cup Going] /\ task'[p] = "spawned"
        /\ \A t \in Tasks : task[t] \in Going => task'[t] \in Going
    BY <2>1, SpawnType, LoopsAreTasks DEF Inv, Spawn
  <2>3. Types' /\ main'.pc # "stop"
    BY <1>1, <2>1, <2>2, Moves DEF Inv
  <2>4. main'.flagged = FALSE
    BY <1>1, <2>1 DEF Advance
  <2>5. FlagIsHonest'
    <3> SUFFICES ASSUME NEW q \in running \cap Loops PROVE task'[q] \in Going
      BY <2>1 DEF FlagIsHonest, Loops, Going
    <3>1. CASE q = p
      BY <2>2, <3>1 DEF Going
    <3>2. CASE q # p
      <4>1. task[q] \in Going
        BY <1>1, <3>2 DEF Inv, FlagIsHonest, Loops, Going, At
      <4> QED BY <2>2, <4>1, LoopsAreTasks
    <3> QED BY <3>1, <3>2
  <2> QED BY <1>1, <2>1, <2>3, <2>4, <2>5 DEF Inv
<1>3. CASE ~main.flagged
  <2>1. /\ main' = [main EXCEPT !.flagged = TRUE] /\ running' = running \cup {p} /\ task' = task
    BY <1>3 DEF Start
  <2>2. /\ main' \in [pc : Phases, i : Int, flagged : BOOLEAN] /\ main'.pc = "start"
        /\ main'.i = main.i /\ main'.flagged = TRUE
    BY <1>1, <2>1
  <2>3. Types'
    BY <1>1, <2>1, <2>2 DEF Inv, Types
  <2>4. FlagIsHonest'
    <3> SUFFICES ASSUME NEW q \in (running \cup {p}) \cap Loops
                 PROVE  task'[q] \in Going \/ (At("start", q)' /\ main'.flagged)
      BY <2>1 DEF FlagIsHonest, Loops, Going
    <3>1. CASE q = p
      BY <1>1, <2>2, <3>1 DEF At
    <3>2. CASE q # p
      BY <1>3, <2>1, <3>2 DEF Inv, FlagIsHonest, Loops, Going
    <3> QED BY <3>1, <3>2
  <2>5. Startable(Order[main.i])'
    <3>1. \A x : Enabled(x)' = Enabled(x)
      BY <1>1, SameOrder
    <3>2. Order'[main'.i] = p
      BY <1>1, <2>2
    <3> QED BY <1>1, <3>1, <3>2 DEF Startable
  <2> QED BY <1>1, <2>2, <2>3, <2>4, <2>5 DEF Inv
<1> QED BY <1>2, <1>3

\* Every other start(): at most a flag of a plugin without a watched loop.
LEMMA StartOther ==
  ASSUME Inv, NEW p, At("start", p), ~Startable(p), cfg' = cfg, Advance \/ Abort,
         running' = running \/ (running' = running \cup {p} /\ p \notin Loops),
         task' = task \/ \E ts : Spawn(ts)
  PROVE  Inv'
<1>1. /\ ~main.flagged /\ Order' = Order /\ p = Order[main.i] /\ main.i \in 1 .. Len(Order)
      /\ main.pc = "start"
  BY SameOrder, OrderFacts DEF Inv, Types, At
<1>2. /\ task' \in [Tasks -> {"none", "ended"} \cup Going]
      /\ \A t \in Tasks : task[t] \in Going => task'[t] \in Going
  BY SpawnType DEF Inv
<1>3. Types' /\ main'.pc # "stop" /\ ~main'.flagged
  BY <1>1, <1>2, Moves DEF Inv
<1>4. FlagIsHonest'
  <2> SUFFICES ASSUME NEW q \in running' \cap Loops PROVE task'[q] \in Going
    BY DEF FlagIsHonest, Loops, Going
  <2>1. q \in running /\ task[q] \in Going
    BY <1>1 DEF Inv, FlagIsHonest, Loops, Going
  <2> QED BY <1>2, <2>1, LoopsAreTasks
<1> QED BY <1>1, <1>3, <1>4 DEF Inv

LEMMA StartSteps ==
  ASSUME Inv, StartAll, ~Up
  PROVE  Inv'
<1>1. CASE StartPersistence \/ StartVerifier
  BY <1>1, StartLoop DEF StartPersistence, StartVerifier, Loops, Startable
<1>2. CASE StartObservability \/ StartState \/ StartBackfill
  <2>1. PICK p \in {"observability", "state", "backfill"} :
          (Start(p) /\ Startable(p)) \/ ((StartNothing(p) \/ StartFails(p)) /\ ~Startable(p))
    BY <1>2 DEF StartObservability, StartState, StartBackfill, Startable
  <2>2. CASE Start(p) /\ Startable(p)
    BY <2>2, StartLoop DEF Loops
  <2>3. CASE (StartNothing(p) \/ StartFails(p)) /\ ~Startable(p)
    BY <2>3, StartOther DEF StartNothing, StartFails
  <2> QED BY <2>1, <2>2, <2>3
<1>3. CASE StartPublish
  <2>1. ~Startable("publish") /\ "publish" \notin Loops
    BY DEF Startable, Loops
  <2>2. /\ At("start", "publish") /\ cfg' = cfg /\ (Advance \/ Abort)
        /\ running' = running \/ running' = running \cup {"publish"}
        /\ task' = task \/ \E ts : Spawn(ts)
    BY <1>3 DEF StartPublish
  <2> QED BY <2>1, <2>2, StartOther
<1>4. CASE StartSubscriber \/ StartAccess \/ StartStatus \/ StartQuery
  <2>1. PICK p \in {"subscriber", "access", "status", "query"} : StartPlain(p)
    BY <1>4 DEF StartSubscriber, StartAccess, StartStatus, StartQuery
  <2>2. ~Startable(p) /\ p \notin Loops
    BY DEF Startable, Loops
  <2>3. /\ At("start", p) /\ cfg' = cfg /\ Advance /\ task' = task
        /\ running' = running \/ running' = running \cup {p}
    BY <2>1 DEF StartPlain
  <2> QED BY <2>2, <2>3, StartOther
<1> QED BY <1>1, <1>2, <1>3, <1>4 DEF StartAll

LEMMA StopSteps ==
  ASSUME Inv, StopAll \/ Signal
  PROVE  Inv'
<1>0. /\ main \in [pc : Phases, i : Int, flagged : BOOLEAN] /\ Len(Order) \in Nat
      /\ main.pc \in {"up", "stop"} /\ ~main.flagged /\ cfg' = cfg /\ running' \subseteq running
  BY OrderFacts DEF Inv, Types, StopAll, Signal, StopSkips, StopPersistence, StopVerifier,
       StopPublish, StopSubscriber, StopAccess, StopStatus, StopObservability, StopState, StopQuery,
       StopBackfill, Stop, Exit, Turn
<1>1. task' = task \/ \E ts : Wake(ts)
  BY DEF StopAll, Signal, StopSkips, StopPersistence, StopVerifier,
       StopPublish, StopSubscriber, StopAccess, StopStatus, StopObservability, StopState, StopQuery,
       StopBackfill, Stop, Exit
<1>2. /\ task' \in [Tasks -> {"none", "ended"} \cup Going]
      /\ \A t \in Tasks : task[t] \in Going => task'[t] \in Going
  BY <1>1, WakeType DEF Inv
<1>3. ASSUME Types', ~main'.flagged PROVE Inv'
  BY <1>0, <1>2, <1>3, MainStep, LoopsAreTasks
<1>4. CASE Signal
  <2>1. /\ main' \in [pc : Phases, i : Int, flagged : BOOLEAN] /\ main'.pc = "stop"
        /\ main'.i = Len(Order) /\ ~main'.flagged
    <3>1. Len(Order) \in Int /\ "stop" \in Phases
      BY <1>0 DEF Phases
    <3> QED BY <1>0, <1>4, <3>1 DEF Signal
  <2>2. main'.i <= Len(Order)
    BY <1>0, <2>1
  <2>3. Types'
    BY <1>0, <1>2, <2>1, <2>2, SameOrder DEF Types
  <2> QED BY <1>3, <2>1, <2>3
<1>5. CASE Exit
  <2>1. /\ main' \in [pc : Phases, i : Int, flagged : BOOLEAN] /\ main'.pc = "exited"
        /\ ~main'.flagged
    BY <1>0, <1>5 DEF Exit, Phases
  <2> QED BY <1>2, <1>3, <2>1 DEF Types
<1>6. ASSUME NEW p, Turn(p), Visited PROVE Inv'
  <2>1. main.pc = "stop" /\ p = Order[main.i] /\ main.i <= Len(Order)
    BY <1>6 DEF Turn, Inv, Types
  <2>2. main.i - 1 \in Int /\ main.i - 1 <= Len(Order)
    BY <1>0, <2>1
  <2>3. /\ main' \in [pc : Phases, i : Int, flagged : BOOLEAN] /\ main'.pc = "stop"
        /\ main'.i = main.i - 1 /\ ~main'.flagged
    BY <1>0, <1>6, <2>1, <2>2 DEF Visited
  <2>4. Types'
    BY <1>0, <1>2, <2>2, <2>3, SameOrder DEF Types
  <2> QED BY <1>3, <2>3, <2>4
<1>7. CASE StopSkips
  BY <1>0, <1>6, <1>7 DEF StopSkips
<1>8. ASSUME NEW p, NEW ts, Stop(p, ts) PROVE Inv'
  BY <1>6, <1>8 DEF Stop
<1>9. CASE StopPublish
  BY <1>6, <1>9 DEF StopPublish
<1> QED BY <1>4, <1>5, <1>7, <1>8, <1>9 DEF StopAll, StopPersistence, StopVerifier,
      StopSubscriber, StopAccess, StopStatus, StopObservability, StopState, StopQuery, StopBackfill

\* A loop that leaves takes the flag of its plugin with it.
LEMMA RuntimeSteps ==
  ASSUME Inv, Runtime
  PROVE  Inv'
<1>0. task \in [Tasks -> {"none", "ended"} \cup Going]
  BY DEF Inv, Types
<1>1. ASSUME NEW t \in Tasks, NEW from, Ends(t, from) PROVE Inv'
  <2>1. /\ UNCHANGED <<cfg, main, providers>> /\ running' = running \ {t}
        /\ task' = [task EXCEPT ![t] = "ended"]
    BY <1>1 DEF Ends, Goes
  <2>2. task' \in [Tasks -> {"none", "ended"} \cup Going]
    BY <1>0, <2>1
  <2>3. \A u \in Loops : u \in running' /\ task[u] \in Going => task'[u] \in Going
    BY <1>0, <2>1, LoopsAreTasks
  <2> QED BY <2>1, <2>2, <2>3, TaskStep
<1>2. ASSUME NEW t \in Tasks, NEW from, NEW to \in {"ended"} \cup Going, Goes(t, from, to),
             running' = running, t \in Loops => to \in Going
      PROVE  Inv'
  <2>1. /\ UNCHANGED <<cfg, main, providers>> /\ task' = [task EXCEPT ![t] = to]
    BY <1>2 DEF Goes
  <2>2. task' \in [Tasks -> {"none", "ended"} \cup Going]
    BY <1>0, <2>1
  <2>3. \A u \in Loops : u \in running' /\ task[u] \in Going => task'[u] \in Going
    BY <1>0, <1>2, <2>1, LoopsAreTasks
  <2> QED BY <1>2, <2>1, <2>2, <2>3, TaskStep
<1>3. CASE RegisterReader \/ RegisterVerified
  BY <1>2, <1>3 DEF RegisterReader, RegisterVerified, Tasks, Loops
<1>4. CASE \/ VerifierLoop \/ BackfillLoop \/ ArchiverLoop \/ CleanupLoop
           \/ \E t \in Tasks : Works(t)
  BY <1>2, <1>4 DEF VerifierLoop, BackfillLoop, ArchiverLoop, CleanupLoop, Loop, Works, Turns,
                    Tasks, Going
<1>5. CASE PersistenceLoop \/ StateLoop \/ ObservabilityServes
  BY <1>1, <1>2, <1>5 DEF PersistenceLoop, StateLoop, ObservabilityServes, Loop, Turns, Tasks, Going
<1>6. CASE GrpcServes
  BY <1>2, <1>6 DEF GrpcServes, Turns, Tasks, Going, Loops
<1>7. CASE StateHalts \/ \E t \in Tasks : Leaves(t)
  BY <1>1, <1>7 DEF StateHalts, Leaves, Tasks
<1>8. ASSUME NEW a, NEW b, Publisher(a, b) PROVE Inv'
  BY <1>0, <1>8, TaskStep DEF Publisher, wiring
<1> QED BY <1>3, <1>4, <1>5, <1>6, <1>7, <1>8 DEF Runtime

LEMMA InvAlways == Spec => []Inv
<1>1. Inv /\ [Next]_vars => Inv'
  <2> SUFFICES ASSUME Inv, [Next]_vars PROVE Inv'
    OBVIOUS
  <2>1. CASE UNCHANGED vars
    <3>1. UNCHANGED <<cfg, main, providers, running, task>>
      BY <2>1 DEF vars
    <3> QED BY <3>1, TaskStep DEF Inv, Types
  <2>2. CASE Main
    BY <2>2, EarlySteps, StartSteps, StopSteps DEF Main, StartAll
  <2> QED BY <2>1, <2>2, StopSteps, RuntimeSteps DEF Next
<1> QED BY <1>1, InvInit, PTL DEF Spec

\* A plugin with a loop that says it is running has a loop that has not ended,
\* in every configuration and however soon the loop ends (start, is_running).
THEOREM FlagAlwaysHonest == Spec => []FlagIsHonest
<1>1. Inv => FlagIsHonest
  BY DEF Inv
<1> QED BY <1>1, InvAlways, PTL

-----------------------------------------------------------------------------
(* Readiness *)

\* The reader is provided and the enabled block services are in the routes of
\* a spawned server.
Served ==
  /\ "reader" \in providers
  /\ \A p \in BlockServices : Enabled(p) => p \in services /\ task["grpc"] # "none"

\* How far the wiring is in each phase.  Once the start loop runs everything is
\* served, and the HTTP server is not spawned before.
Wired ==
  /\ main.pc = "initialize" => main.i = 1 \/ "reader" \in providers
  /\ main.pc = "register" =>
       /\ "reader" \in providers
       /\ \A j \in 1 .. main.i - 1 :
            Order[j] \in BlockServices /\ Enabled(Order[j]) => Order[j] \in services
  /\ main.pc \in {"start", "up", "stop"} => Served
  /\ task["observability"] # "none" => Served

\* Nothing is unregistered, and a task that was spawned stays so.
LEMMA Grows ==
  ASSUME Inv, [Next]_vars
  PROVE  /\ cfg' = cfg /\ providers \subseteq providers' /\ services \subseteq services'
         /\ \A t \in Tasks : task[t] # "none" => task'[t] # "none"
<1>0. task \in [Tasks -> {"none", "ended"} \cup Going]
  BY DEF Inv, Types
<1>1. CASE Main \/ Signal
  <2>1. cfg' = cfg /\ providers \subseteq providers' /\ services \subseteq services'
    <3>1. CASE Initialise \/ RegisterAll
      BY <3>1 DEF Initialise, RegisterAll, InitPersistence, InitVerifier, InitPublish,
           InitSubscriber, InitAccess, InitStatus, InitObservability, InitState, InitQuery,
           InitBackfill, InitPlain, Collect, RegisterPublish, RegisterSubscriber, RegisterAccess,
           RegisterStatus, RegisterQuery, RegisterNone, Register, Serve, wiring
    <3>2. CASE StartAll
      BY <3>2 DEF StartAll, StartPersistence, StartVerifier, StartPublish, StartSubscriber,
           StartAccess, StartStatus, StartObservability, StartState, StartQuery, StartBackfill,
           Up, Start, StartNothing, StartFails, StartPlain, wiring
    <3>3. CASE StopAll \/ Signal
      BY <3>3 DEF StopAll, Signal, StopSkips, StopPersistence, StopVerifier, StopPublish,
           StopSubscriber, StopAccess, StopStatus, StopObservability, StopState, StopQuery,
           StopBackfill, Stop, Exit, wiring
    <3> QED BY <1>1, <3>1, <3>2, <3>3 DEF Main
  <2>2. task' = task \/ (\E ts : Spawn(ts)) \/ (\E ts : Wake(ts))
    <3>1. CASE Initialise \/ RegisterAll
      BY <3>1 DEF Initialise, RegisterAll, InitPersistence, InitVerifier, InitPublish,
           InitSubscriber, InitAccess, InitStatus, InitObservability, InitState, InitQuery,
           InitBackfill, InitPlain, Collect, RegisterPublish, RegisterSubscriber, RegisterAccess,
           RegisterStatus, RegisterQuery, RegisterNone, Register, Serve
    <3>2. CASE StartAll
      BY <3>2 DEF StartAll, StartPersistence, StartVerifier, StartPublish, StartSubscriber,
           StartAccess, StartStatus, StartObservability, StartState, StartQuery, StartBackfill,
           Up, Start, StartNothing, StartFails, StartPlain
    <3>3. CASE StopAll \/ Signal
      BY <3>3 DEF StopAll, Signal, StopSkips, StopPersistence, StopVerifier, StopPublish,
           StopSubscriber, StopAccess, StopStatus, StopObservability, StopState, StopQuery,
           StopBackfill, Stop, Exit
    <3> QED BY <1>1, <3>1, <3>2, <3>3 DEF Main
  <2>3. \A t \in Tasks : task[t] # "none" => task'[t] # "none"
    BY <1>0, <2>2 DEF Spawn, Wake
  <2> QED BY <2>1, <2>3
<1>2. ASSUME NEW t \in Tasks, NEW from, NEW to \in {"ended"} \cup Going, Goes(t, from, to)
      PROVE  /\ cfg' = cfg /\ providers \subseteq providers' /\ services \subseteq services'
             /\ \A u \in Tasks : task[u] # "none" => task'[u] # "none"
  BY <1>0, <1>2 DEF Goes, Going
<1>3. CASE Runtime
  <2>1. CASE \E a, b : Publisher(a, b)
    BY <2>1 DEF Publisher, wiring
  <2>2. CASE \E t \in Tasks : \E from, to : to \in {"ended"} \cup Going /\ Goes(t, from, to)
    BY <1>2, <2>2
  <2>3. (\E a, b : Publisher(a, b))
          \/ \E t \in Tasks : \E from, to : to \in {"ended"} \cup Going /\ Goes(t, from, to)
    BY <1>3 DEF Runtime, RegisterReader, RegisterVerified, PersistenceLoop, VerifierLoop,
         BackfillLoop, ArchiverLoop, CleanupLoop, StateLoop, StateHalts, ObservabilityServes,
         GrpcServes, Works, Leaves, Loop, Ends, Turns, Tasks, Going
  <2> QED BY <2>1, <2>2, <2>3
<1>4. CASE UNCHANGED vars
  BY <1>4 DEF vars, wiring
<1> QED BY <1>1, <1>3, <1>4 DEF Next

LEMMA ServedGrows ==
  ASSUME Inv, [Next]_vars, Served
  PROVE  Served'
<1>1. "grpc" \in Tasks /\ \A p : Enabled(p)' = Enabled(p)
  BY Grows, SameOrder DEF Tasks
<1> QED BY <1>1, Grows DEF Served

\* The HTTP server is spawned by the start loop and by nothing else.
LEMMA HttpFromStart ==
  ASSUME Inv, [Next]_vars, task["observability"] = "none", task'["observability"] # "none"
  PROVE  main.pc = "start"
<1>0. "observability" \in Tasks /\ task \in [Tasks -> {"none", "ended"} \cup Going]
  BY DEF Inv, Types, Tasks
<1>1. CASE Initialise \/ RegisterAll
  <2>1. task' = task \/ \E ts \in SUBSET {"archiver", "reader capability", "verified capability",
                                          "grpc"} : Spawn(ts)
    BY <1>1 DEF Initialise, RegisterAll, InitPersistence, InitVerifier, InitPublish,
         InitSubscriber, InitAccess, InitStatus, InitObservability, InitState, InitQuery,
         InitBackfill, InitPlain, Collect, RegisterPublish, RegisterSubscriber, RegisterAccess,
         RegisterStatus, RegisterQuery, RegisterNone, Register, Serve
  <2> QED BY <1>0, <2>1 DEF Spawn
<1>2. CASE StartAll
  BY <1>2 DEF StartAll, StartPersistence, StartVerifier, StartPublish, StartSubscriber,
       StartAccess, StartStatus, StartObservability, StartState, StartQuery, StartBackfill,
       Up, Start, StartNothing, StartFails, StartPlain, At
<1>3. CASE StopAll \/ Signal
  <2>1. task' = task \/ \E ts : Wake(ts)
    BY <1>3 DEF StopAll, Signal, StopSkips, StopPersistence, StopVerifier, StopPublish,
         StopSubscriber, StopAccess, StopStatus, StopObservability, StopState, StopQuery,
         StopBackfill, Stop, Exit
  <2> QED BY <1>0, <2>1 DEF Wake
<1>4. CASE Runtime
  <2>1. task' = task \/ \E t \in Tasks : \E from, to : from # "none" /\ Goes(t, from, to)
    BY <1>4 DEF Runtime, RegisterReader, RegisterVerified, PersistenceLoop, VerifierLoop,
         BackfillLoop, ArchiverLoop, CleanupLoop, StateLoop, StateHalts, ObservabilityServes,
         GrpcServes, Works, Leaves, Loop, Ends, Turns, Tasks, Publisher
  <2> QED BY <1>0, <2>1 DEF Goes
<1> QED BY <1>1, <1>2, <1>3, <1>4 DEF Next, Main, vars

\* A round of the registration loop adds the service of an enabled plugin: what
\* the services need was provided by persistence.
LEMMA RegisterServes ==
  ASSUME Inv, Wired, NEW p, NEW needs \in SUBSET {"reader", "state"}, Register(p, needs),
         p \in BlockServices => needs \subseteq {"reader"}, main'.pc = "register"
  PROVE  \A j \in 1 .. main'.i - 1 :
           Order[j] \in BlockServices /\ Enabled(Order[j]) => Order[j] \in services'
<1>1. /\ main.pc = "register" /\ p = Order[main.i] /\ "reader" \in providers
      /\ main \in [pc : Phases, i : Int, flagged : BOOLEAN] /\ main.i >= 1
  BY DEF Register, At, Wired, Inv, Types
<1>2. Advance /\ services' = IF Enabled(p) /\ needs \subseteq providers
                             THEN services \cup {p} ELSE services
  BY <1>1 DEF Register, Abort
<1>3. main'.i - 1 = main.i
  BY <1>1, <1>2 DEF Advance
<1> SUFFICES ASSUME NEW j \in 1 .. main.i, Order[j] \in BlockServices, Enabled(Order[j])
             PROVE  Order[j] \in services'
  BY <1>3
<1>4. CASE j = main.i
  BY <1>1, <1>2, <1>4
<1>5. CASE j # main.i
  <2>1. j \in 1 .. main.i - 1
    BY <1>1, <1>5
  <2> QED BY <1>1, <1>2, <2>1 DEF Wired
<1> QED BY <1>4, <1>5

LEMMA WiredStep ==
  ASSUME Inv, Wired, [Next]_vars
  PROVE  Wired'
<1>0. /\ main \in [pc : Phases, i : Int, flagged : BOOLEAN]
      /\ Order' = Order /\ \A p : Enabled(p)' = Enabled(p)
      /\ providers \subseteq providers' /\ services \subseteq services'
      /\ Len(Order) \in Nat /\ Len(Order) >= 1 /\ Order[1] = "persistence"
  BY Grows, SameOrder, OrderFacts DEF Inv, Types
<1>1. task'["observability"] # "none" => Served'
  BY HttpFromStart, ServedGrows DEF Wired
<1>2. CASE Initialise
  <2>1. CASE InitPersistence
    <3>1. \/ main'.pc = "aborted"
          \/ main'.pc = "initialize" /\ "reader" \in providers'
      BY <1>0, <2>1 DEF InitPersistence, Abort, Advance, At
    <3> QED BY <1>1, <3>1 DEF Wired
  <2>2. ASSUME NEW p, p # "persistence", At("initialize", p), Advance \/ Abort PROVE Wired'
    <3>1. "reader" \in providers'
      BY <1>0, <2>2 DEF At, Wired
    <3>2. main'.pc \in {"initialize", "aborted"}
      BY <1>0, <2>2 DEF At, Advance, Abort
    <3> QED BY <1>1, <3>1, <3>2 DEF Wired
  <2>3. CASE Collect
    <3>1. main.i # 1 /\ "reader" \in providers'
      BY <1>0, <2>3 DEF Collect, Wired
    <3>2. main'.pc = "aborted" \/ (main'.pc = "register" /\ main'.i = 1)
      BY <1>0, <2>3 DEF Collect
    <3>3. main'.i = 1 => 1 .. main'.i - 1 = {}
      OBVIOUS
    <3> QED BY <1>1, <3>1, <3>2, <3>3 DEF Wired
  <2> QED BY <1>2, <2>1, <2>2, <2>3 DEF Initialise, InitVerifier, InitPublish,
        InitSubscriber, InitAccess, InitStatus, InitObservability, InitState, InitQuery,
        InitBackfill, InitPlain
<1>3. CASE RegisterAll
  <2>0. main.pc = "register" /\ "reader" \in providers'
    BY <1>0, <1>3 DEF RegisterAll, RegisterPublish, RegisterSubscriber, RegisterAccess,
         RegisterStatus, RegisterQuery, RegisterNone, Register, Serve, At, Wired
  <2>1. ASSUME NEW p, NEW needs \in SUBSET {"reader", "state"}, Register(p, needs),
               p \in BlockServices => needs \subseteq {"reader"}
        PROVE  Wired'
    <3>1. main'.pc \in {"register", "aborted"}
      BY <1>0, <2>0, <2>1 DEF Register, Advance, Abort
    <3> QED BY <1>0, <1>1, <2>0, <2>1, <3>1, RegisterServes DEF Wired
  <2>2. CASE RegisterPublish \/ RegisterSubscriber \/ RegisterAccess \/ RegisterStatus
               \/ RegisterQuery
    BY <2>1, <2>2 DEF RegisterPublish, RegisterSubscriber, RegisterAccess, RegisterStatus,
         RegisterQuery, BlockServices
  <2>3. CASE RegisterNone
    <3>1. /\ main'.pc = "register" /\ main'.i - 1 = main.i /\ services' = services
          /\ main.i \in Int /\ Order[main.i] \notin BlockServices
      BY <1>0, <2>0, <2>3 DEF RegisterNone, At, Advance, wiring, BlockServices
    <3>2. ASSUME NEW j \in 1 .. main.i, Order[j] \in BlockServices, Enabled(Order[j])
          PROVE  Order[j] \in services
      <4>1. j \in 1 .. main.i - 1
        BY <3>1, <3>2
      <4> QED BY <2>0, <3>2, <4>1 DEF Wired
    <3> QED BY <1>0, <1>1, <2>0, <3>1, <3>2 DEF Wired
  <2>4. CASE Serve
    <3>1. main'.pc = "start" /\ main.i > Len(Order) /\ services' = services
          /\ Spawn(IF services = {} THEN {} ELSE {"grpc"})
      BY <1>0, <2>4 DEF Serve, wiring
    <3>2. ASSUME NEW p \in BlockServices, Enabled(p) PROVE p \in services
      <4>1. PICK j \in 1 .. Len(Order) : Order[j] = p
        BY OrderFacts
      <4>2. j \in 1 .. main.i - 1
        BY <1>0, <3>1
      <4> QED BY <2>0, <3>2, <4>1, <4>2 DEF Wired
    <3>3. services # {} => task'["grpc"] # "none"
      BY <3>1 DEF Spawn, Tasks
    <3>4. Served'
      BY <1>0, <2>0, <3>1, <3>2, <3>3 DEF Served
    <3> QED BY <3>1, <3>4 DEF Wired
  <2> QED BY <1>3, <2>2, <2>3, <2>4 DEF RegisterAll
<1>4. CASE StartAll \/ StopAll \/ Signal
  <2>1. main.pc \in {"start", "up", "stop"}
    BY <1>4 DEF StartAll, StartPersistence, StartVerifier, StartPublish, StartSubscriber,
         StartAccess, StartStatus, StartObservability, StartState, StartQuery, StartBackfill,
         Up, Start, StartNothing, StartFails, StartPlain, At, StopAll, Signal, StopSkips,
         StopPersistence, StopVerifier, StopPublish, StopSubscriber, StopAccess, StopStatus,
         StopObservability, StopState, StopQuery, StopBackfill, Stop, Exit, Turn
  <2>2. Served'
    BY <2>1, ServedGrows DEF Wired
  <2>3. main'.pc \notin {"initialize", "register"}
    BY <1>0, <1>4, <2>1 DEF StartAll, StartPersistence, StartVerifier, StartPublish,
         StartSubscriber, StartAccess, StartStatus, StartObservability, StartState, StartQuery,
         StartBackfill, Up, Start, StartNothing, StartFails, StartPlain, At, StopAll, Signal,
         StopSkips, StopPersistence, StopVerifier, StopPublish, StopSubscriber, StopAccess,
         StopStatus, StopObservability, StopState, StopQuery, StopBackfill, Stop, Exit,
         Advance, Abort, Visited
  <2> QED BY <2>2, <2>3 DEF Wired
<1>5. CASE Runtime \/ UNCHANGED vars
  <2>1. main' = main
    BY <1>5 DEF Runtime, RegisterReader, RegisterVerified, PersistenceLoop, VerifierLoop,
         BackfillLoop, ArchiverLoop, CleanupLoop, StateLoop, StateHalts, ObservabilityServes,
         GrpcServes, Works, Leaves, Loop, Ends, Turns, Goes, Publisher, vars
  <2> QED BY <1>0, <1>1, <2>1, ServedGrows DEF Wired
<1> QED BY <1>2, <1>3, <1>4, <1>5 DEF Next, Main

\* A node that answers READY serves: whatever is switched off or fails, and
\* however late the capability is registered by its own task, the reader is
\* provided and every enabled block service is routed (readiness_check, main.rs).
THEOREM ReadyAlwaysServed == Spec => []ReadyIsServed
<1>1. Init => Wired
  <2> SUFFICES ASSUME Init PROVE Wired
    OBVIOUS
  <2>1. main.pc = "initialize" /\ main.i = 1
    BY DEF Init
  <2>2. task["observability"] = "none"
    BY DEF Init, Tasks
  <2> QED BY <2>1, <2>2 DEF Wired
<1>2. Wired => ReadyIsServed
  BY DEF Wired, ReadyIsServed, Served, BlockServices
<1> QED BY <1>1, <1>2, WiredStep, InvAlways, PTL DEF Spec
=============================================================================
