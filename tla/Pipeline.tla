------------------------------ MODULE Pipeline ------------------------------
(***************************************************************************)
(* A completed block on its way from the publish plugin to disk: the block *)
(* data cache (core/cache.rs), the verifier loop, the persistence loop,    *)
(* the capability by which the persistence plugin picks its input, the     *)
(* BlockPersisted event, and the state management plugin that consumes it. *)
(* A key is the cache key of one completed block ("claim check").          *)
(***************************************************************************)
EXTENDS Integers, Sequences

CONSTANTS Keys,              \* completed blocks
          BlockOf,           \* BlockOf[k]: block number of the event for k
          HeaderOf,          \* HeaderOf[k]: number in the first header of the block;
                             \* another one if its publisher sent a second header
          Bad,               \* keys whose data does not decode
          Capacity,          \* of the two mpsc channels and of the event bus
          Unlucky            \* keys that may stay in the pipeline longer than the
                             \* TTL, or meet a RocksDB error

ASSUME PipelineAssumption ==
  /\ BlockOf \in [Keys -> Nat] /\ HeaderOf \in [Keys -> Nat] /\ Capacity \in Nat \ {0}
  /\ Bad \subseteq Keys /\ Unlucky \subseteq Keys

VARIABLES
  cache,        \* keys in the BlockDataCache
  queued,       \* keys in its cleanup queue
  itemsCh,      \* BlockItemsReceived channel
  verifiedCh,   \* BlockVerified channel
  capability,   \* ProvidesVerifiedBlocks: the verifier plugin is disabled, has
                \* not registered it yet, or has
  verifier,     \* the verifier loop: key it holds
  pers,         \* the persistence loop: where it is, its input, key it holds
  state,        \* the state management loop
  offered, failed, announced, stored, applied   \* histories

channels == <<itemsCh, verifiedCh>>
vars == <<cache, queued, channels, capability, verifier, pers, state,
          offered, failed, announced, stored, applied>>

NoKey == "no key"
Idle == [pc |-> "idle", k |-> NoKey]

\* All plugins are initialized and started; their tasks have not run yet.
Init ==
  /\ cache = {} /\ queued = {}
  /\ itemsCh = <<>> /\ verifiedCh = <<>>
  /\ capability \in {"disabled", "pending"}
  /\ verifier = Idle
  /\ pers = [pc |-> "starting", verified |-> FALSE, k |-> NoKey]
  /\ state = [pc |-> "starting", last |-> -1, rx |-> <<>>, lagged |-> FALSE,
              k |-> NoKey, next |-> 0]
  /\ offered = {} /\ failed = {} /\ announced = {} /\ stored = {} /\ applied = <<>>

-----------------------------------------------------------------------------
(* The publish plugin (complete_block) and the cache *)

\* The loop that owns the items channel has ended.
ItemsClosed ==
  \/ verifier.pc = "stopped"
  \/ capability = "disabled" /\ pers.pc = "stopped"

\* cache.insert, then the event; the sender waits while the channel is full, and
\* fails when its receiver is gone: the entry is left to the cleanup.
Submit(k) ==
  /\ k \notin offered
  /\ cache' = cache \cup {k} /\ offered' = offered \cup {k}
  /\ \/ ~ItemsClosed /\ Len(itemsCh) < Capacity /\ itemsCh' = Append(itemsCh, k)
     \/ ItemsClosed /\ UNCHANGED itemsCh
  /\ UNCHANGED <<queued, verifiedCh, capability, verifier, pers, state,
                 failed, announced, stored, applied>>

\* mark_for_removal: gone at once, or queued if it is not there any more.
MarkForRemoval(k) ==
  /\ cache' = cache \ {k}
  /\ queued' = IF k \in cache THEN queued ELSE queued \cup {k}

\* The key is in a channel or in the hands of a loop.
InFlight(k) ==
  \/ \E i \in DOMAIN itemsCh : itemsCh[i] = k
  \/ \E i \in DOMAIN verifiedCh : verifiedCh[i] = k
  \/ k \in {verifier.k, pers.k}

\* BUG variant of Cleanup: entries older than the TTL are not evicted.
Cleanup_queue_only(stale) ==
  /\ cache' = cache \ queued
  /\ queued' = {}
  /\ UNCHANGED <<channels, capability, verifier, pers, state,
                 offered, failed, announced, stored, applied>>

\* The periodic task: the queue is drained, entries older than the TTL go.
Cleanup(stale) ==
  /\ stale \subseteq {k \in cache : k \in Unlucky \/ ~InFlight(k)}
  /\ cache' = (cache \ queued) \ stale
  /\ queued' = {}
  /\ UNCHANGED <<channels, capability, verifier, pers, state,
                 offered, failed, announced, stored, applied>>

-----------------------------------------------------------------------------
(* The verifier plugin *)

\* The task spawned by initialize() registers the capability.
Register ==
  /\ capability = "pending" /\ capability' = "registered"
  /\ UNCHANGED <<cache, queued, channels, verifier, pers, state,
                 offered, failed, announced, stored, applied>>

\* An event is taken and its data fetched; data that decodes is verified.
VerifierReceives ==
  /\ capability # "disabled" /\ verifier.pc = "idle" /\ itemsCh # <<>>
  /\ LET k == Head(itemsCh)
     IN  verifier' = [pc |-> IF k \in cache \ Bad THEN "send" ELSE "fail", k |-> k]
  /\ itemsCh' = Tail(itemsCh)
  /\ UNCHANGED <<cache, queued, verifiedCh, capability, pers, state,
                 offered, failed, announced, stored, applied>>

\* A failure is announced and the entry removed.
VerifierFails ==
  /\ verifier.pc = "fail" /\ verifier' = Idle
  /\ failed' = failed \cup {verifier.k} /\ MarkForRemoval(verifier.k)
  /\ UNCHANGED <<channels, capability, pers, state, offered, announced, stored, applied>>

\* BUG variant of VerifierSends: a closed channel is waited for, too.
VerifierSends_blocking ==
  /\ verifier.pc = "send" /\ verifier' = Idle
  /\ pers.pc # "stopped" /\ Len(verifiedCh) < Capacity
  /\ verifiedCh' = Append(verifiedCh, verifier.k)
  /\ UNCHANGED <<cache, queued, itemsCh, capability, pers, state,
                 offered, failed, announced, stored, applied>>

\* The verified event waits for room; if the persistence loop has ended, its
\* receiver is gone and the event is dropped with a warning.
VerifierSends ==
  /\ verifier.pc = "send" /\ verifier' = Idle
  /\ \/ /\ pers.pc # "stopped" /\ Len(verifiedCh) < Capacity
        /\ verifiedCh' = Append(verifiedCh, verifier.k)
     \/ pers.pc = "stopped" /\ UNCHANGED verifiedCh
  /\ UNCHANGED <<cache, queued, itemsCh, capability, pers, state,
                 offered, failed, announced, stored, applied>>

\* stop() wakes the loop where it waits for an event, and only there: it ends,
\* and the events in its channel are lost.
VerifierStops ==
  /\ capability # "disabled" /\ verifier.pc = "idle"
  /\ verifier' = [Idle EXCEPT !.pc = "stopped"] /\ itemsCh' = <<>>
  /\ UNCHANGED <<cache, queued, verifiedCh, capability, pers, state,
                 offered, failed, announced, stored, applied>>

-----------------------------------------------------------------------------
(* The persistence plugin's event loop *)

\* BUG variant of PersStarts: the loop always takes the verified stream.
PersStarts_verified_only ==
  /\ pers.pc = "starting"
  /\ pers' = [pers EXCEPT !.verified = TRUE, !.pc = "idle"]
  /\ UNCHANGED <<cache, queued, channels, capability, verifier, state,
                 offered, failed, announced, stored, applied>>

\* use_verified_stream is read once. If the capability is not there yet and
\* the verifier owns the items channel, the loop has no input and ends, and
\* its receiver is dropped with what it holds.
PersStarts ==
  /\ pers.pc = "starting"
  /\ pers' = [pers EXCEPT !.verified = (capability = "registered"),
                          !.pc = IF capability = "pending"
                                   THEN "stopped" ELSE "idle"]
  /\ verifiedCh' = IF pers'.pc = "stopped" THEN <<>> ELSE verifiedCh
  /\ UNCHANGED <<cache, queued, itemsCh, capability, verifier, state,
                 offered, failed, announced, stored, applied>>

\* process_event: an event is taken and its data fetched and decoded.
PersReceives ==
  LET ch == IF pers.verified THEN verifiedCh ELSE itemsCh
      k  == Head(ch)
  IN  /\ pers.pc = "idle" /\ ch # <<>>
      /\ pers' = [pers EXCEPT !.k = k,
                     !.pc = IF k \in cache \ Bad THEN "busy" ELSE "remove"]
      /\ IF pers.verified
           THEN verifiedCh' = Tail(ch) /\ UNCHANGED itemsCh
           ELSE itemsCh' = Tail(ch) /\ UNCHANGED verifiedCh
      /\ UNCHANGED <<cache, queued, capability, verifier, state,
                     offered, failed, announced, stored, applied>>

\* BUG variant of PersWrites: a failed write is announced like the others.
PersWrites_optimistic ==
  /\ pers.pc = "busy"
  /\ \/ stored' = stored \cup {HeaderOf[pers.k]}
     \/ pers.k \in Unlucky /\ UNCHANGED stored
  /\ pers' = [pers EXCEPT !.pc = "announce"]
  /\ UNCHANGED <<cache, queued, channels, capability, verifier, state,
                 offered, failed, announced, applied>>

\* service.write_block returns: the block is stored under the number in its
\* first header, which nobody compares with the number of the event.
PersWrites ==
  /\ pers.pc = "busy"
  /\ \/ /\ stored' = stored \cup {HeaderOf[pers.k]}
        /\ pers' = [pers EXCEPT !.pc = "announce"]
     \/ /\ pers.k \in Unlucky /\ UNCHANGED stored
        /\ pers' = [pers EXCEPT !.pc = "remove"]
  /\ UNCHANGED <<cache, queued, channels, capability, verifier, state,
                 offered, failed, announced, applied>>

\* tx_block_persisted.send: a receiver that is full loses its oldest event.
PersAnnounces ==
  LET full == Len(state.rx) = Capacity
  IN  /\ pers.pc = "announce"
      /\ pers' = [pers EXCEPT !.pc = "remove"]
      /\ announced' = announced \cup {pers.k}
      /\ state' = IF state.pc \in {"starting", "halted"} THEN state
                  ELSE [state EXCEPT
                          !.rx = Append(IF full THEN Tail(@) ELSE @, pers.k),
                          !.lagged = @ \/ full]
      /\ UNCHANGED <<cache, queued, channels, capability, verifier,
                     offered, failed, stored, applied>>

\* mark_for_removal follows whatever the outcome was.
PersRemoves ==
  /\ pers.pc = "remove" /\ pers' = [pers EXCEPT !.pc = "idle", !.k = NoKey]
  /\ MarkForRemoval(pers.k)
  /\ UNCHANGED <<channels, capability, verifier, state,
                 offered, failed, announced, stored, applied>>

\* stop(), as for the verifier; the receivers of both channels are dropped.
PersStops ==
  /\ pers.pc = "idle" /\ pers' = [pers EXCEPT !.pc = "stopped"]
  /\ verifiedCh' = <<>>
  /\ itemsCh' = IF capability = "disabled" THEN <<>> ELSE itemsCh
  /\ UNCHANGED <<cache, queued, capability, verifier, state,
                 offered, failed, announced, stored, applied>>

-----------------------------------------------------------------------------
(* The state management plugin's event loop (start_block_number = 0) *)

StateOnly == UNCHANGED <<channels, capability, verifier, pers,
                         offered, failed, announced, stored>>

\* The task subscribes to the bus; earlier events are not seen.
StateStarts ==
  /\ state.pc = "starting" /\ state' = [state EXCEPT !.pc = "idle"]
  /\ StateOnly /\ UNCHANGED <<cache, queued, applied>>

\* BUG variant of StateReceives: events of processed blocks are not skipped.
StateReceives_no_skip ==
  LET k == Head(state.rx)
      s == [state EXCEPT !.rx = Tail(@), !.k = k]
  IN  /\ state.pc = "idle" /\ state.rx # <<>>
      /\ state' = CASE state.lagged -> [state EXCEPT !.pc = "halted", !.rx = <<>>]
                    [] OTHER        -> [s EXCEPT !.pc = "catchup",
                                                 !.next = state.last + 1]
      /\ StateOnly /\ UNCHANGED <<cache, queued, applied>>

\* An event: behind, skipped; lagged, the loop ends; else the blocks before
\* it are caught up and then it is applied itself.
StateReceives ==
  LET k == Head(state.rx)
      s == [state EXCEPT !.rx = Tail(@), !.k = k]
  IN  /\ state.pc = "idle" /\ state.rx # <<>>
      /\ state' = CASE state.lagged -> [state EXCEPT !.pc = "halted", !.rx = <<>>]
                    [] ~state.lagged /\ BlockOf[k] <= state.last ->
                         [s EXCEPT !.k = NoKey]
                    [] OTHER -> [s EXCEPT !.pc = "catchup", !.next = state.last + 1]
      /\ StateOnly /\ UNCHANGED <<cache, queued, applied>>

\* One turn of the catch-up loop. The "break" on a block that cannot be read
\* leaves the inner loop only: the event itself is applied next.
StateCatchesUp ==
  LET b == state.next
  IN  /\ state.pc = "catchup"
      /\ \/ /\ b < BlockOf[state.k] /\ b \in stored
            /\ applied' = Append(applied, b) /\ state' = [state EXCEPT !.next = b + 1]
         \/ /\ b >= BlockOf[state.k] \/ b \notin stored \/ Unlucky # {}
            /\ UNCHANGED applied /\ state' = [state EXCEPT !.pc = "apply"]
      /\ StateOnly /\ UNCHANGED <<cache, queued>>

\* apply_state_from_block_event: the data comes from the cache; without it, or
\* when the state batch cannot be written, the loop ends.
StateApplies ==
  LET k == state.k
  IN  /\ state.pc = "apply"
      /\ \/ /\ k \in cache
            /\ applied' = Append(applied, BlockOf[k])
            /\ state' = [state EXCEPT !.pc = "idle", !.last = BlockOf[k], !.k = NoKey]
            /\ MarkForRemoval(k)
         \/ /\ k \notin cache \/ k \in Unlucky
            /\ state' = [state EXCEPT !.pc = "halted", !.rx = <<>>, !.k = NoKey]
            /\ UNCHANGED <<applied, cache, queued>>
      /\ StateOnly

-----------------------------------------------------------------------------
Verifier == VerifierReceives \/ VerifierFails \/ VerifierSends
Persister == PersStarts \/ PersReceives \/ PersWrites \/ PersAnnounces \/ PersRemoves
StatePlugin == StateStarts \/ StateReceives \/ StateCatchesUp \/ StateApplies

Next ==
  \/ \E k \in Keys : Submit(k)
  \/ \E stale \in SUBSET cache : Cleanup(stale)
  \/ Register \/ Verifier \/ Persister \/ StatePlugin
  \/ VerifierStops \/ PersStops

Spec == Init /\ [][Next]_vars

\* Tokio polls every task that can run; the cleanup task runs every 10 s and
\* evicts what is older than 60 s; publishers owe nothing, and nobody has to
\* stop the node.
Fairness ==
  /\ WF_vars(Register) /\ WF_vars(Verifier) /\ WF_vars(Persister) /\ WF_vars(StatePlugin)
  /\ \A k \in Keys : WF_vars(\E stale \in SUBSET cache : k \in stale /\ Cleanup(stale))
LiveSpec == Spec /\ Fairness

-----------------------------------------------------------------------------
\* BlockPersisted is sent only once the block can be read back, under the number
\* of its first header.  The state plugin holds state of a number that the store
\* does not have only if an event carried that number for a block with another
\* header.
AnnouncedIsStored ==
  /\ \A k \in announced : HeaderOf[k] \in stored
  /\ \A i \in DOMAIN applied :
       \/ applied[i] \in stored
       \/ \E k \in announced : BlockOf[k] = applied[i] /\ HeaderOf[k] # BlockOf[k]

\* However often a block is published and whatever the catch-up loop does, no
\* block is applied to the state twice, and none after a later one.
AppliedAscending ==
  \A i, j \in DOMAIN applied : i < j => applied[i] < applied[j]

\* No key is stuck in a channel or a loop, not even when the persistence loop
\* found no input and ended, or one of the loops was stopped.
NothingStuck == \A k \in Keys : InFlight(k) ~> ~InFlight(k)

\* The cache does not leak: every entry is removed in the end.
CacheDrains == \A k \in Keys : k \in cache ~> k \notin cache

\* A completed block that decodes and meets no error is persisted in the end,
\* with and without a verifier and whenever its capability is registered,
\* unless the persistence loop found no input when it started, or the node is
\* being shut down.
Delivered ==
  \A k \in Keys \ (Bad \cup Unlucky) :
    k \in offered ~> HeaderOf[k] \in stored \/ "stopped" \in {pers.pc, verifier.pc}

\* "The plugin must not halt if it falls behind the event stream": the state
\* plugin does not stop while blocks are persisted.
StateKeepsRunning == state.pc # "halted"
=============================================================================
