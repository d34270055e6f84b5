----------------------------- MODULE Subscriber -----------------------------
(***************************************************************************)
(* One subscriber session (rock-node-subscriber-plugin/session.rs) beside  *)
(* the writers of the store: the persistence loop, which announces what it *)
(* stores, and the backfill worker, which calls write_block and does not.  *)
(***************************************************************************)
EXTENDS Integers, Sequences

CONSTANTS Blocks,      \* block numbers that may be stored
          Forever,     \* u64::MAX, "no number" in a request
          Requests,    \* requests a client may make
          Lookahead,   \* max_future_block_lookahead
          Capacity,    \* of the broadcast channel
          CanFail      \* reads fail, clients leave, the server shuts down

ASSUME SubscriberAssumption ==
  /\ Blocks \subseteq Nat /\ Forever \in Nat /\ \A b \in Blocks : b < Forever
  /\ Requests \subseteq [start : Nat, end : Nat]
  /\ Lookahead \in Nat /\ Capacity \in Nat \ {0} /\ CanFail \in BOOLEAN

VARIABLES stored, earliest, latest,   \* the store, as BlockReader reports it
          writing,                    \* stored by the live loop, event not yet sent
          pc, req, next,              \* the session's control and its two locals
          rx, lagged,                 \* its broadcast receiver
          out, cause,                 \* blocks sent; why the session ended
          seen                        \* history: events sent since it subscribed

storeVars == <<stored, earliest, latest, writing>>
busVars == <<rx, lagged, seen>>
vars == <<storeVars, busVars, pc, req, next, out, cause>>

NoBlock == -1
Codes == {"Success", "InvalidStart", "InvalidEnd", "NotAvailable",
          "Persistence", "Timeout", "Shutdown", "Disconnected"}

TypeOK ==
  /\ stored \subseteq Blocks /\ writing \in Blocks \cup {NoBlock}
  /\ earliest \in Blocks \cup {NoBlock} /\ latest \in Blocks \cup {NoBlock}
  /\ pc \in {"start", "check", "send", "subscribe", "wait", "over"}
  /\ req \in Requests /\ next \in Nat
  /\ rx \in Seq(Blocks) /\ Len(rx) <= Capacity /\ lagged \in BOOLEAN
  /\ out \in Seq(Blocks) /\ cause \in Codes \cup {"none"} /\ seen \subseteq Blocks

Init ==
  /\ stored = {} /\ earliest = NoBlock /\ latest = NoBlock /\ writing = NoBlock
  /\ pc = "start" /\ req \in Requests /\ next = 0
  /\ rx = <<>> /\ lagged = FALSE /\ out = <<>> /\ cause = "none" /\ seen = {}

-----------------------------------------------------------------------------
(* The writers *)

\* What write_block leaves for readers: true_earliest is set by the first
\* write only, latest is the greatest number.
Store(b) ==
  /\ b \notin stored /\ stored' = stored \cup {b}
  /\ earliest' = IF earliest = NoBlock THEN b ELSE earliest
  /\ latest' = IF b > latest THEN b ELSE latest

LiveWrite(b) ==
  /\ writing = NoBlock /\ Store(b) /\ writing' = b
  /\ UNCHANGED <<busVars, pc, req, next, out, cause>>

\* BlockPersisted: a full receiver loses its oldest event and lags.
Announce ==
  LET full == Len(rx) = Capacity
  IN  /\ writing # NoBlock /\ writing' = NoBlock
      /\ IF pc = "wait"
           THEN /\ rx' = Append(IF full THEN Tail(rx) ELSE rx, writing)
                /\ lagged' = (lagged \/ full)
                /\ seen' = seen \cup {writing}
           ELSE UNCHANGED busVars
      /\ UNCHANGED <<stored, earliest, latest, pc, req, next, out, cause>>

Backfill(b) == Store(b) /\ UNCHANGED <<writing, busVars, pc, req, next, out, cause>>

-----------------------------------------------------------------------------
(* The session *)

End(code) == pc' = "over" /\ cause' = code /\ UNCHANGED next
Begin(b) == pc' = "check" /\ next' = b /\ UNCHANGED cause

\* validate_and_check_fulfillment, its returns in the order of the code.
Validate ==
  LET open == req.end = Forever
  IN  /\ pc = "start"
      /\ CASE req.start # Forever /\ ~open /\ req.start > req.end -> End("InvalidEnd")
           [] req.start = Forever /\ open ->
                Begin(IF earliest = NoBlock THEN 0 ELSE earliest)
           [] req.start = Forever /\ ~open ->
                IF earliest # NoBlock /\ earliest <= req.end
                  THEN Begin(earliest) ELSE End("NotAvailable")
           [] OTHER ->
                IF earliest # NoBlock /\ req.start < earliest THEN End("InvalidStart")
                ELSE IF latest # NoBlock /\ req.start > latest + Lookahead
                  THEN End("NotAvailable") ELSE Begin(req.start)
      /\ UNCHANGED <<storeVars, busVars, req, out>>

\* BUG variant of Check: the end is compared with >= instead of >.
Check_end_exclusive ==
  /\ pc = "check"
  /\ IF req.end # Forever /\ next >= req.end THEN End("Success")
     ELSE pc' = (IF next \in stored THEN "send" ELSE "subscribe") /\ UNCHANGED <<next, cause>>
  /\ UNCHANGED <<storeVars, busVars, req, out>>

\* BUG variant of Check: the newest block is left to the live stream.
Check_newest_is_live ==
  /\ pc = "check"
  /\ IF req.end # Forever /\ next > req.end THEN End("Success")
     ELSE pc' = (IF next \in stored /\ next < latest THEN "send" ELSE "subscribe")
          /\ UNCHANGED <<next, cause>>
  /\ UNCHANGED <<storeVars, busVars, req, out>>

\* process_next_block up to the read.
Check ==
  /\ pc = "check"
  /\ IF req.end # Forever /\ next > req.end THEN End("Success")
     ELSE pc' = (IF next \in stored THEN "send" ELSE "subscribe") /\ UNCHANGED <<next, cause>>
  /\ UNCHANGED <<storeVars, busVars, req, out>>

\* A watermark or the block cannot be read, or the block does not decode.
ReadFails ==
  /\ CanFail /\ pc \in {"start", "check", "send"} /\ End("Persistence")
  /\ UNCHANGED <<storeVars, busVars, req, out>>

\* BUG variant of Send: the loop goes on after the newest block it knows of.
Send_skips ==
  /\ pc = "send" /\ pc' = "check"
  /\ out' = Append(out, next) /\ next' = IF latest > next + 1 THEN latest ELSE next + 1
  /\ UNCHANGED <<storeVars, busVars, req, cause>>

\* send_block into the client's channel.
Send ==
  /\ pc = "send" /\ pc' = "check"
  /\ out' = Append(out, next) /\ next' = next + 1
  /\ UNCHANGED <<storeVars, busVars, req, cause>>

Disconnect ==
  /\ CanFail /\ pc = "send" /\ End("Disconnected")
  /\ UNCHANGED <<storeVars, busVars, req, out>>

\* wait_for_new_block: only now the session listens to the bus.
Subscribe ==
  /\ pc = "subscribe" /\ pc' = "wait"
  /\ rx' = <<>> /\ lagged' = FALSE /\ seen' = {}
  /\ UNCHANGED <<storeVars, req, next, out, cause>>

\* BUG variant of Receive: a lagged receiver goes on waiting.
Receive_ignores_lag ==
  /\ pc = "wait" /\ (lagged \/ rx # <<>>)
  /\ pc' = IF ~lagged /\ Head(rx) >= next THEN "check" ELSE "wait"
  /\ lagged' = FALSE /\ rx' = IF lagged THEN rx ELSE Tail(rx)
  /\ UNCHANGED <<storeVars, seen, req, next, out, cause>>

\* An event of the needed or a later block, or a lag, ends the wait.
Receive ==
  /\ pc = "wait" /\ (lagged \/ rx # <<>>)
  /\ pc' = IF lagged \/ Head(rx) >= next THEN "check" ELSE "wait"
  /\ lagged' = FALSE /\ rx' = IF lagged THEN <<>> ELSE Tail(rx)
  /\ UNCHANGED <<storeVars, seen, req, next, out, cause>>

\* session_timeout_seconds without an event.
Timeout ==
  /\ pc = "wait" /\ ~lagged /\ rx = <<>> /\ End("Timeout")
  /\ UNCHANGED <<storeVars, busVars, req, out>>

\* notify_waiters reaches a session inside the select! of execute_stream.
Shutdown ==
  /\ CanFail /\ pc \in {"check", "send", "wait"} /\ End("Shutdown")
  /\ UNCHANGED <<storeVars, busVars, req, out>>

-----------------------------------------------------------------------------
Session == \/ Validate \/ Check \/ ReadFails \/ Send \/ Disconnect
           \/ Subscribe \/ Receive \/ Timeout \/ Shutdown
Writers == (\E b \in Blocks : LiveWrite(b) \/ Backfill(b)) \/ Announce

Next == Session \/ Writers
Spec == Init /\ [][Next]_vars

\* The session's task and the live loop run, and the client reads its responses or
\* goes (send_block waits for room in a channel of 16); blocks need not arrive.
LiveSpec == Spec /\ WF_vars(Session) /\ WF_vars(Announce)

-----------------------------------------------------------------------------
\* Blocks are streamed in ascending order, each once, from the requested (or
\* an available) first block, without leaving one out, over any sequence of
\* historical reads, waits, lags and retries.
InOrder ==
  /\ \A i \in DOMAIN out : out[i] = out[1] + i - 1 /\ out[i] \in stored
  /\ out # <<>> /\ req.start # Forever => out[1] = req.start

\* SUCCESS is reported only after the last requested block was sent.
SuccessIsComplete ==
  cause = "Success" => /\ out # <<>> /\ out[Len(out)] = req.end
                       /\ req.start = Forever \/ Len(out) = req.end - req.start + 1

\* A wait does not time out when the event of the needed block was sent while
\* the session was subscribed, even if the receiver lagged.
NoMissedEvent == cause = "Timeout" => next \notin seen

\* A request for blocks that are all stored is answered completely: it does not
\* wait for events and never times out; only a read error, the client or a
\* shutdown can cut it short.
StoredRangeServed ==
  (/\ pc = "start" /\ req.start <= req.end /\ req.end # Forever
   /\ req.start >= earliest /\ req.start..req.end \subseteq stored)
     ~> cause \in {"Success", "Persistence", "Disconnected", "Shutdown"}
=============================================================================
