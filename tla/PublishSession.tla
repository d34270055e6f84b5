--------------------------- MODULE PublishSession ---------------------------
(***************************************************************************)
(* The publish plugin: concurrent publisher sessions (session_manager.rs,  *)
(* service.rs) that compete for blocks through SharedState (state.rs), and *)
(* the cleanup task (lib.rs).  A session handles one request at a time and *)
(* gives way at every await; the map operations are atomic.  What the      *)
(* verifier and persistence plugins do with a completed block is the       *)
(* environment here (Persist, VerificationFails, EventMissed) and is       *)
(* modelled in Pipeline.                                                   *)
(***************************************************************************)
EXTENDS Integers, Sequences, FiniteSets

CONSTANTS Sessions,       \* connections, each used once
          Blocks,         \* block numbers
          Offers,         \* Offers[s]: the blocks the publisher of s sends
          Threshold,      \* winner_cleanup_threshold_blocks
          MidBlock,       \* publishers may send a header inside a block
          Bad             \* blocks that may fail verification

NoOne == "no one"

ASSUME PublishAssumption ==
  /\ Blocks \subseteq Nat \ {0} /\ Threshold \in Nat
  /\ Offers \in [Sessions -> SUBSET Blocks]
  /\ MidBlock \in BOOLEAN /\ Bad \subseteq Blocks
  /\ NoOne \notin Sessions

VARIABLES
  sess,      \* sess[s]: the SessionManager and the task that runs it
  winners,   \* SharedState.block_winners
  latest,    \* SharedState.latest_persisted_block
  active,    \* keys of SharedState.active_sessions
  pipe,      \* completed blocks on their way through verifier and persistence
  stored,    \* blocks the persistence plugin has written
  sent,      \* history: responses put into each session's channel
  owed       \* history: blocks a session has left to another one and has not
             \* heard of since

shared == <<winners, latest, active, pipe>>
history == <<stored, sent, owed>>
vars == <<sess, shared, history>>

\* A session between two blocks, as reset_for_next_block leaves it.
Fresh == [pc |-> "ready", blk |-> 0, streaming |-> FALSE, buf |-> <<>>,
          hdr |-> 0, todo |-> {}, outcome |-> "none", affected |-> {}]

\* initialize() takes the latest block from the BlockReader, if there is one.
Init ==
  /\ sess = [s \in Sessions |-> [Fresh EXCEPT !.pc = "new"]]
  /\ winners = [b \in Blocks |-> NoOne]
  /\ latest \in Blocks \cup {-1}
  /\ stored = {b \in Blocks : b <= latest}
  /\ active = {} /\ pipe = {}
  /\ sent = [s \in Sessions |-> {}] /\ owed = [s \in Sessions |-> {}]

At(s, pc) == sess[s].pc = pc
Set(s, r) == sess' = [sess EXCEPT ![s] = r]
Goto(s, pc) == Set(s, [sess[s] EXCEPT !.pc = pc])

\* The response m is put into the channel of session s.
Send(s, m) == sent' = [sent EXCEPT ![s] = @ \cup {m}]

\* publish_block_stream: the session is registered and its task spawned.
Connect(s) ==
  /\ At(s, "new") /\ Set(s, Fresh)
  /\ active' = active \cup {s}
  /\ UNCHANGED <<winners, latest, pipe, history>>

-----------------------------------------------------------------------------
(* Requests.  A terminating action answers with EndStream and ends the loop  *)
(* of the session task, which goes to its cleanup.                           *)

Terminate(s) == Set(s, [sess[s] EXCEPT !.pc = "cleanup", !.hdr = 0]) /\ UNCHANGED <<shared, history>>

\* Another session holds the entry of the block in the header: it is left to
\* that session.  From here on the publisher is owed word of the block, unless
\* it has been acknowledged.  r has the number that SkipBlock will carry.
Lose(s, r) ==
  LET b == sess[s].hdr
  IN  /\ Set(s, [r EXCEPT !.pc = "skip"])
      /\ owed' = [owed EXCEPT ![s] = IF <<"ack", b>> \in sent[s] THEN @ ELSE @ \cup {b}]
      /\ UNCHANGED <<shared, stored, sent>>

\* handle_skip and handle_resend: SkipBlock or ResendBlock goes into the channel,
\* an await later than the decision, then the session is reset.
Reply(s) ==
  /\ sess[s].pc \in {"skip", "resend"}
  /\ Set(s, Fresh) /\ Send(s, <<sess[s].pc, sess[s].blk>>)
  /\ UNCHANGED <<shared, stored, owed>>

\* get_action_for_header compares the number with latest_persisted_block:
\* a block behind it, or a duplicate, ends the session.
Header(s, b) ==
  /\ At(s, "ready") /\ (MidBlock \/ ~sess[s].streaming)
  /\ \/ b <= latest /\ Terminate(s)
     \/ /\ b > latest
        /\ Set(s, [sess[s] EXCEPT !.pc = "look", !.hdr = b])
        /\ UNCHANGED <<shared, history>>

\* block_winners.get(): a second header for a block this session has won ends
\* the session, a block another session has won is skipped, a free one may be
\* won.  latest_persisted_block is not looked at again.
Look(s) ==
  LET b == sess[s].hdr
  IN  /\ At(s, "look")
      /\ \/ winners[b] = s /\ Terminate(s)
         \/ winners[b] \notin {s, NoOne} /\ Lose(s, [sess[s] EXCEPT !.blk = b])
         \/ winners[b] = NoOne /\ Goto(s, "elect") /\ UNCHANGED <<shared, history>>

\* complete_block: the buffer becomes a block under the number of the session,
\* handed to the verifier; if that channel is closed the session ends.
Complete(s, r) ==
  \/ /\ Set(s, [r EXCEPT !.pc = "sent", !.buf = <<>>])
     /\ pipe' = pipe \cup {[by |-> s, blk |-> r.blk, first |-> Head(r.buf)]}
  \/ Set(s, [r EXCEPT !.pc = "cleanup", !.buf = <<>>]) /\ UNCHANGED pipe

\* handle_accept: the items go into the buffer; a proof completes the block.
\* r is the session with the header of this request, if any, already buffered.
Accept(s, r) ==
  \/ Set(s, [r EXCEPT !.pc = "ready"]) /\ UNCHANGED pipe
  \/ Complete(s, r)

\* block_winners.entry(): a vacant entry is won and the items are accepted; an
\* entry taken since the first look is lost, with a SkipBlock that carries the
\* block number of before.
Elect(s) ==
  LET b == sess[s].hdr
      r == [sess[s] EXCEPT !.blk = b, !.streaming = TRUE, !.hdr = 0, !.buf = Append(@, b)]
  IN  /\ At(s, "elect")
      /\ \/ /\ winners[b] = NoOne
            /\ winners' = [winners EXCEPT ![b] = s]
            /\ Accept(s, r)
            /\ UNCHANGED <<latest, active, history>>
         \/ winners[b] # NoOne /\ Lose(s, sess[s])

\* Items without a header: an error without a current block or when the winner
\* entry is gone, a resend when another session has taken the block over.
Items(s) ==
  LET b == sess[s].blk
  IN  /\ At(s, "ready")
      /\ \/ ~sess[s].streaming /\ Terminate(s)
         \/ sess[s].streaming /\ winners[b] = NoOne /\ Terminate(s)
         \/ /\ sess[s].streaming /\ winners[b] \notin {s, NoOne}
            /\ Goto(s, "resend") /\ UNCHANGED <<shared, history>>
         \/ /\ sess[s].streaming /\ winners[b] = s
            /\ Accept(s, sess[s])
            /\ UNCHANGED <<winners, latest, active, history>>

\* handle_block_end: completes the current block without looking at the winner;
\* an error in any other state or for any other number.
BlockEnd(s, b) ==
  /\ At(s, "ready")
  /\ \/ ~(sess[s].streaming /\ sess[s].blk = b) /\ Terminate(s)
     \/ /\ sess[s].streaming /\ sess[s].blk = b
        /\ Complete(s, sess[s])
        /\ UNCHANGED <<winners, latest, active, history>>

\* A request that fails validation, EndStream, or the end of the connection.
Leave(s) == At(s, "ready") /\ Terminate(s)

-----------------------------------------------------------------------------
(* wait_for_verification_and_persistence.  The event receivers are created   *)
(* only after the block was handed over.                                     *)

Subscribe(s) == At(s, "sent") /\ Goto(s, "wait") /\ UNCHANGED <<shared, history>>

\* The session that waits for the completed block k, if it is subscribed.
Tell(k, outcome) ==
  sess' = [sess EXCEPT ![k.by] =
             IF At(k.by, "wait") THEN [@ EXCEPT !.outcome = outcome] ELSE @]

\* The persistence plugin writes the block under the number in its first item
\* and announces the number of the event.
Persist(k) ==
  /\ stored' = stored \cup {k.first}
  /\ pipe' = pipe \ {k} /\ Tell(k, "persisted")
  /\ UNCHANGED <<winners, latest, active, sent, owed>>

\* The block does not verify.
VerificationFails(k) ==
  /\ k.blk \in Bad
  /\ pipe' = pipe \ {k} /\ Tell(k, "failed")
  /\ UNCHANGED <<winners, latest, active, history>>

\* The block is persisted, or dropped by the pipeline, without the session
\* seeing it: its receiver has lagged, or the write failed.
EventMissed(k) ==
  /\ pipe' = pipe \ {k}
  /\ stored' \in {stored, stored \cup {k.first}}
  /\ UNCHANGED <<sess, winners, latest, active, sent, owed>>

\* BUG variant of OnPersisted: the block counts as persisted once handed over.
OnPersisted_eager(s) ==
  /\ At(s, "wait")
  /\ latest' = sess[s].blk
  /\ Set(s, [sess[s] EXCEPT !.pc = "ack", !.todo = active])
  /\ UNCHANGED <<winners, active, pipe, history>>

\* The persisted event: latest_persisted_block is stored, then every session is
\* acknowledged.
OnPersisted(s) ==
  /\ At(s, "wait") /\ sess[s].outcome = "persisted"
  /\ latest' = sess[s].blk
  /\ Set(s, [sess[s] EXCEPT !.pc = "ack", !.todo = active])
  /\ UNCHANGED <<winners, active, pipe, history>>

\* The failure event: BAD_BLOCK_PROOF to this session, then ResendBlock to the
\* others.
OnFailed(s) ==
  /\ At(s, "wait") /\ sess[s].outcome = "failed"
  /\ Set(s, [sess[s] EXCEPT !.pc = "failed", !.todo = active \ {s}])
  /\ UNCHANGED <<shared, history>>

Remove(b) == winners' = [winners EXCEPT ![b] = NoOne]

\* BUG variant of OnTimeout: the other sessions are not told.
OnTimeout_silent(s) ==
  /\ At(s, "wait") /\ sess[s].outcome = "none"
  /\ Remove(sess[s].blk)
  /\ Set(s, [sess[s] EXCEPT !.pc = "timedout", !.todo = {}])
  /\ UNCHANGED <<latest, active, pipe, history>>

\* No event within the timeout: the winner is removed first, then ResendBlock
\* goes to the others.
OnTimeout(s) ==
  /\ At(s, "wait") /\ sess[s].outcome = "none"
  /\ Remove(sess[s].blk)
  /\ Set(s, [sess[s] EXCEPT !.pc = "timedout", !.todo = active \ {s}])
  /\ UNCHANGED <<latest, active, pipe, history>>

\* One turn of a broadcast loop over active_sessions.
Deliver(s, t) ==
  LET m == <<IF At(s, "ack") THEN "ack" ELSE "resend", sess[s].blk>>
  IN  /\ sess[s].pc \in {"ack", "failed", "timedout", "dropped"}
      /\ t \in sess[s].todo
      /\ Set(s, [sess[s] EXCEPT !.todo = @ \ {t}])
      /\ IF t \in active
         THEN Send(t, m) /\ owed' = [owed EXCEPT ![t] = @ \ {sess[s].blk}]
         ELSE UNCHANGED <<sent, owed>>
      /\ UNCHANGED <<shared, stored>>

Delivered(s, pc) == At(s, pc) /\ sess[s].todo = {}

\* After the acknowledgements the winner is removed and the session is reset.
FinishAck(s) ==
  /\ Delivered(s, "ack") /\ Remove(sess[s].blk) /\ Set(s, Fresh)
  /\ UNCHANGED <<latest, active, pipe, history>>

\* After the ResendBlock broadcast of a failure the winner is removed.
FinishFailed(s) ==
  /\ Delivered(s, "failed") /\ Remove(sess[s].blk) /\ Goto(s, "cleanup")
  /\ UNCHANGED <<latest, active, pipe, history>>

FinishTimeout(s) ==
  /\ Delivered(s, "timedout") /\ Goto(s, "cleanup") /\ UNCHANGED <<shared, history>>

-----------------------------------------------------------------------------
(* The end of a session, and the cleanup task. *)

\* The blocks this session is still recorded for are collected.
Collect(s) ==
  /\ At(s, "cleanup")
  /\ Set(s, [sess[s] EXCEPT !.pc = "dropped", !.todo = {},
                             !.affected = {b \in Blocks : winners[b] = s}])
  /\ UNCHANGED <<shared, history>>

\* One affected block: its entry is removed, then ResendBlock goes to the
\* other sessions (blk is the loop's block_number).
DropWinner(s) ==
  /\ Delivered(s, "dropped")
  /\ \E b \in sess[s].affected :
       /\ Remove(b)
       /\ Set(s, [sess[s] EXCEPT !.blk = b, !.affected = @ \ {b}, !.todo = active \ {s}])
  /\ UNCHANGED <<latest, active, pipe, history>>

\* BUG variant of Close: the session unregisters before it has given its
\* blocks back.
Close_early(s) ==
  /\ Delivered(s, "dropped")
  /\ Goto(s, "closed") /\ active' = active \ {s}
  /\ UNCHANGED <<winners, latest, pipe, history>>

Close(s) ==
  /\ Delivered(s, "dropped") /\ sess[s].affected = {}
  /\ Goto(s, "closed") /\ active' = active \ {s}
  /\ UNCHANGED <<winners, latest, pipe, history>>

\* The periodic task: winners more than Threshold behind latest are dropped, and
\* with them what was owed for them.
CleanupWinners ==
  LET kept == {b \in Blocks : b >= latest - Threshold}
  IN  /\ latest > 0 /\ latest > Threshold
      /\ winners' = [b \in Blocks |-> IF b \in kept THEN winners[b] ELSE NoOne]
      /\ owed' = [s \in Sessions |-> owed[s] \cap kept]
      /\ UNCHANGED <<sess, latest, active, pipe, stored, sent>>

Request(s) ==
  \/ \E b \in Offers[s] : Header(s, b) \/ BlockEnd(s, b)
  \/ Items(s) \/ Leave(s)

\* The steps a session takes by itself.
Own(s) ==
  \/ Look(s) \/ Elect(s) \/ Reply(s) \/ Subscribe(s)
  \/ OnPersisted(s) \/ OnFailed(s) \/ OnTimeout(s)
  \/ \E t \in Sessions : Deliver(s, t)
  \/ FinishAck(s) \/ FinishFailed(s) \/ FinishTimeout(s)
  \/ Collect(s) \/ DropWinner(s) \/ Close(s)

Environment == \E k \in pipe : Persist(k) \/ VerificationFails(k) \/ EventMissed(k)

Next ==
  \/ \E s \in Sessions : Connect(s) \/ Request(s) \/ Own(s)
  \/ Environment \/ CleanupWinners

Spec == Init /\ [][Next]_vars

-----------------------------------------------------------------------------
(* Properties *)

Announced(r, b) == {s \in Sessions : <<r, b>> \in sent[s]}

\* No entry of block_winners outlives its session: a publisher that disconnects
\* at any point, also while its block is being verified, gives all its blocks
\* back before it is forgotten (service.rs, the end of the session task; section
\* 8.1 of docs/publisher/design-doc.md says that the entry stays for ever).
WinnerIsLive ==
  \A b \in Blocks : winners[b] # NoOne =>
    winners[b] \in active /\ ~At(winners[b], "closed")

\* An acknowledged block has been persisted under its own number.
AckIsStored == \A b \in Blocks : Announced("ack", b) # {} => b \in stored

\* Session s waits for word of block b, and t is about to send it.
Tells(t, s, b) ==
  sess[t].pc \in {"ack", "failed", "timedout", "dropped"} /\ sess[t].blk = b /\ s \in sess[t].todo

\* A publisher that is told to skip a block is not left alone with it, whoever
\* times out, disconnects or is overtaken by another session: until the block is
\* stored there is another session that holds it, or one whose broadcast of
\* ResendBlock is still to reach the publisher.  Blocks that fail verification and blocks the
\* cleanup task gave up are excepted.  The word may come before the SkipBlock
\* it answers: handle_skip awaits its turn in the channel after the decision.
SkippedIsNotLost ==
  \A s \in Sessions, b \in Blocks \ Bad :
    b \in owed[s] /\ sess[s].pc \notin {"timedout", "cleanup", "dropped", "closed"} =>
      b \in stored \/ winners[b] \notin {s, NoOne} \/ \E t \in Sessions : Tells(t, s, b)

\* "Someone else took over - shouldn't happen" (get_action_for_currently_streaming):
\* two sessions never produce the same block at the same time.
OneProducer ==
  \A s, t \in Sessions : \A b \in Blocks :
    /\ sess[s].streaming /\ sess[s].blk = b /\ sess[s].pc \in {"ready", "sent", "wait"}
    /\ sess[t].streaming /\ sess[t].blk = b /\ sess[t].pc \in {"ready", "sent", "wait"}
    => s = t
=============================================================================
