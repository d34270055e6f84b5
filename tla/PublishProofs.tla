--------------------------- MODULE PublishProofs ----------------------------
(***************************************************************************)
(* Elections and acknowledgements of the publish plugin for every number   *)
(* of sessions and blocks, every interleaving of their awaits, and every   *)
(* delay, loss or failure in the pipeline behind it.                       *)
(***************************************************************************)
EXTENDS PublishSession, SequenceTheorems, TLAPS

SessRecord == [pc : {"new", "ready", "look", "elect", "skip", "resend", "sent", "wait",
                     "ack", "failed", "timedout", "cleanup", "dropped", "closed"},
               blk : Blocks \cup {0}, streaming : BOOLEAN, buf : Seq(Blocks \cup {0}),
               hdr : Blocks \cup {0}, todo : SUBSET Sessions, affected : SUBSET Blocks,
               outcome : {"none", "persisted", "failed"}]

Types ==
  /\ sess \in [Sessions -> SessRecord]
  /\ \A s \in Sessions : sess[s].pc \in {"look", "elect"} => sess[s].hdr \in Blocks
  /\ winners \in [Blocks -> Sessions \cup {NoOne}]
  /\ active \subseteq Sessions
  /\ \A k \in pipe : k.by \in Sessions

\* A session that has a block is registered and open, and once it has collected
\* its blocks it gives each of them back.
Held ==
  \A s \in Sessions :
    /\ sess[s].pc \notin {"new", "closed"} => s \in active
    /\ \A b \in Blocks : winners[b] = s =>
         /\ sess[s].pc \notin {"new", "closed"}
         /\ sess[s].pc = "dropped" => b \in sess[s].affected

LiveInv == Types /\ Held

LEMMA FreshType == Fresh \in SessRecord /\ [Fresh EXCEPT !.pc = "new"] \in SessRecord
<1>1. <<>> \in Seq(Blocks \cup {0})
  OBVIOUS
<1> QED BY <1>1 DEF Fresh, SessRecord

LEMMA LiveInit == Init => LiveInv
<1> SUFFICES ASSUME Init PROVE LiveInv
  OBVIOUS
<1>1. \A s \in Sessions : sess[s] = [Fresh EXCEPT !.pc = "new"] /\ sess[s].pc = "new"
  BY DEF Init, Fresh
<1>2. Types
  BY <1>1, FreshType DEF Init, Types
<1>3. Held
  BY <1>1, PublishAssumption DEF Init, Held
<1> QED BY <1>2, <1>3 DEF LiveInv

\* A step of session s to the record r that gives no block to it.
LEMMA LiveStep ==
  ASSUME LiveInv, NEW s \in Sessions, NEW r \in SessRecord,
         sess' = [sess EXCEPT ![s] = r],
         r.pc \in {"look", "elect"} => r.hdr \in Blocks,
         sess[s].pc \notin {"new", "closed"}, r.pc \notin {"new", "closed"},
         r.pc = "dropped" => \A b \in Blocks : winners'[b] = s => b \in r.affected,
         winners' \in [Blocks -> Sessions \cup {NoOne}],
         \A b \in Blocks : winners'[b] \in {winners[b], NoOne},
         active' = active, \A k \in pipe' : k.by \in Sessions
  PROVE  LiveInv'
<1>1. /\ sess' \in [Sessions -> SessRecord] /\ sess'[s] = r
      /\ \A t \in Sessions : t # s => sess'[t] = sess[t]
  BY DEF LiveInv, Types
<1>2. Types'
  BY <1>1 DEF LiveInv, Types
<1>3. Held'
  <2> SUFFICES ASSUME NEW t \in Sessions
               PROVE  /\ sess'[t].pc \notin {"new", "closed"} => t \in active'
                      /\ \A b \in Blocks : winners'[b] = t =>
                           /\ sess'[t].pc \notin {"new", "closed"}
                           /\ sess'[t].pc = "dropped" => b \in sess'[t].affected
    BY DEF Held
  <2>1. CASE t = s
    BY <1>1, <2>1 DEF LiveInv, Held
  <2>2. CASE t # s
    BY <1>1, <2>2, PublishAssumption DEF LiveInv, Held
  <2> QED BY <2>1, <2>2
<1> QED BY <1>2, <1>3 DEF LiveInv

LEMMA RemoveType ==
  ASSUME winners \in [Blocks -> Sessions \cup {NoOne}], NEW b, Remove(b)
  PROVE  /\ winners' \in [Blocks -> Sessions \cup {NoOne}]
         /\ \A c \in Blocks : winners'[c] \in {winners[c], NoOne}
         /\ \A c \in Blocks : winners'[c] # NoOne => c # b /\ winners'[c] = winners[c]
BY DEF Remove

\* The record of a session that leaves its block to another one.
LEMMA LoseResult ==
  ASSUME NEW s, NEW q \in SessRecord, Lose(s, q)
  PROVE  \E r \in SessRecord : Set(s, r) /\ r.pc = "skip"
<1> DEFINE r == [q EXCEPT !.pc = "skip"]
<1>1. r \in SessRecord /\ r.pc = "skip"
  BY DEF SessRecord
<1>2. Set(s, r)
  BY DEF Lose
<1> HIDE DEF r
<1> QED BY <1>1, <1>2

\* The steps that end with a reset, an error or a plain change of the record.
LEMMA PlainSteps ==
  ASSUME LiveInv, NEW s \in Sessions,
         \/ \E b \in Offers[s] : Header(s, b)
         \/ Leave(s) \/ Look(s) \/ Reply(s) \/ Subscribe(s) \/ OnPersisted(s) \/ OnFailed(s)
         \/ \E t \in Sessions : Deliver(s, t)
         \/ FinishTimeout(s)
  PROVE  LiveInv'
<1>0. /\ sess[s] \in SessRecord /\ Offers[s] \subseteq Blocks /\ active \subseteq Sessions
      /\ winners \in [Blocks -> Sessions \cup {NoOne}] /\ \A k \in pipe : k.by \in Sessions
      /\ sess[s].pc = "elect" => sess[s].hdr \in Blocks
      /\ sess[s].pc = "look" => sess[s].hdr \in Blocks
  BY PublishAssumption DEF LiveInv, Types
<1>1. UNCHANGED <<winners, active, pipe>>
  BY DEF Header, Leave, Look, Reply, Subscribe, OnPersisted, OnFailed, Deliver, FinishTimeout,
         Terminate, Lose, shared
<1>2. ASSUME NEW r, Set(s, r), r \in SessRecord, sess[s].pc \notin {"new", "closed"},
             r.pc \in {"look", "elect"} => r.hdr \in Blocks,
             r.pc \notin {"new", "closed"},
             r.pc = "dropped" => sess[s].pc = "dropped" /\ r.affected = sess[s].affected
      PROVE  LiveInv'
  <2>1. r.pc = "dropped" => \A b \in Blocks : winners'[b] = s => b \in r.affected
    BY <1>1, <1>2 DEF LiveInv, Held
  <2> QED BY <1>0, <1>1, <1>2, <2>1, LiveStep DEF Set
<1>3. ASSUME Terminate(s), sess[s].pc \notin {"new", "closed"} PROVE LiveInv'
  <2> DEFINE r == [sess[s] EXCEPT !.pc = "cleanup", !.hdr = 0]
  <2>1. r \in SessRecord /\ r.pc = "cleanup" /\ Set(s, r)
    BY <1>0, <1>3 DEF Terminate, SessRecord
  <2> HIDE DEF r
  <2> QED BY <1>2, <1>3, <2>1
<1>4. ASSUME NEW b \in Offers[s], Header(s, b) PROVE LiveInv'
  <2>1. CASE Terminate(s)
    BY <1>3, <1>4, <2>1 DEF Header, At
  <2>2. CASE ~Terminate(s)
    <3> DEFINE r == [sess[s] EXCEPT !.pc = "look", !.hdr = b]
    <3>1. r \in SessRecord /\ r.pc = "look" /\ r.hdr \in Blocks /\ Set(s, r)
      BY <1>0, <1>4, <2>2 DEF Header, SessRecord
    <3> HIDE DEF r
    <3> QED BY <1>2, <1>4, <3>1 DEF Header, At
  <2> QED BY <2>1, <2>2
<1>5. CASE Leave(s)
  BY <1>3, <1>5 DEF Leave, At
<1>6. CASE Look(s)
  <2>1. CASE Terminate(s)
    BY <1>3, <1>6, <2>1 DEF Look, At
  <2>2. CASE Lose(s, [sess[s] EXCEPT !.blk = sess[s].hdr])
    <3>1. [sess[s] EXCEPT !.blk = sess[s].hdr] \in SessRecord
      BY <1>0 DEF SessRecord
    <3>2. PICK r \in SessRecord : Set(s, r) /\ r.pc = "skip"
      BY <2>2, <3>1, LoseResult
    <3> QED BY <1>2, <1>6, <3>2 DEF Look, At
  <2>3. CASE Goto(s, "elect")
    <3> DEFINE r == [sess[s] EXCEPT !.pc = "elect"]
    <3>1. r \in SessRecord /\ r.pc = "elect" /\ r.hdr \in Blocks /\ Set(s, r)
      BY <1>0, <1>6, <2>3 DEF Look, Goto, At, SessRecord
    <3> HIDE DEF r
    <3> QED BY <1>2, <1>6, <3>1 DEF Look, At
  <2> QED BY <1>6, <2>1, <2>2, <2>3 DEF Look
<1>7. CASE Subscribe(s) \/ FinishTimeout(s)
  <2>1. PICK p \in {"wait", "cleanup"} : Goto(s, p)
    BY <1>7 DEF Subscribe, FinishTimeout
  <2> DEFINE r == [sess[s] EXCEPT !.pc = p]
  <2>2. r \in SessRecord /\ r.pc = p /\ Set(s, r)
    BY <1>0, <2>1 DEF Goto, SessRecord
  <2> HIDE DEF r
  <2> QED BY <1>2, <1>7, <2>1, <2>2 DEF Subscribe, FinishTimeout, Delivered, At
<1>8. CASE OnPersisted(s) \/ OnFailed(s)
  <2>1. PICK p \in {"ack", "failed"}, T \in SUBSET Sessions :
          Set(s, [sess[s] EXCEPT !.pc = p, !.todo = T])
    BY <1>0, <1>8 DEF OnPersisted, OnFailed
  <2> DEFINE r == [sess[s] EXCEPT !.pc = p, !.todo = T]
  <2>2. r \in SessRecord /\ r.pc = p /\ Set(s, r)
    BY <1>0, <2>1 DEF SessRecord
  <2> HIDE DEF r
  <2> QED BY <1>2, <1>8, <2>1, <2>2 DEF OnPersisted, OnFailed, At
<1>9. ASSUME NEW t \in Sessions, Deliver(s, t) PROVE LiveInv'
  <2> DEFINE r == [sess[s] EXCEPT !.todo = @ \ {t}]
  <2>1. r \in SessRecord /\ r.pc = sess[s].pc /\ r.affected = sess[s].affected /\ Set(s, r)
    BY <1>0, <1>9 DEF Deliver, SessRecord
  <2>2. sess[s].pc \in {"ack", "failed", "timedout", "dropped"}
    BY <1>9 DEF Deliver
  <2> HIDE DEF r
  <2> QED BY <1>2, <2>1, <2>2
<1>10. CASE Reply(s)
  <2>1. Fresh.pc = "ready" /\ sess[s].pc \in {"skip", "resend"} /\ Set(s, Fresh)
    BY <1>10 DEF Fresh, Reply
  <2> QED BY <1>2, <2>1, FreshType
<1> QED BY <1>4, <1>5, <1>6, <1>7, <1>8, <1>9, <1>10

\* handle_accept and complete_block: the session goes on, waits or leaves.
LEMMA AcceptResult ==
  ASSUME NEW s, NEW q \in SessRecord, Accept(s, q) \/ Complete(s, q)
  PROVE  /\ \E r \in SessRecord : Set(s, r) /\ r.pc \in {"ready", "sent", "cleanup"}
         /\ \A k \in pipe' : k \in pipe \/ k.by = s
<1>0. <<>> \in Seq(Blocks \cup {0})
  OBVIOUS
<1>1. ASSUME NEW p \in {"sent", "cleanup"}
      PROVE  [q EXCEPT !.pc = p, !.buf = <<>>] \in SessRecord
             /\ [q EXCEPT !.pc = p, !.buf = <<>>].pc = p
  BY <1>0 DEF SessRecord
<1>2. [q EXCEPT !.pc = "ready"] \in SessRecord /\ [q EXCEPT !.pc = "ready"].pc = "ready"
  BY DEF SessRecord
<1>3. \E r \in SessRecord : Set(s, r) /\ r.pc \in {"ready", "sent", "cleanup"}
  BY <1>1, <1>2 DEF Accept, Complete
<1>4. \A k \in pipe' : k \in pipe \/ k.by = s
  BY DEF Accept, Complete
<1> QED BY <1>3, <1>4

\* The steps that take items or give a block back.
LEMMA BlockSteps ==
  ASSUME LiveInv, NEW s \in Sessions,
         \/ \E b \in Offers[s] : BlockEnd(s, b)
         \/ Items(s) \/ Elect(s) \/ OnTimeout(s) \/ FinishAck(s) \/ FinishFailed(s)
         \/ Collect(s) \/ DropWinner(s)
  PROVE  LiveInv'
<1>0. /\ sess[s] \in SessRecord /\ active \subseteq Sessions
      /\ sess \in [Sessions -> SessRecord]
      /\ winners \in [Blocks -> Sessions \cup {NoOne}] /\ \A k \in pipe : k.by \in Sessions
      /\ sess[s].pc = "elect" => sess[s].hdr \in Blocks
  BY DEF LiveInv, Types
<1>1. active' = active
  BY DEF BlockEnd, Items, Elect, OnTimeout, FinishAck, FinishFailed, Collect, DropWinner,
         Terminate, Lose, shared
<1>2. ASSUME NEW r, Set(s, r), r \in SessRecord, sess[s].pc \notin {"new", "closed"},
             r.pc \in {"ready", "skip", "resend", "sent", "ack", "timedout", "cleanup"},
             winners' = winners \/ Remove(sess[s].blk), \A k \in pipe' : k \in pipe \/ k.by = s
      PROVE  LiveInv'
  <2>1. /\ winners' \in [Blocks -> Sessions \cup {NoOne}]
        /\ \A b \in Blocks : winners'[b] \in {winners[b], NoOne}
    BY <1>0, <1>2, RemoveType
  <2>2. \A k \in pipe' : k.by \in Sessions
    BY <1>0, <1>2
  <2> QED BY <1>1, <1>2, <2>1, <2>2, LiveStep DEF Set
<1>3. ASSUME Terminate(s), sess[s].pc = "ready" PROVE LiveInv'
  <2> DEFINE r == [sess[s] EXCEPT !.pc = "cleanup", !.hdr = 0]
  <2>1. r \in SessRecord /\ r.pc = "cleanup" /\ Set(s, r) /\ winners' = winners /\ pipe' = pipe
    BY <1>0, <1>3 DEF Terminate, SessRecord, shared
  <2> HIDE DEF r
  <2> QED BY <1>2, <1>3, <2>1
<1>4. ASSUME Set(s, Fresh), sess[s].pc \notin {"new", "closed"}, pipe' = pipe,
             winners' = winners \/ Remove(sess[s].blk)
      PROVE  LiveInv'
  <2>1. Fresh.pc = "ready"
    BY DEF Fresh
  <2> QED BY <1>2, <1>4, <2>1, FreshType
<1>5. ASSUME Accept(s, sess[s]) \/ Complete(s, sess[s]), winners' = winners, sess[s].pc = "ready"
      PROVE  LiveInv'
  <2>1. PICK r \in SessRecord : Set(s, r) /\ r.pc \in {"ready", "sent", "cleanup"}
    BY <1>0, <1>5, AcceptResult
  <2>2. \A k \in pipe' : k \in pipe \/ k.by = s
    BY <1>0, <1>5, AcceptResult
  <2> QED BY <1>2, <1>5, <2>1, <2>2
<1>6. ASSUME NEW b \in Offers[s], BlockEnd(s, b) PROVE LiveInv'
  BY <1>3, <1>5, <1>6 DEF BlockEnd, At
<1>7. CASE Items(s)
  <2>1. CASE Goto(s, "resend") /\ UNCHANGED <<shared, history>>
    <3> DEFINE r == [sess[s] EXCEPT !.pc = "resend"]
    <3>1. r \in SessRecord /\ r.pc = "resend" /\ Set(s, r) /\ winners' = winners /\ pipe' = pipe
      BY <1>0, <2>1 DEF Goto, SessRecord, shared
    <3> HIDE DEF r
    <3> QED BY <1>2, <1>7, <3>1 DEF Items, At
  <2> QED BY <1>3, <1>5, <1>7, <2>1 DEF Items, At, shared
<1>8. CASE Elect(s)
  <2>1. CASE winners[sess[s].hdr] # NoOne
    <3>1. Lose(s, sess[s]) /\ sess[s].pc = "elect"
      BY <1>8, <2>1 DEF Elect, At
    <3>2. PICK r \in SessRecord : Set(s, r) /\ r.pc = "skip"
      BY <1>0, <3>1, LoseResult
    <3> QED BY <1>2, <3>1, <3>2 DEF Lose, shared
  <2>2. CASE winners[sess[s].hdr] = NoOne
    <3> DEFINE b == sess[s].hdr
               q == [sess[s] EXCEPT !.blk = b, !.streaming = TRUE, !.hdr = 0,
                                    !.buf = Append(@, b)]
    <3>1. b \in Blocks /\ sess[s].pc = "elect" /\ winners' = [winners EXCEPT ![b] = s] /\ Accept(s, q)
      BY <1>0, <1>8, <2>2 DEF Elect, At
    <3>2. q \in SessRecord
      <4>1. sess[s].buf \in Seq(Blocks \cup {0}) /\ b \in Blocks \cup {0}
        BY <1>0 DEF SessRecord
      <4>2. Append(sess[s].buf, b) \in Seq(Blocks \cup {0})
        BY <4>1
      <4> QED BY <1>0, <3>1, <4>2 DEF SessRecord
    <3> HIDE DEF q, b
    <3>3. PICK r \in SessRecord : Set(s, r) /\ r.pc \in {"ready", "sent", "cleanup"}
      BY <3>1, <3>2, AcceptResult
    <3>4. \A k \in pipe' : k.by \in Sessions
      BY <1>0, <3>1, <3>2, AcceptResult
    <3>5. /\ sess' \in [Sessions -> SessRecord] /\ sess'[s] = r
          /\ \A t \in Sessions : t # s => sess'[t] = sess[t]
      BY <1>0, <3>3 DEF Set
    <3>6. /\ winners' \in [Blocks -> Sessions \cup {NoOne}] /\ winners'[b] = s
          /\ \A c \in Blocks : c # b => winners'[c] = winners[c]
      BY <1>0, <3>1
    <3>7. Types'
      BY <1>1, <3>3, <3>4, <3>5, <3>6 DEF LiveInv, Types
    <3>8. Held'
      <4> SUFFICES ASSUME NEW t \in Sessions
                   PROVE  /\ sess'[t].pc \notin {"new", "closed"} => t \in active'
                          /\ \A c \in Blocks : winners'[c] = t =>
                               /\ sess'[t].pc \notin {"new", "closed"}
                               /\ sess'[t].pc = "dropped" => c \in sess'[t].affected
        BY DEF Held
      <4>1. CASE t = s
        BY <1>1, <3>1, <3>3, <3>5, <4>1 DEF LiveInv, Held
      <4>2. CASE t # s
        BY <1>1, <3>5, <3>6, <4>2 DEF LiveInv, Held
      <4> QED BY <4>1, <4>2
    <3> QED BY <3>7, <3>8 DEF LiveInv
  <2> QED BY <2>1, <2>2
<1>9. CASE OnTimeout(s)
  <2> DEFINE r == [sess[s] EXCEPT !.pc = "timedout", !.todo = active \ {s}]
  <2>1. r \in SessRecord /\ r.pc = "timedout" /\ Set(s, r)
    BY <1>0, <1>9 DEF OnTimeout, SessRecord
  <2> HIDE DEF r
  <2> QED BY <1>2, <1>9, <2>1 DEF OnTimeout, At
<1>10. CASE FinishAck(s)
  BY <1>4, <1>10 DEF FinishAck, Delivered, At
<1>11. CASE FinishFailed(s)
  <2> DEFINE r == [sess[s] EXCEPT !.pc = "cleanup"]
  <2>1. r \in SessRecord /\ r.pc = "cleanup" /\ Set(s, r)
    BY <1>0, <1>11 DEF FinishFailed, Goto, SessRecord
  <2> HIDE DEF r
  <2> QED BY <1>2, <1>11, <2>1 DEF FinishFailed, Delivered, At
<1>12. CASE Collect(s)
  <2> DEFINE B == {b \in Blocks : winners[b] = s}
             r == [sess[s] EXCEPT !.pc = "dropped", !.todo = {}, !.affected = B]
  <2>1. r \in SessRecord /\ r.pc = "dropped" /\ r.affected = B /\ Set(s, r)
    BY <1>0, <1>12 DEF Collect, SessRecord
  <2>2. winners' = winners /\ pipe' = pipe /\ sess[s].pc = "cleanup"
    BY <1>12 DEF Collect, At, shared
  <2>3. \A b \in Blocks : winners'[b] = s => b \in r.affected
    BY <2>1, <2>2
  <2> HIDE DEF r
  <2> QED BY <1>0, <1>1, <2>1, <2>2, <2>3, LiveStep DEF Set
<1>13. CASE DropWinner(s)
  <2>0. sess[s].pc = "dropped" /\ pipe' = pipe
    BY <1>13 DEF DropWinner, Delivered, At
  <2>1. PICK b \in sess[s].affected :
          /\ Remove(b)
          /\ Set(s, [sess[s] EXCEPT !.blk = b, !.affected = @ \ {b}, !.todo = active \ {s}])
    BY <1>13 DEF DropWinner
  <2> DEFINE r == [sess[s] EXCEPT !.blk = b, !.affected = @ \ {b}, !.todo = active \ {s}]
  <2>2. b \in Blocks
    BY <1>0 DEF SessRecord
  <2>3. r \in SessRecord /\ r.pc = "dropped" /\ r.affected = sess[s].affected \ {b} /\ Set(s, r)
    BY <1>0, <2>0, <2>1, <2>2 DEF SessRecord
  <2>4. /\ winners' \in [Blocks -> Sessions \cup {NoOne}]
        /\ \A c \in Blocks : winners'[c] \in {winners[c], NoOne}
        /\ \A c \in Blocks : winners'[c] # NoOne => c # b /\ winners'[c] = winners[c]
    BY <1>0, <2>1, RemoveType
  <2>5. \A c \in Blocks : winners'[c] = s => c \in r.affected
    BY <2>0, <2>3, <2>4, PublishAssumption DEF LiveInv, Held
  <2> HIDE DEF r
  <2> QED BY <1>0, <1>1, <2>0, <2>3, <2>4, <2>5, LiveStep DEF Set
<1> QED BY <1>6, <1>7, <1>8, <1>9, <1>10, <1>11, <1>12, <1>13

\* A session appears with no block and goes with none.
LEMMA EdgeSteps ==
  ASSUME LiveInv, NEW s \in Sessions, Connect(s) \/ Close(s)
  PROVE  LiveInv'
<1>0. sess[s] \in SessRecord /\ sess \in [Sessions -> SessRecord] /\ active \subseteq Sessions
  BY DEF LiveInv, Types
<1>1. PICK r \in SessRecord :
        /\ Set(s, r)
        /\ \/ r.pc = "ready" /\ active' = active \cup {s} /\ sess[s].pc = "new"
           \/ r.pc = "closed" /\ active' = active \ {s} /\ sess[s].pc = "dropped"
                /\ sess[s].affected = {}
  <2>1. CASE Connect(s)
    BY <2>1, FreshType DEF Connect, At, Fresh
  <2>2. CASE Close(s)
    <3> DEFINE r == [sess[s] EXCEPT !.pc = "closed"]
    <3>1. r \in SessRecord /\ r.pc = "closed" /\ Set(s, r)
      BY <1>0, <2>2 DEF Close, Goto, SessRecord
    <3> HIDE DEF r
    <3> QED BY <2>2, <3>1 DEF Close, Delivered, At
  <2> QED BY <2>1, <2>2
<1>2. /\ sess' \in [Sessions -> SessRecord] /\ sess'[s] = r
      /\ \A t \in Sessions : t # s => sess'[t] = sess[t]
  BY <1>0, <1>1 DEF Set
<1>3. winners' = winners /\ pipe' = pipe
  BY DEF Connect, Close
<1>4. Types'
  BY <1>0, <1>1, <1>2, <1>3 DEF LiveInv, Types
<1>5. Held'
  BY <1>1, <1>2, <1>3 DEF LiveInv, Held
<1> QED BY <1>4, <1>5 DEF LiveInv

\* The pipeline only changes the outcome of a session that waits; the cleanup
\* task only drops entries.
LEMMA OutsideSteps ==
  ASSUME LiveInv, Environment \/ CleanupWinners
  PROVE  LiveInv'
<1>0. sess \in [Sessions -> SessRecord] /\ winners \in [Blocks -> Sessions \cup {NoOne}]
  BY DEF LiveInv, Types
<1>1. active' = active /\ pipe' \subseteq pipe
  BY DEF Environment, Persist, VerificationFails, EventMissed, CleanupWinners
<1>2. /\ winners' \in [Blocks -> Sessions \cup {NoOne}]
      /\ \A b \in Blocks : winners'[b] \in {winners[b], NoOne}
  BY <1>0 DEF Environment, Persist, VerificationFails, EventMissed, CleanupWinners
<1>3. /\ sess' \in [Sessions -> SessRecord]
      /\ \A s \in Sessions : /\ sess'[s].pc = sess[s].pc /\ sess'[s].hdr = sess[s].hdr
                             /\ sess'[s].affected = sess[s].affected
  <2>1. ASSUME NEW k \in pipe, NEW o \in {"persisted", "failed"}, Tell(k, o)
        PROVE  /\ sess' \in [Sessions -> SessRecord]
               /\ \A s \in Sessions : /\ sess'[s].pc = sess[s].pc /\ sess'[s].hdr = sess[s].hdr
                                      /\ sess'[s].affected = sess[s].affected
    <3>1. k.by \in Sessions /\ sess[k.by] \in SessRecord
      BY <1>0, <2>1 DEF LiveInv, Types
    <3> DEFINE q == IF At(k.by, "wait") THEN [sess[k.by] EXCEPT !.outcome = o] ELSE sess[k.by]
    <3>2. /\ q \in SessRecord /\ q.pc = sess[k.by].pc /\ q.hdr = sess[k.by].hdr
          /\ q.affected = sess[k.by].affected
      <4>1. CASE At(k.by, "wait")
        <5>1. q = [sess[k.by] EXCEPT !.outcome = o]
          BY <4>1
        <5> HIDE DEF q
        <5> QED BY <3>1, <5>1 DEF SessRecord
      <4>2. CASE ~At(k.by, "wait")
        BY <3>1, <4>2
      <4> QED BY <4>1, <4>2
    <3>3. sess' = [sess EXCEPT ![k.by] = q]
      BY <2>1 DEF Tell
    <3> HIDE DEF q
    <3> QED BY <1>0, <3>1, <3>2, <3>3
  <2>2. CASE UNCHANGED sess
    BY <1>0, <2>2
  <2> QED BY <2>1, <2>2 DEF Environment, Persist, VerificationFails, EventMissed, CleanupWinners
<1>4. Types'
  BY <1>1, <1>2, <1>3 DEF LiveInv, Types
<1>5. Held'
  BY <1>1, <1>2, <1>3, PublishAssumption DEF LiveInv, Held
<1> QED BY <1>4, <1>5 DEF LiveInv

LEMMA LiveAlways == Spec => []LiveInv
<1>1. LiveInv /\ [Next]_vars => LiveInv'
  <2> SUFFICES ASSUME LiveInv, [Next]_vars PROVE LiveInv'
    OBVIOUS
  <2>1. CASE UNCHANGED vars
    BY <2>1 DEF vars, shared, LiveInv, Types, Held
  <2>2. ASSUME NEW s \in Sessions, Connect(s) \/ Request(s) \/ Own(s)
        PROVE  LiveInv'
    BY <2>2, PlainSteps, BlockSteps, EdgeSteps DEF Request, Own
  <2> QED BY <2>1, <2>2, OutsideSteps DEF Next
<1> QED BY <1>1, LiveInit, PTL DEF Spec

\* No entry of block_winners belongs to a session that is gone, whenever it went
\* (handle_header, the cleanup of a session in publish_block_stream).
THEOREM WinnerAlwaysLive == Spec => []WinnerIsLive
<1>1. LiveInv => WinnerIsLive
  BY DEF LiveInv, Types, Held, WinnerIsLive, At
<1> QED BY <1>1, LiveAlways, PTL

-----------------------------------------------------------------------------
(* Acknowledgements.  A publisher that sends no header inside a block has     *)
(* exactly that block in the buffer of its session, so what is written is     *)
(* what is acknowledged.                                                      *)

Responses == {"ack", "skip", "resend"} \X (Blocks \cup {0})

\* The record r of a session is sound when the blocks in S are stored.
SessOK(r, S) ==
  /\ r.pc \in {"new", "ready", "look", "elect"} =>
       r.buf = IF r.streaming THEN <<r.blk>> ELSE <<>>
  /\ r.pc \in {"look", "elect"} => ~r.streaming
  /\ r.pc \in {"new", "ready", "look", "elect", "sent"} => r.outcome = "none"
  /\ r.pc = "wait" /\ r.outcome = "persisted" => r.blk \in S
  /\ r.pc = "ack" => r.blk \in S
  /\ r.pc = "wait" /\ r.outcome = "failed" => r.blk \in Bad
  /\ r.pc = "failed" => r.blk \in Bad

\* The completed block k and the record r of the session that completed it.
PipeOK(k, r) ==
  /\ r.pc \in {"sent", "wait", "timedout", "cleanup", "dropped", "closed"}
  /\ r.pc \in {"sent", "wait"} => k.blk = r.blk /\ k.first = r.blk /\ r.outcome = "none"

SentOK ==
  /\ sent \in [Sessions -> SUBSET Responses]
  /\ \A s \in Sessions, b \in Blocks \cup {0} : <<"ack", b>> \in sent[s] => b \in stored

AckInv ==
  /\ \A s \in Sessions : SessOK(sess[s], stored)
  /\ \A k \in pipe : PipeOK(k, sess[k.by])
  /\ \A k, l \in pipe : k.by = l.by => k = l
  /\ SentOK

LEMMA AckInit == Init => AckInv
<1> SUFFICES ASSUME Init PROVE AckInv
  OBVIOUS
<1>1. \A s \in Sessions : sess[s] = [Fresh EXCEPT !.pc = "new"]
  BY DEF Init
<1>2. SessOK([Fresh EXCEPT !.pc = "new"], stored)
  BY DEF SessOK, Fresh
<1>3. SentOK
  BY DEF Init, SentOK
<1> QED BY <1>1, <1>2, <1>3 DEF Init, AckInv

LEMMA FreshOK == SessOK(Fresh, stored)
BY DEF SessOK, Fresh

\* Only a stored block is acknowledged.
LEMMA SendOK ==
  ASSUME SentOK, NEW t \in Sessions, NEW x \in {"ack", "skip", "resend"},
         NEW b \in Blocks \cup {0}, x = "ack" => b \in stored,
         Send(t, <<x, b>>), stored' = stored
  PROVE  SentOK'
<1>1. <<x, b>> \in Responses
  BY DEF Responses
<1>2. /\ sent' \in [Sessions -> SUBSET Responses]
      /\ \A u \in Sessions : u # t => sent'[u] = sent[u]
      /\ sent'[t] = sent[t] \cup {<<x, b>>}
  BY <1>1 DEF SentOK, Send
<1>3. ASSUME NEW u \in Sessions, NEW c \in Blocks \cup {0}, <<"ack", c>> \in sent'[u]
      PROVE  c \in stored
  <2>1. CASE <<"ack", c>> \in sent[u]
    BY <2>1 DEF SentOK
  <2>2. CASE <<"ack", c>> = <<x, b>>
    BY <2>2
  <2> QED BY <1>2, <1>3, <2>1, <2>2
<1> QED BY <1>2, <1>3 DEF SentOK

\* A step of session s to the record r that hands nothing over.
LEMMA AckStep ==
  ASSUME LiveInv, AckInv, NEW s \in Sessions, NEW r, Set(s, r), SessOK(r, stored),
         \A k \in pipe : k.by = s => PipeOK(k, r),
         stored' = stored, pipe' = pipe, SentOK'
  PROVE  AckInv'
<1>1. sess'[s] = r /\ \A t \in Sessions : t # s => sess'[t] = sess[t]
  BY DEF LiveInv, Types, Set
<1>2. \A t \in Sessions : SessOK(sess'[t], stored')
  BY <1>1 DEF AckInv
<1>3. \A k \in pipe' : PipeOK(k, sess'[k.by])
  BY <1>1 DEF AckInv, LiveInv, Types
<1> QED BY <1>2, <1>3 DEF AckInv

\* Nothing of a session that is between two blocks is in the pipeline.
LEMMA NothingInPipe ==
  ASSUME AckInv, NEW s \in Sessions,
         \/ sess[s].pc \in {"new", "ready", "look", "elect", "skip", "resend", "ack", "failed"}
         \/ sess[s].pc = "wait" /\ sess[s].outcome # "none"
  PROVE  \A k \in pipe : k.by # s
BY DEF AckInv, PipeOK

LEMMA HandOver ==
  ASSUME LiveInv, AckInv, NEW s \in Sessions, sess[s].pc \in {"ready", "elect"},
         NEW q \in SessRecord, q.buf = <<q.blk>>, q.streaming = TRUE, q.outcome = "none",
         Accept(s, q) \/ Complete(s, q), UNCHANGED <<stored, sent>>
  PROVE  AckInv'
<1>0. (\A k \in pipe : k.by # s) /\ SentOK'
  BY NothingInPipe DEF AckInv, SentOK
<1>1. CASE Set(s, [q EXCEPT !.pc = "ready"]) /\ UNCHANGED pipe
  <2> DEFINE r == [q EXCEPT !.pc = "ready"]
  <2>1. SessOK(r, stored)
    BY DEF SessOK, SessRecord
  <2> HIDE DEF r
  <2> QED BY <1>0, <1>1, <2>1, AckStep DEF r
<1>2. CASE Set(s, [q EXCEPT !.pc = "cleanup", !.buf = <<>>]) /\ UNCHANGED pipe
  <2> DEFINE r == [q EXCEPT !.pc = "cleanup", !.buf = <<>>]
  <2>1. SessOK(r, stored)
    BY DEF SessOK, SessRecord
  <2> HIDE DEF r
  <2> QED BY <1>0, <1>2, <2>1, AckStep DEF r
<1>3. CASE /\ Set(s, [q EXCEPT !.pc = "sent", !.buf = <<>>])
           /\ pipe' = pipe \cup {[by |-> s, blk |-> q.blk, first |-> Head(q.buf)]}
  <2> DEFINE r == [q EXCEPT !.pc = "sent", !.buf = <<>>]
             n == [by |-> s, blk |-> q.blk, first |-> Head(q.buf)]
  <2>1. SessOK(r, stored) /\ r.pc = "sent" /\ r.blk = q.blk /\ r.outcome = "none"
    BY DEF SessOK, SessRecord
  <2>2. n.by = s /\ n.blk = q.blk /\ n.first = q.blk
    OBVIOUS
  <2>3. sess' = [sess EXCEPT ![s] = r] /\ pipe' = pipe \cup {n}
    BY <1>3 DEF Set
  <2> HIDE DEF r, n
  <2>4. sess'[s] = r /\ \A t \in Sessions : t # s => sess'[t] = sess[t]
    BY <2>3 DEF LiveInv, Types
  <2>5. \A t \in Sessions : SessOK(sess'[t], stored')
    BY <2>1, <2>4 DEF AckInv
  <2>6. \A k \in pipe' : PipeOK(k, sess'[k.by])
    <3>1. PipeOK(n, sess'[n.by])
      BY <2>1, <2>2, <2>4 DEF PipeOK
    <3>2. \A k \in pipe : PipeOK(k, sess'[k.by])
      BY <1>0, <2>4 DEF AckInv, LiveInv, Types
    <3> QED BY <2>3, <3>1, <3>2
  <2>7. \A k, l \in pipe' : k.by = l.by => k = l
    BY <1>0, <2>2, <2>3 DEF AckInv
  <2> QED BY <1>0, <2>5, <2>6, <2>7 DEF AckInv
<1> QED BY <1>1, <1>2, <1>3 DEF Accept, Complete

LEMMA AckRequests ==
  ASSUME ~MidBlock, LiveInv, AckInv, NEW s \in Sessions,
         Connect(s) \/ Request(s) \/ Look(s) \/ Elect(s)
  PROVE  AckInv'
<1>0. /\ sess[s] \in SessRecord /\ SessOK(sess[s], stored) /\ SentOK
      /\ sess[s].blk \in Blocks \cup {0} /\ Offers[s] \subseteq Blocks
      /\ sess[s].pc \in {"look", "elect"} => sess[s].hdr \in Blocks
      /\ sess[s].pc \in {"look", "elect"} => ~sess[s].streaming /\ sess[s].buf = <<>>
      /\ sess[s].pc \in {"new", "ready", "look", "elect"}
  BY PublishAssumption DEF AckInv, SessOK, LiveInv, Types, SessRecord, Connect, Request, Look,
                           Elect, Header, BlockEnd, Items, Leave, At
<1>1. \A k \in pipe : k.by # s
  BY <1>0, NothingInPipe
<1>2. ASSUME NEW r, Set(s, r), SessOK(r, stored), UNCHANGED <<stored, pipe>>, SentOK'
      PROVE  AckInv'
  BY <1>1, <1>2, AckStep
<1>3. ASSUME UNCHANGED history PROVE SentOK'
  BY <1>0, <1>3 DEF SentOK, history
<1>4. ASSUME Terminate(s) PROVE AckInv'
  <2> DEFINE r == [sess[s] EXCEPT !.pc = "cleanup", !.hdr = 0]
  <2>1. SessOK(r, stored)
    BY <1>0 DEF SessOK, SessRecord
  <2>2. Set(s, r) /\ UNCHANGED <<shared, history>>
    BY <1>4 DEF Terminate
  <2> HIDE DEF r
  <2> QED BY <1>2, <1>3, <2>1, <2>2 DEF shared, history
<1>5. CASE Connect(s)
  BY <1>2, <1>3, <1>5, FreshOK DEF Connect, history
<1>6. ASSUME NEW b \in Offers[s], Header(s, b) PROVE AckInv'
  <2>1. CASE Terminate(s)
    BY <1>4, <2>1
  <2>2. CASE ~Terminate(s)
    <3> DEFINE r == [sess[s] EXCEPT !.pc = "look", !.hdr = b]
    <3>1. sess[s].pc = "ready" /\ ~sess[s].streaming
      BY <1>6 DEF Header, At
    <3>2. SessOK(r, stored)
      BY <1>0, <3>1 DEF SessOK, SessRecord
    <3>3. Set(s, r) /\ UNCHANGED <<shared, history>>
      BY <1>6, <2>2 DEF Header
    <3> HIDE DEF r
    <3> QED BY <1>2, <1>3, <3>2, <3>3 DEF shared, history
  <2> QED BY <2>1, <2>2
<1>7. ASSUME sess[s].streaming, Accept(s, sess[s]) \/ Complete(s, sess[s]), UNCHANGED history,
             sess[s].pc = "ready"
      PROVE  AckInv'
  <2>1. sess[s].buf = <<sess[s].blk>> /\ sess[s].outcome = "none" /\ sess[s].streaming = TRUE
    BY <1>0, <1>7 DEF SessOK, SessRecord
  <2> QED BY <1>0, <1>7, <2>1, HandOver DEF history
<1>8. ASSUME NEW b \in Offers[s], BlockEnd(s, b) PROVE AckInv'
  BY <1>4, <1>7, <1>8 DEF BlockEnd, At
<1>9. ASSUME NEW q \in SessRecord, Lose(s, q) PROVE AckInv'
  <2>1. PICK r \in SessRecord : Set(s, r) /\ r.pc = "skip"
    BY <1>9, LoseResult
  <2>2. SessOK(r, stored)
    BY <2>1 DEF SessOK
  <2>3. UNCHANGED <<stored, pipe, sent>>
    BY <1>9 DEF Lose, shared
  <2> QED BY <1>0, <1>2, <2>1, <2>2, <2>3 DEF SentOK
<1>10. CASE Items(s)
  <2>1. CASE Goto(s, "resend") /\ UNCHANGED <<shared, history>>
    <3> DEFINE r == [sess[s] EXCEPT !.pc = "resend"]
    <3>1. r.pc = "resend" /\ Set(s, r)
      BY <1>0, <2>1 DEF Goto, SessRecord
    <3> HIDE DEF r
    <3>2. SessOK(r, stored)
      BY <3>1 DEF SessOK
    <3> QED BY <1>2, <1>3, <2>1, <3>1, <3>2 DEF shared, history
  <2> QED BY <1>4, <1>7, <1>10, <2>1 DEF Items, At
<1>11. CASE Leave(s)
  BY <1>4, <1>11 DEF Leave
<1>12. CASE Look(s)
  <2>1. CASE Goto(s, "elect") /\ UNCHANGED <<shared, history>>
    <3> DEFINE r == [sess[s] EXCEPT !.pc = "elect"]
    <3>1. SessOK(r, stored)
      BY <1>0, <1>12 DEF SessOK, SessRecord, Look, At
    <3>2. Set(s, r)
      BY <2>1 DEF Goto
    <3> HIDE DEF r
    <3> QED BY <1>2, <1>3, <2>1, <3>1, <3>2 DEF shared, history
  <2>2. CASE Lose(s, [sess[s] EXCEPT !.blk = sess[s].hdr])
    <3>1. [sess[s] EXCEPT !.blk = sess[s].hdr] \in SessRecord
      BY <1>0 DEF SessRecord
    <3> QED BY <1>9, <2>2, <3>1
  <2> QED BY <1>4, <1>12, <2>1, <2>2 DEF Look
<1>13. CASE Elect(s)
  <2>1. CASE Lose(s, sess[s])
    BY <1>0, <1>9, <2>1
  <2>2. CASE ~Lose(s, sess[s])
    <3> DEFINE b == sess[s].hdr
               q == [sess[s] EXCEPT !.blk = b, !.streaming = TRUE, !.hdr = 0,
                                    !.buf = Append(@, b)]
    <3>1. b \in Blocks /\ sess[s].pc = "elect" /\ Accept(s, q) /\ UNCHANGED history
          /\ sess[s].buf = <<>>
      BY <1>0, <1>13, <2>2 DEF Elect, At
    <3>2. Append(<<>>, b) = <<b>> /\ <<b>> \in Seq(Blocks \cup {0})
      BY <3>1
    <3>3. q \in SessRecord /\ q.buf = <<q.blk>> /\ q.streaming = TRUE /\ q.outcome = "none"
      BY <1>0, <3>1, <3>2 DEF SessRecord, SessOK
    <3> HIDE DEF q, b
    <3> QED BY <3>1, <3>3, HandOver DEF history
  <2> QED BY <2>1, <2>2
<1> QED BY <1>5, <1>6, <1>8, <1>10, <1>11, <1>12, <1>13 DEF Request

LEMMA AckOwn ==
  ASSUME LiveInv, AckInv, NEW s \in Sessions, Own(s), ~Look(s), ~Elect(s)
  PROVE  AckInv'
<1>0. sess[s] \in SessRecord /\ SessOK(sess[s], stored) /\ SentOK /\ sess[s].blk \in Blocks \cup {0}
  BY DEF AckInv, LiveInv, Types, SessRecord
<1>1. stored' = stored /\ pipe' = pipe
  BY DEF Own, Reply, Subscribe, OnPersisted, OnFailed, OnTimeout, Deliver, FinishAck, FinishFailed,
         FinishTimeout, Collect, DropWinner, Close, shared, history
<1>2. ASSUME NEW r, Set(s, r), SessOK(r, stored), SentOK',
             \A k \in pipe : k.by = s => PipeOK(k, r)
      PROVE  AckInv'
  BY <1>1, <1>2, AckStep
<1>3. ASSUME UNCHANGED history PROVE SentOK'
  BY <1>0, <1>3 DEF SentOK, history
<1>4. ASSUME NEW p \in {"timedout", "cleanup", "dropped", "closed"}, NEW r, r.pc = p, Set(s, r),
             UNCHANGED history
      PROVE  AckInv'
  <2>1. SessOK(r, stored)
    BY <1>4 DEF SessOK
  <2>2. \A k \in pipe : PipeOK(k, r)
    BY <1>4 DEF PipeOK
  <2> QED BY <1>2, <1>3, <1>4, <2>1, <2>2
<1>5. CASE Reply(s)
  <2>1. SentOK'
    BY <1>0, <1>1, <1>5, SendOK DEF Reply
  <2>2. \A k \in pipe : k.by # s
    BY <1>5, NothingInPipe DEF Reply
  <2> QED BY <1>2, <1>5, <2>1, <2>2, FreshOK DEF Reply
<1>6. CASE Subscribe(s)
  <2> DEFINE r == [sess[s] EXCEPT !.pc = "wait"]
  <2>1. SessOK(r, stored) /\ \A k \in pipe : k.by = s => PipeOK(k, r)
    BY <1>0, <1>6 DEF SessOK, SessRecord, Subscribe, At, AckInv, PipeOK
  <2>2. Set(s, r) /\ UNCHANGED history
    BY <1>6 DEF Subscribe, Goto
  <2> HIDE DEF r
  <2> QED BY <1>2, <1>3, <2>1, <2>2
<1>7. CASE OnPersisted(s)
  <2> DEFINE r == [sess[s] EXCEPT !.pc = "ack", !.todo = active]
  <2>1. SessOK(r, stored)
    BY <1>0, <1>7 DEF SessOK, SessRecord, OnPersisted, At
  <2>2. \A k \in pipe : k.by # s
    BY <1>7, NothingInPipe DEF OnPersisted, At
  <2>3. Set(s, r) /\ UNCHANGED history
    BY <1>7 DEF OnPersisted
  <2> HIDE DEF r
  <2> QED BY <1>2, <1>3, <2>1, <2>2, <2>3
<1>8. CASE OnFailed(s)
  <2> DEFINE r == [sess[s] EXCEPT !.pc = "failed", !.todo = active \ {s}]
  <2>1. SessOK(r, stored)
    BY <1>0, <1>8 DEF SessOK, SessRecord, OnFailed, At
  <2>2. \A k \in pipe : k.by # s
    BY <1>8, NothingInPipe DEF OnFailed, At
  <2>3. Set(s, r) /\ UNCHANGED history
    BY <1>8 DEF OnFailed
  <2> HIDE DEF r
  <2> QED BY <1>2, <1>3, <2>1, <2>2, <2>3
<1>9. ASSUME NEW t \in Sessions, Deliver(s, t) PROVE AckInv'
  <2> DEFINE r == [sess[s] EXCEPT !.todo = @ \ {t}]
             x == IF At(s, "ack") THEN "ack" ELSE "resend"
  <2>1. SessOK(r, stored) /\ \A k \in pipe : k.by = s => PipeOK(k, r)
    BY <1>0, <1>9 DEF SessOK, SessRecord, Deliver, AckInv, PipeOK
  <2>2. Set(s, r)
    BY <1>9 DEF Deliver
  <2>3. SentOK'
    <3>1. CASE t \in active
      <4>1. Send(t, <<x, sess[s].blk>>)
        BY <1>9, <3>1 DEF Deliver
      <4>2. x \in {"ack", "skip", "resend"} /\ (x = "ack" => sess[s].blk \in stored)
        BY <1>0 DEF At, SessOK
      <4> HIDE DEF x
      <4> QED BY <1>0, <1>1, <4>1, <4>2, SendOK
    <3>2. CASE t \notin active
      <4>1. UNCHANGED sent
        BY <1>9, <3>2 DEF Deliver
      <4> QED BY <1>0, <1>1, <4>1 DEF SentOK
    <3> QED BY <3>1, <3>2
  <2> HIDE DEF r
  <2> QED BY <1>2, <2>1, <2>2, <2>3
<1>10. CASE FinishAck(s)
  <2>1. \A k \in pipe : k.by # s
    BY <1>10, NothingInPipe DEF FinishAck, Delivered, At
  <2> QED BY <1>2, <1>3, <1>10, <2>1, FreshOK DEF FinishAck
<1>11. CASE OnTimeout(s)
  <2>1. [sess[s] EXCEPT !.pc = "timedout", !.todo = active \ {s}].pc = "timedout"
    BY <1>0 DEF SessRecord
  <2> QED BY <1>4, <1>11, <2>1 DEF OnTimeout
<1>12. CASE FinishFailed(s) \/ FinishTimeout(s)
  <2>1. [sess[s] EXCEPT !.pc = "cleanup"].pc = "cleanup"
    BY <1>0 DEF SessRecord
  <2> QED BY <1>4, <1>12, <2>1 DEF FinishFailed, FinishTimeout, Goto
<1>13. CASE Collect(s)
  <2> DEFINE r == [sess[s] EXCEPT !.pc = "dropped", !.todo = {},
                                  !.affected = {b \in Blocks : winners[b] = s}]
  <2>1. r.pc = "dropped" /\ Set(s, r) /\ UNCHANGED history
    BY <1>0, <1>13 DEF SessRecord, Collect
  <2> HIDE DEF r
  <2> QED BY <1>4, <2>1
<1>14. CASE DropWinner(s)
  <2>1. PICK b : Set(s, [sess[s] EXCEPT !.blk = b, !.affected = @ \ {b}, !.todo = active \ {s}])
    BY <1>14 DEF DropWinner
  <2> DEFINE r == [sess[s] EXCEPT !.blk = b, !.affected = @ \ {b}, !.todo = active \ {s}]
  <2>2. r.pc = "dropped" /\ Set(s, r) /\ UNCHANGED history
    BY <1>0, <1>14, <2>1 DEF SessRecord, DropWinner, Delivered, At
  <2> HIDE DEF r
  <2> QED BY <1>4, <2>2
<1>15. CASE Close(s)
  <2>1. [sess[s] EXCEPT !.pc = "closed"].pc = "closed"
    BY <1>0 DEF SessRecord
  <2> QED BY <1>4, <1>15, <2>1 DEF Close, Goto
<1> QED BY <1>5, <1>6, <1>7, <1>8, <1>9, <1>10, <1>11, <1>12, <1>13, <1>14, <1>15 DEF Own

\* The write comes before the event, and the event before the acknowledgement.
LEMMA AckOutside ==
  ASSUME LiveInv, AckInv, Environment \/ CleanupWinners
  PROVE  AckInv'
<1>0. sess \in [Sessions -> SessRecord] /\ stored \subseteq stored' /\ sent' = sent
  BY DEF LiveInv, Types, Environment, Persist, VerificationFails, EventMissed, CleanupWinners,
         history
<1>1. SentOK'
  BY <1>0 DEF AckInv, SentOK
<1>2. \A r : SessOK(r, stored) => SessOK(r, stored')
  BY <1>0 DEF SessOK
<1>3. CASE UNCHANGED sess /\ pipe' \subseteq pipe
  BY <1>1, <1>2, <1>3 DEF AckInv
<1>4. ASSUME NEW k \in pipe, NEW o \in {"persisted", "failed"}, Tell(k, o),
             pipe' = pipe \ {k}, o = "persisted" => k.first \in stored',
             o = "failed" => k.blk \in Bad
      PROVE  AckInv'
  <2>1. k.by \in Sessions /\ sess[k.by] \in SessRecord /\ PipeOK(k, sess[k.by])
        /\ SessOK(sess[k.by], stored)
    BY <1>0, <1>4 DEF LiveInv, Types, AckInv
  <2> DEFINE q == IF At(k.by, "wait") THEN [sess[k.by] EXCEPT !.outcome = o] ELSE sess[k.by]
  <2>2. SessOK(q, stored')
    <3>1. CASE At(k.by, "wait")
      BY <1>4, <2>1, <3>1 DEF SessOK, PipeOK, SessRecord, At
    <3>2. CASE ~At(k.by, "wait")
      BY <1>2, <2>1, <3>2
    <3> QED BY <3>1, <3>2
  <2>3. sess' = [sess EXCEPT ![k.by] = q]
    BY <1>4 DEF Tell
  <2> HIDE DEF q
  <2>4. sess'[k.by] = q /\ \A t \in Sessions : t # k.by => sess'[t] = sess[t]
    BY <1>0, <2>1, <2>3
  <2>5. \A t \in Sessions : SessOK(sess'[t], stored')
    BY <1>2, <2>2, <2>4 DEF AckInv
  <2>6. \A l \in pipe' : l.by # k.by
    BY <1>4 DEF AckInv
  <2>7. \A l \in pipe' : PipeOK(l, sess'[l.by])
    BY <1>4, <2>4, <2>6 DEF AckInv, LiveInv, Types
  <2> QED BY <1>1, <1>4, <2>5, <2>7 DEF AckInv
<1> QED BY <1>3, <1>4 DEF Environment, Persist, VerificationFails, EventMissed, CleanupWinners

LEMMA AckNext ==
  ASSUME ~MidBlock
  PROVE  LiveInv /\ AckInv /\ [Next]_vars => AckInv'
<1> SUFFICES ASSUME LiveInv, AckInv, [Next]_vars PROVE AckInv'
  OBVIOUS
<1>1. CASE UNCHANGED vars
  BY <1>1 DEF vars, shared, history, AckInv, SentOK
<1>2. ASSUME NEW s \in Sessions, Connect(s) \/ Request(s) \/ Own(s)
      PROVE  AckInv'
  BY <1>2, AckRequests, AckOwn
<1> QED BY <1>1, <1>2, AckOutside DEF Next

\* An acknowledged block is stored under its own number, for publishers that
\* send no header inside a block: however the sessions, the pipeline, the timer
\* and the cleanup task interleave (handle_persisted, broadcast of the ack).
THEOREM AckAlwaysStored == ~MidBlock => (Spec => []AckIsStored)
<1> SUFFICES ASSUME ~MidBlock PROVE Spec => []AckIsStored
  OBVIOUS
<1>1. AckInv => AckIsStored
  BY DEF AckInv, SentOK, AckIsStored, Announced
<1> QED BY <1>1, AckInit, AckNext, LiveAlways, PTL DEF Spec

-----------------------------------------------------------------------------
(* The election, between any number of sessions, as long as the cleanup task   *)
(* does not overtake a session: no block that one still relies on is more than *)
(* the threshold behind the latest.  Blocks and latest are not bounded by it.  *)

\* A session record that has a block in production.
Producing(r) == r.streaming /\ r.pc \in {"ready", "sent", "wait"}

\* A session record that relies on the winner entry of its block.
Claims(r) == Producing(r) \/ r.pc \in {"ack", "failed"}

\* No session is overdue for the cleanup task.
NoneOverdue ==
  \A s \in Sessions :
    /\ Claims(sess[s]) => sess[s].blk >= latest - Threshold
    /\ sess[s].pc = "dropped" => \A b \in sess[s].affected : b >= latest - Threshold

\* Whoever relies on an entry has it, so nobody removes the entry of another.
ClaimOK(s, r, w) ==
  /\ r.pc \in {"sent", "wait"} => r.streaming
  /\ Claims(r) => r.blk \in Blocks /\ w[r.blk] = s
  /\ r.pc = "dropped" => \A b \in r.affected : w[b] = s

ClaimInv ==
  /\ latest \in Blocks \cup {-1}
  /\ \A s \in Sessions : ClaimOK(s, sess[s], winners)

\* The environment writes the outcome of a session and nothing else of it.
LEMMA OutsideKeeps ==
  ASSUME LiveInv, Environment \/ CleanupWinners \/ UNCHANGED vars, NEW t \in Sessions
  PROVE  /\ sess'[t].pc = sess[t].pc /\ sess'[t].blk = sess[t].blk
         /\ sess'[t].hdr = sess[t].hdr /\ sess'[t].streaming = sess[t].streaming
         /\ sess'[t].affected = sess[t].affected /\ sess'[t].todo = sess[t].todo
<1>0. sess \in [Sessions -> SessRecord]
  BY DEF LiveInv, Types
<1>1. ASSUME NEW k \in pipe, NEW o \in {"persisted", "failed"}, Tell(k, o)
      PROVE  /\ sess'[t].pc = sess[t].pc /\ sess'[t].blk = sess[t].blk
             /\ sess'[t].hdr = sess[t].hdr /\ sess'[t].streaming = sess[t].streaming
             /\ sess'[t].affected = sess[t].affected /\ sess'[t].todo = sess[t].todo
  <2>1. k.by \in Sessions /\ sess[t] \in SessRecord
    BY <1>0 DEF LiveInv, Types
  <2>2. sess'[t] = sess[t] \/ sess'[t] = [sess[t] EXCEPT !.outcome = o]
    BY <1>0, <1>1, <2>1 DEF Tell
  <2> QED BY <2>1, <2>2 DEF SessRecord
<1>2. CASE sess' = sess
  BY <1>2
<1>3. sess' = sess \/ \E k \in pipe, o \in {"persisted", "failed"} : Tell(k, o)
  BY DEF Environment, Persist, VerificationFails, EventMissed, CleanupWinners, vars
<1> QED BY <1>1, <1>2, <1>3

LEMMA ClaimStep ==
  ASSUME LiveInv, ClaimInv, NEW s \in Sessions, NEW r, Set(s, r), ClaimOK(s, r, winners'),
         latest' \in Blocks \cup {-1},
         \A b \in Blocks : winners[b] \in Sessions \ {s} => winners'[b] = winners[b]
  PROVE  ClaimInv'
<1>1. sess'[s] = r /\ \A t \in Sessions : t # s => sess'[t] = sess[t]
  BY DEF LiveInv, Types, Set
<1>2. ASSUME NEW t \in Sessions, t # s PROVE ClaimOK(t, sess[t], winners')
  <2>1. sess[t].affected \subseteq Blocks
    BY DEF LiveInv, Types, SessRecord
  <2>2. ClaimOK(t, sess[t], winners)
    BY DEF ClaimInv
  <2>3. Claims(sess[t]) => sess[t].blk \in Blocks /\ winners'[sess[t].blk] = t
    BY <1>2, <2>2 DEF ClaimOK
  <2>4. sess[t].pc = "dropped" => \A b \in sess[t].affected : winners'[b] = t
    BY <1>2, <2>1, <2>2 DEF ClaimOK
  <2> QED BY <2>2, <2>3, <2>4 DEF ClaimOK
<1> QED BY <1>1, <1>2 DEF ClaimInv

\* Requests and elections.
LEMMA ClaimRequests ==
  ASSUME LiveInv, ClaimInv, NEW s \in Sessions,
         Connect(s) \/ Request(s) \/ Look(s) \/ Elect(s) \/ Reply(s)
  PROVE  ClaimInv'
<1>0. /\ sess[s] \in SessRecord /\ Offers[s] \subseteq Blocks /\ ClaimOK(s, sess[s], winners)
      /\ winners \in [Blocks -> Sessions \cup {NoOne}] /\ NoOne \notin Sessions
      /\ sess[s].pc \in {"look", "elect"} => sess[s].hdr \in Blocks
      /\ latest' = latest /\ latest' \in Blocks \cup {-1}
  BY PublishAssumption DEF ClaimInv, LiveInv, Types, SessRecord, Connect, Request, Look, Elect,
       Header, BlockEnd, Items, Leave, Reply, At, Terminate, Lose, shared
<1>1. ASSUME NEW r, Set(s, r), winners' = winners,
             r.pc \in {"ready", "look", "elect", "skip", "resend", "cleanup"}, r.pc = "ready" => ~r.streaming
      PROVE  ClaimInv'
  <2>1. ClaimOK(s, r, winners')
    BY <1>1 DEF ClaimOK, Claims, Producing
  <2> QED BY <1>0, <1>1, <2>1, ClaimStep
<1>2. ASSUME Terminate(s) PROVE ClaimInv'
  <2> DEFINE r == [sess[s] EXCEPT !.pc = "cleanup", !.hdr = 0]
  <2>1. r.pc = "cleanup" /\ Set(s, r) /\ winners' = winners
    BY <1>0, <1>2 DEF Terminate, SessRecord, shared
  <2> HIDE DEF r
  <2> QED BY <1>1, <2>1
<1>3. ASSUME Set(s, Fresh), winners' = winners PROVE ClaimInv'
  <2>1. Fresh.pc = "ready" /\ Fresh.streaming = FALSE
    BY DEF Fresh
  <2> QED BY <1>1, <1>3, <2>1
<1>4. ASSUME NEW b \in Offers[s], Header(s, b) PROVE ClaimInv'
  <2>1. CASE ~Terminate(s)
    <3> DEFINE r == [sess[s] EXCEPT !.pc = "look", !.hdr = b]
    <3>1. r.pc = "look" /\ Set(s, r) /\ winners' = winners
      BY <1>0, <1>4, <2>1 DEF Header, SessRecord, shared
    <3> HIDE DEF r
    <3> QED BY <1>1, <3>1
  <2> QED BY <1>2, <2>1
<1>5. CASE Look(s)
  <2>1. CASE Goto(s, "elect") /\ UNCHANGED <<shared, history>>
    <3> DEFINE r == [sess[s] EXCEPT !.pc = "elect"]
    <3>1. r.pc = "elect" /\ Set(s, r) /\ winners' = winners
      BY <1>0, <1>5, <2>1 DEF Goto, SessRecord, shared
    <3> HIDE DEF r
    <3> QED BY <1>1, <3>1
  <2>2. CASE Lose(s, [sess[s] EXCEPT !.blk = sess[s].hdr])
    <3>1. [sess[s] EXCEPT !.blk = sess[s].hdr] \in SessRecord
      BY <1>0 DEF SessRecord
    <3>2. PICK r \in SessRecord : Set(s, r) /\ r.pc = "skip"
      BY <2>2, <3>1, LoseResult
    <3> QED BY <1>1, <2>2, <3>2 DEF Lose, shared
  <2> QED BY <1>2, <1>5, <2>1, <2>2 DEF Look
<1>6. ASSUME NEW q \in SessRecord, Accept(s, q) \/ Complete(s, q), q.streaming, q.blk \in Blocks,
             winners'[q.blk] = s,
             \A b \in Blocks : winners[b] \in Sessions \ {s} => winners'[b] = winners[b]
      PROVE  ClaimInv'
  <2>1. PICK r : /\ Set(s, r) /\ r.pc \in {"ready", "sent", "cleanup"}
                 /\ r.streaming = q.streaming /\ r.blk = q.blk
    <3>1. ASSUME NEW p \in {"sent", "cleanup"}
          PROVE  LET x == [q EXCEPT !.pc = p, !.buf = <<>>] IN
                   x.pc = p /\ x.streaming = q.streaming /\ x.blk = q.blk
      BY DEF SessRecord
    <3>2. LET x == [q EXCEPT !.pc = "ready"] IN
            x.pc = "ready" /\ x.streaming = q.streaming /\ x.blk = q.blk
      BY DEF SessRecord
    <3> QED BY <1>6, <3>1, <3>2 DEF Accept, Complete
  <2>2. ClaimOK(s, r, winners')
    BY <1>6, <2>1 DEF ClaimOK
  <2> QED BY <1>0, <1>6, <2>1, <2>2, ClaimStep
<1>7. ASSUME sess[s].pc = "ready", sess[s].streaming, Accept(s, sess[s]) \/ Complete(s, sess[s]),
             winners' = winners
      PROVE  ClaimInv'
  <2>1. sess[s].blk \in Blocks /\ winners'[sess[s].blk] = s
    BY <1>0, <1>7 DEF ClaimOK, Claims, Producing
  <2> QED BY <1>0, <1>6, <1>7, <2>1
<1>8. CASE Elect(s)
  <2>1. CASE winners[sess[s].hdr] # NoOne
    <3>1. Lose(s, sess[s])
      BY <1>8, <2>1 DEF Elect
    <3>2. PICK r \in SessRecord : Set(s, r) /\ r.pc = "skip"
      BY <1>0, <3>1, LoseResult
    <3> QED BY <1>1, <3>1, <3>2 DEF Lose, shared
  <2>2. CASE winners[sess[s].hdr] = NoOne
    <3> DEFINE b == sess[s].hdr
               q == [sess[s] EXCEPT !.blk = b, !.streaming = TRUE, !.hdr = 0,
                                    !.buf = Append(@, b)]
    <3>1. b \in Blocks /\ sess[s].pc = "elect" /\ winners' = [winners EXCEPT ![b] = s] /\ Accept(s, q)
      BY <1>0, <1>8, <2>2 DEF Elect, At
    <3>2. q \in SessRecord /\ q.blk = b /\ q.streaming
      <4>1. sess[s].buf \in Seq(Blocks \cup {0}) /\ b \in Blocks \cup {0}
        BY <1>0 DEF SessRecord
      <4>2. Append(sess[s].buf, b) \in Seq(Blocks \cup {0})
        BY <4>1
      <4> QED BY <1>0, <3>1, <4>2 DEF SessRecord
    <3>3. /\ winners'[b] = s
          /\ \A c \in Blocks : winners[c] \in Sessions \ {s} => winners'[c] = winners[c]
      BY <1>0, <2>2, <3>1
    <3> HIDE DEF q
    <3> QED BY <1>6, <3>1, <3>2, <3>3
  <2> QED BY <2>1, <2>2
<1>9. CASE Connect(s)
  BY <1>3, <1>9 DEF Connect
<1>10. ASSUME NEW b \in Offers[s], BlockEnd(s, b) PROVE ClaimInv'
  BY <1>2, <1>7, <1>10 DEF BlockEnd, At
<1>11. CASE Items(s)
  <2>1. CASE Goto(s, "resend") /\ UNCHANGED <<shared, history>>
    <3> DEFINE r == [sess[s] EXCEPT !.pc = "resend"]
    <3>1. r.pc = "resend" /\ Set(s, r) /\ winners' = winners
      BY <1>0, <2>1 DEF Goto, SessRecord, shared
    <3> HIDE DEF r
    <3> QED BY <1>1, <3>1
  <2> QED BY <1>2, <1>7, <1>11, <2>1 DEF Items, At
<1>12. CASE Leave(s)
  BY <1>2, <1>12 DEF Leave
<1>13. CASE Reply(s)
  BY <1>3, <1>13 DEF Reply, shared
<1> QED BY <1>4, <1>5, <1>8, <1>9, <1>10, <1>11, <1>12, <1>13 DEF Request

\* A block that was handed over, and the end of a session.
LEMMA ClaimWaits ==
  ASSUME LiveInv, ClaimInv, NEW s \in Sessions,
         \/ Subscribe(s) \/ OnPersisted(s) \/ OnFailed(s) \/ OnTimeout(s)
         \/ (\E t \in Sessions : Deliver(s, t)) \/ FinishAck(s) \/ FinishFailed(s)
         \/ FinishTimeout(s) \/ Collect(s) \/ DropWinner(s) \/ Close(s)
  PROVE  ClaimInv'
<1>0. /\ sess[s] \in SessRecord /\ ClaimOK(s, sess[s], winners) /\ sess[s].affected \subseteq Blocks
      /\ winners \in [Blocks -> Sessions \cup {NoOne}] /\ latest \in Blocks \cup {-1}
  BY DEF ClaimInv, LiveInv, Types, SessRecord
<1>1. latest' \in Blocks \cup {-1}
  <2>1. CASE OnPersisted(s)
    BY <1>0, <2>1 DEF OnPersisted, At, ClaimOK, Claims, Producing
  <2>2. CASE ~OnPersisted(s)
    BY <1>0, <2>2 DEF Subscribe, OnFailed, OnTimeout, Deliver, FinishAck, FinishFailed,
                      FinishTimeout, Collect, DropWinner, Close, shared
  <2> QED BY <2>1, <2>2
\* An entry that s has may be removed, the others stay.
<1>2. ASSUME NEW b \in Blocks, winners[b] = s, Remove(b)
      PROVE  /\ \A c \in Blocks : winners[c] \in Sessions \ {s} => winners'[c] = winners[c]
             /\ \A c \in Blocks : c # b => winners'[c] = winners[c]
  BY <1>0, <1>2 DEF Remove
<1>3. ASSUME NEW r, Set(s, r), winners' = winners, ClaimOK(s, r, winners)
      PROVE  ClaimInv'
  BY <1>1, <1>3, ClaimStep
<1>4. ASSUME NEW r, Set(s, r), r.pc \in {"ready", "timedout", "cleanup", "closed"}, ~Producing(r),
             \/ winners' = winners
             \/ Claims(sess[s]) /\ Remove(sess[s].blk)
      PROVE  ClaimInv'
  <2>1. ClaimOK(s, r, winners')
    BY <1>4 DEF ClaimOK, Claims
  <2>2. \A c \in Blocks : winners[c] \in Sessions \ {s} => winners'[c] = winners[c]
    BY <1>0, <1>2, <1>4 DEF ClaimOK
  <2> QED BY <1>1, <1>4, <2>1, <2>2, ClaimStep
<1>5. CASE Subscribe(s)
  <2> DEFINE r == [sess[s] EXCEPT !.pc = "wait"]
  <2>1. /\ r.pc = "wait" /\ r.streaming = sess[s].streaming /\ r.blk = sess[s].blk
        /\ Set(s, r) /\ winners' = winners /\ sess[s].pc = "sent"
    BY <1>0, <1>5 DEF Subscribe, Goto, SessRecord, shared, At
  <2> HIDE DEF r
  <2>2. ClaimOK(s, r, winners)
    BY <1>0, <2>1 DEF ClaimOK, Claims, Producing
  <2> QED BY <1>3, <2>1, <2>2
<1>6. CASE OnPersisted(s) \/ OnFailed(s)
  <2>0. PICK p \in {"ack", "failed"} : \E T : Set(s, [sess[s] EXCEPT !.pc = p, !.todo = T])
    BY <1>6 DEF OnPersisted, OnFailed
  <2>1. PICK T : Set(s, [sess[s] EXCEPT !.pc = p, !.todo = T])
    BY <2>0
  <2> DEFINE r == [sess[s] EXCEPT !.pc = p, !.todo = T]
  <2>2. r.pc = p /\ r.blk = sess[s].blk /\ Set(s, r) /\ winners' = winners /\ sess[s].pc = "wait"
    BY <1>0, <1>6, <2>1 DEF OnPersisted, OnFailed, SessRecord, shared, At
  <2> HIDE DEF r
  <2>3. ClaimOK(s, r, winners)
    BY <1>0, <2>2 DEF ClaimOK, Claims, Producing
  <2> QED BY <1>3, <2>2, <2>3
<1>7. ASSUME NEW t \in Sessions, Deliver(s, t) PROVE ClaimInv'
  <2> DEFINE r == [sess[s] EXCEPT !.todo = @ \ {t}]
  <2>1. /\ r.pc = sess[s].pc /\ r.blk = sess[s].blk /\ r.streaming = sess[s].streaming
        /\ r.affected = sess[s].affected /\ Set(s, r) /\ winners' = winners
    BY <1>0, <1>7 DEF Deliver, SessRecord, shared
  <2> HIDE DEF r
  <2>2. ClaimOK(s, r, winners)
    BY <1>0, <2>1 DEF ClaimOK, Claims, Producing
  <2> QED BY <1>3, <2>1, <2>2
<1>8. CASE OnTimeout(s)
  <2> DEFINE r == [sess[s] EXCEPT !.pc = "timedout", !.todo = active \ {s}]
  <2>1. r.pc = "timedout" /\ Set(s, r) /\ Remove(sess[s].blk) /\ sess[s].pc = "wait"
    BY <1>0, <1>8 DEF OnTimeout, SessRecord, At
  <2> HIDE DEF r
  <2>2. Claims(sess[s]) /\ ~Producing(r)
    BY <1>0, <2>1 DEF ClaimOK, Claims, Producing
  <2> QED BY <1>4, <2>1, <2>2
<1>9. CASE FinishAck(s)
  <2>1. Fresh.pc = "ready" /\ ~Producing(Fresh)
    BY DEF Fresh, Producing
  <2>2. Claims(sess[s]) /\ Remove(sess[s].blk) /\ Set(s, Fresh)
    BY <1>9 DEF FinishAck, Delivered, At, Claims
  <2> QED BY <1>4, <2>1, <2>2
<1>10. CASE FinishFailed(s) \/ FinishTimeout(s) \/ Close(s)
  <2>1. PICK p \in {"cleanup", "closed"} : Goto(s, p)
    BY <1>10 DEF FinishFailed, FinishTimeout, Close
  <2> DEFINE r == [sess[s] EXCEPT !.pc = p]
  <2>2. r.pc = p /\ Set(s, r)
    BY <1>0, <2>1 DEF Goto, SessRecord
  <2> HIDE DEF r
  <2>3. ~Producing(r)
    BY <2>2 DEF Producing
  <2>4. winners' = winners \/ (Claims(sess[s]) /\ Remove(sess[s].blk))
    BY <1>10 DEF FinishFailed, FinishTimeout, Close, Delivered, At, Claims, shared
  <2> QED BY <1>4, <2>2, <2>3, <2>4
<1>11. CASE Collect(s)
  <2> DEFINE B == {b \in Blocks : winners[b] = s}
             r == [sess[s] EXCEPT !.pc = "dropped", !.todo = {}, !.affected = B]
  <2>1. r.pc = "dropped" /\ r.affected = B /\ Set(s, r) /\ winners' = winners
    BY <1>0, <1>11 DEF Collect, SessRecord, shared
  <2>2. ClaimOK(s, r, winners)
    BY <2>1 DEF ClaimOK, Claims, Producing
  <2> HIDE DEF r
  <2> QED BY <1>3, <2>1, <2>2
<1>12. CASE DropWinner(s)
  <2>1. PICK b \in sess[s].affected :
          /\ Remove(b)
          /\ Set(s, [sess[s] EXCEPT !.blk = b, !.affected = @ \ {b}, !.todo = active \ {s}])
    BY <1>12 DEF DropWinner
  <2> DEFINE r == [sess[s] EXCEPT !.blk = b, !.affected = @ \ {b}, !.todo = active \ {s}]
  <2>2. sess[s].pc = "dropped" /\ b \in Blocks /\ winners[b] = s
    BY <1>0, <1>12 DEF DropWinner, Delivered, At, ClaimOK
  <2>3. r.pc = "dropped" /\ r.affected = sess[s].affected \ {b} /\ Set(s, r)
    BY <1>0, <2>1, <2>2 DEF SessRecord
  <2> HIDE DEF r
  <2>4. \A c \in r.affected : winners'[c] = s
    BY <1>0, <1>2, <2>1, <2>2, <2>3 DEF ClaimOK
  <2>5. ClaimOK(s, r, winners')
    BY <2>3, <2>4 DEF ClaimOK, Claims, Producing
  <2> QED BY <1>1, <1>2, <2>1, <2>2, <2>3, <2>5, ClaimStep
<1> QED BY <1>5, <1>6, <1>7, <1>8, <1>9, <1>10, <1>11, <1>12

\* The cleanup task drops no entry that a session relies on.
LEMMA ClaimOutside ==
  ASSUME NoneOverdue, LiveInv, ClaimInv, Environment \/ CleanupWinners \/ UNCHANGED vars
  PROVE  ClaimInv'
<1>1. latest' = latest
  BY DEF Environment, Persist, VerificationFails, EventMissed, CleanupWinners, vars, shared
<1>2. \A b \in Blocks : b >= latest - Threshold => winners'[b] = winners[b]
  BY DEF Environment, Persist, VerificationFails, EventMissed, CleanupWinners, vars, shared
<1>3. ASSUME NEW t \in Sessions PROVE ClaimOK(t, sess'[t], winners')
  <2>1. /\ sess'[t].pc = sess[t].pc /\ sess'[t].blk = sess[t].blk
        /\ sess'[t].streaming = sess[t].streaming /\ sess'[t].affected = sess[t].affected
    BY OutsideKeeps
  <2>2. sess[t].affected \subseteq Blocks
    BY DEF LiveInv, Types, SessRecord
  <2>3. /\ Claims(sess[t]) => winners'[sess[t].blk] = winners[sess[t].blk]
        /\ sess[t].pc = "dropped" => \A b \in sess[t].affected : winners'[b] = winners[b]
    BY <1>2, <2>2 DEF NoneOverdue, ClaimInv, ClaimOK
  <2> QED BY <2>1, <2>2, <2>3 DEF ClaimInv, ClaimOK, Claims, Producing
<1> QED BY <1>1, <1>3 DEF ClaimInv

\* With any number of publishers that come, go, time out and fail, no block is
\* in production by two for as long as no session is overdue: the cleanup task
\* (lib.rs), which drops the winner of a block more than its threshold behind,
\* is all that can take an entry from a session that relies on it.
THEOREM OneProducerOnTime == Spec /\ []NoneOverdue => []OneProducer
<1>1. Init => ClaimInv
  <2> SUFFICES ASSUME Init PROVE ClaimInv
    OBVIOUS
  <2>1. \A s \in Sessions : sess[s].pc = "new"
    BY DEF Init, Fresh
  <2> QED BY <2>1 DEF Init, ClaimInv, ClaimOK, Claims, Producing
<1>2. LiveInv /\ NoneOverdue /\ ClaimInv /\ [Next]_vars => ClaimInv'
  <2> SUFFICES ASSUME LiveInv, NoneOverdue, ClaimInv, [Next]_vars PROVE ClaimInv'
    OBVIOUS
  <2>1. ASSUME NEW s \in Sessions, Own(s) PROVE ClaimInv'
    BY <2>1, ClaimRequests, ClaimWaits DEF Own
  <2> QED BY <2>1, ClaimRequests, ClaimOutside DEF Next
<1>3. ClaimInv => OneProducer
  <2> SUFFICES ASSUME ClaimInv, NEW s \in Sessions, NEW t \in Sessions, s # t,
                      Producing(sess[s]), Producing(sess[t]), sess[s].blk = sess[t].blk
               PROVE  FALSE
    BY DEF OneProducer, Producing
  <2>1. winners[sess[s].blk] = s /\ winners[sess[t].blk] = t
    BY DEF ClaimInv, ClaimOK, Claims
  <2> QED BY <2>1
<1> QED BY <1>1, <1>2, <1>3, LiveAlways, PTL DEF Spec

-----------------------------------------------------------------------------
(* Blocks left to another session.  Whoever takes an entry away either has    *)
(* the block stored, or has ResendBlock to send to every session registered.  *)

Telling == {"ack", "failed", "timedout", "dropped"}
Open(r) == r.pc \notin {"timedout", "cleanup", "dropped", "closed"}

OweInv ==
  /\ owed \in [Sessions -> SUBSET Blocks]
  /\ \A s \in Sessions : owed[s] # {} => sess[s].pc # "new"
  /\ \A s \in Sessions : sess[s].pc = "elect" => winners[sess[s].hdr] # s
  /\ SkippedIsNotLost

\* A step of session s to the record r.  The entries it takes away are of blocks
\* that are stored or that it goes on to tell the others of; the debts it adds
\* are its own, for entries others hold; it stops telling nobody who waits.
OweMove(s, r) ==
  /\ stored' = stored /\ owed' \in [Sessions -> SUBSET Blocks]
  /\ r.pc # "new" /\ (r.pc = "elect" => winners'[r.hdr] # s)
  /\ Open(r) => Open(sess[s])
  /\ \A t \in Sessions \ {s}, b \in Blocks : winners'[b] = t => winners[b] = t
  /\ \A t \in Sessions, b \in Blocks : b \in owed'[t] =>
       b \in owed[t] \/ (t = s /\ winners'[b] \notin {s, NoOne})
  /\ \A t \in Sessions, b \in Blocks \ Bad :
       /\ b \in owed'[t] /\ winners[b] \notin {t, NoOne} /\ winners'[b] \in {t, NoOne}
       /\ IF t = s THEN Open(r) ELSE Open(sess[t])
       => b \in stored \/ (r.pc \in Telling /\ r.blk = b /\ t \in r.todo)
  /\ \A t \in Sessions, b \in Blocks \ Bad :
       b \in owed'[t] /\ Open(sess[t]) /\ Tells(s, t, b) =>
         r.pc \in Telling /\ r.blk = b /\ t \in r.todo

LEMMA OweStep ==
  ASSUME LiveInv, OweInv, NEW s \in Sessions, NEW r \in SessRecord, Set(s, r), OweMove(s, r)
  PROVE  OweInv'
<1>1. sess'[s] = r /\ \A t \in Sessions : t # s => sess'[t] = sess[t]
  BY DEF LiveInv, Types, Set
<1>2. \A t \in Sessions : owed'[t] # {} => sess'[t].pc # "new"
  <2> SUFFICES ASSUME NEW t \in Sessions, owed'[t] # {}, t # s PROVE sess[t].pc # "new"
    BY <1>1 DEF OweMove
  <2> QED BY DEF OweMove, OweInv
<1>3. \A t \in Sessions : sess'[t].pc = "elect" => winners'[sess'[t].hdr] # t
  <2> SUFFICES ASSUME NEW t \in Sessions, t # s, sess[t].pc = "elect"
               PROVE  winners'[sess[t].hdr] # t
    BY <1>1 DEF OweMove
  <2>1. sess[t].hdr \in Blocks
    BY DEF LiveInv, Types
  <2> QED BY <2>1 DEF OweMove, OweInv
<1>4. ASSUME NEW t \in Sessions, NEW b \in Blocks \ Bad, b \in owed'[t], Open(sess'[t])
      PROVE  b \in stored' \/ winners'[b] \notin {t, NoOne} \/ \E u \in Sessions : Tells(u, t, b)'
  <2>1. Open(sess[t])
    BY <1>1, <1>4 DEF OweMove
  <2>2. CASE b \notin owed[t]
    BY <1>4, <2>2 DEF OweMove
  <2>3. CASE b \in stored
    BY <2>3 DEF OweMove
  <2>4. CASE winners[b] \notin {t, NoOne}
    <3>1. winners'[b] \in {t, NoOne} =>
            b \in stored \/ (r.pc \in Telling /\ r.blk = b /\ t \in r.todo)
      BY <1>1, <1>4, <2>1, <2>4 DEF OweMove
    <3>2. r.pc \in Telling /\ r.blk = b /\ t \in r.todo => Tells(s, t, b)'
      BY <1>1 DEF Tells, Telling
    <3> QED BY <2>3, <3>1, <3>2
  <2>5. ASSUME NEW u \in Sessions, Tells(u, t, b) PROVE Tells(u, t, b)'
    <3>1. CASE u = s
      BY <1>1, <1>4, <2>1, <2>5, <3>1 DEF OweMove, Tells, Telling
    <3>2. CASE u # s
      BY <1>1, <2>5, <3>2 DEF Tells
    <3> QED BY <3>1, <3>2
  <2> QED BY <1>4, <2>1, <2>2, <2>3, <2>4, <2>5 DEF OweInv, SkippedIsNotLost, Open
<1>5. SkippedIsNotLost'
  BY <1>4 DEF SkippedIsNotLost, Open
<1> QED BY <1>2, <1>3, <1>5 DEF OweInv, OweMove

\* A step that neither gives nor takes, by a session with nobody left to tell.
LEMMA OweQuiet ==
  ASSUME LiveInv, OweInv, NEW s \in Sessions, NEW r \in SessRecord, Set(s, r),
         UNCHANGED <<winners, stored, owed>>, r.pc # "new",
         r.pc = "elect" => winners[r.hdr] # s, Open(r) => Open(sess[s]),
         sess[s].pc \notin Telling \/ sess[s].todo = {}
  PROVE  OweInv'
<1>1. \A t \in Sessions, b \in Blocks : ~Tells(s, t, b)
  BY DEF Tells, Telling
<1> QED BY <1>1, OweStep DEF OweMove, OweInv

\* Requests, elections and replies.
LEMMA OweRequests ==
  ASSUME LiveInv, OweInv, NEW s \in Sessions,
         Connect(s) \/ Request(s) \/ Look(s) \/ Elect(s) \/ Reply(s)
  PROVE  OweInv'
<1>0. /\ sess[s] \in SessRecord /\ Offers[s] \subseteq Blocks
      /\ winners \in [Blocks -> Sessions \cup {NoOne}] /\ NoOne \notin Sessions
      /\ sess[s].pc \in {"look", "elect"} => sess[s].hdr \in Blocks
      /\ sess[s].pc \in {"new", "ready", "look", "elect", "skip", "resend"}
  BY PublishAssumption DEF LiveInv, Types, Connect, Request, Look, Elect,
       Header, BlockEnd, Items, Leave, Reply, At
<1>00. Open(sess[s]) /\ sess[s].pc \notin Telling
  BY <1>0 DEF Open, Telling
<1>1. ASSUME NEW r \in SessRecord, Set(s, r), UNCHANGED <<winners, stored, owed>>,
             r.pc \notin {"new", "elect"}
      PROVE  OweInv'
  BY <1>00, <1>1, OweQuiet
<1>2. ASSUME Terminate(s) PROVE OweInv'
  <2> DEFINE r == [sess[s] EXCEPT !.pc = "cleanup", !.hdr = 0]
  <2>1. r \in SessRecord /\ r.pc = "cleanup" /\ Set(s, r) /\ UNCHANGED <<winners, stored, owed>>
    BY <1>0, <1>2 DEF Terminate, SessRecord, shared, history
  <2> HIDE DEF r
  <2> QED BY <1>1, <2>1
<1>3. ASSUME Set(s, Fresh), UNCHANGED <<winners, stored, owed>> PROVE OweInv'
  <2>1. Fresh.pc = "ready"
    BY DEF Fresh
  <2> QED BY <1>1, <1>3, <2>1, FreshType
<1>4. ASSUME NEW b \in Offers[s], Header(s, b) PROVE OweInv'
  <2>1. CASE ~Terminate(s)
    <3> DEFINE r == [sess[s] EXCEPT !.pc = "look", !.hdr = b]
    <3>1. r \in SessRecord /\ r.pc = "look" /\ Set(s, r) /\ UNCHANGED <<winners, stored, owed>>
      BY <1>0, <1>4, <2>1 DEF Header, SessRecord, shared, history
    <3> HIDE DEF r
    <3> QED BY <1>1, <3>1
  <2> QED BY <1>2, <2>1
<1>5. ASSUME sess[s].pc \in {"look", "elect"}, winners[sess[s].hdr] \notin {s, NoOne},
             NEW q \in SessRecord, Lose(s, q)
      PROVE  OweInv'
  <2>1. PICK r \in SessRecord : Set(s, r) /\ r.pc = "skip"
    BY <1>5, LoseResult
  <2>2. /\ winners' = winners /\ stored' = stored /\ sess[s].hdr \in Blocks
        /\ owed' \in [Sessions -> SUBSET Blocks]
        /\ \A t \in Sessions : owed'[t] \subseteq owed[t] \cup {sess[s].hdr}
        /\ \A t \in Sessions : t # s => owed'[t] = owed[t]
    BY <1>0, <1>5 DEF Lose, shared, OweInv
  <2>3. \A t \in Sessions, b \in Blocks : ~Tells(s, t, b)
    BY <1>00 DEF Tells, Telling
  <2>4. \A t \in Sessions, b \in Blocks : b \in owed'[t] =>
          b \in owed[t] \/ (t = s /\ winners'[b] \notin {s, NoOne})
    BY <1>5, <2>2
  <2>5. OweMove(s, r)
    BY <1>00, <2>1, <2>2, <2>3, <2>4 DEF OweMove
  <2> QED BY <2>1, <2>5, OweStep
<1>6. CASE Look(s)
  <2>1. CASE Goto(s, "elect") /\ UNCHANGED <<shared, history>> /\ winners[sess[s].hdr] = NoOne
    <3> DEFINE r == [sess[s] EXCEPT !.pc = "elect"]
    <3>1. /\ r \in SessRecord /\ r.pc = "elect" /\ r.hdr = sess[s].hdr /\ Set(s, r)
          /\ UNCHANGED <<winners, stored, owed>>
      BY <1>0, <2>1 DEF Goto, SessRecord, shared, history
    <3> HIDE DEF r
    <3>2. winners[r.hdr] # s
      BY <1>0, <2>1, <3>1
    <3> QED BY <1>00, <3>1, <3>2, OweQuiet
  <2>2. CASE /\ winners[sess[s].hdr] \notin {s, NoOne}
             /\ Lose(s, [sess[s] EXCEPT !.blk = sess[s].hdr])
    <3>1. [sess[s] EXCEPT !.blk = sess[s].hdr] \in SessRecord
      BY <1>0 DEF SessRecord
    <3> QED BY <1>5, <1>6, <2>2, <3>1 DEF Look, At
  <2> QED BY <1>2, <1>6, <2>1, <2>2 DEF Look
<1>7. ASSUME Accept(s, sess[s]) \/ Complete(s, sess[s]), UNCHANGED <<winners, stored, owed>>
      PROVE  OweInv'
  <2>1. PICK r \in SessRecord : Set(s, r) /\ r.pc \in {"ready", "sent", "cleanup"}
    BY <1>0, <1>7, AcceptResult
  <2> QED BY <1>1, <1>7, <2>1
<1>8. CASE Elect(s)
  <2>0. sess[s].pc = "elect" /\ sess[s].hdr \in Blocks /\ winners[sess[s].hdr] # s
    BY <1>0, <1>8 DEF Elect, At, OweInv
  <2>1. CASE winners[sess[s].hdr] # NoOne
    <3>1. Lose(s, sess[s])
      BY <1>8, <2>1 DEF Elect
    <3> QED BY <1>0, <1>5, <2>0, <2>1, <3>1
  <2>2. CASE winners[sess[s].hdr] = NoOne
    <3> DEFINE b == sess[s].hdr
               q == [sess[s] EXCEPT !.blk = b, !.streaming = TRUE, !.hdr = 0,
                                    !.buf = Append(@, b)]
    <3>1. /\ winners' = [winners EXCEPT ![b] = s] /\ Accept(s, q)
          /\ stored' = stored /\ owed' = owed
      BY <1>8, <2>2 DEF Elect, history
    <3>2. q \in SessRecord
      <4>1. sess[s].buf \in Seq(Blocks \cup {0}) /\ b \in Blocks \cup {0}
        BY <1>0 DEF SessRecord
      <4>2. Append(sess[s].buf, b) \in Seq(Blocks \cup {0})
        BY <4>1
      <4> QED BY <1>0, <2>0, <4>2 DEF SessRecord
    <3> HIDE DEF q
    <3>3. PICK r \in SessRecord : Set(s, r) /\ r.pc \in {"ready", "sent", "cleanup"}
      BY <3>1, <3>2, AcceptResult
    <3>4. \A c \in Blocks : winners'[c] = winners[c] \/ (winners[c] = NoOne /\ winners'[c] = s)
      BY <1>0, <2>2, <3>1
    <3>5. \A t \in Sessions, c \in Blocks : ~Tells(s, t, c)
      BY <1>00 DEF Tells, Telling
    <3>6. /\ \A t \in Sessions \ {s}, c \in Blocks : winners'[c] = t => winners[c] = t
          /\ \A t \in Sessions, c \in Blocks :
               ~(winners[c] \notin {t, NoOne} /\ winners'[c] \in {t, NoOne})
      BY <3>4
    <3>7. OweMove(s, r)
      BY <1>00, <3>1, <3>3, <3>5, <3>6 DEF OweMove, OweInv
    <3> QED BY <3>3, <3>7, OweStep
  <2> QED BY <2>1, <2>2
<1>9. CASE Connect(s) \/ Reply(s)
  BY <1>3, <1>9 DEF Connect, Reply, shared, history
<1>10. ASSUME NEW b \in Offers[s], BlockEnd(s, b) PROVE OweInv'
  BY <1>2, <1>7, <1>10 DEF BlockEnd, history
<1>11. CASE Items(s)
  <2>1. CASE Goto(s, "resend") /\ UNCHANGED <<shared, history>>
    <3> DEFINE r == [sess[s] EXCEPT !.pc = "resend"]
    <3>1. r \in SessRecord /\ r.pc = "resend" /\ Set(s, r) /\ UNCHANGED <<winners, stored, owed>>
      BY <1>0, <2>1 DEF Goto, SessRecord, shared, history
    <3> HIDE DEF r
    <3> QED BY <1>1, <3>1
  <2> QED BY <1>2, <1>7, <1>11, <2>1 DEF Items, history
<1>12. CASE Leave(s)
  BY <1>2, <1>12 DEF Leave
<1> QED BY <1>4, <1>6, <1>8, <1>9, <1>10, <1>11, <1>12 DEF Request

\* A block that was handed over, and the end of a session.
LEMMA OweWaits ==
  ASSUME LiveInv, AckInv, OweInv, NEW s \in Sessions,
         \/ Subscribe(s) \/ OnPersisted(s) \/ OnFailed(s) \/ OnTimeout(s)
         \/ (\E t \in Sessions : Deliver(s, t)) \/ FinishAck(s) \/ FinishFailed(s)
         \/ FinishTimeout(s) \/ Collect(s) \/ DropWinner(s) \/ Close(s)
  PROVE  OweInv'
<1>0. /\ sess[s] \in SessRecord /\ active \subseteq Sessions /\ SessOK(sess[s], stored)
      /\ winners \in [Blocks -> Sessions \cup {NoOne}] /\ NoOne \notin Sessions
      /\ sess[s].affected \subseteq Blocks /\ sess[s].todo \subseteq Sessions
  BY PublishAssumption DEF LiveInv, Types, AckInv, SessRecord
<1>1. \A t \in Sessions : owed[t] # {} /\ Open(sess[t]) => t \in active
  BY DEF LiveInv, Held, OweInv, Open
<1>2. ASSUME NEW b, Remove(b), NEW r \in SessRecord, Set(s, r), r.pc \notin {"new", "elect"},
             UNCHANGED <<stored, owed>>, Open(r) => Open(sess[s]),
             sess[s].pc \notin Telling \/ sess[s].todo = {},
             \/ b \in stored \/ b \in Bad
             \/ r.pc \in Telling /\ r.blk = b /\ r.todo = active \ {s} /\ ~Open(r)
      PROVE  OweInv'
  <2>1. /\ \A c \in Blocks : winners'[c] = winners[c] \/ (c = b /\ winners'[c] = NoOne)
        /\ \A t \in Sessions, c \in Blocks : winners'[c] = t => winners[c] = t
    BY <1>0, <1>2, RemoveType DEF Remove
  <2>2. \A t \in Sessions, c \in Blocks : ~Tells(s, t, c)
    BY <1>2 DEF Tells, Telling
  <2>3. ASSUME NEW t \in Sessions, NEW c \in Blocks \ Bad, c \in owed[t],
               winners[c] \notin {t, NoOne}, winners'[c] \in {t, NoOne},
               IF t = s THEN Open(r) ELSE Open(sess[t])
        PROVE  c \in stored \/ (r.pc \in Telling /\ r.blk = c /\ t \in r.todo)
    <3>1. c = b
      BY <2>1, <2>3
    <3>2. CASE t = s
      BY <1>2, <2>3, <3>1, <3>2
    <3>3. CASE t # s
      BY <1>1, <1>2, <2>3, <3>1, <3>3
    <3> QED BY <3>2, <3>3
  <2>4. OweMove(s, r)
    BY <1>2, <2>1, <2>2, <2>3 DEF OweMove, OweInv
  <2> QED BY <1>2, <2>4, OweStep
<1>3. CASE Subscribe(s)
  <2> DEFINE r == [sess[s] EXCEPT !.pc = "wait"]
  <2>1. /\ r \in SessRecord /\ r.pc = "wait" /\ Set(s, r) /\ UNCHANGED <<winners, stored, owed>>
        /\ sess[s].pc = "sent"
    BY <1>0, <1>3 DEF Subscribe, Goto, SessRecord, shared, history, At
  <2> HIDE DEF r
  <2> QED BY <2>1, OweQuiet DEF Open, Telling
<1>4. CASE OnPersisted(s) \/ OnFailed(s)
  <2>1. PICK p \in {"ack", "failed"}, T \in SUBSET Sessions :
          Set(s, [sess[s] EXCEPT !.pc = p, !.todo = T])
    BY <1>0, <1>4 DEF OnPersisted, OnFailed
  <2> DEFINE r == [sess[s] EXCEPT !.pc = p, !.todo = T]
  <2>2. /\ r \in SessRecord /\ r.pc = p /\ Set(s, r) /\ UNCHANGED <<winners, stored, owed>>
        /\ sess[s].pc = "wait"
    BY <1>0, <1>4, <2>1 DEF OnPersisted, OnFailed, SessRecord, shared, history, At
  <2> HIDE DEF r
  <2> QED BY <2>1, <2>2, OweQuiet DEF Open, Telling
<1>5. CASE OnTimeout(s)
  <2> DEFINE r == [sess[s] EXCEPT !.pc = "timedout", !.todo = active \ {s}]
  <2>1. /\ r \in SessRecord /\ r.pc = "timedout" /\ r.blk = sess[s].blk /\ r.todo = active \ {s}
        /\ Set(s, r) /\ Remove(sess[s].blk) /\ UNCHANGED <<stored, owed>> /\ sess[s].pc = "wait"
    BY <1>0, <1>5 DEF OnTimeout, SessRecord, history, At
  <2> HIDE DEF r
  <2>2. r.pc \in Telling /\ ~Open(r) /\ sess[s].pc \notin Telling /\ r.pc \notin {"new", "elect"}
    BY <2>1 DEF Open, Telling
  <2> QED BY <1>2, <2>1, <2>2
<1>6. ASSUME NEW t \in Sessions, Deliver(s, t) PROVE OweInv'
  <2> DEFINE r == [sess[s] EXCEPT !.todo = @ \ {t}]
  <2>1. /\ r \in SessRecord /\ r.pc = sess[s].pc /\ r.blk = sess[s].blk /\ Set(s, r)
        /\ r.todo = sess[s].todo \ {t} /\ sess[s].pc \in Telling
        /\ UNCHANGED <<winners, stored>>
    BY <1>0, <1>6 DEF Deliver, SessRecord, shared, Telling
  <2>2. /\ owed' \in [Sessions -> SUBSET Blocks]
        /\ \A u \in Sessions : owed'[u] \subseteq owed[u]
        /\ t \in active => sess[s].blk \notin owed'[t]
    BY <1>6 DEF Deliver, OweInv
  <2> HIDE DEF r
  <2>3. ASSUME NEW u \in Sessions, NEW b \in Blocks \ Bad, b \in owed'[u], Open(sess[u]),
               Tells(s, u, b)
        PROVE  r.pc \in Telling /\ r.blk = b /\ u \in r.todo
    <3>1. u \in active /\ sess[s].blk = b /\ u \in sess[s].todo
      BY <1>1, <2>2, <2>3 DEF Tells
    <3> QED BY <2>1, <2>2, <2>3, <3>1
  <2>4. r.pc \notin {"new", "elect"} /\ (Open(r) => Open(sess[s]))
    BY <2>1 DEF Open, Telling
  <2>5. OweMove(s, r)
    BY <2>1, <2>2, <2>3, <2>4 DEF OweMove
  <2> QED BY <2>1, <2>5, OweStep
<1>7. CASE FinishAck(s)
  <2>1. /\ Fresh.pc = "ready" /\ Set(s, Fresh) /\ Remove(sess[s].blk) /\ UNCHANGED <<stored, owed>>
        /\ sess[s].pc = "ack" /\ sess[s].todo = {}
    BY <1>7 DEF Fresh, FinishAck, Delivered, At, history
  <2>2. sess[s].blk \in stored /\ Open(sess[s])
    BY <1>0, <2>1 DEF SessOK, Open
  <2> QED BY <1>2, <2>1, <2>2, FreshType
<1>8. CASE FinishFailed(s)
  <2> DEFINE r == [sess[s] EXCEPT !.pc = "cleanup"]
  <2>1. /\ r \in SessRecord /\ r.pc = "cleanup" /\ Set(s, r) /\ Remove(sess[s].blk)
        /\ UNCHANGED <<stored, owed>> /\ sess[s].pc = "failed" /\ sess[s].todo = {}
    BY <1>0, <1>8 DEF FinishFailed, Goto, SessRecord, Delivered, At, history
  <2> HIDE DEF r
  <2>2. sess[s].blk \in Bad /\ ~Open(r)
    BY <1>0, <2>1 DEF SessOK, Open
  <2> QED BY <1>2, <2>1, <2>2
<1>9. CASE FinishTimeout(s) \/ Close(s)
  <2>1. PICK p \in {"cleanup", "closed"} : Goto(s, p)
    BY <1>9 DEF FinishTimeout, Close
  <2> DEFINE r == [sess[s] EXCEPT !.pc = p]
  <2>2. /\ r \in SessRecord /\ r.pc = p /\ Set(s, r) /\ UNCHANGED <<winners, stored, owed>>
        /\ sess[s].todo = {}
    BY <1>0, <1>9, <2>1 DEF FinishTimeout, Close, Goto, SessRecord, Delivered, shared, history
  <2> HIDE DEF r
  <2> QED BY <2>1, <2>2, OweQuiet DEF Open
<1>10. CASE Collect(s)
  <2> DEFINE r == [sess[s] EXCEPT !.pc = "dropped", !.todo = {},
                                  !.affected = {b \in Blocks : winners[b] = s}]
  <2>1. /\ r \in SessRecord /\ r.pc = "dropped" /\ Set(s, r) /\ UNCHANGED <<winners, stored, owed>>
        /\ sess[s].pc = "cleanup"
    BY <1>0, <1>10 DEF Collect, SessRecord, shared, history, At
  <2> HIDE DEF r
  <2> QED BY <2>1, OweQuiet DEF Open, Telling
<1>11. CASE DropWinner(s)
  <2>1. PICK b \in sess[s].affected :
          /\ Remove(b)
          /\ Set(s, [sess[s] EXCEPT !.blk = b, !.affected = @ \ {b}, !.todo = active \ {s}])
    BY <1>11 DEF DropWinner
  <2> DEFINE r == [sess[s] EXCEPT !.blk = b, !.affected = @ \ {b}, !.todo = active \ {s}]
  <2>2. b \in Blocks /\ sess[s].pc = "dropped" /\ sess[s].todo = {} /\ UNCHANGED <<stored, owed>>
    BY <1>0, <1>11 DEF DropWinner, Delivered, At, history
  <2>3. /\ r \in SessRecord /\ r.pc = "dropped" /\ r.blk = b /\ r.todo = active \ {s}
        /\ Set(s, r)
    BY <1>0, <2>1, <2>2 DEF SessRecord
  <2> HIDE DEF r
  <2>4. r.pc \in Telling /\ ~Open(r) /\ r.pc \notin {"new", "elect"}
    BY <2>3 DEF Open, Telling
  <2> QED BY <1>2, <2>1, <2>2, <2>3, <2>4
<1> QED BY <1>3, <1>4, <1>5, <1>6, <1>7, <1>8, <1>9, <1>10, <1>11

\* The pipeline only adds to what is stored; the cleanup task settles what it drops.
LEMMA OweOutside ==
  ASSUME LiveInv, OweInv, Environment \/ CleanupWinners \/ UNCHANGED vars
  PROVE  OweInv'
<1>0. winners \in [Blocks -> Sessions \cup {NoOne}] /\ NoOne \notin Sessions
  BY PublishAssumption DEF LiveInv, Types
<1>1. \A t \in Sessions : /\ sess'[t].pc = sess[t].pc /\ sess'[t].blk = sess[t].blk
                          /\ sess'[t].hdr = sess[t].hdr /\ sess'[t].todo = sess[t].todo
  BY OutsideKeeps
<1>2. \A t, u \in Sessions, b \in Blocks : Tells(t, u, b)' = Tells(t, u, b)
  BY <1>1 DEF Tells
<1>3. /\ owed' \in [Sessions -> SUBSET Blocks] /\ stored \subseteq stored'
      /\ \A t \in Sessions : owed'[t] \subseteq owed[t]
      /\ \A b \in Blocks : winners'[b] \in {winners[b], NoOne}
      /\ \A t \in Sessions, b \in Blocks : b \in owed'[t] => winners'[b] = winners[b]
  <2>1. CASE CleanupWinners
    BY <2>1 DEF CleanupWinners, OweInv
  <2>2. CASE Environment \/ UNCHANGED vars
    BY <2>2 DEF Environment, Persist, VerificationFails, EventMissed, OweInv, vars, shared, history
  <2> QED BY <2>1, <2>2
<1>4. \A t \in Sessions : owed'[t] # {} => sess'[t].pc # "new"
  BY <1>1, <1>3 DEF OweInv
<1>5. \A t \in Sessions : sess'[t].pc = "elect" => winners'[sess'[t].hdr] # t
  <2> SUFFICES ASSUME NEW t \in Sessions, sess[t].pc = "elect" PROVE winners'[sess[t].hdr] # t
    BY <1>1
  <2>1. sess[t].hdr \in Blocks
    BY DEF LiveInv, Types
  <2> QED BY <1>0, <1>3, <2>1 DEF OweInv
<1>6. SkippedIsNotLost'
  <2> SUFFICES ASSUME NEW t \in Sessions, NEW b \in Blocks \ Bad, b \in owed'[t],
                      sess[t].pc \notin {"timedout", "cleanup", "dropped", "closed"}
               PROVE  \/ b \in stored' \/ winners'[b] \notin {t, NoOne}
                      \/ \E u \in Sessions : Tells(u, t, b)
    BY <1>1, <1>2 DEF SkippedIsNotLost
  <2> QED BY <1>3 DEF OweInv, SkippedIsNotLost
<1> QED BY <1>3, <1>4, <1>5, <1>6 DEF OweInv

\* A publisher that is told to skip a block is never left alone with it: until
\* the block is stored, another session holds it or has ResendBlock still to send
\* to this one.  For any number of publishers that send no header inside a block,
\* in every order of their awaits, with time-outs and disconnections at any point
\* (handle_skip, the broadcasts of the wait loop, the end of publish_block_stream).
THEOREM SkippedNeverLost == ~MidBlock => (Spec => []SkippedIsNotLost)
<1> SUFFICES ASSUME ~MidBlock PROVE Spec => []SkippedIsNotLost
  OBVIOUS
<1>1. Init => OweInv
  BY DEF Init, Fresh, OweInv, SkippedIsNotLost
<1>2. LiveInv /\ AckInv /\ OweInv /\ [Next]_vars => OweInv'
  <2> SUFFICES ASSUME LiveInv, AckInv, OweInv, [Next]_vars PROVE OweInv'
    OBVIOUS
  <2>1. ASSUME NEW s \in Sessions, Own(s) PROVE OweInv'
    BY <2>1, OweRequests, OweWaits DEF Own
  <2> QED BY <2>1, OweRequests, OweOutside DEF Next
<1>3. OweInv => SkippedIsNotLost
  BY DEF OweInv
<1> QED BY <1>1, <1>2, <1>3, AckInit, AckNext, LiveAlways, PTL DEF Spec
=============================================================================
