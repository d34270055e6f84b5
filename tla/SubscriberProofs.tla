-------------------------- MODULE SubscriberProofs --------------------------
(***************************************************************************)
(* What a subscriber is promised, for every request, look-ahead, channel   *)
(* capacity and set of blocks, whatever the writers do meanwhile.          *)
(***************************************************************************)
EXTENDS Subscriber, SequenceTheorems, TLAPS

Active == {"check", "send", "subscribe", "wait"}

\* Where the session stands: next continues what was sent, from the requested
\* block on, and is at most one past the requested end.
Position ==
  /\ pc = "start" => out = <<>>
  /\ out # <<>> /\ pc \in Active => next = out[1] + Len(out)
  /\ out = <<>> /\ pc \in Active =>
       /\ req.start # Forever => next = req.start
       /\ req.end # Forever => next <= req.end
  /\ out # <<>> /\ req.end # Forever => out[1] + Len(out) <= req.end + 1
  /\ pc = "send" => next \in stored /\ (req.end # Forever => next <= req.end)
  /\ pc # "over" => cause = "none"

\* An event of the awaited block that was sent is still in the receiver, or an
\* event of a later block is, or the receiver knows that it lagged.
Awaited ==
  pc = "wait" /\ next \in seen => lagged \/ \E i \in DOMAIN rx : rx[i] >= next

\* The inductive invariant.  InOrder needs the position of the session, since
\* what is sent next depends on next only; SuccessIsComplete needs in addition
\* that a session that has sent nothing is not past the requested end.
Inv == TypeOK /\ InOrder /\ Position /\ SuccessIsComplete

\* A sequence with an element has a first and a last one.
LEMMA NonEmpty ==
  ASSUME NEW S, NEW s \in Seq(S), s # <<>>
  PROVE  /\ Len(s) \in Nat \ {0} /\ DOMAIN s = 1 .. Len(s)
         /\ 1 \in DOMAIN s /\ Len(s) \in DOMAIN s /\ s[1] \in S
<1>1. Len(s) \in Nat /\ DOMAIN s = 1 .. Len(s) /\ Len(s) # 0
  BY EmptySeq
<1>2. 1 \in DOMAIN s /\ Len(s) \in DOMAIN s
  BY <1>1
<1> QED BY <1>1, <1>2

LEMMA InvInit == Init => Inv
<1> SUFFICES ASSUME Init PROVE Inv
  OBVIOUS
<1>1. TypeOK
  <2>1. rx = <<>> /\ out = <<>> /\ Len(<<>>) = 0 /\ <<>> \in Seq(Blocks) /\ 0 <= Capacity
    BY SubscriberAssumption DEF Init
  <2> QED BY <2>1 DEF Init, TypeOK, Codes
<1>2. InOrder /\ Position /\ SuccessIsComplete
  BY DEF Init, InOrder, Position, SuccessIsComplete, Active
<1> QED BY <1>1, <1>2 DEF Inv

\* The writers only add blocks and put events into the receiver.
LEMMA WritersPreserve ==
  ASSUME TypeOK, InOrder, Position, SuccessIsComplete, Writers
  PROVE  TypeOK' /\ InOrder' /\ Position' /\ SuccessIsComplete'
<1>1. /\ UNCHANGED <<pc, req, next, out, cause>> /\ stored \subseteq stored'
      /\ stored' \subseteq Blocks /\ writing' \in Blocks \cup {NoBlock}
      /\ earliest' \in Blocks \cup {NoBlock} /\ latest' \in Blocks \cup {NoBlock}
  BY DEF Writers, LiveWrite, Backfill, Announce, Store, TypeOK
<1>2. rx' \in Seq(Blocks) /\ Len(rx') <= Capacity /\ lagged' \in BOOLEAN /\ seen' \subseteq Blocks
  <2>1. CASE Announce
    <3>1. rx \in Seq(Blocks) /\ writing \in Blocks /\ Capacity \in Nat \ {0}
          /\ Len(rx) <= Capacity
      BY <2>1, SubscriberAssumption DEF TypeOK, Announce
    <3>2. Len(rx) = Capacity => Tail(rx) \in Seq(Blocks) /\ Len(Tail(rx)) = Capacity - 1
      BY <3>1
    <3>3. lagged' \in BOOLEAN /\ seen' \subseteq Blocks
      BY <2>1, <3>1 DEF Announce, TypeOK, busVars
    <3>4. CASE pc # "wait"
      BY <2>1, <3>1, <3>3, <3>4 DEF Announce, busVars
    <3>5. CASE pc = "wait" /\ Len(rx) = Capacity
      BY <2>1, <3>1, <3>2, <3>3, <3>5 DEF Announce
    <3>6. CASE pc = "wait" /\ Len(rx) # Capacity
      BY <2>1, <3>1, <3>3, <3>6 DEF Announce
    <3> QED BY <3>4, <3>5, <3>6
  <2>2. CASE UNCHANGED busVars
    BY <2>2 DEF TypeOK, busVars
  <2> QED BY <2>1, <2>2 DEF Writers, LiveWrite, Backfill
<1>3. TypeOK'
  BY <1>1, <1>2 DEF TypeOK
<1>4. InOrder' /\ SuccessIsComplete'
  BY <1>1 DEF InOrder, SuccessIsComplete
<1>5. Position'
  BY <1>1 DEF Position, Active
<1> QED BY <1>3, <1>4, <1>5

\* The steps of a session that neither send a block nor choose one.
LEMMA QuietPreserve ==
  ASSUME TypeOK, InOrder, Position, SuccessIsComplete,
         \/ ReadFails \/ Disconnect \/ Subscribe \/ Receive \/ Timeout \/ Shutdown
  PROVE  TypeOK' /\ InOrder' /\ Position' /\ SuccessIsComplete'
<1>1. UNCHANGED <<storeVars, req, next, out>>
  BY DEF ReadFails, Disconnect, Subscribe, Receive, Timeout, Shutdown, End
<1>2. /\ pc' \in {"check", "wait", "over"} /\ pc \in {"start", "check", "send", "subscribe", "wait"}
      /\ pc' # "over" => cause' = cause /\ pc \in Active
      /\ cause' \in Codes \cup {"none"}
      /\ cause' # cause => cause' # "Success"
  BY DEF ReadFails, Disconnect, Subscribe, Receive, Timeout, Shutdown, End, TypeOK, Codes, Active
<1>3. rx' \in Seq(Blocks) /\ Len(rx') <= Capacity /\ lagged' \in BOOLEAN /\ seen' \subseteq Blocks
  <2>1. CASE Receive
    <3>1. rx \in Seq(Blocks) /\ Len(rx) <= Capacity /\ Capacity \in Nat
      BY SubscriberAssumption DEF TypeOK
    <3>2. CASE lagged
      <4>1. rx' = <<>> /\ Len(<<>>) = 0 /\ <<>> \in Seq(Blocks) /\ 0 <= Capacity
        BY <2>1, <3>1, <3>2 DEF Receive
      <4> QED BY <2>1, <4>1 DEF Receive, TypeOK
    <3>3. CASE ~lagged
      <4>1. rx # <<>> /\ rx' = Tail(rx)
        BY <2>1, <3>3 DEF Receive
      <4>2. Tail(rx) \in Seq(Blocks) /\ Len(Tail(rx)) = Len(rx) - 1 /\ Len(rx) \in Nat
        BY <3>1, <4>1
      <4>3. Len(rx) - 1 <= Capacity
        BY <3>1, <4>2
      <4> QED BY <2>1, <4>1, <4>2, <4>3 DEF Receive, TypeOK
    <3> QED BY <3>2, <3>3
  <2>2. CASE Subscribe
    <3>1. rx' = <<>> /\ Len(<<>>) = 0 /\ <<>> \in Seq(Blocks) /\ 0 <= Capacity
      BY <2>2, SubscriberAssumption DEF Subscribe
    <3> QED BY <2>2, <3>1 DEF Subscribe
  <2>3. CASE ReadFails \/ Disconnect \/ Timeout \/ Shutdown
    <3>1. UNCHANGED busVars
      BY <2>3 DEF ReadFails, Disconnect, Timeout, Shutdown
    <3> QED BY <3>1 DEF TypeOK, busVars
  <2> QED BY <2>1, <2>2, <2>3
<1>4. TypeOK'
  BY <1>1, <1>2, <1>3 DEF TypeOK, storeVars
<1>5. InOrder'
  BY <1>1 DEF InOrder, storeVars
<1>6. Position'
  BY <1>1, <1>2 DEF Position, Active, storeVars
<1>7. SuccessIsComplete'
  BY <1>1, <1>2 DEF SuccessIsComplete
<1> QED BY <1>4, <1>5, <1>6, <1>7

\* validate_and_check_fulfillment begins inside the requested range.
LEMMA ValidatePreserves ==
  ASSUME TypeOK, InOrder, Position, SuccessIsComplete, Validate
  PROVE  TypeOK' /\ InOrder' /\ Position' /\ SuccessIsComplete'
<1>1. UNCHANGED <<storeVars, busVars, req, out>> /\ out = <<>> /\ cause = "none"
  BY DEF Validate, Position
<1>2. /\ req.start \in Nat /\ req.end \in Nat /\ Forever \in Nat
      /\ earliest \in Nat \cup {-1} /\ latest \in Nat \cup {-1}
  BY SubscriberAssumption DEF TypeOK, NoBlock
<1>3. \/ /\ pc' = "check" /\ cause' = cause /\ next' \in Nat
         /\ req.start # Forever => next' = req.start
         /\ req.end # Forever => next' <= req.end
      \/ /\ pc' = "over" /\ next' = next
         /\ cause' \in {"InvalidEnd", "NotAvailable", "InvalidStart"}
  BY <1>2 DEF Validate, Begin, End, NoBlock
<1>4. TypeOK'
  BY <1>1, <1>3 DEF TypeOK, storeVars, busVars, Codes
<1>5. InOrder' /\ SuccessIsComplete'
  BY <1>1, <1>3 DEF InOrder, SuccessIsComplete, storeVars
<1>6. Position'
  BY <1>1, <1>3 DEF Position, Active
<1> QED BY <1>4, <1>5, <1>6

\* process_next_block reports success only past the end, where the position
\* says that the last block sent is the requested end.
LEMMA CheckPreserves ==
  ASSUME TypeOK, InOrder, Position, SuccessIsComplete, Check
  PROVE  TypeOK' /\ InOrder' /\ Position' /\ SuccessIsComplete'
<1>1. UNCHANGED <<storeVars, busVars, req, out, next>> /\ pc = "check" /\ cause = "none"
  BY DEF Check, End, Position
<1>2. /\ req.start \in Nat /\ req.end \in Nat /\ next \in Nat /\ out \in Seq(Blocks)
      /\ Blocks \subseteq Nat
  BY SubscriberAssumption DEF TypeOK
<1>3. \/ /\ pc' \in {"send", "subscribe"} /\ cause' = cause
         /\ pc' = "send" => next \in stored /\ (req.end # Forever => next <= req.end)
      \/ /\ pc' = "over" /\ cause' = "Success" /\ req.end # Forever /\ next > req.end
  BY <1>1, <1>2 DEF Check, End
<1>4. TypeOK'
  BY <1>1, <1>3 DEF TypeOK, storeVars, busVars, Codes
<1>5. InOrder' /\ Position'
  BY <1>1, <1>3 DEF InOrder, Position, Active, storeVars
<1>6. SuccessIsComplete'
  <2>1. CASE cause' # "Success"
    BY <2>1 DEF SuccessIsComplete
  <2>2. CASE cause' = "Success"
    <3>1. req.end # Forever /\ next > req.end
      BY <1>1, <1>3, <2>2
    <3>2. out # <<>>
      BY <1>1, <1>2, <3>1 DEF Position, Active
    <3>3. Len(out) \in DOMAIN out /\ Len(out) \in Nat /\ out[1] \in Nat
      BY <1>2, <3>2, NonEmpty
    <3>4. next = out[1] + Len(out) /\ out[1] + Len(out) <= req.end + 1
      BY <1>1, <3>1, <3>2 DEF Position, Active
    <3>5. out[1] + Len(out) = req.end + 1
      BY <1>2, <3>1, <3>3, <3>4
    <3>6. out[Len(out)] = out[1] + Len(out) - 1 /\ (req.start # Forever => out[1] = req.start)
      BY <3>2, <3>3 DEF InOrder
    <3>7. out[Len(out)] = req.end
      BY <1>2, <3>3, <3>5, <3>6
    <3>8. req.start = Forever \/ Len(out) = req.end - req.start + 1
      <4> SUFFICES ASSUME req.start # Forever PROVE Len(out) = req.end - out[1] + 1
        BY <3>6
      <4> QED BY <1>2, <3>3, <3>5
    <3> QED BY <1>1, <3>2, <3>7, <3>8 DEF SuccessIsComplete
  <2> QED BY <2>1, <2>2
<1> QED BY <1>4, <1>5, <1>6

LEMMA SendPreserves ==
  ASSUME TypeOK, InOrder, Position, SuccessIsComplete, Send
  PROVE  TypeOK' /\ InOrder' /\ Position' /\ SuccessIsComplete'
<1>1. /\ UNCHANGED <<storeVars, busVars, req, cause>> /\ cause = "none"
      /\ out' = Append(out, next) /\ next' = next + 1 /\ pc' = "check"
      /\ next \in stored /\ (req.end # Forever => next <= req.end)
  BY DEF Send, Position
<1>2. /\ req.start \in Nat /\ req.end \in Nat /\ next \in Nat /\ out \in Seq(Blocks)
      /\ Blocks \subseteq Nat /\ next \in Blocks
  BY <1>1, SubscriberAssumption DEF TypeOK
<1>3. /\ Len(out') = Len(out) + 1 /\ out' \in Seq(Blocks) /\ out' # <<>>
      /\ DOMAIN out' = 1 .. Len(out) + 1 /\ DOMAIN out = 1 .. Len(out) /\ Len(out) \in Nat
      /\ \A i \in DOMAIN out : out'[i] = out[i]
      /\ out'[Len(out) + 1] = next
  BY <1>1, <1>2
<1>4. next = out'[1] + Len(out) /\ out'[1] \in Nat
  <2>1. CASE out = <<>>
    BY <1>2, <1>3, <2>1
  <2>2. CASE out # <<>>
    <3>1. 1 \in DOMAIN out /\ out[1] \in Nat
      BY <1>2, <2>2, NonEmpty
    <3>2. next = out[1] + Len(out)
      BY <2>2 DEF Position, Active, Send
    <3> QED BY <1>3, <3>1, <3>2
  <2> QED BY <2>1, <2>2
<1>5. TypeOK'
  BY <1>1, <1>2, <1>3 DEF TypeOK, storeVars, busVars
<1>6. InOrder'
  <2>1. ASSUME NEW i \in DOMAIN out'
        PROVE  out'[i] = out'[1] + i - 1 /\ out'[i] \in stored'
    <3>1. CASE i = Len(out) + 1
      BY <1>1, <1>3, <1>4, <3>1 DEF storeVars
    <3>2. CASE i # Len(out) + 1
      <4>1. i \in DOMAIN out /\ 1 \in DOMAIN out
        BY <1>3, <3>2
      <4> QED BY <1>1, <1>3, <4>1 DEF InOrder, storeVars
    <3> QED BY <3>1, <3>2
  <2>2. req.start # Forever => out'[1] = req.start
    <3>1. CASE out = <<>>
      BY <1>3, <3>1 DEF Position, Active, Send
    <3>2. CASE out # <<>>
      <4>1. 1 \in DOMAIN out
        BY <1>2, <1>3, <3>2
      <4> QED BY <1>3, <3>2, <4>1 DEF InOrder
    <3> QED BY <3>1, <3>2
  <2> QED BY <1>1, <2>1, <2>2 DEF InOrder
<1>7. Position'
  <2>0. /\ next' = next + 1 /\ next = out'[1] + Len(out) /\ Len(out') = Len(out) + 1
        /\ next \in Nat /\ out'[1] \in Nat /\ Len(out) \in Nat /\ req.end \in Nat
    BY <1>1, <1>2, <1>3, <1>4
  <2>1. next' = out'[1] + Len(out')
    BY <2>0
  <2>2. req.end # Forever => out'[1] + Len(out') <= req.end + 1
    <3>1. req.end # Forever => next <= req.end
      BY <1>1
    <3> QED BY <2>0, <3>1
  <2> QED BY <1>1, <1>3, <2>1, <2>2 DEF Position, Active
<1>8. SuccessIsComplete'
  BY <1>1 DEF SuccessIsComplete
<1> QED BY <1>5, <1>6, <1>7, <1>8

LEMMA InvAlways == Spec => []Inv
<1>1. Inv /\ [Next]_vars => Inv'
  <2> SUFFICES ASSUME Inv, [Next]_vars PROVE Inv'
    OBVIOUS
  <2>1. CASE UNCHANGED vars
    <3>1. TypeOK'
      BY <2>1 DEF Inv, vars, storeVars, busVars, TypeOK
    <3>2. InOrder' /\ SuccessIsComplete'
      BY <2>1 DEF Inv, vars, storeVars, busVars, InOrder, SuccessIsComplete
    <3>3. Position'
      BY <2>1 DEF Inv, vars, storeVars, busVars, Position, Active
    <3> QED BY <3>1, <3>2, <3>3 DEF Inv
  <2>2. CASE Session
    BY <2>2, ValidatePreserves, CheckPreserves, SendPreserves, QuietPreserve DEF Session, Inv
  <2>3. CASE Writers
    BY <2>3, WritersPreserve DEF Inv
  <2> QED BY <2>1, <2>2, <2>3 DEF Next
<1> QED BY <1>1, InvInit, PTL DEF Spec

\* The receiver of a waiting session keeps an event that ends the wait.
LEMMA AwaitedStep ==
  ASSUME Inv, Awaited, NoMissedEvent, [Next]_vars
  PROVE  Awaited' /\ NoMissedEvent'
<1>0. /\ rx \in Seq(Blocks) /\ Blocks \subseteq Nat /\ next \in Nat
      /\ DOMAIN rx = 1 .. Len(rx) /\ Len(rx) \in Nat /\ seen \subseteq Blocks
      /\ Capacity \in Nat \ {0}
  BY SubscriberAssumption DEF Inv, TypeOK
<1>1. CASE Announce
  <2>1. writing \in Blocks /\ pc' = pc /\ next' = next /\ cause' = cause
    BY <1>1 DEF Announce, Inv, TypeOK
  <2>2. CASE pc # "wait"
    BY <1>1, <2>1, <2>2 DEF Announce, Awaited, NoMissedEvent, busVars
  <2>3. CASE pc = "wait"
    <3>1. NoMissedEvent'
      BY <2>1, <2>3 DEF NoMissedEvent, Inv, Position
    <3>2. CASE Len(rx) = Capacity
      <4>1. lagged' = TRUE
        BY <1>1, <2>3, <3>2 DEF Announce, Inv, TypeOK
      <4> QED BY <3>1, <4>1 DEF Awaited
    <3>3. CASE Len(rx) # Capacity
      <4>1. rx' = Append(rx, writing) /\ seen' = seen \cup {writing} /\ lagged' = lagged
        BY <1>1, <2>3, <3>3 DEF Announce, Inv, TypeOK
      <4>2. /\ DOMAIN rx' = 1 .. Len(rx) + 1 /\ rx'[Len(rx) + 1] = writing
            /\ \A i \in DOMAIN rx : rx'[i] = rx[i] /\ i \in DOMAIN rx'
            /\ Len(rx) + 1 \in DOMAIN rx'
        BY <1>0, <2>1, <4>1
      <4>3. ASSUME next \in seen', ~lagged
            PROVE  \E i \in DOMAIN rx' : rx'[i] >= next
        <5>1. CASE next = writing
          <6>1. rx'[Len(rx) + 1] >= next
            BY <1>0, <4>2, <5>1
          <6> QED BY <4>2, <6>1
        <5>2. CASE next # writing
          <6>1. PICK i \in DOMAIN rx : rx[i] >= next
            BY <2>3, <4>1, <4>3, <5>2 DEF Awaited
          <6> QED BY <4>2, <6>1
        <5> QED BY <5>1, <5>2
      <4> QED BY <2>1, <3>1, <4>1, <4>3 DEF Awaited
    <3> QED BY <3>1, <3>2, <3>3
  <2> QED BY <2>2, <2>3
<1>2. CASE Receive
  <2>1. NoMissedEvent'
    BY <1>2 DEF Receive, NoMissedEvent
  <2>2. CASE lagged \/ Head(rx) >= next
    BY <1>2, <2>1, <2>2 DEF Receive, Awaited
  <2>3. CASE ~lagged /\ ~(Head(rx) >= next)
    <3>1. /\ rx # <<>> /\ rx' = Tail(rx) /\ pc = "wait" /\ next' = next /\ seen' = seen
      BY <1>2, <2>3 DEF Receive
    <3>2. ASSUME next \in seen
          PROVE  \E j \in DOMAIN rx' : rx'[j] >= next
      <4>1. PICK i \in DOMAIN rx : rx[i] >= next
        BY <2>3, <3>1, <3>2 DEF Awaited
      <4>2. Head(rx) = rx[1]
        BY <1>0
      <4>3. i # 1
        BY <2>3, <4>1, <4>2
      <4>4. i - 1 \in DOMAIN Tail(rx) /\ Tail(rx)[i - 1] = rx[i]
        BY <1>0, <3>1, <4>3
      <4> QED BY <3>1, <4>1, <4>4
    <3> QED BY <2>1, <3>1, <3>2 DEF Awaited
  <2> QED BY <2>2, <2>3
<1>3. CASE Timeout
  <2>1. DOMAIN rx = {}
    BY <1>0, <1>3 DEF Timeout
  <2>2. next \notin seen /\ pc' = "over" /\ UNCHANGED <<next, seen>>
    BY <1>3, <2>1 DEF Timeout, Awaited, End, busVars
  <2> QED BY <2>2 DEF Awaited, NoMissedEvent
<1>4. CASE Subscribe
  BY <1>4 DEF Subscribe, Awaited, NoMissedEvent, Inv, Position
<1>5. CASE Validate \/ Check \/ Send \/ ReadFails \/ Disconnect \/ Shutdown
  <2>1. pc' # "wait" /\ cause' # "Timeout"
    BY <1>5 DEF Validate, Check, Send, ReadFails, Disconnect, Shutdown, Begin, End, Inv, Position
  <2> QED BY <2>1 DEF Awaited, NoMissedEvent
<1>6. CASE (\E b \in Blocks : LiveWrite(b) \/ Backfill(b)) \/ UNCHANGED vars
  <2>1. UNCHANGED <<busVars, pc, next, cause>>
    BY <1>6 DEF LiveWrite, Backfill, Store, vars
  <2> QED BY <2>1 DEF Awaited, NoMissedEvent, busVars
<1> QED BY <1>1, <1>2, <1>3, <1>4, <1>5, <1>6 DEF Next, Session, Writers

\* Whatever the store does meanwhile, a subscriber receives consecutive stored
\* blocks from the requested one on (send_block, process_next_block).
THEOREM StreamInOrder == Spec => []InOrder
<1>1. Inv => InOrder
  BY DEF Inv
<1> QED BY <1>1, InvAlways, PTL

\* A session that reports SUCCESS has sent exactly the requested range
\* (process_next_block, validate_and_check_fulfillment).
THEOREM SuccessAlwaysComplete == Spec => []SuccessIsComplete
<1>1. Inv => SuccessIsComplete
  BY DEF Inv
<1> QED BY <1>1, InvAlways, PTL

\* A session times out only if no event of the awaited block was sent while it
\* was subscribed, however small the channel (wait_for_new_block).
THEOREM NoEventMissed == Spec => []NoMissedEvent
<1>1. Init => Awaited /\ NoMissedEvent
  BY DEF Init, Awaited, NoMissedEvent
<1>2. Inv /\ Awaited /\ NoMissedEvent /\ [Next]_vars => Awaited' /\ NoMissedEvent'
  BY AwaitedStep
<1> QED BY <1>1, <1>2, InvAlways, PTL DEF Spec
=============================================================================
