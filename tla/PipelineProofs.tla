--------------------------- MODULE PipelineProofs ---------------------------
(***************************************************************************)
(* The two promises of the pipeline that the rest of the node relies on,   *)
(* for every set of blocks, capacity of the channels and choice of blocks  *)
(* that are published twice, do not decode or meet an error; and the       *)
(* condition under which the state management loop does not halt.          *)
(***************************************************************************)
EXTENDS Pipeline, SequenceTheorems, TLAPS

PersRecord == [pc : {"starting", "idle", "busy", "announce", "remove", "stopped"},
               verified : BOOLEAN, k : Keys \cup {NoKey}]
StateRecord == [pc : {"starting", "idle", "catchup", "apply", "halted"},
                last : Int, rx : Seq(Keys), lagged : BOOLEAN,
                k : Keys \cup {NoKey}, next : Int]

\* Only keys of completed blocks travel through the channels and the loops.
Types ==
  /\ itemsCh \in Seq(Keys) /\ verifiedCh \in Seq(Keys)
  /\ verifier \in [pc : {"idle", "fail", "send", "stopped"}, k : Keys \cup {NoKey}]
  /\ verifier.pc = "send" => verifier.k \in Keys
  /\ pers \in PersRecord
  /\ pers.pc \in {"busy", "announce"} => pers.k \in Keys
  /\ state \in StateRecord
  /\ state.pc \in {"catchup", "apply"} => state.k \in Keys
  /\ announced \subseteq Keys /\ stored \subseteq Nat /\ applied \in Seq(Nat)

\* Every copy of the news about a block is behind the write of the block.
NewsIsStored ==
  /\ pers.pc = "announce" => HeaderOf[pers.k] \in stored
  /\ \A i \in DOMAIN state.rx : state.rx[i] \in announced
  /\ state.pc \in {"catchup", "apply"} => state.k \in announced

\* A number the state loop may apply: stored, or that of a renumbered block.
Backed(b) ==
  b \in stored \/ \E k \in announced : BlockOf[k] = b /\ HeaderOf[k] # BlockOf[k]

\* The cursor of the state loop is past everything it has applied.
CursorIsPast ==
  /\ state.pc \in {"starting", "idle"} => \A i \in DOMAIN applied : applied[i] <= state.last
  /\ state.pc \in {"catchup", "apply"} =>
       /\ \A i \in DOMAIN applied : applied[i] < state.next
       /\ state.next <= BlockOf[state.k]

\* The inductive invariant.
Inv == Types /\ NewsIsStored /\ AnnouncedIsStored /\ CursorIsPast /\ AppliedAscending

LEMMA HeadTail ==
  ASSUME NEW S, NEW s \in Seq(S), s # <<>>
  PROVE  /\ Head(s) \in S /\ Tail(s) \in Seq(S)
         /\ 1 \in DOMAIN s /\ Head(s) = s[1]
         /\ \A i \in DOMAIN Tail(s) : i + 1 \in DOMAIN s /\ Tail(s)[i] = s[i + 1]
<1>1. Len(s) \in Nat /\ DOMAIN s = 1 .. Len(s) /\ Len(s) # 0
  BY EmptySeq
<1> QED BY <1>1

LEMMA Appended ==
  ASSUME NEW S, NEW s \in Seq(S), NEW e \in S
  PROVE  /\ Append(s, e) \in Seq(S)
         /\ \A i \in DOMAIN Append(s, e) :
              (i \in DOMAIN s /\ Append(s, e)[i] = s[i]) \/ (i = Len(s) + 1 /\ Append(s, e)[i] = e)
OBVIOUS

LEMMA InvInit == Init => Inv
<1> SUFFICES ASSUME Init PROVE Inv
  OBVIOUS
<1>0. <<>> \in Seq(Keys) /\ <<>> \in Seq(Nat) /\ DOMAIN <<>> = {}
  OBVIOUS
<1>1. pers \in PersRecord /\ state \in StateRecord
      /\ verifier \in [pc : {"idle", "fail", "send", "stopped"}, k : Keys \cup {NoKey}]
  BY <1>0 DEF Init, PersRecord, StateRecord, Idle
<1>2. pers.pc = "starting" /\ state.pc = "starting" /\ state.rx = <<>> /\ verifier.pc = "idle"
  BY DEF Init, Idle
<1>3. Types
  BY <1>0, <1>1, <1>2 DEF Init, Types
<1>4. NewsIsStored /\ CursorIsPast
  BY <1>0, <1>2 DEF Init, NewsIsStored, CursorIsPast
<1>5. AnnouncedIsStored /\ AppliedAscending
  BY <1>0 DEF Init, AnnouncedIsStored, AppliedAscending
<1> QED BY <1>3, <1>4, <1>5 DEF Inv

\* What the properties are about; a step that leaves it alone, or only adds a
\* stored block, only has to keep the types.
core == <<state, announced, applied>>

LEMMA CoreSame ==
  ASSUME Inv, Types', UNCHANGED core, stored \subseteq stored',
         pers'.pc = "announce" => HeaderOf[pers'.k] \in stored'
  PROVE  Inv'
<1>1. NewsIsStored'
  BY DEF Inv, NewsIsStored, core
<1>2. AnnouncedIsStored' /\ CursorIsPast' /\ AppliedAscending'
  BY DEF Inv, AnnouncedIsStored, CursorIsPast, AppliedAscending, core
<1> QED BY <1>1, <1>2 DEF Inv

LEMMA StopSteps ==
  ASSUME Inv, VerifierStops \/ PersStops
  PROVE  Inv'
<1>0. <<>> \in Seq(Keys) /\ pers \in PersRecord
  BY DEF Inv, Types
<1>1. /\ UNCHANGED <<core, cache, queued, capability, offered, failed, stored>>
      /\ itemsCh' \in {itemsCh, <<>>} /\ verifiedCh' \in {verifiedCh, <<>>}
      /\ pers' = pers \/ (pers' \in PersRecord /\ pers'.pc = "stopped")
      /\ verifier' = verifier \/ verifier' = [pc |-> "stopped", k |-> NoKey]
  BY <1>0 DEF VerifierStops, PersStops, core, Idle, PersRecord
<1>2. Types'
  <2>1. verifier' \in [pc : {"idle", "fail", "send", "stopped"}, k : Keys \cup {NoKey}]
    BY <1>1 DEF Inv, Types
  <2>2. pers' \in PersRecord /\ state' = state /\ applied' = applied /\ announced' = announced
    BY <1>0, <1>1 DEF core
  <2>3. itemsCh' \in Seq(Keys) /\ verifiedCh' \in Seq(Keys)
    BY <1>0, <1>1 DEF Inv, Types
  <2>4. /\ verifier'.pc = "send" => verifier'.k \in Keys
        /\ pers'.pc \in {"busy", "announce"} => pers'.k \in Keys
    BY <1>1 DEF Inv, Types
  <2>5. stored' = stored
    BY <1>1
  <2> QED BY <2>1, <2>2, <2>3, <2>4, <2>5 DEF Inv, Types
<1> QED BY <1>1, <1>2, CoreSame DEF Inv, NewsIsStored

LEMMA PublisherSteps ==
  ASSUME Inv, (\E k \in Keys : Submit(k)) \/ (\E s \in SUBSET cache : Cleanup(s)) \/ Register
  PROVE  Inv'
<1>1. UNCHANGED <<core, stored, pers, verifier, verifiedCh>> /\ itemsCh' \in Seq(Keys)
  <2>1. ASSUME NEW k \in Keys, Submit(k) PROVE itemsCh' \in Seq(Keys)
    <3>1. itemsCh \in Seq(Keys) /\ Append(itemsCh, k) \in Seq(Keys)
      BY Appended DEF Inv, Types
    <3> QED BY <2>1, <3>1 DEF Submit
  <2>2. UNCHANGED <<core, stored, pers, verifier, verifiedCh>>
    BY DEF Submit, Cleanup, Register, core, channels
  <2>3. CASE Register \/ \E s \in SUBSET cache : Cleanup(s)
    <3>1. UNCHANGED itemsCh
      BY <2>3 DEF Register, Cleanup, channels
    <3> QED BY <2>2, <3>1 DEF Inv, Types
  <2> QED BY <2>1, <2>2, <2>3
<1>2. Types'
  BY <1>1 DEF Inv, Types, core
<1> QED BY <1>1, <1>2, CoreSame DEF Inv, NewsIsStored

LEMMA VerifierSteps ==
  ASSUME Inv, Verifier
  PROVE  Inv'
<1>1. UNCHANGED <<core, stored, pers>>
  BY DEF Verifier, VerifierReceives, VerifierFails, VerifierSends, core
<1>2. /\ itemsCh' \in Seq(Keys) /\ verifiedCh' \in Seq(Keys)
      /\ verifier' \in [pc : {"idle", "fail", "send", "stopped"}, k : Keys \cup {NoKey}]
      /\ verifier'.pc = "send" => verifier'.k \in Keys
  <2>1. CASE VerifierReceives
    <3>1. Head(itemsCh) \in Keys /\ Tail(itemsCh) \in Seq(Keys)
      BY <2>1, HeadTail DEF VerifierReceives, Inv, Types
    <3> QED BY <2>1, <3>1 DEF VerifierReceives, Inv, Types
  <2>2. CASE VerifierFails
    BY <2>2 DEF VerifierFails, channels, Idle, Inv, Types
  <2>3. CASE VerifierSends
    <3>1. Append(verifiedCh, verifier.k) \in Seq(Keys)
      BY <2>3, Appended DEF VerifierSends, Inv, Types
    <3> QED BY <2>3, <3>1 DEF VerifierSends, Idle, Inv, Types
  <2> QED BY <2>1, <2>2, <2>3 DEF Verifier
<1>3. Types'
  BY <1>1, <1>2 DEF Inv, Types, core
<1> QED BY <1>1, <1>3, CoreSame DEF Inv, NewsIsStored

\* The write comes before the announcement, and only a write that succeeded is
\* announced.
LEMMA PersisterSteps ==
  ASSUME Inv, PersStarts \/ PersReceives \/ PersWrites \/ PersRemoves
  PROVE  Inv'
<1>1. UNCHANGED <<core, verifier>> /\ stored \subseteq stored'
  BY DEF PersStarts, PersReceives, PersWrites, PersRemoves, core
<1>2. /\ itemsCh' \in Seq(Keys) /\ verifiedCh' \in Seq(Keys) /\ pers' \in PersRecord
      /\ pers'.pc \in {"busy", "announce"} => pers'.k \in Keys
      /\ pers'.pc = "announce" => HeaderOf[pers'.k] \in stored'
      /\ stored' \subseteq Nat
  <2>0. /\ itemsCh \in Seq(Keys) /\ verifiedCh \in Seq(Keys) /\ pers \in PersRecord
        /\ pers.pc \in {"busy", "announce"} => pers.k \in Keys
        /\ stored \subseteq Nat /\ <<>> \in Seq(Keys)
    BY DEF Inv, Types
  <2>1. CASE PersStarts
    <3>1. pers' \in PersRecord /\ pers'.pc \in {"stopped", "idle"}
      BY <2>0, <2>1 DEF PersStarts, PersRecord
    <3>2. itemsCh' \in Seq(Keys) /\ verifiedCh' \in Seq(Keys) /\ stored' \subseteq Nat
      BY <2>0, <2>1 DEF PersStarts
    <3> QED BY <3>1, <3>2
  <2>2. CASE PersReceives
    <3> DEFINE ch == IF pers.verified THEN verifiedCh ELSE itemsCh
    <3>1. Head(ch) \in Keys /\ Tail(ch) \in Seq(Keys)
      BY <2>0, <2>2, HeadTail DEF PersReceives
    <3>2. /\ pers' \in PersRecord /\ pers'.k \in Keys /\ pers'.pc \in {"busy", "remove"}
      BY <2>0, <2>2, <3>1 DEF PersReceives, PersRecord
    <3>3. itemsCh' \in Seq(Keys) /\ verifiedCh' \in Seq(Keys) /\ stored' \subseteq Nat
      BY <2>0, <2>2, <3>1 DEF PersReceives
    <3> QED BY <3>2, <3>3
  <2>3. CASE PersWrites
    <3>1. pers.k \in Keys /\ HeaderOf[pers.k] \in Nat
      BY <2>0, <2>3, PipelineAssumption DEF PersWrites
    <3>2. /\ pers' \in PersRecord /\ pers'.k = pers.k
          /\ pers'.pc = "announce" => HeaderOf[pers.k] \in stored'
          /\ stored' \subseteq Nat
      BY <2>0, <2>3, <3>1 DEF PersWrites, PersRecord
    <3> QED BY <2>0, <2>3, <3>1, <3>2 DEF PersWrites, channels
  <2>4. CASE PersRemoves
    <3>1. pers' \in PersRecord /\ pers'.pc = "idle"
      BY <2>0, <2>4 DEF PersRemoves, PersRecord
    <3> QED BY <2>0, <2>4, <3>1 DEF PersRemoves, channels
  <2> QED BY <2>1, <2>2, <2>3, <2>4
<1>3. Types'
  BY <1>1, <1>2 DEF Inv, Types, core
<1> QED BY <1>1, <1>2, <1>3, CoreSame

LEMMA AnnounceStep ==
  ASSUME Inv, PersAnnounces
  PROVE  Inv'
<1>0. /\ pers \in PersRecord /\ pers.pc = "announce" /\ pers.k \in Keys
      /\ HeaderOf[pers.k] \in stored /\ state \in StateRecord /\ state.rx \in Seq(Keys)
      /\ Capacity \in Nat \ {0}
  BY PipelineAssumption DEF PersAnnounces, Inv, Types, NewsIsStored, StateRecord
<1>1. /\ UNCHANGED <<stored, applied, verifier, itemsCh, verifiedCh>>
      /\ announced' = announced \cup {pers.k}
  BY DEF PersAnnounces, channels
<1>2. pers' \in PersRecord /\ pers'.pc = "remove"
  BY <1>0 DEF PersAnnounces, PersRecord
<1> DEFINE kept == IF Len(state.rx) = Capacity THEN Tail(state.rx) ELSE state.rx
<1>3. kept \in Seq(Keys) /\ \A i \in DOMAIN kept : kept[i] \in announced'
  <2>1. CASE Len(state.rx) = Capacity
    <3>1. state.rx # <<>>
      BY <1>0, <2>1
    <3> QED BY <1>0, <1>1, <2>1, <3>1, HeadTail DEF Inv, NewsIsStored
  <2>2. CASE Len(state.rx) # Capacity
    BY <1>0, <1>1, <2>2 DEF Inv, NewsIsStored
  <2> QED BY <2>1, <2>2
<1>4. /\ Append(kept, pers.k) \in Seq(Keys)
      /\ \A i \in DOMAIN Append(kept, pers.k) : Append(kept, pers.k)[i] \in announced'
  <2> HIDE DEF kept
  <2> QED BY <1>0, <1>1, <1>3, Appended
<1>5. /\ state' \in StateRecord /\ state'.pc = state.pc /\ state'.k = state.k
      /\ state'.next = state.next /\ state'.last = state.last
      /\ state'.rx = state.rx \/ state'.rx = Append(kept, pers.k)
  <2>1. CASE state.pc \in {"starting", "halted"}
    BY <1>0, <2>1 DEF PersAnnounces
  <2>2. CASE state.pc \notin {"starting", "halted"}
    <3>1. state' = [state EXCEPT !.rx = Append(kept, pers.k),
                                 !.lagged = @ \/ (Len(state.rx) = Capacity)]
      BY <2>2 DEF PersAnnounces
    <3> HIDE DEF kept
    <3> QED BY <1>0, <1>4, <3>1 DEF StateRecord
  <2> QED BY <2>1, <2>2
<1> HIDE DEF kept
<1>6. Types'
  BY <1>0, <1>1, <1>2, <1>5 DEF Inv, Types
<1>7. NewsIsStored'
  BY <1>1, <1>2, <1>4, <1>5 DEF Inv, NewsIsStored
<1>8. AnnouncedIsStored' /\ CursorIsPast' /\ AppliedAscending'
  BY <1>0, <1>1, <1>5 DEF Inv, AnnouncedIsStored, CursorIsPast, AppliedAscending
<1> QED BY <1>6, <1>7, <1>8 DEF Inv

\* A step of the state loop that applies nothing.
LEMMA StateIdleStep ==
  ASSUME Inv, StateOnly, applied' = applied,
         state' \in StateRecord,
         state'.pc \in {"catchup", "apply"} => state'.k \in Keys,
         \A i \in DOMAIN state'.rx : state'.rx[i] \in announced,
         state'.pc \in {"catchup", "apply"} =>
           /\ state'.k \in announced /\ state'.next <= BlockOf[state'.k]
           /\ \A i \in DOMAIN applied : applied[i] < state'.next,
         state'.pc \in {"starting", "idle"} =>
           \A i \in DOMAIN applied : applied[i] <= state'.last
  PROVE  Inv'
<1>1. UNCHANGED <<itemsCh, verifiedCh, verifier, pers, announced, stored>>
  BY DEF StateOnly, channels
<1>2. Types'
  BY <1>1 DEF Inv, Types
<1>3. NewsIsStored' /\ CursorIsPast'
  BY <1>1 DEF Inv, NewsIsStored, CursorIsPast
<1>4. AnnouncedIsStored' /\ AppliedAscending'
  BY <1>1 DEF Inv, AnnouncedIsStored, AppliedAscending
<1> QED BY <1>2, <1>3, <1>4 DEF Inv

\* A backed number past everything applied is applied.
LEMMA ApplyStep ==
  ASSUME Inv, StateOnly, state' \in StateRecord, state'.rx = state.rx,
         NEW b \in Nat, Backed(b), applied' = Append(applied, b),
         \A i \in DOMAIN applied : applied[i] < b,
         \/ /\ state'.pc = "catchup" /\ state.pc = "catchup" /\ state'.k = state.k
            /\ b < state'.next /\ state'.next <= BlockOf[state.k]
         \/ state'.pc = "idle" /\ b <= state'.last
  PROVE  Inv'
<1>1. UNCHANGED <<itemsCh, verifiedCh, verifier, pers, announced, stored>>
  BY DEF StateOnly, channels
<1>2. /\ applied \in Seq(Nat) /\ b \in Nat /\ DOMAIN applied = 1 .. Len(applied)
      /\ Len(applied) \in Nat /\ \A i \in DOMAIN applied : applied[i] \in Nat
  BY DEF Inv, Types
<1>3. /\ applied' \in Seq(Nat) /\ \A i \in DOMAIN applied' :
           (i \in DOMAIN applied /\ applied'[i] = applied[i])
             \/ (i = Len(applied) + 1 /\ applied'[i] = b)
  BY <1>2, Appended
<1>4. Types'
  BY <1>1, <1>3 DEF Inv, Types
<1>5. NewsIsStored' /\ AnnouncedIsStored'
  BY <1>1, <1>3 DEF Inv, NewsIsStored, AnnouncedIsStored, Backed
<1>6. \A i \in DOMAIN applied' : applied'[i] <= b
  BY <1>2, <1>3
<1>7. CursorIsPast'
  <2>1. state'.next \in Int /\ state'.last \in Int
    BY DEF StateRecord
  <2>2. CASE state'.pc = "catchup"
    <3>1. b < state'.next /\ state'.next <= BlockOf[state'.k]
      BY <2>2
    <3>2. \A i \in DOMAIN applied' : applied'[i] < state'.next
      BY <1>2, <1>3, <2>1, <3>1
    <3> QED BY <2>2, <3>1, <3>2 DEF CursorIsPast
  <2>3. CASE state'.pc = "idle"
    <3>1. \A i \in DOMAIN applied' : applied'[i] <= state'.last
      BY <1>2, <1>3, <2>1, <2>3
    <3> QED BY <2>3, <3>1 DEF CursorIsPast
  <2> QED BY <2>2, <2>3
<1>8. AppliedAscending'
  <2> SUFFICES ASSUME NEW i \in DOMAIN applied', NEW j \in DOMAIN applied', i < j
               PROVE  applied'[i] < applied'[j]
    BY DEF AppliedAscending
  <2>1. i \in DOMAIN applied /\ applied'[i] = applied[i]
    BY <1>2, <1>3
  <2> QED BY <1>2, <1>3, <2>1 DEF Inv, AppliedAscending
<1> QED BY <1>4, <1>5, <1>7, <1>8 DEF Inv

LEMMA StateSteps ==
  ASSUME Inv, StatePlugin
  PROVE  Inv'
<1>0. /\ state \in StateRecord /\ state.rx \in Seq(Keys) /\ state.last \in Int
      /\ state.next \in Int /\ BlockOf \in [Keys -> Nat] /\ applied \in Seq(Nat)
      /\ (\A i \in DOMAIN applied : applied[i] \in Nat)
      /\ stored \subseteq Nat /\ <<>> \in Seq(Keys) /\ DOMAIN <<>> = {}
  BY PipelineAssumption DEF Inv, Types, StateRecord
<1>1. CASE StateStarts
  <2>1. /\ state' \in StateRecord /\ state.pc = "starting" /\ state'.pc = "idle"
        /\ state'.rx = state.rx /\ state'.last = state.last
    BY <1>0, <1>1 DEF StateStarts, StateRecord
  <2>2. StateOnly /\ applied' = applied
    BY <1>1 DEF StateStarts
  <2> QED BY <2>1, <2>2, StateIdleStep DEF Inv, NewsIsStored, CursorIsPast
<1>2. CASE StateReceives
  <2> DEFINE k == Head(state.rx)
  <2>1. /\ k \in Keys /\ Tail(state.rx) \in Seq(Keys) /\ k \in announced /\ BlockOf[k] \in Nat
        /\ \A i \in DOMAIN Tail(state.rx) : Tail(state.rx)[i] \in announced
    BY <1>0, <1>2, HeadTail DEF StateReceives, Inv, NewsIsStored
  <2>2. StateOnly /\ applied' = applied /\ state.pc = "idle"
    BY <1>2 DEF StateReceives
  <2>3. \A i \in DOMAIN applied : applied[i] <= state.last
    BY <2>2 DEF Inv, CursorIsPast
  <2> HIDE DEF k
  <2>4. CASE state.lagged
    <3>1. state' \in StateRecord /\ state'.pc = "halted" /\ state'.rx = <<>>
      BY <1>0, <1>2, <2>4 DEF StateReceives, StateRecord
    <3> QED BY <1>0, <2>2, <3>1, StateIdleStep
  <2>5. CASE ~state.lagged /\ BlockOf[k] <= state.last
    <3>1. /\ state' \in StateRecord /\ state'.pc = "idle" /\ state'.rx = Tail(state.rx)
          /\ state'.last = state.last
      BY <1>0, <1>2, <2>1, <2>2, <2>5 DEF StateReceives, StateRecord, k
    <3> QED BY <2>1, <2>2, <2>3, <3>1, StateIdleStep
  <2>6. CASE ~state.lagged /\ ~(BlockOf[k] <= state.last)
    <3>1. state' = [state EXCEPT !.rx = Tail(state.rx), !.k = k,
                                 !.pc = "catchup", !.next = state.last + 1]
      BY <1>0, <1>2, <2>6 DEF StateReceives, StateRecord, k
    <3>0. state.last + 1 \in Int
      BY <1>0
    <3>2. /\ state' \in StateRecord /\ state'.pc = "catchup" /\ state'.rx = Tail(state.rx)
          /\ state'.k = k /\ state'.next = state.last + 1
      BY <1>0, <2>1, <3>0, <3>1 DEF StateRecord
    <3>3. state.last + 1 <= BlockOf[k] /\ \A i \in DOMAIN applied : applied[i] < state.last + 1
      BY <1>0, <2>1, <2>3, <2>6
    <3> QED BY <2>1, <2>2, <3>2, <3>3, StateIdleStep
  <2> QED BY <2>4, <2>5, <2>6
<1>3. CASE StateCatchesUp
  <2>1. /\ StateOnly /\ state.pc = "catchup" /\ state.k \in Keys /\ state.k \in announced
        /\ BlockOf[state.k] \in Nat /\ state.next <= BlockOf[state.k]
        /\ \A i \in DOMAIN applied : applied[i] < state.next
        /\ \A i \in DOMAIN state.rx : state.rx[i] \in announced
    BY <1>0, <1>3 DEF StateCatchesUp, Inv, Types, NewsIsStored, CursorIsPast
  <2>2. CASE /\ state.next < BlockOf[state.k] /\ state.next \in stored
             /\ applied' = Append(applied, state.next)
             /\ state' = [state EXCEPT !.next = state.next + 1]
    <3>0. state.next + 1 \in Int
      BY <1>0
    <3>1. /\ state' \in StateRecord /\ state'.pc = "catchup" /\ state'.rx = state.rx
          /\ state'.k = state.k /\ state'.next = state.next + 1
      BY <1>0, <2>1, <2>2, <3>0 DEF StateRecord
    <3>2. state.next < state.next + 1 /\ state.next + 1 <= BlockOf[state.k]
      BY <1>0, <2>1, <2>2
    <3>3. state.next \in Nat /\ Backed(state.next)
      BY <1>0, <2>2 DEF Backed
    <3> QED BY <2>1, <2>2, <3>1, <3>2, <3>3, ApplyStep
  <2>3. CASE UNCHANGED applied /\ state' = [state EXCEPT !.pc = "apply"]
    <3>1. /\ state' \in StateRecord /\ state'.pc = "apply" /\ state'.rx = state.rx
          /\ state'.k = state.k /\ state'.next = state.next
      BY <1>0, <2>3 DEF StateRecord
    <3> QED BY <2>1, <2>3, <3>1, StateIdleStep
  <2> QED BY <1>3, <2>2, <2>3 DEF StateCatchesUp
<1>4. CASE StateApplies
  <2>1. /\ StateOnly /\ state.pc = "apply" /\ state.k \in Keys /\ state.k \in announced
        /\ BlockOf[state.k] \in Nat /\ state.next <= BlockOf[state.k]
        /\ \A i \in DOMAIN applied : applied[i] < state.next
        /\ \A i \in DOMAIN state.rx : state.rx[i] \in announced
    BY <1>0, <1>4 DEF StateApplies, Inv, Types, NewsIsStored, CursorIsPast
  <2>2. CASE /\ applied' = Append(applied, BlockOf[state.k])
             /\ state' = [state EXCEPT !.pc = "idle", !.last = BlockOf[state.k], !.k = NoKey]
    <3>0. BlockOf[state.k] \in Int
      BY <2>1
    <3>1. /\ state' \in StateRecord /\ state'.pc = "idle" /\ state'.rx = state.rx
          /\ state'.last = BlockOf[state.k]
      BY <1>0, <2>2, <3>0 DEF StateRecord
    <3>2. \A i \in DOMAIN applied : applied[i] < BlockOf[state.k]
      BY <1>0, <2>1
    <3>3. BlockOf[state.k] <= BlockOf[state.k]
      BY <2>1
    <3>4. Backed(BlockOf[state.k])
      BY <2>1 DEF Backed, Inv, AnnouncedIsStored
    <3> QED BY <2>1, <2>2, <3>1, <3>2, <3>3, <3>4, ApplyStep
  <2>3. CASE /\ state' = [state EXCEPT !.pc = "halted", !.rx = <<>>, !.k = NoKey]
             /\ UNCHANGED applied
    <3>1. state' \in StateRecord /\ state'.pc = "halted" /\ state'.rx = <<>>
      BY <1>0, <2>3 DEF StateRecord
    <3> QED BY <1>0, <2>1, <2>3, <3>1, StateIdleStep
  <2> QED BY <1>4, <2>2, <2>3 DEF StateApplies
<1> QED BY <1>1, <1>2, <1>3, <1>4 DEF StatePlugin

LEMMA InvAlways == Spec => []Inv
<1>1. Inv /\ [Next]_vars => Inv'
  <2> SUFFICES ASSUME Inv, [Next]_vars PROVE Inv'
    OBVIOUS
  <2>1. CASE UNCHANGED vars
    <3>1. UNCHANGED <<core, stored, pers, verifier, itemsCh, verifiedCh>>
      BY <2>1 DEF vars, core, channels
    <3>2. Types'
      BY <3>1 DEF Inv, Types, core
    <3> QED BY <3>1, <3>2, CoreSame DEF Inv, NewsIsStored
  <2>2. CASE Persister
    BY <2>2, PersisterSteps, AnnounceStep DEF Persister
  <2> QED BY <2>1, <2>2, PublisherSteps, VerifierSteps, StateSteps, StopSteps DEF Next
<1> QED BY <1>1, InvInit, PTL DEF Spec

\* What the persistence loop announces can be read back under the number of its
\* first header, and the state loop holds state of stored blocks and renumbered
\* ones only, whatever fails, is repeated or is shut down on the way
\* (process_event, apply_state_from_block_event).
THEOREM AnnouncedAlwaysStored == Spec => []AnnouncedIsStored
<1>1. Inv => AnnouncedIsStored
  BY DEF Inv
<1> QED BY <1>1, InvAlways, PTL

\* No block is applied to the state twice or after a later one, with repeated
\* events, interrupted catch-ups and lagging receivers (the loop of start()).
THEOREM AlwaysAppliedAscending == Spec => []AppliedAscending
<1>1. Inv => AppliedAscending
  BY DEF Inv
<1> QED BY <1>1, InvAlways, PTL

-----------------------------------------------------------------------------
(* When the state loop keeps running *)

\* The persistence loop goes on to its next event only when the state loop has
\* handled the last one.
OnTime == pers.pc = "idle" => state.rx = <<>> /\ state.pc \notin {"catchup", "apply"}

Queue(ch) == {ch[i] : i \in DOMAIN ch}
Distinct(ch) == \A i, j \in DOMAIN ch : ch[i] = ch[j] => i = j

Verifying(k) == verifier.pc \in {"fail", "send"} /\ verifier.k = k
Persisting(k) == pers.pc \in {"busy", "announce", "remove"} /\ pers.k = k

\* A key is in one place only, was offered, and is in the cleanup queue only
\* when its entry is gone: what one loop marks for removal is not the entry
\* another loop works on.
Once ==
  /\ Distinct(itemsCh) /\ Distinct(verifiedCh)
  /\ Queue(itemsCh) \subseteq offered /\ Queue(verifiedCh) \subseteq offered
  /\ verifier.pc \in {"fail", "send"} => verifier.k \in offered
  /\ pers.pc \in {"busy", "announce", "remove"} => pers.k \in offered
  /\ \A k \in offered :
       /\ k \in Queue(itemsCh) =>
            k \notin Queue(verifiedCh) /\ ~ Verifying(k) /\ ~ Persisting(k)
       /\ k \in Queue(verifiedCh) => ~ Verifying(k) /\ ~ Persisting(k)
       /\ ~ Verifying(k) \/ ~ Persisting(k)
  /\ cache \subseteq offered /\ queued \subseteq offered /\ queued \cap cache = {}

\* The entry of a block is in the cache while the block is persisted, and as
\* long as the state loop has an event for it; there is one event at most.
AtHand ==
  /\ pers.pc \in {"busy", "announce"} => pers.k \in cache
  /\ ~ state.lagged /\ state.pc # "halted"
  /\ state.rx # <<>> \/ state.pc \in {"catchup", "apply"} =>
       pers.pc = "remove" /\ pers.k \in cache
  /\ state.rx # <<>> => state.rx = <<pers.k>> /\ state.pc \notin {"catchup", "apply"}
  /\ state.pc \in {"catchup", "apply"} => state.k = pers.k

LEMMA QueueTail ==
  ASSUME NEW s \in Seq(Keys), s # <<>>, Distinct(s)
  PROVE  /\ Queue(Tail(s)) = Queue(s) \ {Head(s)} /\ Distinct(Tail(s))
         /\ Head(s) \in Queue(s) /\ Head(s) \in Keys /\ Tail(s) \in Seq(Keys)
<1>1. Len(s) \in Nat /\ DOMAIN s = 1 .. Len(s) /\ Len(s) # 0
  BY EmptySeq
<1>2. /\ Tail(s) \in Seq(Keys) /\ DOMAIN Tail(s) = 1 .. Len(s) - 1 /\ Head(s) = s[1]
      /\ \A i \in 1 .. Len(s) - 1 : Tail(s)[i] = s[i + 1]
  BY <1>1
<1>3. Distinct(Tail(s))
  BY <1>1, <1>2 DEF Distinct
<1>4. Queue(Tail(s)) \subseteq Queue(s) \ {Head(s)}
  BY <1>1, <1>2 DEF Distinct, Queue
<1>5. ASSUME NEW k \in Queue(s), k # Head(s) PROVE k \in Queue(Tail(s))
  <2>1. PICK i \in 1 .. Len(s) : k = s[i]
    BY <1>1 DEF Queue
  <2>2. i # 1 /\ i - 1 \in 1 .. Len(s) - 1
    BY <1>1, <1>2, <1>5, <2>1
  <2>3. Tail(s)[i - 1] = k
    BY <1>2, <2>1, <2>2
  <2> QED BY <1>2, <2>2, <2>3 DEF Queue
<1>6. Head(s) \in Queue(s) /\ Head(s) \in Keys
  BY <1>1, <1>2 DEF Queue
<1> QED BY <1>2, <1>3, <1>4, <1>5, <1>6

LEMMA QueueAppend ==
  ASSUME NEW s \in Seq(Keys), NEW e \in Keys, Distinct(s), e \notin Queue(s)
  PROVE  Queue(Append(s, e)) = Queue(s) \cup {e} /\ Distinct(Append(s, e))
<1>1. /\ Len(s) \in Nat /\ DOMAIN s = 1 .. Len(s) /\ DOMAIN Append(s, e) = 1 .. Len(s) + 1
      /\ Append(s, e)[Len(s) + 1] = e
      /\ \A i \in 1 .. Len(s) : Append(s, e)[i] = s[i]
  OBVIOUS
<1>2. Distinct(Append(s, e))
  BY <1>1 DEF Distinct, Queue
<1>3. Queue(Append(s, e)) \subseteq Queue(s) \cup {e}
  BY <1>1 DEF Queue
<1>4. Queue(s) \cup {e} \subseteq Queue(Append(s, e))
  BY <1>1 DEF Queue
<1> QED BY <1>2, <1>3, <1>4

LEMMA QueueEmpty == Queue(<<>>) = {} /\ Distinct(<<>>)
BY DEF Queue, Distinct

\* Taking an entry out of the cache keeps the cache apart from its queue.
LEMMA MarkKeeps ==
  ASSUME Once, NEW k \in offered, MarkForRemoval(k)
  PROVE  /\ cache' \subseteq offered /\ queued' \subseteq offered /\ queued' \cap cache' = {}
         /\ cache' = cache \ {k}
BY DEF Once, MarkForRemoval

LEMMA OnceInit == Init => Once
<1> SUFFICES ASSUME Init PROVE Once
  OBVIOUS
<1>1. verifier.pc = "idle" /\ pers.pc = "starting"
  BY DEF Init, Idle
<1> QED BY <1>1, QueueEmpty DEF Init, Once, Verifying, Persisting

\* The publisher, the cleanup task and the verifier.
LEMMA OnceBefore ==
  ASSUME Inv, Once, (\E k \in Keys : Submit(k)) \/ (\E s \in SUBSET cache : Cleanup(s))
                    \/ Register \/ Verifier
  PROVE  Once'
<1>0. /\ itemsCh \in Seq(Keys) /\ verifiedCh \in Seq(Keys)
      /\ Distinct(itemsCh) /\ Distinct(verifiedCh)
  BY DEF Inv, Types, Once
<1>1. ASSUME NEW k \in Keys, Submit(k) PROVE Once'
  <2>1. /\ k \notin offered /\ cache' = cache \cup {k} /\ offered' = offered \cup {k}
        /\ itemsCh' = Append(itemsCh, k) \/ itemsCh' = itemsCh
        /\ UNCHANGED <<queued, verifiedCh, verifier, pers>>
    BY <1>1 DEF Submit
  <2>2. Queue(itemsCh') \subseteq Queue(itemsCh) \cup {k} /\ Distinct(itemsCh')
    <3>1. Queue(Append(itemsCh, k)) = Queue(itemsCh) \cup {k} /\ Distinct(Append(itemsCh, k))
      BY <1>0, <1>1, <2>1, QueueAppend DEF Once
    <3> QED BY <1>0, <2>1, <3>1
  <2>3. k \notin queued /\ k \notin Queue(verifiedCh) /\ ~ Verifying(k) /\ ~ Persisting(k)
    BY <2>1 DEF Once, Verifying, Persisting
  <2>4. \A x : Verifying(x)' = Verifying(x) /\ Persisting(x)' = Persisting(x)
    BY <2>1 DEF Verifying, Persisting
  <2> QED BY <2>1, <2>2, <2>3, <2>4 DEF Once
<1>2. ASSUME NEW s \in SUBSET cache, Cleanup(s) PROVE Once'
  <2>1. /\ cache' \subseteq cache /\ queued' = {}
        /\ UNCHANGED <<itemsCh, verifiedCh, verifier, pers, offered>>
    BY <1>2 DEF Cleanup, channels
  <2> QED BY <2>1 DEF Once, Verifying, Persisting
<1>3. CASE Register
  <2>1. UNCHANGED <<cache, queued, itemsCh, verifiedCh, verifier, pers, offered>>
    BY <1>3 DEF Register, channels
  <2> QED BY <2>1 DEF Once, Verifying, Persisting
<1>4. CASE VerifierReceives
  <2> DEFINE k == Head(itemsCh)
  <2>1. /\ verifier.pc = "idle" /\ itemsCh # <<>> /\ itemsCh' = Tail(itemsCh)
        /\ verifier'.k = k /\ verifier'.pc \in {"fail", "send"}
        /\ UNCHANGED <<cache, queued, verifiedCh, pers, offered>>
    BY <1>4 DEF VerifierReceives
  <2>2. /\ Queue(itemsCh') = Queue(itemsCh) \ {k} /\ Distinct(itemsCh')
        /\ k \in Queue(itemsCh) /\ k \in Keys
    BY <1>0, <2>1, QueueTail
  <2> HIDE DEF k
  <2>3. \A x : ~ Verifying(x) /\ Persisting(x)' = Persisting(x) /\ Verifying(x)' = (x = k)
    BY <2>1 DEF Verifying, Persisting
  <2> QED BY <2>1, <2>2, <2>3 DEF Once
<1>5. CASE VerifierFails
  <2>1. /\ verifier.pc = "fail" /\ verifier'.pc = "idle" /\ MarkForRemoval(verifier.k)
        /\ UNCHANGED <<itemsCh, verifiedCh, pers, offered>>
    BY <1>5 DEF VerifierFails, Idle, channels
  <2>2. \A x : ~ Verifying(x)' /\ Persisting(x)' = Persisting(x)
    BY <2>1 DEF Verifying, Persisting
  <2>3. cache' \subseteq offered /\ queued' \subseteq offered /\ queued' \cap cache' = {}
    BY <2>1, MarkKeeps DEF Once
  <2> QED BY <2>1, <2>2, <2>3 DEF Once
<1>6. CASE VerifierSends
  <2>1. /\ verifier.pc = "send" /\ verifier'.pc = "idle" /\ verifier.k \in Keys
        /\ verifiedCh' = verifiedCh \/ verifiedCh' = Append(verifiedCh, verifier.k)
        /\ UNCHANGED <<cache, queued, itemsCh, pers, offered>>
    BY <1>6 DEF VerifierSends, Idle, Inv, Types
  <2>2. /\ verifier.k \in offered /\ verifier.k \notin Queue(verifiedCh)
        /\ verifier.k \notin Queue(itemsCh) /\ ~ Persisting(verifier.k)
    BY <2>1 DEF Once, Verifying
  <2>3. \A x : ~ Verifying(x)' /\ Persisting(x)' = Persisting(x)
    BY <2>1 DEF Verifying, Persisting
  <2>4. /\ Distinct(verifiedCh')
        /\ \/ Queue(verifiedCh') = Queue(verifiedCh)
           \/ Queue(verifiedCh') = Queue(verifiedCh) \cup {verifier.k}
    <3>1. verifiedCh \in Seq(Keys) /\ Distinct(verifiedCh)
      BY <1>0
    <3>2. CASE verifiedCh' = verifiedCh
      BY <3>1, <3>2
    <3>3. CASE verifiedCh' = Append(verifiedCh, verifier.k)
      BY <2>1, <2>2, <3>1, <3>3, QueueAppend
    <3> QED BY <2>1, <3>2, <3>3
  <2> QED BY <2>1, <2>2, <2>3, <2>4 DEF Once
<1> QED BY <1>1, <1>2, <1>3, <1>4, <1>5, <1>6 DEF Verifier

\* A loop that ends drops its channels.
LEMMA OnceStopped ==
  ASSUME Inv, Once, VerifierStops \/ PersStops
  PROVE  Once'
<1>0. pers \in PersRecord
  BY DEF Inv, Types
<1>1. /\ UNCHANGED <<cache, queued, offered>>
      /\ itemsCh' \in {itemsCh, <<>>} /\ verifiedCh' \in {verifiedCh, <<>>}
      /\ pers' = pers \/ (pers'.pc = "stopped" /\ pers.pc = "idle")
      /\ verifier' = verifier \/ verifier'.pc = "stopped"
  BY <1>0 DEF VerifierStops, PersStops, Idle, PersRecord
<1>2. /\ Distinct(itemsCh') /\ Distinct(verifiedCh')
      /\ Queue(itemsCh') \subseteq Queue(itemsCh) /\ Queue(verifiedCh') \subseteq Queue(verifiedCh)
  BY <1>1, QueueEmpty DEF Once
<1>3. \A x : (Verifying(x)' => Verifying(x)) /\ (Persisting(x)' => Persisting(x))
  BY <1>1 DEF Verifying, Persisting
<1> QED BY <1>1, <1>2, <1>3 DEF Once

\* The persistence loop and the state loop.
LEMMA OnceAfter ==
  ASSUME Inv, Once, Persister \/ StatePlugin
  PROVE  Once'
<1>0. /\ itemsCh \in Seq(Keys) /\ verifiedCh \in Seq(Keys)
      /\ Distinct(itemsCh) /\ Distinct(verifiedCh)
      /\ pers \in PersRecord
  BY DEF Inv, Types, Once
<1>1. CASE PersStarts
  <2>1. /\ pers'.pc \in {"idle", "stopped"} /\ verifiedCh' \in {<<>>, verifiedCh}
        /\ UNCHANGED <<cache, queued, itemsCh, verifier, offered>>
    BY <1>0, <1>1 DEF PersStarts, PersRecord
  <2>2. \A x : ~ Persisting(x)' /\ Verifying(x)' = Verifying(x)
    BY <2>1 DEF Verifying, Persisting
  <2>3. Distinct(verifiedCh') /\ Queue(verifiedCh') \subseteq Queue(verifiedCh)
    BY <1>0, <2>1, QueueEmpty
  <2> QED BY <2>1, <2>2, <2>3 DEF Once
<1>2. CASE PersReceives
  <2> DEFINE k == pers'.k
  <2>1. /\ pers.pc = "idle" /\ pers'.pc \in {"busy", "remove"}
        /\ \/ /\ verifiedCh # <<>> /\ k = Head(verifiedCh)
              /\ verifiedCh' = Tail(verifiedCh) /\ itemsCh' = itemsCh
           \/ /\ itemsCh # <<>> /\ k = Head(itemsCh)
              /\ itemsCh' = Tail(itemsCh) /\ verifiedCh' = verifiedCh
        /\ UNCHANGED <<cache, queued, verifier, offered>>
    BY <1>0, <1>2 DEF PersReceives, PersRecord
  <2>2. /\ \/ Queue(itemsCh') = Queue(itemsCh) \ {k} /\ k \in Queue(itemsCh)
              /\ verifiedCh' = verifiedCh
           \/ Queue(verifiedCh') = Queue(verifiedCh) \ {k} /\ k \in Queue(verifiedCh)
              /\ itemsCh' = itemsCh
        /\ Distinct(itemsCh') /\ Distinct(verifiedCh')
    BY <1>0, <2>1, QueueTail
  <2>3. \A x : ~ Persisting(x) /\ Verifying(x)' = Verifying(x) /\ Persisting(x)' = (x = k)
    BY <2>1 DEF Verifying, Persisting
  <2> HIDE DEF k
  <2>4. k \in offered /\ ~ Verifying(k)
    BY <2>2 DEF Once
  <2>5. pers'.k \in offered
    BY <2>4 DEF k
  <2> QED BY <2>1, <2>2, <2>3, <2>4, <2>5 DEF Once
<1>3. CASE PersWrites \/ PersAnnounces
  <2>1. /\ pers.pc \in {"busy", "announce"} /\ pers'.pc \in {"announce", "remove"}
        /\ pers'.k = pers.k
        /\ UNCHANGED <<cache, queued, itemsCh, verifiedCh, verifier, offered>>
    BY <1>0, <1>3 DEF PersWrites, PersAnnounces, PersRecord, channels
  <2>2. \A x : Verifying(x)' = Verifying(x) /\ Persisting(x)' = Persisting(x)
    BY <2>1 DEF Verifying, Persisting
  <2> QED BY <2>1, <2>2 DEF Once
<1>4. CASE PersRemoves
  <2>1. /\ pers.pc = "remove" /\ pers'.pc = "idle" /\ MarkForRemoval(pers.k)
        /\ UNCHANGED <<itemsCh, verifiedCh, verifier, offered>>
    BY <1>0, <1>4 DEF PersRemoves, PersRecord, channels
  <2>2. \A x : ~ Persisting(x)' /\ Verifying(x)' = Verifying(x)
    BY <2>1 DEF Verifying, Persisting
  <2>3. cache' \subseteq offered /\ queued' \subseteq offered /\ queued' \cap cache' = {}
    BY <2>1, MarkKeeps DEF Once
  <2> QED BY <2>1, <2>2, <2>3 DEF Once
<1>5. CASE StatePlugin
  <2>1. UNCHANGED <<itemsCh, verifiedCh, verifier, pers, offered>>
    BY <1>5 DEF StatePlugin, StateStarts, StateReceives, StateCatchesUp, StateApplies,
                StateOnly, channels
  <2>2. cache' \subseteq offered /\ queued' \subseteq offered /\ queued' \cap cache' = {}
    <3>1. CASE UNCHANGED <<cache, queued>>
      BY <3>1 DEF Once
    <3>2. CASE state.k \in cache /\ MarkForRemoval(state.k)
      BY <3>2, MarkKeeps DEF Once
    <3> QED BY <1>5, <3>1, <3>2 DEF StatePlugin, StateStarts, StateReceives, StateCatchesUp,
                                    StateApplies
  <2>3. \A x : Verifying(x)' = Verifying(x) /\ Persisting(x)' = Persisting(x)
    BY <2>1 DEF Verifying, Persisting
  <2> QED BY <2>1, <2>2, <2>3 DEF Once
<1> QED BY <1>1, <1>2, <1>3, <1>4, <1>5 DEF Persister

LEMMA OnceStutter == ASSUME Once, UNCHANGED vars PROVE Once'
BY DEF vars, channels, Once, Verifying, Persisting

LEMMA AtHandInit == Init => AtHand
<1> SUFFICES ASSUME Init PROVE AtHand
  OBVIOUS
<1>1. /\ pers.pc = "starting" /\ state.pc = "starting" /\ state.rx = <<>>
      /\ state.lagged = FALSE
  BY DEF Init
<1> QED BY <1>1 DEF AtHand

\* While nothing exceeds the TTL, only the verifier and the state loop take
\* entries away behind the persistence loop's back.
LEMMA AtHandElsewhere ==
  ASSUME Unlucky = {}, Inv, Once, AtHand,
         (\E k \in Keys : Submit(k)) \/ (\E s \in SUBSET cache : Cleanup(s))
           \/ Register \/ Verifier
  PROVE  AtHand'
<1>1. UNCHANGED <<pers, state>>
  BY DEF Submit, Cleanup, Register, Verifier, VerifierReceives, VerifierFails, VerifierSends
<1>2. ASSUME pers.pc \in {"busy", "announce", "remove"}, pers.k \in cache
      PROVE  pers.k \in cache'
  <2>1. ASSUME NEW k \in Keys, Submit(k) PROVE pers.k \in cache'
    BY <1>2, <2>1 DEF Submit
  <2>2. ASSUME NEW s \in SUBSET cache, Cleanup(s) PROVE pers.k \in cache'
    <3>1. s \subseteq {k \in cache : ~ InFlight(k)} /\ cache' = (cache \ queued) \ s
      BY <2>2 DEF Cleanup
    <3>2. InFlight(pers.k)
      BY DEF InFlight
    <3> QED BY <1>2, <3>1, <3>2 DEF Once
  <2>3. CASE VerifierFails
    <3>1. verifier.pc = "fail" /\ cache' = cache \ {verifier.k}
      BY <2>3 DEF VerifierFails, MarkForRemoval
    <3>2. pers.k # verifier.k
      BY <1>2, <3>1 DEF Once, Verifying, Persisting
    <3> QED BY <1>2, <3>1, <3>2
  <2>4. CASE Register \/ VerifierReceives \/ VerifierSends
    BY <1>2, <2>4 DEF Register, VerifierReceives, VerifierSends
  <2> QED BY <2>1, <2>2, <2>3, <2>4 DEF Verifier
<1> QED BY <1>1, <1>2 DEF AtHand

\* The event of a block is sent when no other is pending, so it finds room, and
\* the entry is removed when the state loop is done with it.
LEMMA AtHandPersister ==
  ASSUME Inv, AtHand, OnTime', Persister
  PROVE  AtHand'
<1>0. pers \in PersRecord /\ state \in StateRecord /\ Capacity \in Nat \ {0}
  BY PipelineAssumption DEF Inv, Types
<1>1. CASE PersStarts
  <2>1. pers.pc = "starting" /\ pers'.pc \in {"idle", "stopped"} /\ UNCHANGED state
    BY <1>0, <1>1 DEF PersStarts, PersRecord
  <2> QED BY <2>1 DEF AtHand
<1>2. CASE PersReceives
  <2>1. /\ pers.pc = "idle" /\ pers'.pc \in {"busy", "remove"} /\ UNCHANGED <<state, cache>>
        /\ pers'.pc = "busy" => pers'.k \in cache
    BY <1>0, <1>2 DEF PersReceives, PersRecord
  <2> QED BY <2>1 DEF AtHand
<1>3. CASE PersWrites
  <2>1. /\ pers.pc = "busy" /\ pers'.pc \in {"announce", "remove"} /\ pers'.k = pers.k
        /\ UNCHANGED <<state, cache>>
    BY <1>0, <1>3 DEF PersWrites, PersRecord
  <2> QED BY <2>1 DEF AtHand
<1>4. CASE PersAnnounces
  <2>1. /\ pers.pc = "announce" /\ pers'.pc = "remove" /\ pers'.k = pers.k
        /\ UNCHANGED cache
    BY <1>0, <1>4 DEF PersAnnounces, PersRecord
  <2>2. /\ pers.k \in cache /\ state.rx = <<>> /\ ~ state.lagged
        /\ state.pc \notin {"catchup", "apply", "halted"}
    BY <2>1 DEF AtHand
  <2>3. Len(state.rx) # Capacity
    BY <1>0, <2>2
  <2>4. \/ state' = state
        \/ state' = [state EXCEPT !.rx = Append(state.rx, pers.k),
                                  !.lagged = @ \/ (Len(state.rx) = Capacity)]
    BY <1>4, <2>3 DEF PersAnnounces
  <2>5. Append(state.rx, pers.k) = <<pers.k>>
    BY <2>2
  <2>6. /\ state'.pc = state.pc /\ state'.rx \in {<<>>, <<pers.k>>} /\ ~ state'.lagged
    BY <1>0, <2>2, <2>3, <2>4, <2>5 DEF StateRecord
  <2> QED BY <2>1, <2>2, <2>6 DEF AtHand
<1>5. CASE PersRemoves
  <2>1. pers'.pc = "idle" /\ UNCHANGED state
    BY <1>0, <1>5 DEF PersRemoves, PersRecord
  <2>2. state'.rx = <<>> /\ state'.pc \notin {"catchup", "apply"}
    BY <2>1 DEF OnTime
  <2> QED BY <2>1, <2>2 DEF AtHand
<1> QED BY <1>1, <1>2, <1>3, <1>4, <1>5 DEF Persister

LEMMA AtHandStopped ==
  ASSUME Inv, AtHand, VerifierStops \/ PersStops
  PROVE  AtHand'
<1>0. pers \in PersRecord
  BY DEF Inv, Types
<1>1. UNCHANGED <<cache, state>> /\ (pers' = pers \/ (pers'.pc = "stopped" /\ pers.pc = "idle"))
  BY <1>0 DEF VerifierStops, PersStops, PersRecord
<1> QED BY <1>1 DEF AtHand

LEMMA AtHandState ==
  ASSUME Unlucky = {}, Inv, AtHand, StatePlugin
  PROVE  AtHand'
<1>0. state \in StateRecord /\ state.rx \in Seq(Keys) /\ UNCHANGED pers
  BY DEF Inv, Types, StateRecord, StatePlugin, StateStarts, StateReceives, StateCatchesUp,
         StateApplies, StateOnly
<1>1. CASE StateStarts
  <2>1. /\ state.pc = "starting" /\ state'.pc = "idle" /\ state'.rx = state.rx
        /\ state'.lagged = state.lagged /\ UNCHANGED cache
    BY <1>0, <1>1 DEF StateStarts, StateRecord
  <2> QED BY <1>0, <2>1 DEF AtHand
<1>2. CASE StateReceives
  <2>1. /\ state.pc = "idle" /\ state.rx = <<pers.k>> /\ ~ state.lagged
        /\ pers.pc = "remove" /\ pers.k \in cache
    BY <1>2 DEF StateReceives, AtHand
  <2>2. Head(state.rx) = pers.k /\ Tail(state.rx) = <<>>
    BY <2>1
  <2> DEFINE s == [state EXCEPT !.rx = Tail(@), !.k = Head(state.rx)]
  <2>3. /\ UNCHANGED cache
        /\ \/ state' = [s EXCEPT !.k = NoKey]
           \/ state' = [s EXCEPT !.pc = "catchup", !.next = state.last + 1]
    BY <1>2, <2>1 DEF StateReceives
  <2>4. /\ state'.rx = <<>> /\ state'.lagged = state.lagged
        /\ state'.pc = "idle" \/ (state'.pc = "catchup" /\ state'.k = pers.k)
    BY <1>0, <2>1, <2>2, <2>3 DEF StateRecord
  <2> HIDE DEF s
  <2> QED BY <1>0, <2>1, <2>3, <2>4 DEF AtHand
<1>3. CASE StateCatchesUp
  <2>1. /\ state.pc = "catchup" /\ state'.pc \in {"catchup", "apply"} /\ state'.k = state.k
        /\ state'.rx = state.rx /\ state'.lagged = state.lagged /\ UNCHANGED cache
    BY <1>0, <1>3 DEF StateCatchesUp, StateRecord
  <2> QED BY <1>0, <2>1 DEF AtHand
<1>4. CASE StateApplies
  <2>1. state.pc = "apply" /\ state.k \in cache /\ state.rx = <<>> /\ ~ state.lagged
        /\ pers.pc = "remove"
    BY <1>4 DEF StateApplies, AtHand
  <2>2. state' = [state EXCEPT !.pc = "idle", !.last = BlockOf[state.k], !.k = NoKey]
    BY <1>4, <2>1 DEF StateApplies
  <2>3. state'.pc = "idle" /\ state'.rx = <<>> /\ ~ state'.lagged
    BY <1>0, <2>1, <2>2 DEF StateRecord
  <2> QED BY <1>0, <2>1, <2>3 DEF AtHand
<1> QED BY <1>1, <1>2, <1>3, <1>4 DEF StatePlugin

\* "The plugin must not halt if it falls behind the event stream": falling
\* behind is the only thing that halts it.  If the persistence loop takes its
\* next event only when the state loop has handled the last one, and no RocksDB
\* error or TTL interferes, mark_for_removal and the bus do no harm.
THEOREM RunsWhileOnTime == Unlucky = {} => (Spec /\ []OnTime => []StateKeepsRunning)
<1> SUFFICES ASSUME Unlucky = {} PROVE Spec /\ []OnTime => []StateKeepsRunning
  OBVIOUS
<1>1. Init => Once /\ AtHand
  BY OnceInit, AtHandInit
<1>2. ASSUME Inv, Once, AtHand, OnTime', [Next]_vars PROVE (Once /\ AtHand)'
  <2>1. CASE Next
    <3>1. Once'
      BY <1>2, <2>1, OnceBefore, OnceAfter, OnceStopped DEF Next
    <3>2. AtHand'
      BY <1>2, <2>1, AtHandElsewhere, AtHandPersister, AtHandState, AtHandStopped DEF Next
    <3> QED BY <3>1, <3>2
  <2>2. CASE UNCHANGED vars
    <3>1. Once'
      BY <1>2, <2>2, OnceStutter
    <3>2. AtHand'
      BY <1>2, <2>2 DEF AtHand, vars
    <3> QED BY <3>1, <3>2
  <2> QED BY <1>2, <2>1, <2>2
<1>3. AtHand => StateKeepsRunning
  BY DEF AtHand, StateKeepsRunning
<1> QED BY <1>1, <1>2, <1>3, InvAlways, PTL DEF Spec
=============================================================================
