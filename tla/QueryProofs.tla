---------------------------- MODULE QueryProofs -----------------------------
(***************************************************************************)
(* The committed state is what the applied blocks describe, for every      *)
(* stream of blocks, and the query services tell it.  The inductive        *)
(* invariant of the state adds that the batch under construction, once     *)
(* written, would agree with the pending ledger; the one of the details    *)
(* walk, that as long as no commit overlaps it has read a prefix of the    *)
(* account's list in the committed state.                                  *)
(***************************************************************************)
EXTENDS Query, TLAPS

\* A state agrees with a ledger.
Agrees(state, l) ==
  \A k \in Keys : k[1] \notin QueueIds =>
    state[k] = l.of[k] \/ (k \in l.stolen /\ state[k] = None)

Inductive ==
  /\ StoreTypeOK
  /\ last = ledger.n /\ Agrees(db, ledger)
  /\ task.pc = "applying" => pending.n = task.n /\ Agrees(Written(batch), pending)

-----------------------------------------------------------------------------
\* Writing an empty batch changes nothing.
LEMMA EmptyBatchWrites ==
  ASSUME StoreTypeOK PROVE Written(EmptyBatch) = db
BY DEF StoreTypeOK, Stored, Written, EmptyBatch

\* The batch of a put or a delete agrees with the ledger it belongs to.
LEMMA SetAgrees ==
  ASSUME NEW b \in [Keys -> Val \cup {None, Untouched}], NEW l \in Ledger,
         db \in Stored, Agrees(Written(b), l), NEW k, NEW v \in Val \cup {None},
         StoreAssumption
  PROVE  Agrees(Written([b EXCEPT ![k] = v]),
                [l EXCEPT !.of[k] = v, !.stolen = @ \ {k}])
<1>1. v # Untouched
  BY DEF StoreAssumption
<1>2. CASE k \in Keys
  BY <1>1, <1>2 DEF Agrees, Written, Ledger, Stored
<1>3. CASE k \notin Keys
  BY <1>1, <1>3 DEF Agrees, Written, Ledger, Stored
<1> QED BY <1>2, <1>3

\* The empty list of changes.
LEMMA EmptySeqTyped == <<>> \in Seq(Change)
OBVIOUS

\* A step that handles a change has it in Change, and leaves a shorter list.
LEMMA ChangeTyped ==
  ASSUME StoreTypeOK, NextChange
  PROVE  /\ change \in Change
         /\ task' \in [pc : {"idle", "applying", "down"}, n : {-1} \cup Nat, rest : Seq(Change)]
         /\ task'.pc = "applying" /\ task'.n = task.n
         /\ UNCHANGED <<chain, db, last, ledger>>
<1>1. task.rest \in Seq(Change) /\ task.rest # <<>>
  BY DEF StoreTypeOK, NextChange
<1>2. Head(task.rest) \in Change /\ Tail(task.rest) \in Seq(Change)
  BY <1>1
<1> QED BY <1>2 DEF StoreTypeOK, NextChange, change

LEMMA InitInductive ==
  ASSUME StoreInit, StoreAssumption PROVE Inductive
<1>1. db \in Stored /\ ledger \in Ledger /\ pending = ledger /\ last = ledger.n
      /\ ledger.of = db
  BY DEF StoreInit, Stored, Ledger
<1>2. task \in [pc : {"idle", "applying", "down"}, n : {-1} \cup Nat, rest : Seq(Change)]
      /\ task.pc = "idle"
  BY DEF StoreInit, NoTask
<1>3. batch \in [Keys -> Val \cup {None, Untouched}] /\ chain \in Chain
      /\ last \in {-1} \cup Nat
  BY DEF StoreInit, EmptyBatch
<1> QED BY <1>1, <1>2, <1>3 DEF Inductive, StoreTypeOK, Agrees

-----------------------------------------------------------------------------
LEMMA NextInductive ==
  ASSUME Inductive, [StoreNext]_storeVars, StoreAssumption PROVE Inductive'
<1> USE DEF Inductive
<1>1. ASSUME NEW n \in DOMAIN chain, Begin(n) PROVE Inductive'
  <2>1. n \in Nat /\ chain[n] \in Seq(Change)
    BY <1>1 DEF StoreAssumption, StoreTypeOK
  <2>2. StoreTypeOK' /\ pending'.n = task'.n /\ pending'.of = ledger.of
        /\ pending'.stolen = ledger.stolen /\ task'.pc = "applying"
    BY <1>1, <2>1 DEF Begin, StoreTypeOK, Ledger, EmptyBatch
  <2>3. Written(batch)' = db /\ db' = db /\ ledger' = ledger /\ last' = last
    BY <1>1, EmptyBatchWrites DEF Begin, Written
  <2> QED BY <2>2, <2>3 DEF Agrees
<1>2. ASSUME Put PROVE Inductive'
  <2>1. NextChange /\ change \in Change /\ change.val \in Val \cup {None}
    BY <1>2, ChangeTyped DEF Put, Change
  <2> DEFINE k == construct_db_key(change)
  <2>2. Agrees(Written([batch EXCEPT ![k] = change.val]),
               [pending EXCEPT !.of[k] = change.val, !.stolen = @ \ {k}])
    <3>1. task.pc = "applying"
      BY <2>1 DEF NextChange
    <3> QED BY <2>1, <3>1, SetAgrees DEF StoreTypeOK
  <2>3. Agrees(Written(batch), pending)'
    BY <1>2, <2>1, <2>2, ChangeTyped DEF Put, Agrees, Written
  <2>4. StoreTypeOK' /\ pending'.n = pending.n
    BY <1>2, <2>1, ChangeTyped DEF Put, StoreTypeOK, Ledger, Stored
  <2> QED BY <2>1, <2>3, <2>4, ChangeTyped DEF Agrees, NextChange
<1>3. ASSUME Delete PROVE Inductive'
  <2>1. NextChange /\ change \in Change
    BY <1>3, ChangeTyped DEF Delete
  <2> DEFINE k == construct_db_key(change)
  <2>2. Agrees(Written([batch EXCEPT ![k] = None]),
               [pending EXCEPT !.of[k] = None, !.stolen = @ \ {k}])
    <3>1. task.pc = "applying"
      BY <2>1 DEF NextChange
    <3> QED BY <3>1, SetAgrees DEF StoreTypeOK
  <2>3. Agrees(Written(batch), pending)'
    BY <1>3, <2>1, <2>2, ChangeTyped DEF Delete, Agrees, Written
  <2>4. StoreTypeOK' /\ pending'.n = pending.n
    BY <1>3, <2>1, ChangeTyped DEF Delete, StoreTypeOK, Ledger, Stored
  <2> QED BY <2>1, <2>3, <2>4, ChangeTyped DEF Agrees, NextChange
<1>4. ASSUME Pop PROVE Inductive'
  <2>1. NextChange /\ change \in Change /\ change.id \in QueueIds
    BY <1>4, ChangeTyped DEF Pop, Change
  <2> DEFINE first == PrefixFirst(change.id)
  <2>2. first \subseteq Keys
    BY DEF PrefixFirst
  <2>3. batch' = [k \in Keys |-> IF k \in first THEN None ELSE batch[k]]
        /\ pending' = [pending EXCEPT !.stolen = @ \cup {k \in first : k[1] # change.id}]
    BY <1>4 DEF Pop
  <2> HIDE DEF first
  <2>4. Agrees(Written(batch), pending)'
    <3>1. Agrees(Written(batch), pending)
      BY <2>1 DEF NextChange
    <3>2. db' = db /\ None # Untouched
      BY <2>1, ChangeTyped DEF StoreAssumption
    <3>3. pending'.of = pending.of
          /\ pending'.stolen = pending.stolen \cup {k \in first : k[1] # change.id}
      BY <2>3 DEF StoreTypeOK, Ledger
    <3> QED BY <2>1, <2>3, <3>1, <3>2, <3>3 DEF Agrees, Written
  <2>5. StoreTypeOK' /\ pending'.n = pending.n
    BY <2>1, <2>2, <2>3, ChangeTyped DEF StoreTypeOK, Ledger, Stored
  <2> QED BY <2>1, <2>4, <2>5, ChangeTyped DEF Agrees, NextChange
<1>5. ASSUME Ignore PROVE Inductive'
  <2>1. NextChange /\ batch' = batch /\ pending' = pending
    BY <1>5 DEF Ignore
  <2> QED BY <2>1, ChangeTyped DEF StoreTypeOK, Agrees, Written, NextChange
<1>6. ASSUME Commit PROVE Inductive'
  <2>1. task.pc = "applying" /\ pending.n = task.n /\ Agrees(Written(batch), pending)
    BY <1>6 DEF Commit
  <2>2. db' = Written(batch) /\ last' = task.n /\ ledger' = pending
        /\ pending' = pending /\ chain' = chain /\ task'.pc = "idle"
    BY <1>6 DEF Commit, NoTask
  <2>3. Written(batch) \in Stored
    BY DEF StoreTypeOK, Stored, Written
  <2>4. StoreTypeOK'
    BY <1>6, <2>2, <2>3 DEF Commit, NoTask, EmptyBatch, StoreTypeOK
  <2> QED BY <2>1, <2>2, <2>4 DEF Agrees
<1>7. ASSUME Fail \/ Crash PROVE Inductive'
  <2>1. task'.pc # "applying" /\ db' = db /\ ledger' = ledger /\ last' = last
    BY <1>7 DEF Fail, Crash, NoTask
  <2>2. task' \in [pc : {"idle", "applying", "down"}, n : {-1} \cup Nat, rest : Seq(Change)]
    <3>1. task' = NoTask \/ task' = [NoTask EXCEPT !.pc = "down"]
      BY <1>7 DEF Fail, Crash
    <3>2. \A pc \in {"idle", "down"} : [NoTask EXCEPT !.pc = pc] \in
            [pc : {"idle", "applying", "down"}, n : {-1} \cup Nat, rest : Seq(Change)]
      BY EmptySeqTyped DEF NoTask
    <3>3. NoTask = [NoTask EXCEPT !.pc = "idle"]
      BY DEF NoTask
    <3> QED BY <3>1, <3>2, <3>3
  <2>3. batch' \in [Keys -> Val \cup {None, Untouched}] /\ pending' = ledger /\ chain' = chain
    BY <1>7 DEF Fail, Crash, EmptyBatch
  <2>4. StoreTypeOK'
    BY <2>1, <2>2, <2>3 DEF StoreTypeOK
  <2> QED BY <2>1, <2>4 DEF Agrees
<1>8. ASSUME Restart PROVE Inductive'
  BY <1>8 DEF Restart, NoTask, StoreTypeOK, Agrees
<1>9. ASSUME UNCHANGED storeVars PROVE Inductive'
  BY <1>9 DEF storeVars, StoreTypeOK, Agrees, Written
<1> QED BY <1>1, <1>2, <1>3, <1>4, <1>5, <1>6, <1>7, <1>8, <1>9 DEF StoreNext

-----------------------------------------------------------------------------
\* For every stream of blocks, every crash and every failed application, the
\* committed maps and singletons are those of the applied blocks, up to the
\* stored block number (apply_state_changes, one WriteBatch per block).
THEOREM StateAlwaysLedger == StoreSpec => []StateIsLedger
<1>1. StoreInit => Inductive
  BY InitInductive, StoreAssumption
<1>2. Inductive /\ [StoreNext]_storeVars => Inductive'
  BY NextInductive, StoreAssumption
<1>3. Inductive => StateIsLedger
  BY DEF Inductive, StateIsLedger, Agrees
<1> QED BY <1>1, <1>2, <1>3, PTL DEF StoreSpec

\* The queries change nothing in the store.
LEMMA QueryInductive == Spec => []Inductive
<1>1. Init => Inductive
  BY InitInductive, StoreAssumption DEF Init
<1>2. Inductive /\ [Next]_vars => Inductive'
  <2>1. [Next]_vars => [StoreNext]_storeVars
    BY DEF Next, vars, Store, Ask, AskDetails, ReadRelation, AnswerDetails, TakeAnswer
  <2> QED BY <2>1, NextInductive, StoreAssumption
<1> QED BY <1>1, <1>2, PTL DEF Spec

-----------------------------------------------------------------------------
(* The services *)

MapIds == {IdAccounts, IdTokens, IdNfts, IdTokenRelations, IdFiles, IdTopics,
           IdSchedulesById, IdContractBytecode}

\* What a handler reads is what the ledger has.
LEMMA ReadsLedger ==
  ASSUME Inductive, NEW map \in MapIds, NEW id, <<map, id>> \notin ledger.stolen
  PROVE  get_state_value(<<map, id>>) = InLedger(<<map, id>>)
<1>1. map \notin QueueIds
  BY QueryAssumption DEF MapIds
<1> QED BY <1>1 DEF Inductive, Agrees, get_state_value, InLedger

\* What a handler tells of an entity e.
Told(e, type, absent) ==
  IF e = None THEN Resp(absent, None)
  ELSE IF e.type = type THEN Resp("Ok", e.data) ELSE Refused("internal")

LEMMA LookupTells ==
  ASSUME NEW q, NEW map, NEW type, NEW absent, q.id # None
  PROVE  Lookup(q, map, type, absent) = Told(get_state_value(<<map, q.id>>), type, absent)
BY DEF Lookup, Told

\* The answer AnswersMatchLedger asks of rpc for the ledger's entity e.
Due(rpc, e, type, absent) ==
  LET exists == e # None /\ (rpc = "get_contract_info" /\ e.type = "Account"
                               => e.smart_contract)
  IN  IF ~exists THEN Resp(absent, None)
      ELSE IF e.type # type THEN Refused("internal")
      ELSE IF rpc \in {"get_account_info", "get_token_info"} /\ e.num = None THEN Panicked
      ELSE Resp("Ok", e.data)

\* The services that unwrap the entity's own id owe a panic where it has none.
LEMMA DueUnwrapped ==
  ASSUME NEW rpc \in {"get_account_info", "get_token_info"}, NEW e, NEW type, NEW absent,
         absent # "Ok"
  PROVE  Due(rpc, e, type, absent) =
           IF Told(e, type, absent).code = "Ok" /\ e.num = None THEN Panicked
           ELSE Told(e, type, absent)
<1>1. CASE e = None
  BY <1>1 DEF Due, Told, Resp
<1>2. CASE e # None /\ e.type # type
  BY <1>2 DEF Due, Told, Resp, Refused
<1>3. CASE e # None /\ e.type = type
  BY <1>3 DEF Due, Told, Resp
<1> QED BY <1>1, <1>2, <1>3

\* The others, get_contract_info apart, owe the entity as it is.
LEMMA DueIsTold ==
  ASSUME NEW rpc, rpc \notin {"get_contract_info", "get_account_info", "get_token_info"},
         NEW e, NEW type, NEW absent
  PROVE  Due(rpc, e, type, absent) = Told(e, type, absent)
<1>1. CASE e = None
  BY <1>1 DEF Due, Told
<1>2. CASE e # None
  BY <1>2 DEF Due, Told
<1> QED BY <1>1, <1>2

\* get_contract_info owes nothing for an account that is no contract.
LEMMA DueForContract ==
  ASSUME NEW e, NEW absent
  PROVE  Due("get_contract_info", e, "Account", absent) =
           IF e # None /\ e.type = "Account" /\ ~e.smart_contract
           THEN Resp(absent, None) ELSE Told(e, "Account", absent)
<1>1. CASE e = None
  BY <1>1 DEF Due, Told
<1>2. CASE e # None /\ e.type = "Account" /\ ~e.smart_contract
  BY <1>2 DEF Due
<1>3. CASE e # None /\ ~(e.type = "Account" /\ ~e.smart_contract)
  BY <1>3 DEF Due, Told
<1> QED BY <1>1, <1>2, <1>3

\* For every stream of blocks the services tell the entities of the applied
\* blocks, at every moment, and panic only over an entity without its own id
\* (the handlers of crates/rock-node-query-plugin).
THEOREM AnswersAlwaysMatch == Spec => []AnswersMatchLedger
<1>1. Inductive => AnswersMatchLedger
  <2> SUFFICES ASSUME Inductive, NEW rpc \in DOMAIN EntityRpc, NEW id \in Entity,
                      <<EntityRpc[rpc][2], id>> \notin ledger.stolen
               PROVE  Serve(EntityRpc[rpc][1], rpc,
                            [variant |-> EntityRpc[rpc][4], id |-> id, form |-> "num"]) =
                        Due(rpc, InLedger(<<EntityRpc[rpc][2], id>>), EntityRpc[rpc][3],
                            EntityRpc[rpc][5])
    BY DEF AnswersMatchLedger, Due
  <2> DEFINE p == EntityRpc[rpc]
             e == InLedger(<<p[2], id>>)
             q == [variant |-> p[4], id |-> id, form |-> "num"]
  <2>0. q.id = id /\ q.variant = p[4] /\ q.form = "num" /\ id # None
    BY QueryAssumption
  <2>1. ASSUME p[2] \in MapIds PROVE get_state_value(<<p[2], id>>) = e
    BY <2>1, ReadsLedger
  <2>2. ASSUME p[2] \in MapIds PROVE Lookup(q, p[2], p[3], p[5]) = Told(e, p[3], p[5])
    BY <2>0, <2>1, <2>2, LookupTells
  <2> HIDE DEF q, e
  <2>3. rpc \notin Transactions
    BY DEF EntityRpc, Transactions, CryptoTransactions, TokenTransactions, ContractTransactions,
           FileTransactions, ConsensusTransactions, ScheduleTransactions, NetworkTransactions
  <2>4. CASE rpc \notin {"get_contract_info", "get_account_info", "get_token_info"}
    <3>1. Serve(p[1], rpc, q) = Told(e, p[3], p[5])
      <4>2. CASE rpc = "crypto_get_balance"
        BY <2>0, <2>2, <2>3, <4>2
           DEF EntityRpc, MapIds, Serve, CryptoQueries, Expect, get_account_balance
      <4>4. CASE rpc = "get_token_nft_info"
        BY <2>0, <2>2, <2>3, <4>4
           DEF EntityRpc, MapIds, Serve, TokenQueries, Expect, get_token_nft_info
      <4>5. CASE rpc = "contract_get_bytecode"
        BY <2>0, <2>2, <2>3, <4>5
           DEF EntityRpc, MapIds, Serve, ContractQueries, Expect, get_contract_bytecode
      <4>6. CASE rpc = "get_file_content"
        BY <2>0, <2>2, <2>3, <4>6
           DEF EntityRpc, MapIds, Serve, FileQueries, Expect, get_file_content
      <4>7. CASE rpc = "get_file_info"
        BY <2>0, <2>2, <2>3, <4>7 DEF EntityRpc, MapIds, Serve, FileQueries, Expect, get_file_info
      <4>8. CASE rpc = "get_topic_info"
        BY <2>0, <2>2, <2>3, <4>8
           DEF EntityRpc, MapIds, Serve, ConsensusQueries, Expect, get_topic_info
      <4>9. CASE rpc = "get_schedule_info"
        BY <2>0, <2>2, <2>3, <4>9
           DEF EntityRpc, MapIds, Serve, ScheduleQueries, Expect, get_schedule_info
      <4> QED BY <2>4, <4>2, <4>4, <4>5, <4>6, <4>7, <4>8, <4>9 DEF EntityRpc
    <3> QED BY <2>4, <3>1, DueIsTold DEF q, e
  <2>5. CASE rpc = "get_contract_info"
    <3>1. p = <<"contract", IdAccounts, "Account", "ContractGetInfo", "InvalidContractId">>
      BY <2>5 DEF EntityRpc
    <3>2. get_state_value(<<IdAccounts, id>>) = e
      BY <2>1, <3>1 DEF MapIds
    <3>3. Serve(p[1], rpc, q) = get_contract_info(q)
      BY <2>0, <2>3, <2>5, <3>1 DEF Serve, ContractQueries, Expect
    <3>4. get_contract_info(q) =
            IF e # None /\ e.type = "Account" /\ ~e.smart_contract
            THEN Resp("InvalidContractId", None) ELSE Told(e, "Account", "InvalidContractId")
      <4>1. Lookup(q, IdAccounts, "Account", "InvalidContractId")
              = Told(e, "Account", "InvalidContractId")
        BY <2>2, <3>1 DEF MapIds
      <4>2. /\ q.id # None /\ q.form # "evm" /\ get_state_value(<<IdAccounts, q.id>>) = e
        BY <2>0, <3>2
      <4> HIDE DEF p
      <4> QED BY <4>1, <4>2 DEF get_contract_info
    <3>5. get_contract_info(q) = Due(rpc, e, "Account", "InvalidContractId")
      BY <2>5, <3>4, DueForContract
    <3>6. p[3] = "Account" /\ p[5] = "InvalidContractId"
      BY <3>1
    <3> QED BY <3>3, <3>5, <3>6 DEF q, e
  <2>6. CASE rpc = "get_account_info"
    <3>1. p = <<"crypto", IdAccounts, "Account", "CryptoGetInfo", "InvalidAccountId">>
      BY <2>6 DEF EntityRpc
    <3>2. /\ get_state_value(<<IdAccounts, id>>) = e /\ q.id = id /\ q.variant = "CryptoGetInfo"
          /\ Lookup(q, IdAccounts, "Account", "InvalidAccountId")
               = Told(e, "Account", "InvalidAccountId")
      BY <2>0, <2>1, <2>2, <3>1 DEF MapIds
    <3>3. Serve(p[1], rpc, q) = get_account_info(q)
      BY <2>3, <2>6, <3>1, <3>2 DEF Serve, CryptoQueries, Expect
    <3>4. get_account_info(q) = Due(rpc, e, "Account", "InvalidAccountId")
      BY <2>6, <3>2, DueUnwrapped DEF get_account_info, Unwrapping
    <3>5. p[3] = "Account" /\ p[5] = "InvalidAccountId"
      BY <3>1
    <3> QED BY <3>3, <3>4, <3>5 DEF q, e
  <2>7. CASE rpc = "get_token_info"
    <3>1. p = <<"token", IdTokens, "Token", "TokenGetInfo", "InvalidTokenId">>
      BY <2>7 DEF EntityRpc
    <3>2. /\ get_state_value(<<IdTokens, id>>) = e /\ q.id = id /\ q.variant = "TokenGetInfo"
          /\ Lookup(q, IdTokens, "Token", "InvalidTokenId") = Told(e, "Token", "InvalidTokenId")
      BY <2>0, <2>1, <2>2, <3>1 DEF MapIds
    <3>3. Serve(p[1], rpc, q) = get_token_info(q)
      BY <2>3, <2>7, <3>1, <3>2 DEF Serve, TokenQueries, Expect
    <3>4. get_token_info(q) = Due(rpc, e, "Token", "InvalidTokenId")
      BY <2>7, <3>2, DueUnwrapped DEF get_token_info, Unwrapping
    <3>5. p[3] = "Token" /\ p[5] = "InvalidTokenId"
      BY <3>1
    <3> QED BY <3>3, <3>4, <3>5 DEF q, e
  <2> QED BY <2>4, <2>5, <2>6, <2>7
<1> QED BY <1>1, QueryInductive, PTL

-----------------------------------------------------------------------------
(* The details walk *)

Tokens == {None} \cup {v.head_token_id : v \in Val} \cup {v.next_token : v \in Val}

Codes == {"none", "Ok", "internal", "invalid_argument", "InvalidAccountId", "panicked"}

Call == [pc : {"idle", "walking", "answered", "panicked"}, asked : Entity \cup {None},
         account : {None} \cup {v.num : v \in Val}, token : Tokens, left : Int,
         found : Seq(Val), quiet : BOOLEAN,
         resp : [code : Codes, body : {None} \cup Seq(Val)]]

\* found is a prefix of the list of account a in the committed state; token is
\* the next one and left what remains of the rounds.
ReadSoFar(found, a, token, left) ==
  LET after(i) == IF i = 0 THEN a.head_token_id ELSE found[i].next_token IN
    /\ \A i \in 1..Len(found) :
         /\ after(i - 1) # None /\ found[i] # None /\ found[i].type = "TokenRelation"
         /\ found[i] = get_state_value(RelationKey(a.num, after(i - 1)))
    /\ token = after(Len(found))
    /\ left = a.number_associations - Len(found) /\ Len(found) <= Rounds(a)

Account(c) == get_state_value(<<IdAccounts, c.asked>>)

WalkOK(c) ==
  c.quiet /\ c.pc = "walking" =>
    /\ Account(c) # None /\ Account(c).type = "Account" /\ c.account = Account(c).num
    /\ ReadSoFar(c.found, Account(c), c.token, c.left)

AnswerOK(c) ==
  LET a == Account(c)
      r == get_state_value(RelationKey(a.num, c.token)) IN
    c.quiet /\ c.pc \in {"answered", "panicked"} =>
      /\ c.resp.code = "Ok" =>
           a # None /\ a.type = "Account" /\ IsTokenList(c.resp.body, a, get_state_value)
      /\ c.resp.code = "panicked" => a # None /\ a.type = "Account" /\ a.num = None
      /\ c.resp.code = "InvalidAccountId" => a = None
      /\ c.resp.code = "internal" =>
           /\ a # None
           /\ \/ a.type # "Account"
              \/ c.token # None /\ (r = None \/ r.type # "TokenRelation")

WalkInv == call \in Call /\ WalkOK(call) /\ AnswerOK(call)

\* What is read is a value or none.
LEMMA ReadType ==
  ASSUME Inductive, NEW k PROVE get_state_value(k) \in Val \cup {None}
BY DEF Inductive, StoreTypeOK, Stored, get_state_value

LEMMA NoCallType == NoCall \in Call /\ NoCall.pc = "idle"
<1>1. <<>> \in Seq(Val)
  OBVIOUS
<1>2. Refused("none") = [code |-> "none", body |-> None]
  BY DEF Refused, Resp
<1>3. Refused("none") \in [code : Codes, body : {None} \cup Seq(Val)]
  BY <1>2 DEF Codes
<1>4. None \in Tokens
  BY DEF Tokens
<1> QED BY <1>1, <1>3, <1>4 DEF NoCall, Call

\* A step of the call that leaves the state alone.
LEMMA SameState ==
  ASSUME db' = db, call' \in Call, WalkOK(call'), AnswerOK(call')
  PROVE  WalkInv'
<1>1. \A k : get_state_value(k)' = get_state_value(k)
  BY DEF get_state_value
<1>2. WalkOK(call)'
  BY <1>1 DEF WalkOK, Account, ReadSoFar
<1>3. AnswerOK(call)'
  BY <1>1 DEF AnswerOK, Account, IsTokenList
<1> QED BY <1>2, <1>3 DEF WalkInv

\* The account is read: the walk begins at its head, or the call is answered.
LEMMA AskStep ==
  ASSUME Inductive, WalkInv, Ask PROVE WalkInv'
<1>0. PICK id \in Entity \cup {None}, variant \in {"AccountDetails", "other"} :
        AskDetails([variant |-> variant, id |-> id, form |-> "num"])
  BY DEF Ask
<1> DEFINE q == [variant |-> variant, id |-> id, form |-> "num"]
           v == get_state_value(<<IdAccounts, id>>)
           first == Lookup(q, IdAccounts, "Account", "InvalidAccountId")
           answer == Expect(q, "AccountDetails", first)
<1>1. /\ call \in Call /\ call.pc = "idle" /\ db' = db
      /\ call' = IF answer.code # "Ok" THEN [Answer(answer) EXCEPT !.asked = id]
                 ELSE [NoCall EXCEPT !.pc = "walking", !.asked = id, !.account = v.num,
                                     !.token = v.head_token_id, !.left = v.number_associations]
  BY <1>0 DEF AskDetails, WalkInv, storeVars
<1>2. \/ answer = Refused("invalid_argument")
      \/ id # None /\ v = None /\ answer = Resp("InvalidAccountId", None)
      \/ id # None /\ v # None /\ v.type # "Account" /\ answer = Refused("internal")
      \/ id # None /\ v # None /\ v.type = "Account" /\ answer = Resp("Ok", v.data)
  BY DEF Expect, Lookup
<1>3. v \in Val \cup {None}
  BY ReadType
<1> HIDE DEF v, answer
<1>4. CASE answer.code # "Ok"
  <2>1. /\ answer.body = None
        /\ \/ answer.code = "invalid_argument"
           \/ answer.code = "InvalidAccountId" /\ v = None
           \/ answer.code = "internal" /\ v # None /\ v.type # "Account"
    BY <1>2, <1>4 DEF Refused, Resp
  <2>2. answer = [code |-> answer.code, body |-> answer.body]
    BY <1>2, <1>4 DEF Refused, Resp
  <2>3. answer \in [code : Codes, body : {None} \cup Seq(Val)]
    BY <2>1, <2>2 DEF Codes
  <2>4. /\ call' \in Call /\ call'.pc = "answered" /\ call'.asked = id /\ call'.resp = answer
    BY <1>1, <1>4, <2>3 DEF Call, Answer
  <2>5. WalkOK(call') /\ AnswerOK(call')
    BY <2>1, <2>4 DEF WalkOK, AnswerOK, Account, v
  <2> QED BY <1>1, <2>4, <2>5, SameState
<1>5. CASE answer.code = "Ok"
  <2>0. /\ Refused("invalid_argument").code # "Ok" /\ Refused("internal").code # "Ok"
        /\ Resp("InvalidAccountId", None).code # "Ok"
    BY DEF Refused, Resp
  <2>1. id # None /\ v \in Val /\ v # None /\ v.type = "Account"
    BY <1>2, <1>3, <1>5, <2>0
  <2>2. v.number_associations \in Int
    BY <2>1, QueryAssumption
  <2>3. /\ v.num \in {None} \cup {w.num : w \in Val}
        /\ v.head_token_id \in Tokens
    BY <2>1 DEF Tokens
  <2>4. NoCall \in Call /\ NoCall.found = <<>> /\ Len(<<>>) = 0
    BY NoCallType DEF NoCall
  <2>5. /\ call' \in Call /\ call'.pc = "walking" /\ call'.asked = id /\ call'.account = v.num
        /\ call'.token = v.head_token_id /\ call'.left = v.number_associations
        /\ call'.found = <<>>
    BY <1>1, <1>5, <2>2, <2>3, <2>4 DEF Call
  <2>6. Account(call') = v
    BY <2>5 DEF Account, v
  <2>7. ReadSoFar(<<>>, v, v.head_token_id, v.number_associations)
    BY <2>2, <2>4 DEF ReadSoFar, Rounds
  <2>8. WalkOK(call') /\ AnswerOK(call')
    BY <2>1, <2>5, <2>6, <2>7 DEF WalkOK, AnswerOK
  <2> QED BY <1>1, <2>5, <2>8, SameState
<1> QED BY <1>4, <1>5

\* One more relation is read, or the list is broken.
LEMMA ReadStep ==
  ASSUME Inductive, WalkInv, ReadRelation PROVE WalkInv'
<1> DEFINE v == get_state_value(RelationKey(call.account, call.token))
           good == v # None /\ v.type = "TokenRelation"
<1>1. /\ call \in Call /\ call.pc = "walking" /\ call.left > 0 /\ call.token # None /\ db' = db
      /\ call' = IF ~good THEN Answer(Refused("internal"))
                 ELSE [call EXCEPT !.found = Append(call.found, v), !.token = v.next_token,
                                   !.left = call.left - 1]
  BY DEF ReadRelation, WalkInv, storeVars
<1>2. v \in Val \cup {None}
  BY ReadType
<1> HIDE DEF v
<1>3. CASE ~good
  <2>1. /\ call' \in Call /\ call'.pc = "answered" /\ call'.asked = call.asked
        /\ call'.token = call.token /\ call'.resp.code = "internal" /\ call'.quiet = call.quiet
    BY <1>1, <1>3 DEF Call, Codes, Answer, Refused, Resp
  <2>2. WalkOK(call')
    BY <2>1 DEF WalkOK
  <2>3. Account(call') = Account(call)
    BY <2>1 DEF Account
  <2>4. ASSUME call.quiet
        PROVE  /\ Account(call) # None
               /\ get_state_value(RelationKey(Account(call).num, call.token)) = v
    <3>1. Account(call) # None /\ call.account = Account(call).num
      BY <1>1, <2>4 DEF WalkInv, WalkOK
    <3> QED BY <3>1 DEF v
  <2>5. AnswerOK(call')
    BY <1>1, <1>3, <2>1, <2>3, <2>4 DEF AnswerOK
  <2> QED BY <1>1, <2>1, <2>2, <2>5, SameState
<1>4. CASE good
  <2>1. v \in Val /\ v.next_token \in Tokens /\ call.found \in Seq(Val) /\ call.left \in Int
    BY <1>1, <1>2, <1>4 DEF Tokens, Call
  <2> DEFINE more == Append(call.found, v)
  <2>2. /\ more \in Seq(Val) /\ Len(more) = Len(call.found) + 1 /\ more[Len(more)] = v
        /\ \A i \in 1..Len(call.found) : more[i] = call.found[i]
        /\ Len(call.found) \in Nat
    BY <2>1
  <2> HIDE DEF more
  <2>3. /\ call' \in Call /\ call'.pc = "walking" /\ call'.asked = call.asked
        /\ call'.account = call.account /\ call'.token = v.next_token
        /\ call'.left = call.left - 1 /\ call'.found = more /\ call'.quiet = call.quiet
    <3>1. call' = [call EXCEPT !.found = more, !.token = v.next_token, !.left = call.left - 1]
      BY <1>1, <1>4 DEF more
    <3>2. call.left - 1 \in Int
      BY <2>1
    <3>3. /\ call'.pc = call.pc /\ call'.asked = call.asked /\ call'.account = call.account
          /\ call'.token = v.next_token /\ call'.left = call.left - 1 /\ call'.found = more
          /\ call'.quiet = call.quiet
      BY <1>1, <3>1 DEF Call
    <3>4. call' \in Call
      BY <1>1, <2>1, <2>2, <3>1, <3>2 DEF Call
    <3> QED BY <1>1, <3>3, <3>4
  <2>4. ASSUME call.quiet PROVE ReadSoFar(more, Account(call), v.next_token, call.left - 1)
    <3> DEFINE a == Account(call)
               before(i) == IF i = 0 THEN a.head_token_id ELSE call.found[i].next_token
               after(i) == IF i = 0 THEN a.head_token_id ELSE more[i].next_token
    <3>0. /\ a # None /\ a.type = "Account" /\ call.account = a.num
          /\ ReadSoFar(call.found, a, call.token, call.left)
      BY <1>1, <2>4 DEF WalkInv, WalkOK
    <3>1. /\ \A i \in 1..Len(call.found) :
               /\ before(i - 1) # None /\ call.found[i] # None
               /\ call.found[i].type = "TokenRelation"
               /\ call.found[i] = get_state_value(RelationKey(a.num, before(i - 1)))
          /\ call.token = before(Len(call.found))
          /\ call.left = a.number_associations - Len(call.found)
          /\ Len(call.found) <= Rounds(a)
      BY <3>0 DEF ReadSoFar
    <3>2. a.number_associations \in Int
      BY <3>0, ReadType, QueryAssumption DEF Account
    <3>3. Len(more) <= Rounds(a) /\ call.left - 1 = a.number_associations - Len(more)
      BY <1>1, <2>1, <2>2, <3>1, <3>2 DEF Rounds
    <3>4. ASSUME NEW i \in 0..Len(call.found) PROVE after(i) = before(i)
      <4>1. CASE i = 0
        BY <4>1
      <4>2. CASE i # 0
        <5>1. i \in 1..Len(call.found)
          BY <2>2, <4>2
        <5> QED BY <2>2, <4>2, <5>1
      <4> QED BY <4>1, <4>2
    <3>5. v = get_state_value(RelationKey(a.num, call.token))
      BY <3>0 DEF v
    <3> HIDE DEF a, before
    <3>6. ASSUME NEW i \in 1..Len(more)
          PROVE  /\ after(i - 1) # None /\ more[i] # None /\ more[i].type = "TokenRelation"
                 /\ more[i] = get_state_value(RelationKey(a.num, after(i - 1)))
      <4>1. CASE i = Len(more)
        <5>1. after(i - 1) = call.token
          <6>1. i - 1 = Len(call.found) /\ i - 1 \in 0..Len(call.found)
            BY <2>2, <4>1
          <6> QED BY <3>1, <3>4, <6>1
        <5> HIDE DEF after
        <5> QED BY <1>1, <1>4, <2>2, <3>5, <4>1, <5>1
      <4>2. CASE i # Len(more)
        <5>1. i \in 1..Len(call.found) /\ i - 1 \in 0..Len(call.found)
          BY <2>2, <4>2
        <5>2. after(i - 1) = before(i - 1) /\ more[i] = call.found[i]
          BY <2>2, <3>4, <5>1
        <5> HIDE DEF after
        <5> QED BY <3>1, <5>1, <5>2
      <4> QED BY <4>1, <4>2
    <3>7. after(Len(more)) = v.next_token
      BY <2>2
    <3> QED BY <3>3, <3>6, <3>7 DEF ReadSoFar, a
  <2>5. WalkOK(call') /\ AnswerOK(call')
    BY <1>1, <2>3, <2>4 DEF WalkOK, AnswerOK, WalkInv, Account
  <2> QED BY <1>1, <2>3, <2>5, SameState
<1> QED BY <1>3, <1>4

\* The loop is over: the prefix is the whole list.
LEMMA AnswerStep ==
  ASSUME Inductive, WalkInv, AnswerDetails PROVE WalkInv'
<1>0. /\ call \in Call /\ call.pc = "walking" /\ (call.left <= 0 \/ call.token = None)
      /\ call' = IF call.account = None THEN [call EXCEPT !.pc = "panicked", !.resp = Panicked]
                 ELSE Answer(Resp("Ok", call.found))
      /\ db' = db
  BY DEF AnswerDetails, WalkInv, storeVars
<1> SUFFICES ASSUME call.account # None PROVE WalkInv'
  <2> SUFFICES ASSUME call.account = None PROVE WalkInv'
    OBVIOUS
  <2>1. /\ call' \in Call /\ call'.pc = "panicked" /\ call'.asked = call.asked
        /\ call'.resp.code = "panicked" /\ call'.quiet = call.quiet
    BY <1>0 DEF Call, Codes, Panicked, Resp
  <2>2. Account(call') = Account(call)
    BY <2>1 DEF Account
  <2>3. call.quiet => /\ Account(call) # None /\ Account(call).type = "Account"
                      /\ Account(call).num = None
    BY <1>0 DEF WalkInv, WalkOK
  <2>4. WalkOK(call') /\ AnswerOK(call')
    BY <2>1, <2>2, <2>3 DEF WalkOK, AnswerOK
  <2> QED BY <1>0, <2>1, <2>4, SameState
<1>1. /\ call \in Call /\ call.pc = "walking" /\ (call.left <= 0 \/ call.token = None)
      /\ call' = Answer(Resp("Ok", call.found)) /\ db' = db
  BY <1>0
<1>2. call.found \in Seq(Val) /\ call.left \in Int /\ Len(call.found) \in Nat
  BY <1>1 DEF Call
<1>3. /\ call' \in Call /\ call'.pc = "answered" /\ call'.asked = call.asked
      /\ call'.resp.code = "Ok" /\ call'.resp.body = call.found /\ call'.quiet = call.quiet
  BY <1>1, <1>2 DEF Call, Codes, Answer, Resp
<1>4. ASSUME call.quiet PROVE IsTokenList(call.found, Account(call), get_state_value)
  <2>1. ReadSoFar(call.found, Account(call), call.token, call.left)
        /\ Account(call) # None /\ Account(call).type = "Account"
    BY <1>1, <1>4 DEF WalkInv, WalkOK
  <2>2. Account(call).number_associations \in Int
    BY <2>1, ReadType, QueryAssumption DEF Account
  <2> DEFINE a == Account(call)
             after(i) == IF i = 0 THEN a.head_token_id ELSE call.found[i].next_token
  <2>3. /\ \A i \in 1..Len(call.found) :
             /\ after(i - 1) # None /\ call.found[i] # None
             /\ call.found[i].type = "TokenRelation"
             /\ call.found[i] = get_state_value(RelationKey(a.num, after(i - 1)))
        /\ call.token = after(Len(call.found))
        /\ call.left = a.number_associations - Len(call.found)
        /\ Len(call.found) <= Rounds(a)
    BY <2>1 DEF ReadSoFar
  <2> HIDE DEF a
  <2>4. \/ Len(call.found) = Rounds(a)
        \/ Len(call.found) < Rounds(a) /\ after(Len(call.found)) = None
    <3> HIDE DEF after
    <3>1. a.number_associations \in Int
      BY <2>2 DEF a
    <3>2. CASE call.left <= 0
      BY <1>2, <2>3, <3>1, <3>2 DEF Rounds
    <3>3. CASE call.token = None
      BY <1>2, <2>3, <3>1, <3>3 DEF Rounds
    <3> QED BY <1>1, <3>2, <3>3
  <2> QED BY <2>3, <2>4 DEF IsTokenList, a
<1>5. WalkOK(call') /\ AnswerOK(call')
  BY <1>1, <1>3, <1>4 DEF WalkOK, AnswerOK, WalkInv, Account
<1> QED BY <1>1, <1>3, <1>5, SameState

\* A commit that changes the state ends the quiet.
LEMMA StoreStep ==
  ASSUME WalkInv, Store PROVE WalkInv'
<1>1. /\ call \in Call
      /\ call' = [call EXCEPT !.quiet = call.quiet /\ (call.pc # "idle" => db' = db)]
  BY DEF Store, WalkInv
<1> DEFINE quiet == call.quiet /\ (call.pc # "idle" => db' = db)
<1>2. /\ call' \in Call /\ call'.pc = call.pc /\ call'.asked = call.asked
      /\ call'.account = call.account /\ call'.token = call.token /\ call'.left = call.left
      /\ call'.found = call.found /\ call'.resp = call.resp
      /\ call'.quiet = quiet
  BY <1>1 DEF Call
<1>3. CASE call'.quiet /\ call.pc # "idle"
  <2>1. db' = db /\ call.quiet
    BY <1>2, <1>3
  <2>2. WalkOK(call') /\ AnswerOK(call')
    BY <1>2, <2>1 DEF WalkInv, WalkOK, AnswerOK, Account
  <2> QED BY <1>2, <2>1, <2>2, SameState
<1>4. CASE ~(call'.quiet /\ call.pc # "idle")
  <2>1. WalkOK(call)' /\ AnswerOK(call)'
    BY <1>2, <1>4 DEF WalkOK, AnswerOK
  <2> QED BY <1>2, <2>1 DEF WalkInv
<1> QED BY <1>3, <1>4

\* For every stream of blocks, a details answer that no commit overlapped is the
\* account's list of the ledger, an error only where that list is broken, and
\* missing only where the account has no id
\* (get_account_details, get_token_relationships).
THEOREM QuietWalkAlwaysExact == Spec => []QuietWalkIsExact
<1>1. Init => WalkInv
  BY NoCallType DEF Init, WalkInv, WalkOK, AnswerOK
<1>2. Inductive /\ WalkInv /\ [Next]_vars => WalkInv'
  <2> SUFFICES ASSUME Inductive, WalkInv, [Next]_vars PROVE WalkInv'
    OBVIOUS
  <2>1. CASE TakeAnswer
    <3>1. call' = NoCall /\ db' = db
      BY <2>1 DEF TakeAnswer, storeVars
    <3> QED BY <3>1, NoCallType, SameState DEF WalkOK, AnswerOK
  <2>2. CASE UNCHANGED vars
    <3>1. call' = call /\ db' = db
      BY <2>2 DEF vars, storeVars
    <3> QED BY <3>1, SameState DEF WalkInv
  <2> QED BY <2>1, <2>2, AskStep, ReadStep, AnswerStep, StoreStep DEF Next
<1>3. Inductive /\ WalkInv => QuietWalkIsExact
  <2> SUFFICES ASSUME Inductive, WalkInv, call.pc \in {"answered", "panicked"}, call.quiet,
                      ledger.stolen = {}
               PROVE  QuietWalkIsExact
    BY DEF QuietWalkIsExact
  <2>1. \A map \in MapIds : \A id : get_state_value(<<map, id>>) = InLedger(<<map, id>>)
    BY ReadsLedger
  <2>2. Account(call) = InLedger(<<IdAccounts, call.asked>>)
    BY <2>1 DEF Account, MapIds
  <2>3. \A n, t : get_state_value(RelationKey(n, t)) = InLedger(RelationKey(n, t))
    BY <2>1 DEF RelationKey, MapIds
  <2>4. AnswerOK(call)
    BY DEF WalkInv
  <2> DEFINE a == InLedger(<<IdAccounts, call.asked>>)
  <2>5. /\ call.resp.code = "Ok" =>
             a # None /\ a.type = "Account" /\ IsTokenList(call.resp.body, a, get_state_value)
        /\ call.resp.code = "panicked" => a # None /\ a.type = "Account" /\ a.num = None
        /\ call.resp.code = "InvalidAccountId" => a = None
        /\ call.resp.code = "internal" =>
             /\ a # None
             /\ \/ a.type # "Account"
                \/ /\ call.token # None
                   /\ \/ get_state_value(RelationKey(a.num, call.token)) = None
                      \/ get_state_value(RelationKey(a.num, call.token)).type # "TokenRelation"
    BY <2>2, <2>4 DEF AnswerOK
  <2> HIDE DEF a
  <2>6. IsTokenList(call.resp.body, a, get_state_value)
          => IsTokenList(call.resp.body, a, InLedger)
    BY <2>3 DEF IsTokenList
  <2>7. get_state_value(RelationKey(a.num, call.token)) = InLedger(RelationKey(a.num, call.token))
    BY <2>3
  <2> QED BY <2>5, <2>6, <2>7 DEF QuietWalkIsExact, a
<1> QED BY <1>1, <1>2, <1>3, QueryInductive, PTL DEF Spec
=============================================================================
