------------------------------- MODULE Query --------------------------------
(***************************************************************************)
(* The query plugin over the state of StateStore.  Every rpc is one read   *)
(* of the committed state, so it is an operator on db, except              *)
(* get_account_details: it reads the account and then its token relations  *)
(* one by one, and blocks are committed in between.                        *)
(* A stored value is a record with its type, the fields a handler branches *)
(* on and data for the ones it copies into the response.                   *)
(***************************************************************************)
EXTENDS StateStore

CONSTANTS
  \* numbers of the StateIdentifier enum
  IdAccounts, IdTokens, IdNfts, IdTokenRelations, IdFiles, IdTopics,
  IdSchedulesById, IdContractBytecode, IdBlockStreamInfo,
  Entity      \* entity numbers a client asks for

\* The enum gives the maps and the queues different numbers;
\* number_associations is an i32.
ASSUME QueryAssumption ==
  /\ QueueIds \cap {IdAccounts, IdTokens, IdNfts, IdTokenRelations, IdFiles, IdTopics,
                    IdSchedulesById, IdContractBytecode, IdBlockStreamInfo} = {}
  /\ None \notin Entity
  /\ \A v \in Val : v.type = "Account" => v.number_associations \in Int

VARIABLE
  call        \* the one getAccountDetails call in progress

vars == <<storeVars, call>>

Resp(code, body) == [code |-> code, body |-> body]
Refused(status) == Resp(status, None)      \* Err(Status), no response header
Panicked == Resp("panicked", None)         \* the handler panics: no answer at all

\* asked: the id of the query.  account: account_id of the account that was
\* read; token: current_token_id; left: rounds of the loop to come; found: the
\* relations pushed.
NoCall == [pc |-> "idle", asked |-> None, account |-> None, token |-> None, left |-> 0,
           found |-> <<>>, quiet |-> TRUE, resp |-> Refused("none")]

-----------------------------------------------------------------------------
(* Handlers.  A query is [variant, id, form]: id is None when it is missing; *)
(* form tells the alternatives of a oneof apart ("num" is the common one).  *)

\* What the handlers share: one read, and what is told from the value.  A
\* value of another type is an inconsistency.
Lookup(q, map, type, absent) ==
  LET v == get_state_value(<<map, q.id>>) IN
    IF q.id = None THEN Refused("invalid_argument")
    ELSE IF v = None THEN Resp(absent, None)
    ELSE IF v.type # type THEN Refused("internal")
    ELSE Resp("Ok", v.data)

\* The handler unwraps the value's own id, which a block need not have set.
Unwrapping(q, map, resp) ==
  IF resp.code = "Ok" /\ get_state_value(<<map, q.id>>).num = None THEN Panicked ELSE resp

get_account_info(q) ==
  Unwrapping(q, IdAccounts, Lookup(q, IdAccounts, "Account", "InvalidAccountId"))

get_account_balance(q) ==
  IF q.form = "contract" THEN Refused("unimplemented")
  ELSE Lookup(q, IdAccounts, "Account", "InvalidAccountId")

get_account_records(q) ==
  IF q.id = None THEN Refused("invalid_argument") ELSE Resp("Ok", None)

get_transaction_receipt(q) == Resp("ReceiptNotFound", None)

get_transaction_record(q) ==
  IF q.id = None THEN Refused("invalid_argument") ELSE Resp("RecordNotFound", None)

\* The version of the singleton, or none before the first one was stored.
get_version_info(q) ==
  LET v == get_state_value(<<IdBlockStreamInfo, 0>>) IN
    Resp("Ok", IF v = None THEN None ELSE v.data)

get_topic_info(q) == Lookup(q, IdTopics, "Topic", "InvalidTopicId")
get_file_info(q) == Lookup(q, IdFiles, "File", "InvalidFileId")
get_file_content(q) == Lookup(q, IdFiles, "File", "InvalidFileId")
get_schedule_info(q) == Lookup(q, IdSchedulesById, "Schedule", "InvalidScheduleId")
get_token_info(q) == Unwrapping(q, IdTokens, Lookup(q, IdTokens, "Token", "InvalidTokenId"))
get_token_nft_info(q) == Lookup(q, IdNfts, "Nft", "InvalidNftId")

\* BUG variant of get_contract_info: any account passes for a contract.
get_contract_info_any(q) ==
  IF q.id # None /\ q.form = "evm" THEN Refused("invalid_argument")
  ELSE Lookup(q, IdAccounts, "Account", "InvalidContractId")

\* A contract is an account with its smart_contract flag set.
get_contract_info(q) ==
  LET v == get_state_value(<<IdAccounts, q.id>>) IN
    IF q.id # None /\ q.form = "evm" THEN Refused("invalid_argument")
    ELSE IF q.id # None /\ v # None /\ v.type = "Account" /\ ~v.smart_contract
    THEN Resp("InvalidContractId", None)
    ELSE Lookup(q, IdAccounts, "Account", "InvalidContractId")

get_contract_bytecode(q) ==
  Lookup(q, IdContractBytecode, "Bytecode", "InvalidContractId")

-----------------------------------------------------------------------------
(* Services: the rpc must carry the query of its name.  Transactions of     *)
(* every service are answered NotSupported.                                 *)

Expect(q, variant, resp) ==
  IF q.variant = variant THEN resp ELSE Refused("invalid_argument")
NotSupported == Resp("NotSupported", None)

CryptoQueries(rpc, q) ==
  CASE rpc = "get_account_info" -> Expect(q, "CryptoGetInfo", get_account_info(q))
    [] rpc = "get_account_records" ->
         Expect(q, "CryptoGetAccountRecords", get_account_records(q))
    [] rpc = "crypto_get_balance" ->
         Expect(q, "CryptogetAccountBalance", get_account_balance(q))
    [] rpc = "get_transaction_receipts" ->
         Expect(q, "TransactionGetReceipt", get_transaction_receipt(q))
    [] rpc = "get_tx_record_by_tx_id" ->
         Expect(q, "TransactionGetRecord", get_transaction_record(q))
    [] OTHER -> Refused("unimplemented")                      \* getLiveHash

TokenQueries(rpc, q) ==
  IF rpc = "get_token_info" THEN Expect(q, "TokenGetInfo", get_token_info(q))
  ELSE Expect(q, "TokenGetNftInfo", get_token_nft_info(q))

ContractQueries(rpc, q) ==
  CASE rpc = "get_contract_info" -> Expect(q, "ContractGetInfo", get_contract_info(q))
    [] rpc = "contract_get_bytecode" ->
         Expect(q, "ContractGetBytecode", get_contract_bytecode(q))
    [] OTHER -> Refused("unimplemented")      \* call local, by solidity id, records

FileQueries(rpc, q) ==
  IF rpc = "get_file_content" THEN Expect(q, "FileGetContents", get_file_content(q))
  ELSE Expect(q, "FileGetInfo", get_file_info(q))

ConsensusQueries(rpc, q) == Expect(q, "ConsensusGetTopicInfo", get_topic_info(q))
ScheduleQueries(rpc, q) == Expect(q, "ScheduleGetInfo", get_schedule_info(q))

\* getAccountDetails is the action AskDetails below.
NetworkQueries(rpc, q) ==
  IF rpc = "get_version_info" THEN Expect(q, "NetworkGetVersionInfo", get_version_info(q))
  ELSE Refused("unimplemented")                               \* getExecutionTime

\* The transaction rpcs of each service.
CryptoTransactions == {"create_account", "update_account", "crypto_transfer",
  "crypto_delete", "approve_allowances", "delete_allowances",
  "add_live_hash", "delete_live_hash"}
TokenTransactions == {"create_token", "update_token", "mint_token",
  "burn_token", "delete_token", "wipe_token_account", "freeze_token_account",
  "unfreeze_token_account", "grant_kyc_to_token_account",
  "revoke_kyc_from_token_account", "associate_tokens", "dissociate_tokens",
  "update_token_fee_schedule", "pause_token", "unpause_token", "update_nfts",
  "reject_token", "airdrop_tokens", "cancel_airdrop", "claim_airdrop"}
ContractTransactions == {"create_contract", "update_contract",
  "contract_call_method", "delete_contract", "system_delete",
  "system_undelete", "call_ethereum", "lambda_s_store"}
FileTransactions == {"create_file", "update_file", "delete_file",
  "append_content", "system_delete", "system_undelete"}
ConsensusTransactions == {"create_topic", "update_topic", "delete_topic",
  "submit_message"}
ScheduleTransactions == {"create_schedule", "sign_schedule",
  "delete_schedule"}
NetworkTransactions == {"unchecked_submit"}

Transactions == UNION {CryptoTransactions, TokenTransactions, ContractTransactions,
                       FileTransactions, ConsensusTransactions,
                       ScheduleTransactions, NetworkTransactions}

\* The services by name.
Serve(service, rpc, q) ==
  IF rpc \in Transactions THEN NotSupported
  ELSE CASE service = "crypto" -> CryptoQueries(rpc, q)
         [] service = "token" -> TokenQueries(rpc, q)
         [] service = "contract" -> ContractQueries(rpc, q)
         [] service = "file" -> FileQueries(rpc, q)
         [] service = "consensus" -> ConsensusQueries(rpc, q)
         [] service = "schedule" -> ScheduleQueries(rpc, q)
         [] service = "network" -> NetworkQueries(rpc, q)

-----------------------------------------------------------------------------
(* getAccountDetails *)

\* Key of the relation of an account and a token; an account without an id has
\* relations of its own, ranked before those of account 1.
RelationKey(account, token) ==
  <<IdTokenRelations, 16 * (IF account = None THEN 0 ELSE account) + token>>

Answer(resp) == [call EXCEPT !.pc = "answered", !.resp = resp]

\* get_account_details up to the call of get_token_relationships.
AskDetails(q) ==
  /\ call.pc = "idle"
  /\ LET v == get_state_value(<<IdAccounts, q.id>>)
         first == Lookup(q, IdAccounts, "Account", "InvalidAccountId") IN
       call' = IF Expect(q, "AccountDetails", first).code # "Ok"
               THEN [Answer(Expect(q, "AccountDetails", first)) EXCEPT !.asked = q.id]
               ELSE [NoCall EXCEPT !.pc = "walking", !.asked = q.id, !.account = v.num,
                                   !.token = v.head_token_id,
                                   !.left = v.number_associations]
  /\ UNCHANGED storeVars

\* BUG variant of ReadRelation: the walk follows the list to its end and does
\* not count its steps.
ReadRelation_uncounted ==
  /\ call.pc = "walking" /\ call.token # None
  /\ LET v == get_state_value(RelationKey(call.account, call.token)) IN
       call' = IF v = None \/ v.type # "TokenRelation" THEN Answer(Refused("internal"))
               ELSE [call EXCEPT !.found = IF Len(@) < 4 THEN Append(@, v) ELSE @,
                                 !.token = v.next_token]
  /\ UNCHANGED storeVars

\* BUG variant of ReadRelation: a missing relation ends the list.
ReadRelation_lenient ==
  /\ call.pc = "walking" /\ call.left > 0 /\ call.token # None
  /\ LET v == get_state_value(RelationKey(call.account, call.token)) IN
       call' = IF v = None THEN Answer(Resp("Ok", call.found))
               ELSE IF v.type # "TokenRelation" THEN Answer(Refused("internal"))
               ELSE [call EXCEPT !.found = Append(@, v),
                                 !.token = v.next_token, !.left = @ - 1]
  /\ UNCHANGED storeVars

\* One round of the loop of get_token_relationships.
ReadRelation ==
  /\ call.pc = "walking" /\ call.left > 0 /\ call.token # None
  /\ LET v == get_state_value(RelationKey(call.account, call.token)) IN
       call' = IF v = None \/ v.type # "TokenRelation" THEN Answer(Refused("internal"))
               ELSE [call EXCEPT !.found = Append(@, v),
                                 !.token = v.next_token, !.left = @ - 1]
  /\ UNCHANGED storeVars

\* The loop is over and the response is built and sent: it unwraps the id of the
\* account it read.
AnswerDetails ==
  /\ call.pc = "walking" /\ (call.left <= 0 \/ call.token = None)
  /\ call' = IF call.account = None THEN [call EXCEPT !.pc = "panicked", !.resp = Panicked]
             ELSE Answer(Resp("Ok", call.found))
  /\ UNCHANGED storeVars

\* The client has its answer, or the end of its stream, and may ask again.
TakeAnswer ==
  /\ call.pc \in {"answered", "panicked"} /\ call' = NoCall
  /\ UNCHANGED storeVars

Ask == \E id \in Entity \cup {None}, variant \in {"AccountDetails", "other"} :
         AskDetails([variant |-> variant, id |-> id, form |-> "num"])

-----------------------------------------------------------------------------
\* A step of the state manager; call.quiet records that no commit has changed
\* the state since the call began.
Store ==
  /\ StoreNext
  /\ call' = [call EXCEPT !.quiet = @ /\ (call.pc # "idle" => db' = db)]

Init == StoreInit /\ call = NoCall
Next == Store \/ Ask \/ ReadRelation \/ AnswerDetails \/ TakeAnswer
Spec == Init /\ [][Next]_vars

\* A request in progress is polled by the runtime until it is answered.
LiveSpec == Spec /\ WF_vars(ReadRelation) /\ WF_vars(AnswerDetails)

-----------------------------------------------------------------------------
\* The rpcs that tell one entity: service, state, type and query variant, and
\* the code for an entity that does not exist.
EntityRpc == [
  get_account_info |-> <<"crypto", IdAccounts, "Account", "CryptoGetInfo", "InvalidAccountId">>,
  crypto_get_balance |->
    <<"crypto", IdAccounts, "Account", "CryptogetAccountBalance", "InvalidAccountId">>,
  get_token_info |-> <<"token", IdTokens, "Token", "TokenGetInfo", "InvalidTokenId">>,
  get_token_nft_info |-> <<"token", IdNfts, "Nft", "TokenGetNftInfo", "InvalidNftId">>,
  get_contract_info |->
    <<"contract", IdAccounts, "Account", "ContractGetInfo", "InvalidContractId">>,
  contract_get_bytecode |->
    <<"contract", IdContractBytecode, "Bytecode", "ContractGetBytecode", "InvalidContractId">>,
  get_file_content |-> <<"file", IdFiles, "File", "FileGetContents", "InvalidFileId">>,
  get_file_info |-> <<"file", IdFiles, "File", "FileGetInfo", "InvalidFileId">>,
  get_topic_info |->
    <<"consensus", IdTopics, "Topic", "ConsensusGetTopicInfo", "InvalidTopicId">>,
  get_schedule_info |->
    <<"schedule", IdSchedulesById, "Schedule", "ScheduleGetInfo", "InvalidScheduleId">>]

\* What the applied blocks left under a key.
InLedger(k) == IF k \in Keys THEN ledger.of[k] ELSE None

\* At every moment, in the middle of a block or after a crash, the services
\* tell the entities of the applied blocks and no others: an rpc finds an
\* entity iff the blocks up to the last applied one left it in the map of
\* that rpc, and tells what they left; a foreign type is an internal error
\* (the handlers of crates/rock-node-query-plugin).  get_account_info and
\* get_token_info panic for an entity stored without its own id, and only then
\* (crypto_handler.rs:88, token_handler.rs:61).  Entries a QueuePop took are the
\* exception StateIsLedger names.
AnswersMatchLedger ==
  \A rpc \in DOMAIN EntityRpc, id \in Entity :
    LET p == EntityRpc[rpc]
        k == <<p[2], id>>
        e == InLedger(k)
        exists == e # None /\ (rpc = "get_contract_info" /\ e.type = "Account"
                                 => e.smart_contract) IN
      k \notin ledger.stolen =>
        Serve(p[1], rpc, [variant |-> p[4], id |-> id, form |-> "num"]) =
          (IF ~exists THEN Resp(p[5], None)
           ELSE IF e.type # p[3] THEN Refused("internal")
           ELSE IF rpc \in {"get_account_info", "get_token_info"} /\ e.num = None THEN Panicked
           ELSE Resp("Ok", e.data))

\* The rounds the loop of get_token_relationships makes at most.
Rounds(a) == IF a.number_associations > 0 THEN a.number_associations ELSE 0

\* found is the list of token relations of an account a as state links them: it
\* starts at the head, follows next_token and has number_associations members
\* unless the list ends before.
IsTokenList(found, a, state(_)) ==
  LET after(i) == IF i = 0 THEN a.head_token_id ELSE found[i].next_token IN
    /\ \A i \in 1..Len(found) :
         /\ after(i - 1) # None /\ found[i] # None /\ found[i].type = "TokenRelation"
         /\ found[i] = state(RelationKey(a.num, after(i - 1)))
    /\ \/ Len(found) = Rounds(a)
       \/ Len(found) < Rounds(a) /\ after(Len(found)) = None

\* A details answer that no commit overlapped is exact: the token relations it
\* lists are the account's list in the ledger, an unknown account is unknown
\* there, it is an error only where that list is broken (an entry of another
\* type, or a token without its relation), and there is none at all only for an
\* account without an id (get_account_details, get_token_relationships).  An
\* overlapped one may be torn.
QuietWalkIsExact ==
  LET a == InLedger(<<IdAccounts, call.asked>>)
      r == InLedger(RelationKey(a.num, call.token)) IN
    call.pc \in {"answered", "panicked"} /\ call.quiet /\ ledger.stolen = {} =>
      /\ call.resp.code = "Ok" =>
           a # None /\ a.type = "Account" /\ IsTokenList(call.resp.body, a, InLedger)
      /\ call.resp.code = "panicked" => a # None /\ a.type = "Account" /\ a.num = None
      /\ call.resp.code = "InvalidAccountId" => a = None
      /\ call.resp.code = "internal" =>
           /\ a # None
           /\ \/ a.type # "Account"
              \/ call.token # None /\ (r = None \/ r.type # "TokenRelation")

\* Every getAccountDetails ends, however many blocks are committed under it and
\* even if the relations they leave form a cycle (get_token_relationships, the
\* bound number_associations), and it ends with an answer if the account it read
\* has an id; without one the handler panics (network_handler.rs:117).
DetailsAnswered ==
  /\ call.pc = "walking" ~> call.pc # "walking"
  /\ call.pc = "walking" /\ call.account # None ~> call.pc = "answered"
=============================================================================
