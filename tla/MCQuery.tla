------------------------------ MODULE MCQuery -------------------------------
(* Small instance of Query: two blocks of changes to one account with two *)
(* tokens, a contract, one entity of every other map, and a queue whose id  *)
(* lies between the ids of the maps.                                        *)
EXTENDS Query

A == 1      \* tokens
B == 2

Up(id, key, val) == [op |-> "MapUpdate", id |-> id, key |-> key, val |-> val, at |-> 1]
Del(id, key) == [op |-> "MapDelete", id |-> id, key |-> key, val |-> None, at |-> 1]
Set(id, val) == [op |-> "SingletonUpdate", id |-> id, key |-> None, val |-> val, at |-> 1]
Push(id, val, t) == [op |-> "QueuePush", id |-> id, key |-> None, val |-> val, at |-> t]
Take(id) == [op |-> "QueuePop", id |-> id, key |-> None, val |-> None, at |-> 1]
Skip == [op |-> "Unhandled", id |-> 0, key |-> None, val |-> None, at |-> 1]

Account(n, head, count) ==
  [type |-> "Account", num |-> n, smart_contract |-> n = 2, head_token_id |-> head,
   number_associations |-> count, data |-> <<head, count>>]
Relation(next) == [type |-> "TokenRelation", next_token |-> next, data |-> next]
Plain(type) == [type |-> type, data |-> type]
Token(n) == [type |-> "Token", num |-> n, data |-> n]
Rel(t) == RelationKey(1, t)[2]

Queue == 7

\* associate both tokens; put B first; drop B; leave a cycle
Associate == <<Up(IdAccounts, 1, Account(1, A, 2)), Up(IdTokenRelations, Rel(A), Relation(B)),
               Up(IdTokenRelations, Rel(B), Relation(None))>>
Reorder == <<Up(IdAccounts, 1, Account(1, B, 2)), Up(IdTokenRelations, Rel(B), Relation(A)),
             Up(IdTokenRelations, Rel(A), Relation(None))>>
Dissociate == <<Up(IdAccounts, 1, Account(1, A, 1)), Up(IdTokenRelations, Rel(A), Relation(None)),
                Del(IdTokenRelations, Rel(B))>>
Cycle == <<Up(IdAccounts, 1, Account(1, A, 2)), Up(IdTokenRelations, Rel(A), Relation(A))>>
\* the account still names a token whose relation is gone
Dangle == <<Up(IdAccounts, 1, Account(1, A, 1)), Del(IdTokenRelations, Rel(A))>>
\* one entity of every map, and a contract
Entities == <<Up(IdTokens, 1, Token(1)), Up(IdNfts, 1, Plain("Nft")),
              Up(IdFiles, 1, Plain("File")), Up(IdTopics, 1, Plain("Topic")),
              Up(IdSchedulesById, 1, Plain("Schedule")),
              Up(IdContractBytecode, 2, Plain("Bytecode")),
              Up(IdAccounts, 2, Account(2, None, 0)),
              Set(IdBlockStreamInfo, Plain("BlockStreamInfo"))>>
\* a queue filled out of byte order, one popped, a file gone, foreign types
Queues == <<Push(Queue, Plain("Receipt"), 129), Push(Queue, Plain("Receipt"), 256)>>
Pops == <<Take(Queue), Skip, Up(IdFiles, 2, Plain("File"))>>
Mixed == <<Up(IdTokens, 2, Plain("Topic")), Del(IdFiles, 1), Take(Queue),
           Up(IdTokenRelations, Rel(B), Plain("Topic"))>>
\* an account with a token, and a token, that do not tell their own ids
Nameless == <<Up(IdAccounts, 3, Account(None, A, 1)),
              Up(IdTokenRelations, RelationKey(None, A)[2], Relation(None)),
              Up(IdTokens, 3, Token(None))>>
\* the second change lacks its value
Broken == <<Del(IdAccounts, 1), Up(IdFiles, 1, None)>>

Contents == {Associate, Reorder, Dissociate, Cycle, Dangle, Entities, Queues, Pops, Mixed,
             Nameless, Broken}
Changes == UNION {{c[i] : i \in DOMAIN c} : c \in Contents}

MCChain == [0..1 -> Contents]
MCQueueIds == {Queue}
MCVal == {c.val : c \in Changes} \ {None}
MCKeys == {construct_db_key(c) : c \in {d \in Changes : ~Malformed(d)
                                          /\ d.op \notin {"QueuePop", "Unhandled"}}}
=============================================================================
