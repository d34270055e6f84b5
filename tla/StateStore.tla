----------------------------- MODULE StateStore -----------------------------
(***************************************************************************)
(* The key-value state of the state management plugin (state_manager.rs):  *)
(* what apply_state_changes does to CF_STATE_DATA and to the number of the *)
(* last processed block.  The changes of a block are collected one by one  *)
(* in a WriteBatch, then committed at once; the process may die in between.*)
(* A key is <<state id, rest>>; rest stands for the rank of the encoded    *)
(* remainder in byte order, 0 for the empty one of a singleton.            *)
(***************************************************************************)
EXTENDS Integers, Sequences

CONSTANTS Keys,       \* keys in use: pairs of naturals
          QueueIds,   \* the state ids that are queues
          Val,        \* values (encoded protobuf messages)
          Chain,      \* the possible block streams: Chain \subseteq [block -> content]
          None,       \* no value, no key, no timestamp
          Untouched   \* a key the batch does not mention

\* A StateChange with the consensus timestamp of the StateChanges it came in.
Change == {c \in [op : {"MapUpdate", "MapDelete", "SingletonUpdate", "QueuePush",
                        "QueuePop", "Unhandled"},
                  id : Nat, key : Nat \cup {None}, val : Val \cup {None},
                  at : Nat \cup {None}] : c.op = "QueuePop" => c.id \in QueueIds}

\* The content of a block is the list of its state changes.
ASSUME StoreAssumption ==
  /\ Keys \subseteq Nat \X Nat /\ QueueIds \subseteq Nat
  /\ None \notin Val /\ None \notin Nat
  /\ Untouched \notin Val /\ Untouched # None
  /\ \A chain \in Chain : \A n \in DOMAIN chain :
       n \in Nat /\ chain[n] \in Seq(Change)

VARIABLES
  chain,     \* contents of the blocks, as they lie in the cache and in storage
  db,        \* CF_STATE_DATA
  last,      \* STATE_LAST_PROCESSED_BLOCK, -1 while it is not set
  task,      \* the application under way: its block and the changes to come
  batch,     \* its WriteBatch: per key the last operation
  ledger,    \* history: the state the applied blocks describe, queues aside
  pending    \* history: the same with the changes of the batch

storeVars == <<chain, db, last, task, batch, ledger, pending>>

Stored == [Keys -> Val \cup {None}]
Ledger == [n : {-1} \cup Nat, of : Stored, stolen : SUBSET Keys]
NoTask == [pc |-> "idle", n |-> -1, rest |-> <<>>]
EmptyBatch == [k \in Keys |-> Untouched]

StoreTypeOK ==
  /\ chain \in Chain
  /\ db \in Stored /\ last \in {-1} \cup Nat
  /\ task \in [pc : {"idle", "applying", "down"}, n : {-1} \cup Nat, rest : Seq(Change)]
  /\ batch \in [Keys -> Val \cup {None, Untouched}]
  /\ ledger \in Ledger /\ pending \in Ledger

StoreInit ==
  /\ chain \in Chain
  /\ db = [k \in Keys |-> None] /\ last = -1
  /\ task = NoTask /\ batch = EmptyBatch
  /\ ledger = [n |-> -1, of |-> db, stolen |-> {}] /\ pending = ledger

-----------------------------------------------------------------------------
(* Keys *)

\* Rank of an encoded timestamp: protobuf writes the seconds as a varint, the
\* low seven bits first, so byte order is not the order of time.
TimestampKey(t) == IF t < 128 THEN 256 * t
                   ELSE 256 * (128 + (t % 128)) + (t \div 128)

\* construct_db_key and the keys built in place for singletons and queues.
construct_db_key(c) ==
  <<c.id, CASE c.op \in {"MapUpdate", "MapDelete"} -> c.key
            [] c.op = "QueuePush" -> TimestampKey(c.at)
            [] OTHER -> 0>>

\* Order of the keys in the column family.
Precedes(j, k) == j[1] < k[1] \/ (j[1] = k[1] /\ j[2] <= k[2])

\* First key the iterator of prefix_iterator_cf yields, if any.  No prefix
\* extractor is configured, so it runs on into the states that follow.
PrefixFirst(id) ==
  {k \in Keys : db[k] # None /\ k[1] >= id
      /\ \A j \in Keys : db[j] # None /\ j[1] >= id => Precedes(k, j)}

-----------------------------------------------------------------------------
(* apply_state_changes *)

\* The change makes apply_state_changes return an error.
Malformed(c) ==
  \/ c.at = None
  \/ c.op \in {"MapUpdate", "MapDelete"} /\ c.key = None
  \/ c.op \in {"MapUpdate", "SingletonUpdate", "QueuePush"} /\ c.val = None

\* The batch applied to the committed state.
Written(b) == [k \in Keys |-> IF b[k] = Untouched THEN db[k] ELSE b[k]]

\* apply_state_from_storage or apply_state_from_block_event: the block is
\* decoded and a batch begun.  Blocks come in ascending order (Pipeline shows
\* it); after a failed catch-up the numbers have a hole.
Begin(n) ==
  /\ task.pc = "idle" /\ n > last
  /\ task' = [pc |-> "applying", n |-> n, rest |-> chain[n]]
  /\ batch' = EmptyBatch /\ pending' = [ledger EXCEPT !.n = n]
  /\ UNCHANGED <<chain, db, last, ledger>>

\* The change of the block that is next.
change == Head(task.rest)

\* What handling a change leaves alone and what it always does.
NextChange ==
  /\ task.pc = "applying" /\ task.rest # <<>> /\ ~Malformed(change)
  /\ task' = [task EXCEPT !.rest = Tail(@)]
  /\ UNCHANGED <<chain, db, last, ledger>>

\* MapUpdate, SingletonUpdate or QueuePush of a handled variant: a put.
Put ==
  /\ NextChange /\ change.op \in {"MapUpdate", "SingletonUpdate", "QueuePush"}
  /\ LET k == construct_db_key(change) IN
       /\ batch' = [batch EXCEPT ![k] = change.val]
       /\ pending' = [pending EXCEPT !.of[k] = change.val, !.stolen = @ \ {k}]

\* MapDelete.
Delete ==
  /\ NextChange /\ change.op = "MapDelete"
  /\ LET k == construct_db_key(change) IN
       /\ batch' = [batch EXCEPT ![k] = None]
       /\ pending' = [pending EXCEPT !.of[k] = None, !.stolen = @ \ {k}]

\* QueuePop looks at the committed state, not at the batch: a push of the
\* same block is not seen, a second pop finds the same key, and an empty
\* queue costs the first entry of a later state.
Pop ==
  /\ NextChange /\ change.op = "QueuePop"
  /\ LET first == PrefixFirst(change.id) IN
       /\ batch' = [k \in Keys |-> IF k \in first THEN None ELSE batch[k]]
       /\ pending' = [pending EXCEPT !.stolen = @ \cup {k \in first : k[1] # change.id}]

\* Unhandled operations and variants are logged.
Ignore ==
  /\ NextChange /\ change.op = "Unhandled"
  /\ UNCHANGED <<batch, pending>>

\* BUG variant of Commit: the number is written on its own, after the batch.
Commit_unnumbered ==
  /\ task.pc = "applying" /\ task.rest = <<>>
  /\ db' = Written(batch)
  /\ ledger' = pending
  /\ \/ last' = task.n /\ task' = NoTask
     \/ last' = last /\ task' = [NoTask EXCEPT !.pc = "down"]
  /\ batch' = EmptyBatch
  /\ UNCHANGED <<chain, pending>>

\* The batch, the number included, is written atomically.
Commit ==
  /\ task.pc = "applying" /\ task.rest = <<>>
  /\ db' = Written(batch) /\ last' = task.n
  /\ ledger' = pending
  /\ task' = NoTask /\ batch' = EmptyBatch
  /\ UNCHANGED <<chain, pending>>

\* A malformed change or a failed write: the batch is dropped.  A live event
\* ends the loop, a block of a catch-up is left out.
Fail ==
  /\ task.pc = "applying"
  /\ (task.rest # <<>> => Malformed(change))
  /\ task' \in {NoTask, [NoTask EXCEPT !.pc = "down"]}
  /\ batch' = EmptyBatch /\ pending' = ledger
  /\ UNCHANGED <<chain, db, last, ledger>>

\* The process dies at any point, and comes up with what RocksDB has.
Crash ==
  /\ task.pc # "down" /\ task' = [NoTask EXCEPT !.pc = "down"]
  /\ batch' = EmptyBatch /\ pending' = ledger
  /\ UNCHANGED <<chain, db, last, ledger>>

Restart ==
  /\ task.pc = "down" /\ task' = NoTask
  /\ UNCHANGED <<chain, db, last, batch, ledger, pending>>

StoreNext ==
  \/ \E n \in DOMAIN chain : Begin(n)
  \/ Put \/ Delete \/ Pop \/ Ignore
  \/ Commit \/ Fail \/ Crash \/ Restart

StoreSpec == StoreInit /\ [][StoreNext]_storeVars

-----------------------------------------------------------------------------
\* get_state_value
get_state_value(k) == IF k \in Keys THEN db[k] ELSE None

\* At every moment the committed maps and singletons are what the applied
\* blocks describe, up to the number stored with them, whatever was in the
\* batch of a block that failed or of a process that died.  The one exception
\* is an entry a QueuePop took for the head of a queue that was empty
\* (state_manager.rs, QueuePop and prefix_iterator_cf).
StateIsLedger ==
  /\ last = ledger.n
  /\ \A k \in Keys : k[1] \notin QueueIds =>
       db[k] = ledger.of[k] \/ (k \in ledger.stolen /\ db[k] = None)
=============================================================================
