---------------------------- MODULE TieredStore ----------------------------
(***************************************************************************)
(* The two tiers of the persistence plugin with their files: the archiver  *)
(* and write_block_batch go through ColdWriter::write_archive one file     *)
(* operation at a time, ColdReader holds an in-memory index of the files,  *)
(* a client of the block access or the server status service reads the     *)
(* store piece by piece, and the process may crash between any two steps   *)
(* and restart with initialize().                                          *)
(* write_block is the whole handler of Persistence.  A crash is the death  *)
(* of the process: renamed files and committed RocksDB batches survive it. *)
(***************************************************************************)
EXTENDS Integers

CONSTANTS Blocks, Batches, StartBlock, BatchSize, HotCount,  \* as in Persistence
          ReadBlocks                                         \* blocks clients ask for

ASSUME TieredAssumption ==
  /\ Blocks \subseteq Nat /\ ReadBlocks \subseteq Nat /\ Batches \subseteq Nat \X Nat
  /\ StartBlock \in Nat /\ BatchSize \in Nat \ {0} /\ HotCount \in Nat

VARIABLES
  hot, latest, trueEarliest, earliestHot, highest, gaps, skipped,  \* RocksDB
  dataFiles, indexFiles, \* final .rba and .rbi files, named by <<first, last>>
  index,                 \* ColdReader.indices: ranges that are memory-mapped
  trigger,               \* Archiver.trigger has a permit
  job,                   \* job[j]: the archive being written by j
  up,                    \* the process runs
  client                 \* a getBlock or serverStatus call

NoBlock == -1
Jobs == {"archiver", "batch"}
Idle == [pc |-> "idle", r |-> <<0, 0>>]

\* A call before it reads anything; n is the block (or the last block) and
\* first the first block it has read.  owed is history: the block was readable
\* when the call settled on it.
NoCall == [pc |-> "idle", n |-> NoBlock, first |-> NoBlock, owed |-> FALSE]
Answers == {"Success", "NotFound", "NotAvailable", "Status",
            "Failed"}  \* INVALID_REQUEST, UNKNOWN or the gRPC status "internal"

\* Archives that a restart would find: load_index_file requires both files.
Complete == dataFiles \cap indexFiles
BlocksOf(ranges) == UNION {r[1] .. r[2] : r \in ranges}
DurableCold == BlocksOf(Complete)
Stored == hot \cup DurableCold

P == INSTANCE Persistence
       WITH cold <- DurableCold, cycling <- (job["archiver"].pc # "idle")

dbVars == <<hot, latest, trueEarliest, earliestHot, highest, gaps, skipped>>
fileVars == <<dataFiles, indexFiles>>
vars == <<dbVars, fileVars, index, trigger, job, up, client>>

Ranges == Nat \X Nat

\* After initialize() on an empty database and an empty archive directory.
Init ==
  /\ hot = {} /\ gaps = {} /\ skipped = {}
  /\ latest = NoBlock /\ trueEarliest = NoBlock /\ earliestHot = NoBlock
  /\ highest = P!Seed
  /\ dataFiles = {} /\ indexFiles = {} /\ index = {}
  /\ trigger = FALSE /\ up = TRUE
  /\ job = [j \in Jobs |-> Idle] /\ client = NoCall

WriteBlock(b) ==
  /\ up
  /\ UNCHANGED <<fileVars, index, job, up, client>>
  /\ P!write_block(b)

-----------------------------------------------------------------------------
(* write_archive and load_index_file, for both callers *)

Set(j, pc, r) == job' = [job EXCEPT ![j] = [pc |-> pc, r |-> r]]
At(j, pc) == up /\ job[j].pc = pc

\* write_temp_files: .tmp files are invisible to every reader.
WriteTemp(j) ==
  /\ At(j, "temp") /\ Set(j, "data", job[j].r)
  /\ UNCHANGED <<dbVars, fileVars, index, trigger, up, client>>

RenameData(j) ==
  /\ At(j, "data") /\ Set(j, "index", job[j].r)
  /\ dataFiles' = dataFiles \cup {job[j].r}
  /\ UNCHANGED <<dbVars, indexFiles, index, trigger, up, client>>

RenameIndex(j) ==
  /\ At(j, "index") /\ Set(j, "load", job[j].r)
  /\ indexFiles' = indexFiles \cup {job[j].r}
  /\ UNCHANGED <<dbVars, dataFiles, index, trigger, up, client>>

\* indices.insert(start_block, ...): replaces a chunk with the same start.
Insert(ind, r) == {i \in ind : i[1] # r[1]} \cup {r}

\* load_index_file after an archive was written; a failure is only logged.
LoadIndex(j) ==
  /\ At(j, "load") /\ Set(j, "commit", job[j].r)
  /\ index' \in {Insert(index, job[j].r), index}
  /\ UNCHANGED <<dbVars, fileVars, trigger, up, client>>

\* A RocksDB error in a check or a commit, or an I/O error in write_archive,
\* ends the archival cycle or the write_block_batch call.
JobFails(j) ==
  /\ up /\ job[j].pc \in {"check", "temp", "data", "index", "commit"}
  /\ Set(j, "idle", <<0, 0>>)
  /\ UNCHANGED <<dbVars, fileVars, index, trigger, up, client>>

-----------------------------------------------------------------------------
(* The archiver task *)

\* A permit or the 30 s timer starts run_archival_cycle.
WakeArchiver ==
  /\ At("archiver", "idle") /\ Set("archiver", "check", <<0, 0>>)
  /\ trigger' \in {FALSE, trigger}
  /\ UNCHANGED <<dbVars, fileVars, index, up, client>>

\* earliest_hot is set and the hot tier is over its limit.
Oversize == earliestHot # NoBlock /\ P!HotSpan > HotCount

CycleDone ==
  /\ At("archiver", "check") /\ ~Oversize /\ Set("archiver", "idle", <<0, 0>>)
  /\ UNCHANGED <<dbVars, fileVars, index, trigger, up, client>>

SkipBatch ==
  /\ At("archiver", "check") /\ Oversize
  /\ ~(P!Window(earliestHot) \subseteq hot)
  /\ skipped' = skipped \cup {earliestHot}
  /\ Set("archiver", "idle", <<0, 0>>)
  /\ UNCHANGED <<hot, latest, trueEarliest, earliestHot, highest, gaps,
                 fileVars, index, trigger, up, client>>

\* is_batch_complete and read_block_batch: the blocks to archive are in memory.
BeginBatch ==
  /\ At("archiver", "check") /\ Oversize
  /\ P!Window(earliestHot) \subseteq hot
  /\ Set("archiver", "temp", <<earliestHot, earliestHot + BatchSize - 1>>)
  /\ UNCHANGED <<dbVars, fileVars, index, trigger, up, client>>

\* BUG variant of CommitBatch: the hot blocks are deleted before the archive
\* files have their final names.
CommitBatch_early ==
  LET r == job["archiver"].r
  IN  /\ up /\ job["archiver"].pc \in {"index", "commit"}
      /\ Set("archiver", "check", <<0, 0>>)
      /\ hot' = hot \ r[1] .. r[2]
      /\ earliestHot' = r[1] + BatchSize
      /\ skipped' = skipped \ {r[1]}
      /\ UNCHANGED <<latest, trueEarliest, highest, gaps, fileVars, index, trigger, up, client>>

\* Delete the batch from the hot tier, advance the front, drop the skip marker,
\* in one commit; the loop then looks for the next batch.
CommitBatch ==
  LET r == job["archiver"].r
  IN  /\ At("archiver", "commit") /\ Set("archiver", "check", <<0, 0>>)
      /\ hot' = hot \ r[1] .. r[2]
      /\ earliestHot' = r[1] + BatchSize
      /\ skipped' = skipped \ {r[1]}
      /\ UNCHANGED <<latest, trueEarliest, highest, gaps, fileVars, index, trigger, up, client>>

-----------------------------------------------------------------------------
(* write_block_batch *)

\* BUG variant of BeginHistorical: the earliest block is recorded before the
\* archive is written.
BeginHistorical_early(r) ==
  /\ At("batch", "idle") /\ r[1] <= r[2] /\ Set("batch", "temp", r)
  /\ trueEarliest' = IF trueEarliest = NoBlock \/ r[1] < trueEarliest
                     THEN r[1] ELSE trueEarliest
  /\ UNCHANGED <<hot, latest, earliestHot, highest, gaps, skipped,
                 fileVars, index, trigger, up, client>>

BeginHistorical(r) ==
  /\ At("batch", "idle") /\ r[1] <= r[2] /\ Set("batch", "temp", r)
  /\ UNCHANGED <<dbVars, fileVars, index, trigger, up, client>>

\* update_true_earliest_if_less, outside any batch.
FinishHistorical ==
  LET first == job["batch"].r[1]
  IN  /\ At("batch", "commit") /\ Set("batch", "idle", <<0, 0>>)
      /\ trueEarliest' = IF trueEarliest = NoBlock \/ first < trueEarliest
                         THEN first ELSE trueEarliest
      /\ UNCHANGED <<hot, latest, earliestHot, highest, gaps, skipped,
                     fileVars, index, trigger, up, client>>

-----------------------------------------------------------------------------
(* The clients: read_block, block access and server status *)

\* MappedIndex::get_record: the chunk has a record of block n.
HasRecord(r, n) == r[1] <= n /\ n <= r[2]

\* BUG variant of ColdLookup: the chunk with the least start is taken.
ColdLookup_first(ind, n) ==
  \E r \in ind : HasRecord(r, n) /\ \A i \in ind : i[1] >= r[1]

\* The chunk with the greatest start at or before n contains n.
ColdLookup(ind, n) ==
  \E r \in ind : HasRecord(r, n) /\ \A i \in ind : i[1] <= n => i[1] <= r[1]

Readable(n) == n \in hot \/ ColdLookup(index, n)

\* A step of a call: it reads, and changes nothing but its own locals.
Call(c) == up /\ client' = c /\ UNCHANGED <<dbVars, fileVars, index, trigger, job, up>>
CallAt(pc) == client.pc = pc
Free == client.pc \in {"idle"} \cup Answers
Answer(a) == Call([NoCall EXCEPT !.pc = a])

\* getBlock by number.
GetBlock(n) ==
  Free /\ Call([NoCall EXCEPT !.pc = "hot", !.n = n, !.owed = Readable(n)])

\* getBlock of the latest block: its number is read first, and that block is
\* owed to the client.
GetLatest ==
  /\ Free
  /\ \/ latest = NoBlock /\ Answer("NotFound")
     \/ /\ latest # NoBlock
        /\ Call([NoCall EXCEPT !.pc = "hot", !.n = latest, !.owed = TRUE])

ReadHot ==
  /\ CallAt("hot")
  /\ IF client.n \in hot THEN Answer("Success") ELSE Call([client EXCEPT !.pc = "cold"])

\* Nothing is owed if the block is in an archive whose index is not loaded.
ReadCold ==
  /\ CallAt("cold")
  /\ IF ColdLookup(index, client.n) THEN Answer("Success")
     ELSE Call([client EXCEPT !.pc = "range",
                  !.owed = @ /\ client.n \notin BlocksOf(Complete \ index)])

\* An error of RocksDB or of an archive file, or bytes that are no block.
ReadFails == client.pc \in {"hot", "cold", "last"} /\ Answer("Failed")

\* The call ends at once: no usable block specifier, or an error when it reads
\* the latest (getBlock) or the earliest block (serverStatus).
Refuse == Free /\ Answer("Failed")

\* handle_not_found_block: the two ends of the range, an error counts as unset.
ReadRange ==
  /\ CallAt("range")
  /\ \E e \in {trueEarliest, NoBlock} : Call([client EXCEPT !.pc = "bound", !.first = e])

NotFound ==
  /\ CallAt("bound")
  /\ \E l \in {latest, NoBlock} :
       LET known   == client.first # NoBlock /\ l # NoBlock
           outside == client.n < client.first \/ client.n > l
       IN  Call([client EXCEPT !.pc = IF known /\ outside THEN "NotAvailable" ELSE "NotFound"])

OrZero(n) == IF n = NoBlock THEN 0 ELSE n

\* serverStatus: the earliest and then the latest block, 0 if there is none.
ServerStatus == Free /\ Call([NoCall EXCEPT !.pc = "last", !.first = OrZero(trueEarliest)])

StatusLast ==
  CallAt("last") /\ Call([client EXCEPT !.pc = "Status", !.n = OrZero(latest)])

Client ==
  \/ (\E n \in ReadBlocks : GetBlock(n)) \/ GetLatest
  \/ ReadHot \/ ReadCold \/ ReadFails \/ Refuse \/ ReadRange \/ NotFound
  \/ ServerStatus \/ StatusLast

-----------------------------------------------------------------------------
(* Crash and restart *)

Crash ==
  /\ up /\ up' = FALSE
  /\ index' = {} /\ trigger' = FALSE
  /\ job' = [j \in Jobs |-> Idle] /\ client' = NoCall
  /\ UNCHANGED <<dbVars, fileVars>>

\* scan_and_build_index: the complete archives but for files that do not load;
\* of two with the same start one stays.
Scan(ind) == ind \subseteq Complete /\ \A i, j \in ind : i[1] = j[1] => i = j

Least(s) == CHOOSE n \in s : \A m \in s : n <= m

\* initialize(): scan the archive directory; determine true_earliest if it was
\* never set; the seed of highest_contiguous is already there.
Restart ==
  LET known == hot \cup {r[1] : r \in index'}
  IN  /\ ~up /\ up' = TRUE
      /\ \E ind \in SUBSET Complete : Scan(ind) /\ index' = ind
      /\ trueEarliest' = IF trueEarliest = NoBlock /\ known # {} THEN Least(known)
                         ELSE trueEarliest
      /\ UNCHANGED <<hot, latest, earliestHot, highest, gaps, skipped,
                     fileVars, trigger, job, client>>

ArchiveIO(j) == WriteTemp(j) \/ RenameData(j) \/ RenameIndex(j) \/ LoadIndex(j) \/ JobFails(j)

Next ==
  \/ \E b \in Blocks : WriteBlock(b)
  \/ \E j \in Jobs : ArchiveIO(j)
  \/ WakeArchiver \/ CycleDone \/ SkipBatch \/ BeginBatch \/ CommitBatch
  \/ (\E r \in Batches : BeginHistorical(r)) \/ FinishHistorical
  \/ Client
  \/ Crash \/ Restart

Spec == Init /\ [][Next]_vars

-----------------------------------------------------------------------------
(* What the callers of write_block_batch see to (no plugin calls it yet). *)

\* Historical ranges overlap neither each other nor the blocks written one at a
\* time: ColdReader looks into one chunk only.
HistoricalApart ==
  /\ \A r \in Batches : r[1] .. r[2] \cap Blocks = {}
  /\ \A r, q \in Batches : r # q => (r[1] .. r[2]) \cap (q[1] .. q[2]) = {}

\* They begin below the first block this node is to have.
HistoricalBelow == \A r \in Batches : r[1] <= P!Seed

-----------------------------------------------------------------------------
(* Properties *)

\* A crash at any point of an archival cycle or a historical batch loses no
\* block: what was stored stays in RocksDB or in a complete pair of files, and
\* the contiguous watermark keeps vouching only for stored blocks.
Durable == INSTANCE BlockStore
             WITH stored <- Stored, contiguous <- highest, Seed <- P!Seed

CrashSafe == Durable!Spec

\* A block the running node cannot read although it is stored is in an archive
\* whose index is not loaded (the logged "CRITICAL" case); in particular no
\* chunk hides the blocks of another.
UnreadableOnlyIfNotLoaded ==
  up => \A n \in Stored : Readable(n) \/ n \in BlocksOf(Complete \ index)

\* getBlock answers NOT_FOUND or NOT_AVAILABLE for no block that was readable
\* when the call began, and never for the latest block, even when the archiver
\* moves it between the hot and the cold lookup, unless the index of its
\* archive is not loaded.
ReadNeverMisses == client.pc \in {"NotFound", "NotAvailable"} => ~client.owed

\* serverStatus reports two blocks this node has stored (0 stands for none), in
\* order, although they are read one after the other while the store grows and
\* restarts, and historical blocks are recorded outside any batch.
StatusIsStored ==
  CallAt("Status") => /\ {client.first, client.n} \subseteq Stored \cup {0}
                      /\ client.n # 0 => client.first <= client.n
=============================================================================
