-------------------------- MODULE TieredStoreProofs --------------------------
(***************************************************************************)
(* A crash at any point loses nothing, and what the two tiers answer is    *)
(* what they store: proofs for every set of blocks and batches and every   *)
(* batch size.  The database part is the inductive invariant of            *)
(* PersistenceProofs, with the cold tier replaced by the complete files.   *)
(***************************************************************************)
EXTENDS TieredStore, TLAPS, WellFoundedInduction

-----------------------------------------------------------------------------
(* Operators *)

\* A set of block numbers has a least element, which Restart records.
LEMMA LeastIsLeast ==
  ASSUME NEW S \in SUBSET Nat, S # {}
  PROVE  Least(S) \in S /\ \A m \in S : Least(S) <= m
<1>1. PICK x \in S : \A y \in S : ~(<<y, x>> \in OpToRel(<, Nat))
  BY WFMin, NatLessThanWellFounded
<1>2. ASSUME NEW y \in S PROVE x <= y
  <2>1. <<y, x>> \in Nat \X Nat /\ ~(<<y, x>> \in OpToRel(<, Nat))
    BY <1>1
  <2>2. ~(y < x)
    BY <2>1 DEF OpToRel
  <2> QED BY <2>2
<1> QED BY <1>2 DEF Least

-----------------------------------------------------------------------------
(* Crash safety *)

Pcs == {"idle", "check", "temp", "data", "index", "load", "commit"}
Writing == {"temp", "data", "index", "load", "commit"}

\* What a job is about to write is safe elsewhere or new: the window of the
\* archiver is in the hot tier until its commit, which only follows when both
\* files have their final names.
JobOK(j) ==
  /\ job[j] \in [pc : Pcs, r : Nat \X Nat]
  /\ job[j].pc \in Writing =>
       /\ job[j].r[1] <= job[j].r[2]
       /\ j = "batch" => job[j].r \in Batches
       /\ j = "archiver" => /\ earliestHot # NoBlock
                            /\ job[j].r = <<earliestHot, earliestHot + BatchSize - 1>>
                            /\ job[j].r[1] .. job[j].r[2] \subseteq hot
  /\ job[j].pc = "index" => job[j].r \in dataFiles
  /\ job[j].pc \in {"load", "commit"} => job[j].r \in indexFiles

\* An .rbi file is renamed after its .rba file, so that it stands for both.
FilesOK ==
  /\ dataFiles \in SUBSET (Nat \X Nat) /\ indexFiles \subseteq dataFiles
  /\ \A r \in dataFiles : r[1] <= r[2]

\* What write_block keeps of the database (Inv of PersistenceProofs).
DbInv ==
  /\ P!TypeOK /\ P!GapsSeparated /\ P!ContiguousStored /\ P!MissingIsTracked
  /\ P!LatestIsGreatest /\ P!OnlyFrontSkipped
  /\ P!Seed <= highest /\ (latest # NoBlock => P!Seed < latest)

CrashInv ==
  /\ DbInv /\ FilesOK
  /\ job = [j \in Jobs |-> job[j]] /\ \A j \in Jobs : JobOK(j)

\* A step that keeps all this and does to the store what BlockStore allows; that
\* every step of the program is one is CrashStep, at the end.
SafeStep == CrashInv' /\ [Durable!Next]_(Durable!vars)

LEMMA ColdIsIndexed ==
  ASSUME FilesOK
  PROVE  Complete = indexFiles /\ DurableCold \subseteq Nat
<1>1. Complete = indexFiles
  BY DEF FilesOK, Complete
<1>2. \A r \in indexFiles : r \in Nat \X Nat
  BY DEF FilesOK
<1>3. \A r \in Nat \X Nat : r[1] .. r[2] \subseteq Nat
  OBVIOUS
<1> QED BY <1>1, <1>2, <1>3 DEF DurableCold, BlocksOf

\* Whatever leaves the three watermarks of write_block alone and keeps every
\* block in some tier keeps what write_block relies on.
LEMMA TiersKeepInv ==
  ASSUME DbInv, UNCHANGED <<latest, highest, gaps>>,
         hot' \subseteq hot, Stored \subseteq Stored', DurableCold' \subseteq Nat,
         trueEarliest' \in Nat \cup {NoBlock}, earliestHot' \in Nat \cup {NoBlock},
         skipped' \subseteq Nat, skipped' \subseteq {earliestHot'}, trigger' \in BOOLEAN
  PROVE  DbInv'
<1>1. P!TypeOK'
  BY DEF DbInv, P!TypeOK, P!NoBlock, NoBlock
<1>2. P!Stored = Stored /\ P!Stored' = Stored'
  BY DEF P!Stored, Stored
<1>3. P!ContiguousStored' /\ P!MissingIsTracked' /\ P!LatestIsGreatest'
  BY <1>2 DEF DbInv, P!ContiguousStored, P!MissingIsTracked, P!LatestIsGreatest,
              P!LatestOrSeed, P!Seed, P!MissingIn
<1>4. P!GapsSeparated' /\ P!OnlyFrontSkipped'
  BY DEF DbInv, P!GapsSeparated, P!OnlyFrontSkipped
<1>5. P!Seed' <= highest' /\ (latest' # P!NoBlock => P!Seed' < latest')
  BY DEF DbInv, P!Seed, P!NoBlock, NoBlock
<1> QED BY <1>1, <1>3, <1>4, <1>5 DEF DbInv, P!NoBlock

\* The database facts the steps below use.
LEMMA DbFacts ==
  ASSUME CrashInv
  PROVE  /\ hot \subseteq Nat /\ skipped \subseteq Nat /\ skipped \subseteq {earliestHot}
         /\ trueEarliest \in Nat \cup {NoBlock} /\ earliestHot \in Nat \cup {NoBlock}
         /\ trigger \in BOOLEAN /\ latest \in Nat \cup {NoBlock} /\ highest \in Nat
         /\ latest # NoBlock => latest \in Stored
         /\ BatchSize \in Nat /\ BatchSize > 0
BY TieredAssumption DEF CrashInv, DbInv, P!TypeOK, P!OnlyFrontSkipped, P!NoBlock, NoBlock,
                        P!LatestIsGreatest, P!Stored, Stored

\* A step of job j sets j alone.
LEMMA JobMoves ==
  ASSUME CrashInv, NEW j \in Jobs, NEW pc, NEW r, Set(j, pc, r)
  PROVE  /\ job' = [k \in Jobs |-> job'[k]] /\ job'[j] = [pc |-> pc, r |-> r]
         /\ \A k \in Jobs : k # j => job'[k] = job[k]
BY DEF CrashInv, Set

\* A job that does not move stays sound while the tiers grow.
LEMMA JobRests ==
  ASSUME NEW j \in Jobs, JobOK(j), job'[j] = job[j], dataFiles \subseteq dataFiles',
         indexFiles \subseteq indexFiles',
         j = "archiver" => hot \subseteq hot' /\ (earliestHot # NoBlock => earliestHot' = earliestHot)
  PROVE  JobOK(j)'
BY DEF JobOK

\* A job that goes on to its next file operation with the same range.
LEMMA JobAdvances ==
  ASSUME NEW j \in Jobs, JobOK(j), job[j].pc \in Writing, NEW pc \in Writing,
         job'[j] = [pc |-> pc, r |-> job[j].r], UNCHANGED <<hot, earliestHot>>,
         pc = "index" => job[j].r \in dataFiles',
         pc \in {"load", "commit"} => job[j].r \in indexFiles'
  PROVE  JobOK(j)'
<1> DEFINE r == job[j].r
<1>1. /\ r \in Nat \X Nat /\ r[1] <= r[2] /\ (j = "batch" => r \in Batches)
      /\ j = "archiver" => /\ earliestHot # NoBlock
                           /\ r = <<earliestHot, earliestHot + BatchSize - 1>>
                           /\ r[1] .. r[2] \subseteq hot
  BY DEF JobOK
<1>2. job'[j].pc = pc /\ job'[j].r = r /\ pc \in Pcs
  BY DEF Pcs, Writing
<1>3. job'[j] \in [pc : Pcs, r : Nat \X Nat]
  BY <1>1, <1>2
<1>4. NoBlock' = NoBlock
  BY DEF NoBlock
<1> HIDE DEF r
<1> QED BY <1>1, <1>2, <1>3, <1>4 DEF JobOK, r

\* A step that touches neither tier: only jobs, true_earliest and the permit.
LEMMA QuietStep ==
  ASSUME CrashInv, UNCHANGED <<hot, latest, earliestHot, highest, gaps, skipped, fileVars>>,
         trueEarliest' \in Nat \cup {NoBlock}, trigger' \in BOOLEAN,
         job' = [j \in Jobs |-> job'[j]], \A j \in Jobs : JobOK(j)'
  PROVE  CrashInv' /\ UNCHANGED <<Stored, highest>>
<1>1. dataFiles' = dataFiles /\ indexFiles' = indexFiles
  BY DEF fileVars
<1>2. DurableCold' = DurableCold /\ Stored' = Stored
  BY <1>1 DEF DurableCold, Complete, BlocksOf, Stored
<1>3. FilesOK' /\ DurableCold' \subseteq Nat
  BY <1>1, <1>2, ColdIsIndexed DEF CrashInv, FilesOK
<1>4. DbInv'
  BY <1>2, <1>3, TiersKeepInv, DbFacts DEF CrashInv
<1> QED BY <1>2, <1>3, <1>4 DEF CrashInv

\* As QuietStep, for a step that moves one job.
LEMMA QuietMove ==
  ASSUME CrashInv, UNCHANGED <<hot, latest, earliestHot, highest, gaps, skipped, fileVars>>,
         trueEarliest' \in Nat \cup {NoBlock}, trigger' \in BOOLEAN,
         NEW j \in Jobs, NEW pc, NEW r, Set(j, pc, r), JobOK(j)'
  PROVE  CrashInv' /\ UNCHANGED <<Stored, highest>>
<1>1. dataFiles' = dataFiles /\ indexFiles' = indexFiles
  BY DEF fileVars
<1>2. \A k \in Jobs : k # j => job'[k] = job[k]
  BY JobMoves
<1>3. \A k \in Jobs : JobOK(k)'
  BY <1>1, <1>2, JobRests DEF CrashInv
<1>4. job' = [k \in Jobs |-> job'[k]]
  BY JobMoves
<1> QED BY <1>3, <1>4, QuietStep

\* The rename of a data file alone stores nothing yet.
LEMMA RenameDataStep ==
  ASSUME CrashInv, NEW j \in Jobs, RenameData(j)
  PROVE  CrashInv' /\ UNCHANGED <<Stored, highest>>
<1> DEFINE r == job[j].r
<1>1. /\ job[j].pc = "data" /\ Set(j, "index", r) /\ dataFiles' = dataFiles \cup {r}
      /\ indexFiles' = indexFiles /\ UNCHANGED dbVars /\ trigger' = trigger
  BY DEF RenameData, At
<1>2. UNCHANGED <<hot, latest, trueEarliest, earliestHot, highest, gaps, skipped>>
  BY <1>1 DEF dbVars
<1>3. r \in Nat \X Nat /\ r[1] <= r[2]
  BY <1>1 DEF CrashInv, JobOK, Writing
<1>4. FilesOK'
  BY <1>1, <1>3 DEF CrashInv, FilesOK
<1>5. Complete' = Complete
  BY <1>1, <1>4, ColdIsIndexed DEF CrashInv, FilesOK, Complete
<1>6. DurableCold' = DurableCold /\ Stored' = Stored
  BY <1>2, <1>5 DEF DurableCold, BlocksOf, Stored
<1>7. DbInv'
  BY <1>1, <1>2, <1>6, ColdIsIndexed, TiersKeepInv, DbFacts DEF CrashInv
<1>8. /\ job' = [k \in Jobs |-> job'[k]] /\ job'[j] = [pc |-> "index", r |-> r]
      /\ \A k \in Jobs : k # j => job'[k] = job[k]
  BY <1>1, JobMoves
<1>9. JobOK(j)'
  BY <1>1, <1>2, <1>8, JobAdvances DEF CrashInv, Writing
<1>10. \A k \in Jobs : JobOK(k)'
  BY <1>1, <1>2, <1>8, <1>9, JobRests DEF CrashInv
<1> QED BY <1>2, <1>4, <1>6, <1>7, <1>8, <1>10 DEF CrashInv

\* The rename of the index file completes the pair: the blocks of a historical
\* batch are stored now; the archiver's are stored twice.
LEMMA RenameIndexStep ==
  ASSUME CrashInv, NEW j \in Jobs, RenameIndex(j)
  PROVE  CrashInv' /\ [Durable!Next]_(Durable!vars)
<1> DEFINE r == job[j].r
<1>1. /\ job[j].pc = "index" /\ Set(j, "load", r) /\ indexFiles' = indexFiles \cup {r}
      /\ dataFiles' = dataFiles /\ UNCHANGED dbVars /\ trigger' = trigger
  BY DEF RenameIndex, At
<1>2. UNCHANGED <<hot, latest, trueEarliest, earliestHot, highest, gaps, skipped>>
  BY <1>1 DEF dbVars
<1>3. r \in Nat \X Nat /\ r[1] <= r[2] /\ r \in dataFiles
  BY <1>1 DEF CrashInv, JobOK, Writing
<1>4. FilesOK'
  BY <1>1, <1>3 DEF CrashInv, FilesOK
<1>5. Complete' = Complete \cup {r}
  BY <1>1, <1>3 DEF Complete
<1>6. DurableCold' = DurableCold \cup r[1] .. r[2]
  BY <1>5 DEF DurableCold, BlocksOf
<1>7. Stored' = Stored \cup r[1] .. r[2]
  BY <1>2, <1>6 DEF Stored
<1>8. DbInv'
  <2>1. r[1] .. r[2] \subseteq Nat
    BY <1>3
  <2>2. DurableCold' \subseteq Nat
    BY <1>6, <2>1, ColdIsIndexed DEF CrashInv
  <2> QED BY <1>1, <1>2, <1>7, <2>2, TiersKeepInv, DbFacts DEF CrashInv
<1>9. /\ job' = [k \in Jobs |-> job'[k]] /\ job'[j] = [pc |-> "load", r |-> r]
      /\ \A k \in Jobs : k # j => job'[k] = job[k]
  BY <1>1, JobMoves
<1>10. JobOK(j)'
  BY <1>1, <1>2, <1>9, JobAdvances DEF CrashInv, Writing
<1>11. \A k \in Jobs : JobOK(k)'
  BY <1>1, <1>2, <1>9, <1>10, JobRests DEF CrashInv
<1>12. CASE j = "archiver"
  <2>1. r[1] .. r[2] \subseteq hot
    BY <1>1, <1>12 DEF CrashInv, JobOK, Writing
  <2>2. Stored' = Stored
    BY <1>7, <2>1 DEF Stored
  <2> QED BY <1>2, <1>4, <1>8, <1>9, <1>11, <2>2 DEF CrashInv, Durable!vars
<1>13. CASE j = "batch"
  <2>1. r \in Batches
    BY <1>1, <1>13 DEF CrashInv, JobOK, Writing
  <2>2. Durable!StoreRange(r[1], r[2])
    BY <1>2, <1>7 DEF Durable!StoreRange
  <2> QED BY <1>4, <1>8, <1>9, <1>11, <2>1, <2>2 DEF CrashInv, Durable!Next
<1> QED BY <1>12, <1>13 DEF Jobs

\* The archiver's commit deletes from the hot tier only what is in complete files.
LEMMA CommitStep ==
  ASSUME CrashInv, CommitBatch
  PROVE  CrashInv' /\ UNCHANGED <<Stored, highest>>
<1> DEFINE r == job["archiver"].r
<1>0. "archiver" \in Jobs /\ "batch" \in Jobs
  BY DEF Jobs
<1>1. /\ job["archiver"].pc = "commit" /\ Set("archiver", "check", <<0, 0>>)
      /\ hot' = hot \ r[1] .. r[2] /\ earliestHot' = r[1] + BatchSize
      /\ skipped' = skipped \ {r[1]}
      /\ UNCHANGED <<latest, trueEarliest, highest, gaps, fileVars, trigger>>
  BY DEF CommitBatch, At
<1>2. /\ r \in indexFiles /\ r = <<earliestHot, earliestHot + BatchSize - 1>>
      /\ earliestHot # NoBlock /\ r[1] = earliestHot
  BY <1>0, <1>1 DEF CrashInv, JobOK, Writing
<1>3. dataFiles' = dataFiles /\ indexFiles' = indexFiles
  BY <1>1 DEF fileVars
<1>4. DurableCold' = DurableCold /\ r[1] .. r[2] \subseteq DurableCold
  <2>1. r \in Complete
    BY <1>2, ColdIsIndexed DEF CrashInv
  <2> QED BY <1>3, <2>1 DEF DurableCold, Complete, BlocksOf
<1>5. Stored' = Stored
  BY <1>1, <1>4 DEF Stored
<1>6. earliestHot' \in Nat /\ skipped' = {}
  BY <1>1, <1>2, DbFacts
<1>7. DurableCold' \subseteq Nat
  BY <1>4, ColdIsIndexed DEF CrashInv
<1>8. DbInv'
  BY <1>1, <1>5, <1>6, <1>7, TiersKeepInv, DbFacts DEF CrashInv
<1>9. /\ job' = [k \in Jobs |-> job'[k]] /\ job'["archiver"] = [pc |-> "check", r |-> <<0, 0>>]
      /\ \A k \in Jobs : k # "archiver" => job'[k] = job[k]
  BY <1>0, <1>1, JobMoves
<1>10. JobOK("archiver")'
  BY <1>9 DEF JobOK, Pcs, Writing
<1>11. JobOK("batch")'
  BY <1>0, <1>3, <1>9, JobRests DEF CrashInv
<1>12. \A k \in Jobs : JobOK(k)'
  BY <1>10, <1>11 DEF Jobs
<1>13. FilesOK'
  BY <1>3 DEF CrashInv, FilesOK
<1> QED BY <1>1, <1>5, <1>8, <1>9, <1>12, <1>13 DEF CrashInv

\* The steps of either job that rename nothing.
LEMMA JobStep ==
  ASSUME CrashInv, NEW j \in Jobs, WriteTemp(j) \/ LoadIndex(j) \/ JobFails(j)
  PROVE  CrashInv' /\ UNCHANGED <<Stored, highest>>
<1>1. UNCHANGED <<dbVars, fileVars, trigger>>
  BY DEF WriteTemp, LoadIndex, JobFails
<1>2. UNCHANGED <<hot, latest, trueEarliest, earliestHot, highest, gaps, skipped, fileVars>>
      /\ dataFiles' = dataFiles /\ indexFiles' = indexFiles
  BY <1>1 DEF dbVars, fileVars
<1>3. trueEarliest' \in Nat \cup {NoBlock} /\ trigger' \in BOOLEAN
  BY <1>1, <1>2, DbFacts
<1>4. CASE WriteTemp(j)
  <2>1. job[j].pc = "temp" /\ Set(j, "data", job[j].r)
    BY <1>4 DEF WriteTemp, At
  <2>2. job'[j] = [pc |-> "data", r |-> job[j].r]
    BY <2>1, JobMoves
  <2>3. JobOK(j)'
    BY <1>2, <2>1, <2>2, JobAdvances DEF CrashInv, Writing
  <2> QED BY <1>2, <1>3, <2>1, <2>3, QuietMove
<1>5. CASE LoadIndex(j)
  <2>1. job[j].pc = "load" /\ Set(j, "commit", job[j].r)
    BY <1>5 DEF LoadIndex, At
  <2>2. job'[j] = [pc |-> "commit", r |-> job[j].r]
    BY <2>1, JobMoves
  <2>3. JobOK(j)'
    <3>1. job[j].r \in indexFiles
      BY <2>1 DEF CrashInv, JobOK
    <3> QED BY <1>2, <2>1, <2>2, <3>1, JobAdvances DEF CrashInv, Writing
  <2> QED BY <1>2, <1>3, <2>1, <2>3, QuietMove
<1>6. CASE JobFails(j)
  <2>1. Set(j, "idle", <<0, 0>>)
    BY <1>6 DEF JobFails
  <2>2. job'[j] = [pc |-> "idle", r |-> <<0, 0>>]
    BY <2>1, JobMoves
  <2>3. JobOK(j)'
    BY <2>2 DEF JobOK, Pcs, Writing
  <2> QED BY <1>2, <1>3, <2>1, <2>3, QuietMove
<1> QED BY <1>4, <1>5, <1>6

\* The archival cycle looks for a batch.
LEMMA CycleStep ==
  ASSUME CrashInv, WakeArchiver \/ CycleDone \/ SkipBatch \/ BeginBatch
  PROVE  CrashInv' /\ UNCHANGED <<Stored, highest>>
<1>0. "archiver" \in Jobs
  BY DEF Jobs
<1>1. /\ UNCHANGED <<hot, latest, trueEarliest, earliestHot, highest, gaps, fileVars>>
      /\ trigger' \in {FALSE, trigger}
  BY DEF WakeArchiver, CycleDone, SkipBatch, BeginBatch, dbVars
<1>2. /\ trueEarliest' \in Nat \cup {NoBlock} /\ trigger' \in BOOLEAN
      /\ earliestHot' \in Nat \cup {NoBlock}
      /\ dataFiles' = dataFiles /\ indexFiles' = indexFiles
  BY <1>1, DbFacts DEF fileVars
<1>3. ASSUME NEW pc \in {"idle", "check"}, Set("archiver", pc, <<0, 0>>)
      PROVE  JobOK("archiver")'
  <2>1. job'["archiver"] = [pc |-> pc, r |-> <<0, 0>>]
    BY <1>0, <1>3, JobMoves
  <2> QED BY <2>1 DEF JobOK, Pcs, Writing
<1>4. CASE WakeArchiver \/ CycleDone
  <2>1. PICK pc \in {"idle", "check"} : Set("archiver", pc, <<0, 0>>)
    BY <1>4 DEF WakeArchiver, CycleDone
  <2>2. skipped' = skipped
    BY <1>4 DEF WakeArchiver, CycleDone, dbVars
  <2> QED BY <1>0, <1>1, <1>2, <1>3, <2>1, <2>2, QuietMove
<1>5. CASE SkipBatch
  <2>1. /\ Set("archiver", "idle", <<0, 0>>) /\ skipped' = skipped \cup {earliestHot}
        /\ earliestHot # NoBlock
    BY <1>5 DEF SkipBatch, Oversize
  <2>2. skipped' \subseteq Nat /\ skipped' \subseteq {earliestHot'}
    BY <1>1, <2>1, DbFacts
  <2>3. DurableCold' = DurableCold /\ Stored' = Stored
    BY <1>1, <1>2 DEF DurableCold, Complete, BlocksOf, Stored
  <2>4. FilesOK' /\ DurableCold' \subseteq Nat
    BY <1>2, <2>3, ColdIsIndexed DEF CrashInv, FilesOK
  <2>5. DbInv'
    BY <1>1, <1>2, <2>2, <2>3, <2>4, TiersKeepInv DEF CrashInv
  <2>6. job' = [k \in Jobs |-> job'[k]] /\ \A k \in Jobs : k # "archiver" => job'[k] = job[k]
    BY <1>0, <2>1, JobMoves
  <2>7. \A k \in Jobs : JobOK(k)'
    BY <1>1, <1>2, <1>3, <2>1, <2>6, JobRests DEF CrashInv
  <2> QED BY <1>1, <2>3, <2>4, <2>5, <2>6, <2>7 DEF CrashInv
<1>6. CASE BeginBatch
  <2> DEFINE r == <<earliestHot, earliestHot + BatchSize - 1>>
  <2>1. /\ Set("archiver", "temp", r) /\ earliestHot # NoBlock
        /\ r[1] .. r[2] \subseteq hot /\ skipped' = skipped
    BY <1>6 DEF BeginBatch, Oversize, P!Window, dbVars
  <2>2. job'["archiver"] = [pc |-> "temp", r |-> r]
    BY <1>0, <2>1, JobMoves
  <2>3. r \in Nat \X Nat /\ r[1] <= r[2]
    BY <2>1, DbFacts
  <2>4. JobOK("archiver")'
    BY <1>1, <2>1, <2>2, <2>3 DEF JobOK, Pcs, Writing
  <2> QED BY <1>0, <1>1, <1>2, <2>1, <2>4, QuietMove
<1> QED BY <1>4, <1>5, <1>6

\* write_block_batch before and after write_archive.
LEMMA HistoricalStep ==
  ASSUME CrashInv, (\E r \in Batches : BeginHistorical(r)) \/ FinishHistorical
  PROVE  CrashInv' /\ UNCHANGED <<Stored, highest>>
<1>0. "batch" \in Jobs
  BY DEF Jobs
<1>1. UNCHANGED <<hot, latest, earliestHot, highest, gaps, skipped, fileVars, trigger>>
  BY DEF BeginHistorical, FinishHistorical, dbVars
<1>2. trigger' \in BOOLEAN
  BY <1>1, DbFacts
<1>3. CASE \E r \in Batches : BeginHistorical(r)
  <2>1. PICK r \in Batches : /\ r[1] <= r[2] /\ Set("batch", "temp", r)
                             /\ trueEarliest' = trueEarliest
    BY <1>3 DEF BeginHistorical, dbVars
  <2>2. job'["batch"] = [pc |-> "temp", r |-> r]
    BY <1>0, <2>1, JobMoves
  <2>3. r \in Nat \X Nat
    BY TieredAssumption
  <2>4. JobOK("batch")'
    BY <2>1, <2>2, <2>3 DEF JobOK, Pcs, Writing
  <2> QED BY <1>0, <1>1, <1>2, <2>1, <2>4, QuietMove, DbFacts
<1>4. CASE FinishHistorical
  <2>1. /\ Set("batch", "idle", <<0, 0>>)
        /\ trueEarliest' \in {trueEarliest, job["batch"].r[1]}
    BY <1>4 DEF FinishHistorical
  <2>2. job["batch"].r \in Nat \X Nat
    BY <1>0 DEF CrashInv, JobOK
  <2>3. trueEarliest' \in Nat \cup {NoBlock}
    BY <2>1, <2>2, DbFacts
  <2>4. job'["batch"] = [pc |-> "idle", r |-> <<0, 0>>]
    BY <1>0, <2>1, JobMoves
  <2>5. JobOK("batch")'
    BY <2>4 DEF JobOK, Pcs, Writing
  <2> QED BY <1>0, <1>1, <1>2, <2>1, <2>3, <2>5, QuietMove
<1> QED BY <1>3, <1>4

\* A call changes its own locals.
LEMMA ClientCalls ==
  ASSUME Client
  PROVE  \E c : Call(c)
<1>1. CASE \E n \in ReadBlocks : GetBlock(n)
  BY <1>1 DEF GetBlock
<1>2. CASE GetLatest
  BY <1>2 DEF GetLatest, Answer
<1>3. CASE ReadHot
  BY <1>3 DEF ReadHot, Answer
<1>4. CASE ReadCold
  BY <1>4 DEF ReadCold, Answer
<1>5. CASE ReadFails \/ Refuse
  BY <1>5 DEF ReadFails, Refuse, Answer
<1>6. CASE ReadRange \/ NotFound
  BY <1>6 DEF ReadRange, NotFound
<1>7. CASE ServerStatus \/ StatusLast
  BY <1>7 DEF ServerStatus, StatusLast
<1> QED BY <1>1, <1>2, <1>3, <1>4, <1>5, <1>6, <1>7 DEF Client

\* What a restart can find at first hand.
LEMMA KnownBlocks ==
  ASSUME CrashInv, NEW ind \in SUBSET Complete
  PROVE  hot \cup {r[1] : r \in ind} \in SUBSET Nat
<1>1. \A r \in ind : r \in Nat \X Nat
  BY DEF CrashInv, FilesOK, Complete
<1>2. \A r \in ind : r[1] \in Nat
  BY <1>1
<1> QED BY <1>2, DbFacts

\* Calls, crashes and restarts leave both tiers alone.
LEMMA OutsideStep ==
  ASSUME CrashInv, Client \/ Crash \/ Restart \/ UNCHANGED vars
  PROVE  CrashInv' /\ UNCHANGED <<Stored, highest>>
<1>1. CASE Client \/ UNCHANGED vars
  <2>1. UNCHANGED <<dbVars, fileVars, trigger, job>>
    BY <1>1, ClientCalls DEF Call, vars
  <2>2. /\ UNCHANGED <<hot, latest, trueEarliest, earliestHot, highest, gaps, skipped, fileVars>>
        /\ trigger' = trigger /\ job' = job /\ dataFiles' = dataFiles /\ indexFiles' = indexFiles
    BY <2>1 DEF dbVars, fileVars
  <2>3. \A j \in Jobs : JobOK(j)'
    BY <2>2, JobRests DEF CrashInv
  <2>4. job' = [j \in Jobs |-> job'[j]]
    BY <2>2 DEF CrashInv
  <2> QED BY <2>2, <2>3, <2>4, QuietStep, DbFacts
<1>2. CASE Crash
  <2>1. /\ UNCHANGED <<hot, latest, trueEarliest, earliestHot, highest, gaps, skipped, fileVars>>
        /\ trigger' = FALSE /\ job' = [j \in Jobs |-> Idle]
    BY <1>2 DEF Crash, dbVars
  <2>2. \A j \in Jobs : JobOK(j)'
    BY <2>1 DEF JobOK, Idle, Pcs, Writing
  <2>3. job' = [j \in Jobs |-> job'[j]]
    BY <2>1
  <2> QED BY <2>1, <2>2, <2>3, QuietStep, DbFacts
<1>3. CASE Restart
  <2>1. UNCHANGED <<hot, latest, earliestHot, highest, gaps, skipped, fileVars, trigger, job>>
    BY <1>3 DEF Restart
  <2>2. PICK ind \in SUBSET Complete : index' = ind
    BY <1>3 DEF Restart
  <2>3. trueEarliest' \in Nat \cup {NoBlock}
    <3>1. hot \cup {r[1] : r \in index'} \in SUBSET Nat
      BY <2>2, KnownBlocks
    <3>2. hot \cup {r[1] : r \in index'} # {} => Least(hot \cup {r[1] : r \in index'}) \in Nat
      BY <3>1, LeastIsLeast
    <3> QED BY <1>3, <3>2, DbFacts DEF Restart
  <2>4. dataFiles' = dataFiles /\ indexFiles' = indexFiles
    BY <2>1 DEF fileVars
  <2>5. \A j \in Jobs : JobOK(j)'
    BY <2>1, <2>4, JobRests DEF CrashInv
  <2>6. job' = [j \in Jobs |-> job'[j]]
    BY <2>1 DEF CrashInv
  <2> QED BY <2>1, <2>3, <2>5, <2>6, QuietStep, DbFacts
<1> QED BY <1>1, <1>2, <1>3

-----------------------------------------------------------------------------
(* Reads *)

\* What any step does to the two tiers.
LEMMA TiersGrow ==
  ASSUME CrashInv, SafeStep, [Next]_vars
  PROVE  /\ Stored \subseteq Stored' /\ Complete \subseteq Complete'
         /\ DurableCold \subseteq DurableCold'
<1>1. Stored \subseteq Stored'
  BY DEF SafeStep, Durable!Next, Durable!Store, Durable!StoreRange, Durable!vars
<1>2. dataFiles \subseteq dataFiles' /\ indexFiles \subseteq indexFiles'
  <2>1. ASSUME NEW j \in Jobs, ArchiveIO(j)
        PROVE  dataFiles \subseteq dataFiles' /\ indexFiles \subseteq indexFiles'
    BY <2>1 DEF ArchiveIO, WriteTemp, RenameData, RenameIndex, LoadIndex, JobFails, fileVars
  <2>2. CASE Client
    BY <2>2, ClientCalls DEF Call, fileVars
  <2> QED BY <2>1, <2>2 DEF Next, WriteBlock, WakeArchiver, CycleDone, SkipBatch, BeginBatch,
            CommitBatch, BeginHistorical, FinishHistorical, Crash, Restart, fileVars, vars
<1>3. Complete \subseteq Complete'
  BY <1>2 DEF Complete
<1> QED BY <1>1, <1>3 DEF DurableCold, BlocksOf

\* A chunk the archiver wrote: it is the window the hot tier starts with, or
\* lies before it.
Archived(r) ==
  /\ r[1] .. r[2] \subseteq Blocks /\ r[2] = r[1] + BatchSize - 1
  /\ earliestHot # NoBlock /\ (r[1] = earliestHot \/ r[2] < earliestHot)

\* No two archives overlap, so one look into the index finds every block.
ChunkInv ==
  /\ hot \subseteq Blocks /\ index \subseteq indexFiles
  /\ \A r \in dataFiles : r \in Batches \/ Archived(r)
  /\ \A r, q \in dataFiles : r # q => r[2] < q[1] \/ q[2] < r[1]

LEMMA ChunkInit == Init => ChunkInv
BY DEF Init, ChunkInv

\* The chunk a job writes overlaps none of the others.
LEMMA NewChunk ==
  ASSUME HistoricalApart, CrashInv, ChunkInv, NEW j \in Jobs, job[j].pc = "data",
         NEW q \in dataFiles, q # job[j].r
  PROVE  /\ job[j].r \in Batches \/ Archived(job[j].r)
         /\ job[j].r[2] < q[1] \/ q[2] < job[j].r[1]
<1> DEFINE r == job[j].r
<1>1. r \in Nat \X Nat /\ r[1] <= r[2] /\ q \in Nat \X Nat /\ q[1] <= q[2]
  BY DEF CrashInv, FilesOK, JobOK, Writing
<1>2. r[1] \in Nat /\ r[2] \in Nat /\ q[1] \in Nat /\ q[2] \in Nat
  BY <1>1
<1> HIDE DEF r
<1>3. ASSUME r[1] .. r[2] \cap q[1] .. q[2] = {} PROVE r[2] < q[1] \/ q[2] < r[1]
  <2>1. r[1] \notin q[1] .. q[2] /\ q[1] \notin r[1] .. r[2]
    BY <1>1, <1>2, <1>3
  <2> QED BY <1>1, <1>2, <2>1
<1>4. CASE j = "batch"
  <2>1. r \in Batches
    BY <1>4 DEF CrashInv, JobOK, Writing, r
  <2>2. CASE q \in Batches
    BY <1>3, <2>1, <2>2 DEF HistoricalApart, r
  <2>3. CASE Archived(q)
    BY <1>3, <2>1, <2>3 DEF HistoricalApart, Archived, r
  <2> QED BY <2>1, <2>2, <2>3 DEF ChunkInv, r
<1>5. CASE j = "archiver"
  <2>1. /\ earliestHot # NoBlock /\ r = <<earliestHot, earliestHot + BatchSize - 1>>
        /\ r[1] .. r[2] \subseteq Blocks
    BY <1>5 DEF CrashInv, ChunkInv, JobOK, Writing, r
  <2>2. r[1] = earliestHot /\ r[2] = r[1] + BatchSize - 1
    BY <2>1
  <2>3. Archived(r)
    BY <2>1, <2>2 DEF Archived
  <2>4. CASE q \in Batches
    BY <1>3, <2>1, <2>3, <2>4 DEF HistoricalApart, r
  <2>5. CASE Archived(q)
    <3>1. q[1] # r[1]
      BY <1>1, <2>2, <2>5 DEF Archived, r
    <3> QED BY <1>2, <2>2, <2>3, <2>5, <3>1 DEF Archived, r
  <2> QED BY <2>4, <2>5 DEF ChunkInv
<1> QED BY <1>4, <1>5 DEF Jobs

LEMMA ChunkStep ==
  ASSUME HistoricalApart, CrashInv, ChunkInv, [Next]_vars
  PROVE  ChunkInv'
<1>0. indexFiles = Complete
  BY ColdIsIndexed DEF CrashInv
<1>1. ASSUME UNCHANGED <<hot, earliestHot, fileVars>>, index' \subseteq indexFiles
      PROVE  ChunkInv'
  BY <1>1 DEF ChunkInv, Archived, fileVars
<1>2. ASSUME NEW b \in Blocks, WriteBlock(b) PROVE ChunkInv'
  <2>1. hot' = hot \cup {b} /\ (earliestHot # NoBlock => earliestHot' = earliestHot)
        /\ index' = index /\ UNCHANGED fileVars
    BY <1>2 DEF WriteBlock, P!write_block, P!commit_batch, P!NoBlock, NoBlock
  <2> QED BY <2>1 DEF ChunkInv, Archived, fileVars
<1>3. ASSUME NEW j \in Jobs, RenameData(j) PROVE ChunkInv'
  <2> DEFINE r == job[j].r
  <2>1. /\ job[j].pc = "data" /\ dataFiles' = dataFiles \cup {r}
        /\ UNCHANGED <<hot, earliestHot, index, indexFiles>>
    BY <1>3 DEF RenameData, At, dbVars
  <2>2. r \in Batches \/ Archived(r)
    <3>1. CASE j = "batch"
      BY <2>1, <3>1 DEF CrashInv, JobOK, Writing
    <3>2. CASE j = "archiver"
      <4>1. /\ earliestHot # NoBlock /\ r = <<earliestHot, earliestHot + BatchSize - 1>>
            /\ r[1] .. r[2] \subseteq Blocks
        BY <2>1, <3>2 DEF CrashInv, ChunkInv, JobOK, Writing
      <4> QED BY <4>1 DEF Archived
    <3> QED BY <3>1, <3>2 DEF Jobs
  <2>3. \A q \in dataFiles : q # r => r[2] < q[1] \/ q[2] < r[1]
    BY <2>1, NewChunk
  <2>4. \A q \in dataFiles' : q \in Batches \/ Archived(q)'
    BY <2>1, <2>2 DEF ChunkInv, Archived
  <2>5. \A p, q \in dataFiles' : p # q => p[2] < q[1] \/ q[2] < p[1]
    BY <2>1, <2>3 DEF ChunkInv
  <2> QED BY <2>1, <2>4, <2>5 DEF ChunkInv
<1>4. ASSUME NEW j \in Jobs, RenameIndex(j) PROVE ChunkInv'
  <2>1. UNCHANGED <<hot, earliestHot, index, dataFiles>> /\ indexFiles \subseteq indexFiles'
    BY <1>4 DEF RenameIndex, dbVars
  <2> QED BY <2>1 DEF ChunkInv, Archived
<1>5. ASSUME NEW j \in Jobs, LoadIndex(j) PROVE ChunkInv'
  <2>1. /\ job[j].pc = "load" /\ index' \in {Insert(index, job[j].r), index}
        /\ UNCHANGED <<hot, earliestHot, fileVars>>
    BY <1>5 DEF LoadIndex, At, dbVars
  <2>2. job[j].r \in indexFiles
    BY <2>1 DEF CrashInv, JobOK
  <2>3. index' \subseteq indexFiles
    BY <2>1, <2>2 DEF ChunkInv, Insert
  <2> QED BY <1>1, <2>1, <2>3
<1>6. CASE CommitBatch
  <2> DEFINE r == job["archiver"].r
  <2>1. /\ job["archiver"].pc = "commit" /\ hot' \subseteq hot
        /\ earliestHot' = r[1] + BatchSize /\ UNCHANGED <<index, fileVars>>
    BY <1>6 DEF CommitBatch, At
  <2>2. r = <<earliestHot, earliestHot + BatchSize - 1>> /\ earliestHot # NoBlock
    BY <2>1 DEF CrashInv, JobOK, Writing, Jobs
  <2>3. earliestHot' = earliestHot + BatchSize /\ earliestHot \in Nat
    BY <2>1, <2>2, DbFacts
  <2>4. \A q \in dataFiles : q[1] \in Nat /\ q[2] \in Nat
    <3>1. \A q \in dataFiles : q \in Nat \X Nat
      BY DEF CrashInv, FilesOK
    <3> QED BY <3>1
  <2>5. ASSUME NEW q \in dataFiles, Archived(q) PROVE Archived(q)'
    BY <2>3, <2>4, <2>5, DbFacts DEF Archived, NoBlock
  <2>6. \A q \in dataFiles : q \in Batches \/ Archived(q)'
    BY <2>5 DEF ChunkInv
  <2> QED BY <2>1, <2>6 DEF ChunkInv, fileVars
<1>7. CASE Crash \/ Restart
  <2>1. UNCHANGED <<hot, earliestHot, fileVars>> /\ index' \subseteq Complete
    BY <1>7 DEF Crash, Restart, dbVars
  <2> QED BY <1>0, <1>1, <2>1
<1>8. ASSUME UNCHANGED <<hot, earliestHot, fileVars, index>> PROVE ChunkInv'
  BY <1>1, <1>8 DEF ChunkInv
<1>9. ASSUME NEW j \in Jobs, WriteTemp(j) \/ JobFails(j) PROVE ChunkInv'
  BY <1>8, <1>9 DEF WriteTemp, JobFails, dbVars
<1>10. CASE WakeArchiver \/ CycleDone \/ SkipBatch \/ BeginBatch \/ FinishHistorical
            \/ (\E r \in Batches : BeginHistorical(r))
  BY <1>8, <1>10 DEF WakeArchiver, CycleDone, SkipBatch, BeginBatch, FinishHistorical,
                    BeginHistorical, dbVars
<1>11. CASE Client \/ UNCHANGED vars
  BY <1>8, <1>11, ClientCalls DEF Call, dbVars, vars
<1> QED BY <1>2, <1>3, <1>4, <1>5, <1>6, <1>7, <1>9, <1>10, <1>11 DEF Next, ArchiveIO

\* Of the chunks that are loaded the one that has the record is looked into.
LEMMA LookupFinds ==
  ASSUME CrashInv, ChunkInv, NEW n \in DurableCold
  PROVE  ColdLookup(index, n) \/ n \in BlocksOf(Complete \ index)
<1>1. PICK r \in Complete : n \in r[1] .. r[2]
  BY DEF DurableCold, BlocksOf
<1>2. CASE r \notin index
  BY <1>1, <1>2 DEF BlocksOf
<1>3. CASE r \in index
  <2>1. r \in dataFiles /\ \A i \in index : i \in dataFiles
    BY <1>3 DEF ChunkInv, CrashInv, FilesOK
  <2>2. \A i \in dataFiles : i[1] \in Nat /\ i[2] \in Nat
    <3>1. \A i \in dataFiles : i \in Nat \X Nat
      BY DEF CrashInv, FilesOK
    <3> QED BY <3>1
  <2>3. n \in Int /\ r[1] <= n /\ n <= r[2]
    BY <1>1, <2>1, <2>2
  <2>4. ASSUME NEW i \in index, i[1] <= n PROVE i[1] <= r[1]
    <3>1. CASE i = r
      BY <2>1, <2>2, <3>1
    <3>2. CASE i # r
      <4>1. i[2] < r[1] \/ r[2] < i[1]
        BY <2>1, <3>2 DEF ChunkInv
      <4>2. i[1] <= i[2]
        BY <2>1 DEF CrashInv, FilesOK
      <4> QED BY <2>1, <2>2, <2>3, <2>4, <4>1, <4>2
    <3> QED BY <3>1, <3>2
  <2> QED BY <1>3, <2>3, <2>4 DEF ColdLookup, HasRecord
<1> QED BY <1>2, <1>3

\* The locals of a call.
Locals == client = [pc |-> client.pc, n |-> client.n, first |-> client.first,
                    owed |-> client.owed]

\* A block that is owed is still stored; once the hot tier did not have it, it
\* is in an archive, and once no loaded archive had it, nothing is owed.
ReadInv ==
  /\ Locals /\ client.owed \in BOOLEAN
  /\ client.pc = "hot" /\ client.owed => client.n \in Stored
  /\ client.pc = "cold" /\ client.owed => client.n \in DurableCold
  /\ client.pc \in {"range", "bound", "NotFound", "NotAvailable"} => ~client.owed

LEMMA ReadInit == Init => ReadInv
<1>1. Init => client.pc = "idle" /\ client.owed = FALSE /\ Locals
  BY DEF Init, NoCall, Locals
<1> QED BY <1>1 DEF ReadInv

LEMMA ReadStep ==
  ASSUME CrashInv, ChunkInv, ReadInv, SafeStep, [Next]_vars
  PROVE  ReadInv'
<1>0. /\ client = [pc |-> client.pc, n |-> client.n, first |-> client.first,
                   owed |-> client.owed]
      /\ client.owed \in BOOLEAN
  BY DEF ReadInv, Locals
<1>1. CASE client' = client
  BY <1>1, TiersGrow DEF ReadInv, Locals
<1>2. ASSUME NEW a, client' = [NoCall EXCEPT !.pc = a]
      PROVE  ReadInv'
  BY <1>2 DEF ReadInv, Locals, NoCall
<1>3. CASE Crash
  <2>1. client' = NoCall
    BY <1>3 DEF Crash
  <2> QED BY <2>1 DEF ReadInv, Locals, NoCall
<1>4. ASSUME NEW n, NEW o \in BOOLEAN, o => n \in Stored,
             client' = [NoCall EXCEPT !.pc = "hot", !.n = n, !.owed = o]
      PROVE  ReadInv'
  <2>1. client' = [pc |-> "hot", n |-> n, first |-> NoBlock, owed |-> o]
    BY <1>4 DEF NoCall
  <2>2. /\ client'.pc = "hot" /\ client'.n = n /\ client'.owed = o
        /\ client' = [pc |-> client'.pc, n |-> client'.n, first |-> client'.first,
                      owed |-> client'.owed]
    BY <2>1
  <2>3. o => n \in Stored'
    BY <1>4, TiersGrow
  <2> QED BY <1>4, <2>2, <2>3 DEF ReadInv, Locals
<1>5. ASSUME NEW n \in ReadBlocks, GetBlock(n) PROVE ReadInv'
  <2>1. Readable(n) => n \in Stored
    <3>1. CASE n \in hot
      BY <3>1 DEF Stored
    <3>2. CASE ColdLookup(index, n)
      <4>1. PICK r \in index : r[1] <= n /\ n <= r[2]
        BY <3>2 DEF ColdLookup, HasRecord
      <4>2. r \in Complete /\ r \in Nat \X Nat /\ n \in Nat
        BY ColdIsIndexed, TieredAssumption DEF ChunkInv, CrashInv, FilesOK
      <4>3. n \in r[1] .. r[2]
        BY <4>1, <4>2
      <4> QED BY <4>2, <4>3 DEF Stored, DurableCold, BlocksOf
    <3> QED BY <3>1, <3>2 DEF Readable
  <2>2. client' = [NoCall EXCEPT !.pc = "hot", !.n = n, !.owed = Readable(n)]
    BY <1>5 DEF GetBlock, Call
  <2>3. Readable(n) \in BOOLEAN
    BY DEF Readable, ColdLookup
  <2> QED BY <1>4, <2>1, <2>2, <2>3
<1>6. CASE GetLatest
  <2>1. CASE Answer("NotFound")
    BY <1>2, <2>1 DEF Answer, Call
  <2>2. CASE latest # NoBlock /\ client' = [NoCall EXCEPT !.pc = "hot", !.n = latest, !.owed = TRUE]
    BY <1>4, <2>2, DbFacts
  <2> QED BY <1>6, <2>1, <2>2 DEF GetLatest, Call
<1>7. CASE ReadHot
  <2>1. CASE Answer("Success")
    BY <1>2, <2>1 DEF Answer, Call
  <2>2. CASE client.n \notin hot /\ client' = [client EXCEPT !.pc = "cold"]
    <3>1. /\ client' = [pc |-> client'.pc, n |-> client'.n, first |-> client'.first,
                        owed |-> client'.owed]
          /\ client'.pc = "cold" /\ client'.n = client.n /\ client'.owed = client.owed
      BY <1>0, <2>2
    <3>2. client.owed => client.n \in DurableCold
      BY <1>7, <2>2 DEF ReadHot, CallAt, ReadInv, Stored
    <3> QED BY <1>0, <3>1, <3>2, TiersGrow DEF ReadInv, Locals
  <2> QED BY <1>7, <2>1, <2>2 DEF ReadHot, Call
<1>8. CASE ReadCold
  <2> DEFINE o == client.owed /\ client.n \notin BlocksOf(Complete \ index)
  <2>1. CASE Answer("Success")
    BY <1>2, <2>1 DEF Answer, Call
  <2>2. CASE ~ColdLookup(index, client.n) /\ client' = [client EXCEPT !.pc = "range", !.owed = o]
    <3>1. o = FALSE
      BY <1>8, <2>2, LookupFinds DEF ReadCold, CallAt, ReadInv
    <3>2. client' = [client EXCEPT !.pc = "range", !.owed = FALSE]
      BY <2>2, <3>1
    <3>3. /\ client' = [pc |-> client'.pc, n |-> client'.n, first |-> client'.first,
                        owed |-> client'.owed]
          /\ client'.pc = "range" /\ client'.owed = FALSE
      BY <1>0, <3>2
    <3> QED BY <3>3 DEF ReadInv, Locals
  <2> QED BY <1>8, <2>1, <2>2 DEF ReadCold, Call
<1>9. CASE ReadFails \/ Refuse
  BY <1>2, <1>9 DEF ReadFails, Refuse, Answer, Call
<1>10. CASE ReadRange \/ NotFound
  <2>0. PICK pc \in {"bound", "NotFound", "NotAvailable"} :
          \E e : client' = [client EXCEPT !.pc = pc, !.first = e]
    <3>1. CASE ReadRange
      BY <3>1 DEF ReadRange, Call
    <3>2. CASE NotFound
      <4>1. PICK pc \in {"NotFound", "NotAvailable"} : client' = [client EXCEPT !.pc = pc]
        BY <3>2 DEF NotFound, Call
      <4>2. client' = [client EXCEPT !.pc = pc, !.first = client.first]
        BY <1>0, <4>1
      <4> QED BY <4>2
    <3> QED BY <1>10, <3>1, <3>2
  <2>1. PICK e : client' = [client EXCEPT !.pc = pc, !.first = e]
    BY <2>0
  <2>2. ~client.owed
    BY <1>10 DEF ReadRange, NotFound, CallAt, ReadInv
  <2>3. /\ client' = [pc |-> client'.pc, n |-> client'.n, first |-> client'.first,
                      owed |-> client'.owed]
        /\ client'.pc = pc /\ client'.owed = client.owed
    BY <1>0, <2>1
  <2> QED BY <1>0, <2>2, <2>3 DEF ReadInv, Locals
<1>11. CASE ServerStatus \/ StatusLast
  <2>1. \/ client' = [NoCall EXCEPT !.pc = "last", !.first = OrZero(trueEarliest)]
        \/ client' = [client EXCEPT !.pc = "Status", !.n = OrZero(latest)]
    BY <1>11 DEF ServerStatus, StatusLast, Call
  <2>2. /\ client' = [pc |-> client'.pc, n |-> client'.n, first |-> client'.first,
                      owed |-> client'.owed]
        /\ client'.pc \in {"last", "Status"} /\ client'.owed \in {FALSE, client.owed}
    BY <1>0, <2>1 DEF NoCall
  <2> QED BY <1>0, <2>2 DEF ReadInv, Locals
<1>12. CASE Client
  BY <1>5, <1>6, <1>7, <1>8, <1>9, <1>10, <1>11, <1>12 DEF Client
<1>13. Client \/ Crash \/ client' = client
  BY DEF Next, WriteBlock, ArchiveIO, WriteTemp, RenameData, RenameIndex, LoadIndex, JobFails,
         WakeArchiver, CycleDone, SkipBatch, BeginBatch, CommitBatch, BeginHistorical,
         FinishHistorical, Restart, vars
<1> QED BY <1>1, <1>3, <1>12, <1>13

-----------------------------------------------------------------------------
(* The two ends of the range *)

\* true_earliest is a stored block, not above the latest one or the seed, and it
\* is set before any block can reach an archive through the hot tier; what a
\* serverStatus call has read stays true while the store grows.
EdgeInv ==
  /\ trueEarliest # NoBlock => trueEarliest \in Stored /\ trueEarliest <= P!LatestOrSeed
  /\ trueEarliest = NoBlock => hot = {} /\ earliestHot = NoBlock
  /\ earliestHot = NoBlock => dataFiles \subseteq Batches

StatusInv ==
  /\ Locals
  /\ CallAt("last") => client.first \in Stored \cup {0} /\ client.first <= P!LatestOrSeed
  /\ StatusIsStored

LEMMA LatestFacts ==
  ASSUME CrashInv
  PROVE  /\ P!Seed \in Nat /\ P!LatestOrSeed \in Nat /\ P!Seed <= P!LatestOrSeed
         /\ latest # NoBlock => P!LatestOrSeed = latest
<1>1. P!Seed \in Nat
  BY TieredAssumption DEF P!Seed
<1> QED BY <1>1 DEF CrashInv, DbInv, P!TypeOK, P!LatestOrSeed, P!NoBlock, NoBlock

LEMMA LatestGrows ==
  ASSUME CrashInv, SafeStep, [Next]_vars
  PROVE  P!LatestOrSeed <= P!LatestOrSeed' /\ P!LatestOrSeed' \in Nat
<1>0. P!LatestOrSeed' \in Nat
  <2>1. latest' \in Nat \cup {NoBlock}
    BY DEF SafeStep, CrashInv, DbInv, P!TypeOK, P!NoBlock, NoBlock
  <2>2. P!Seed' \in Nat
    BY LatestFacts DEF P!Seed
  <2> QED BY <2>1, <2>2 DEF P!LatestOrSeed, P!NoBlock, NoBlock
<1>1. ASSUME NEW b \in Blocks, WriteBlock(b) PROVE P!LatestOrSeed <= P!LatestOrSeed'
  <2>1. latest' = P!LatestAfter(b) /\ b \in Nat
    BY <1>1, TieredAssumption DEF WriteBlock, P!write_block, P!commit_batch
  <2>2. latest \in Nat \cup {NoBlock} /\ P!Seed \in Nat
    BY DbFacts, LatestFacts
  <2>3. P!Seed' = P!Seed
    BY DEF P!Seed
  <2>4. P!LatestOrSeed' = IF latest' = NoBlock THEN P!Seed ELSE latest'
    BY <2>3 DEF P!LatestOrSeed, P!NoBlock, NoBlock
  <2> QED BY <2>1, <2>2, <2>4, LatestFacts DEF P!LatestAfter, P!NewLatest, P!LatestOrSeed,
                                             P!NoBlock, NoBlock
<1>2. CASE latest' = latest
  BY <1>2, LatestFacts DEF P!LatestOrSeed, P!Seed
<1>3. ASSUME NEW j \in Jobs, ArchiveIO(j) PROVE latest' = latest
  BY <1>3 DEF ArchiveIO, WriteTemp, RenameData, RenameIndex, LoadIndex, JobFails, dbVars
<1>4. CASE Client
  BY <1>2, <1>4, ClientCalls DEF Call, dbVars
<1> QED BY <1>0, <1>1, <1>2, <1>3, <1>4
     DEF Next, WakeArchiver, CycleDone, SkipBatch, BeginBatch, CommitBatch, BeginHistorical,
         FinishHistorical, Crash, Restart, dbVars, vars

\* The first block of a complete archive is stored.
LEMMA StartStored ==
  ASSUME CrashInv, NEW r \in Complete
  PROVE  r[1] \in Stored /\ r[1] \in Nat /\ r \in dataFiles
<1>1. r \in Nat \X Nat /\ r[1] <= r[2] /\ r \in dataFiles
  BY DEF CrashInv, FilesOK, Complete
<1>2. r[1] \in r[1] .. r[2] /\ r[1] \in Nat
  BY <1>1
<1> QED BY <1>1, <1>2 DEF Stored, DurableCold, BlocksOf

LEMMA EdgeInit == Init => EdgeInv /\ StatusInv
<1>1. Init => EdgeInv
  BY DEF Init, EdgeInv
<1>2. Init => client.pc = "idle" /\ Locals
  BY DEF Init, NoCall, Locals
<1>3. Init => StatusInv
  BY <1>2 DEF StatusInv, StatusIsStored, CallAt
<1> QED BY <1>1, <1>3

LEMMA EdgeStep ==
  ASSUME HistoricalBelow, CrashInv, EdgeInv, SafeStep, [Next]_vars
  PROVE  EdgeInv'
<1>0. /\ Stored \subseteq Stored' /\ P!LatestOrSeed <= P!LatestOrSeed'
      /\ P!LatestOrSeed \in Nat /\ P!LatestOrSeed' \in Nat
      /\ P!Seed \in Nat /\ P!Seed <= P!LatestOrSeed
      /\ trueEarliest \in Nat \cup {NoBlock}
  BY TiersGrow, LatestGrows, LatestFacts, DbFacts
<1>1. ASSUME trueEarliest' = trueEarliest, hot' \subseteq hot, earliestHot' = earliestHot,
             dataFiles' = dataFiles
      PROVE  EdgeInv'
  BY <1>0, <1>1 DEF EdgeInv, NoBlock
<1>2. ASSUME NEW b \in Blocks, WriteBlock(b) PROVE EdgeInv'
  <2>1. /\ trueEarliest' = (IF trueEarliest = NoBlock THEN b ELSE trueEarliest)
        /\ earliestHot' = (IF earliestHot = NoBlock THEN b ELSE earliestHot)
        /\ hot' = hot \cup {b} /\ latest' = P!LatestAfter(b) /\ dataFiles' = dataFiles
        /\ b \in Nat
    BY <1>2, TieredAssumption DEF WriteBlock, P!write_block, P!commit_batch, P!NoBlock, NoBlock, fileVars
  <2>2. b \in Stored' /\ trueEarliest' # NoBlock /\ earliestHot' # NoBlock
    BY <2>1 DEF Stored, NoBlock
  <2>3. b <= P!LatestOrSeed'
    <3>1. latest \in Nat \cup {NoBlock} /\ P!Seed' = P!Seed
      BY DbFacts DEF P!Seed
    <3>2. P!LatestOrSeed' = IF latest' = NoBlock THEN P!Seed ELSE latest'
      BY <3>1 DEF P!LatestOrSeed, P!NoBlock, NoBlock
    <3>3. CASE b > P!LatestOrSeed
      <4>1. latest' = b
        BY <1>0, <2>1, <3>3 DEF P!LatestAfter, P!NewLatest
      <4> QED BY <2>1, <3>2, <4>1 DEF NoBlock
    <3>4. CASE ~(b > P!LatestOrSeed)
      <4>1. b <= P!LatestOrSeed
        BY <1>0, <2>1, <3>4
      <4> QED BY <1>0, <2>1, <4>1
    <3> QED BY <3>3, <3>4
  <2>4. trueEarliest' \in Stored' /\ trueEarliest' <= P!LatestOrSeed'
    BY <1>0, <2>1, <2>2, <2>3 DEF EdgeInv, NoBlock
  <2> QED BY <2>2, <2>4 DEF EdgeInv
<1>3. ASSUME NEW j \in Jobs, RenameData(j) PROVE EdgeInv'
  <2>1. /\ job[j].pc = "data" /\ dataFiles' = dataFiles \cup {job[j].r}
        /\ UNCHANGED <<hot, earliestHot, trueEarliest>>
    BY <1>3 DEF RenameData, At, dbVars
  <2>2. earliestHot = NoBlock => job[j].r \in Batches
    BY <2>1 DEF CrashInv, JobOK, Writing, Jobs
  <2>3. earliestHot' = NoBlock => dataFiles' \subseteq Batches
    BY <2>1, <2>2 DEF EdgeInv
  <2> QED BY <1>0, <2>1, <2>3 DEF EdgeInv, NoBlock
<1>4. CASE CommitBatch
  <2> DEFINE r == job["archiver"].r
  <2>1. /\ job["archiver"].pc = "commit" /\ hot' \subseteq hot /\ trueEarliest' = trueEarliest
        /\ earliestHot' = r[1] + BatchSize
    BY <1>4 DEF CommitBatch, At
  <2>2. r = <<earliestHot, earliestHot + BatchSize - 1>> /\ earliestHot # NoBlock
    BY <2>1 DEF CrashInv, JobOK, Writing, Jobs
  <2>3. earliestHot' # NoBlock
    BY <2>1, <2>2, DbFacts DEF NoBlock
  <2> QED BY <1>0, <2>1, <2>2, <2>3 DEF EdgeInv, NoBlock
<1>5. CASE FinishHistorical
  <2> DEFINE r == job["batch"].r
  <2>1. /\ job["batch"].pc = "commit" /\ trueEarliest' \in {trueEarliest, r[1]}
        /\ trueEarliest = NoBlock => trueEarliest' = r[1]
        /\ UNCHANGED <<hot, earliestHot>> /\ dataFiles' = dataFiles
    BY <1>5 DEF FinishHistorical, At, fileVars
  <2>2. r \in indexFiles /\ r \in Batches
    BY <2>1 DEF CrashInv, JobOK, Writing, Jobs
  <2>3. r[1] \in Stored /\ r[1] \in Nat
    BY <2>2, ColdIsIndexed, StartStored DEF CrashInv
  <2>4. r[1] <= P!Seed
    BY <2>2 DEF HistoricalBelow
  <2>5. trueEarliest' # NoBlock /\ trueEarliest' \in Stored' /\ trueEarliest' <= P!LatestOrSeed'
    <3>1. CASE trueEarliest' = trueEarliest /\ trueEarliest # NoBlock
      BY <1>0, <3>1 DEF EdgeInv, NoBlock
    <3>2. CASE trueEarliest' = r[1]
      <4>1. r[1] # NoBlock /\ r[1] \in Stored'
        BY <1>0, <2>3 DEF NoBlock
      <4>2. r[1] <= P!LatestOrSeed'
        BY <1>0, <2>3, <2>4
      <4> QED BY <3>2, <4>1, <4>2
    <3> QED BY <2>1, <3>1, <3>2
  <2> QED BY <2>1, <2>5 DEF EdgeInv
<1>6. CASE Restart
  <2> DEFINE known == hot \cup {r[1] : r \in index'}
  <2>1. /\ index' \subseteq Complete /\ UNCHANGED <<hot, earliestHot>> /\ dataFiles' = dataFiles
        /\ trueEarliest' = IF trueEarliest = NoBlock /\ known # {} THEN Least(known)
                           ELSE trueEarliest
    BY <1>6 DEF Restart, fileVars
  <2>2. CASE trueEarliest = NoBlock /\ known # {}
    <3>1. known \in SUBSET Nat
      BY <2>1, KnownBlocks
    <3>2. Least(known) \in known
      BY <2>2, <3>1, LeastIsLeast
    <3>3. hot = {} /\ dataFiles \subseteq Batches
      BY <2>2 DEF EdgeInv
    <3>4. PICK r \in index' : Least(known) = r[1]
      BY <3>2, <3>3
    <3>5. r[1] \in Stored /\ r[1] \in Nat /\ r \in Batches
      BY <2>1, <3>3, StartStored
    <3>6. r[1] <= P!Seed
      BY <3>5 DEF HistoricalBelow
    <3>7. trueEarliest' = r[1]
      BY <2>1, <2>2, <3>4
    <3>8. trueEarliest' # NoBlock /\ trueEarliest' \in Stored'
      BY <1>0, <3>5, <3>7 DEF NoBlock
    <3>9. trueEarliest' <= P!LatestOrSeed'
      BY <1>0, <3>5, <3>6, <3>7
    <3>10. earliestHot' = NoBlock => dataFiles' \subseteq Batches
      BY <2>1, <3>3
    <3> QED BY <3>8, <3>9, <3>10 DEF EdgeInv
  <2> QED BY <1>1, <2>1, <2>2
<1>7. ASSUME NEW j \in Jobs, WriteTemp(j) \/ RenameIndex(j) \/ LoadIndex(j) \/ JobFails(j)
      PROVE  EdgeInv'
  BY <1>1, <1>7 DEF WriteTemp, RenameIndex, LoadIndex, JobFails, dbVars, fileVars
<1>8. CASE WakeArchiver \/ CycleDone \/ SkipBatch \/ BeginBatch \/ Crash
           \/ (\E r \in Batches : BeginHistorical(r))
  BY <1>1, <1>8 DEF WakeArchiver, CycleDone, SkipBatch, BeginBatch, BeginHistorical, Crash,
                   dbVars, fileVars
<1>9. CASE Client \/ UNCHANGED vars
  BY <1>1, <1>9, ClientCalls DEF Call, dbVars, fileVars, vars
<1> QED BY <1>2, <1>3, <1>4, <1>5, <1>6, <1>7, <1>8, <1>9 DEF Next, ArchiveIO

LEMMA StatusStep ==
  ASSUME CrashInv, EdgeInv, StatusInv, SafeStep, [Next]_vars
  PROVE  StatusInv'
<1>0. /\ Stored \subseteq Stored' /\ P!LatestOrSeed <= P!LatestOrSeed'
      /\ P!LatestOrSeed \in Nat /\ P!LatestOrSeed' \in Nat
      /\ client = [pc |-> client.pc, n |-> client.n, first |-> client.first,
                   owed |-> client.owed]
  BY TiersGrow, LatestGrows, LatestFacts DEF StatusInv, Locals
<1>1. Stored \subseteq Nat
  BY ColdIsIndexed, DbFacts DEF CrashInv, Stored
<1>2. CASE client' = client
  <2>1. Locals' /\ (CallAt("Status")' => CallAt("Status"))
        /\ (CallAt("last")' => CallAt("last"))
    BY <1>0, <1>2 DEF Locals, CallAt
  <2>2. CallAt("last")' => client'.first \in Stored' \cup {0} /\ client'.first <= P!LatestOrSeed'
    <3>1. ASSUME CallAt("last") PROVE client.first \in Nat /\ client.first \in Stored' \cup {0}
                                   /\ client.first <= P!LatestOrSeed
      BY <1>0, <1>1, <3>1 DEF StatusInv
    <3> QED BY <1>0, <1>2, <2>1, <3>1
  <2>3. StatusIsStored'
    BY <1>0, <1>2, <2>1 DEF StatusInv, StatusIsStored
  <2> QED BY <2>1, <2>2, <2>3 DEF StatusInv
<1>3. ASSUME /\ client' = [pc |-> client'.pc, n |-> client'.n, first |-> client'.first,
                           owed |-> client'.owed]
             /\ client'.pc \notin {"last", "Status"}
      PROVE  StatusInv'
  BY <1>3 DEF StatusInv, Locals, StatusIsStored, CallAt
<1>4. ASSUME NEW a, a \notin {"last", "Status"}, Answer(a) PROVE StatusInv'
  <2>1. client' = [NoCall EXCEPT !.pc = a]
    BY <1>4 DEF Answer, Call
  <2>2. /\ client' = [pc |-> client'.pc, n |-> client'.n, first |-> client'.first,
                      owed |-> client'.owed]
        /\ client'.pc = a
    BY <2>1 DEF NoCall
  <2> QED BY <1>3, <1>4, <2>2
<1>5. ASSUME NEW pc, pc \notin {"last", "Status"}, NEW n, NEW e, NEW o,
             client' = [pc |-> pc, n |-> n, first |-> e, owed |-> o]
      PROVE  StatusInv'
  BY <1>3, <1>5
<1>6. CASE Crash
  <2>1. client' = NoCall
    BY <1>6 DEF Crash
  <2>2. /\ client' = [pc |-> client'.pc, n |-> client'.n, first |-> client'.first,
                      owed |-> client'.owed]
        /\ client'.pc = "idle"
    BY <2>1 DEF NoCall
  <2> QED BY <1>3, <2>2
<1>7. ASSUME NEW n \in ReadBlocks, GetBlock(n) PROVE StatusInv'
  <2>1. client' = [pc |-> "hot", n |-> n, first |-> NoBlock, owed |-> Readable(n)]
    BY <1>7 DEF GetBlock, Call, NoCall
  <2> QED BY <1>5, <2>1
<1>8. CASE GetLatest
  <2>1. CASE Answer("NotFound")
    BY <1>4, <2>1
  <2>2. CASE client' = [NoCall EXCEPT !.pc = "hot", !.n = latest, !.owed = TRUE]
    <3>1. client' = [pc |-> "hot", n |-> latest, first |-> NoBlock, owed |-> TRUE]
      BY <2>2 DEF NoCall
    <3> QED BY <1>5, <3>1
  <2> QED BY <1>8, <2>1, <2>2 DEF GetLatest, Call
<1>9. CASE ReadHot
  <2>1. CASE Answer("Success")
    BY <1>4, <2>1
  <2>2. CASE client' = [client EXCEPT !.pc = "cold"]
    <3>1. client' = [pc |-> "cold", n |-> client.n, first |-> client.first, owed |-> client.owed]
      BY <1>0, <2>2
    <3> QED BY <1>5, <3>1
  <2> QED BY <1>9, <2>1, <2>2 DEF ReadHot, Call
<1>10. CASE ReadCold
  <2> DEFINE o == client.owed /\ client.n \notin BlocksOf(Complete \ index)
  <2>1. CASE Answer("Success")
    BY <1>4, <2>1
  <2>2. CASE client' = [client EXCEPT !.pc = "range", !.owed = o]
    <3> HIDE DEF o
    <3>1. client' = [pc |-> "range", n |-> client.n, first |-> client.first, owed |-> o]
      BY <1>0, <2>2
    <3> QED BY <1>5, <3>1
  <2> QED BY <1>10, <2>1, <2>2 DEF ReadCold, Call
<1>11. CASE ReadFails \/ Refuse
  BY <1>4, <1>11 DEF ReadFails, Refuse
<1>12. CASE ReadRange
  <2>1. PICK e : client' = [client EXCEPT !.pc = "bound", !.first = e]
    BY <1>12 DEF ReadRange, Call
  <2>2. client' = [pc |-> "bound", n |-> client.n, first |-> e, owed |-> client.owed]
    BY <1>0, <2>1
  <2> QED BY <1>5, <2>2
<1>13. CASE NotFound
  <2>1. PICK pc \in {"NotFound", "NotAvailable"} : client' = [client EXCEPT !.pc = pc]
    BY <1>13 DEF NotFound, Call
  <2>2. client' = [pc |-> pc, n |-> client.n, first |-> client.first, owed |-> client.owed]
    BY <1>0, <2>1
  <2> QED BY <1>5, <2>2
<1>14. CASE ServerStatus
  <2> DEFINE e == OrZero(trueEarliest)
  <2>1. client' = [NoCall EXCEPT !.pc = "last", !.first = e]
    BY <1>14 DEF ServerStatus, Call
  <2>2. e \in Stored' \cup {0} /\ e <= P!LatestOrSeed'
    BY <1>0, <1>1 DEF EdgeInv, OrZero
  <2> HIDE DEF e
  <2>3. /\ client' = [pc |-> client'.pc, n |-> client'.n, first |-> client'.first,
                      owed |-> client'.owed]
        /\ client'.pc = "last" /\ client'.first = e
    BY <2>1 DEF NoCall
  <2> QED BY <2>2, <2>3 DEF StatusInv, Locals, StatusIsStored, CallAt
<1>15. CASE StatusLast
  <2> DEFINE l == OrZero(latest)
  <2>1. client.pc = "last" /\ client' = [client EXCEPT !.pc = "Status", !.n = l]
    BY <1>15 DEF StatusLast, CallAt, Call
  <2>2. l \in Stored' \cup {0} /\ (l # 0 => l = P!LatestOrSeed)
    BY <1>0, DbFacts, LatestFacts DEF OrZero
  <2> HIDE DEF l
  <2>3. /\ client' = [pc |-> client'.pc, n |-> client'.n, first |-> client'.first,
                      owed |-> client'.owed]
        /\ client'.pc = "Status" /\ client'.n = l /\ client'.first = client.first
    BY <1>0, <2>1
  <2>4. client.first \in Stored' \cup {0} /\ (l # 0 => client.first <= l)
    BY <1>0, <2>1, <2>2 DEF StatusInv, CallAt
  <2> QED BY <2>2, <2>3, <2>4 DEF StatusInv, Locals, StatusIsStored, CallAt
<1>16. CASE Client
  BY <1>7, <1>8, <1>9, <1>10, <1>11, <1>12, <1>13, <1>14, <1>15, <1>16 DEF Client
<1>17. Client \/ Crash \/ client' = client
  BY DEF Next, WriteBlock, ArchiveIO, WriteTemp, RenameData, RenameIndex, LoadIndex, JobFails,
         WakeArchiver, CycleDone, SkipBatch, BeginBatch, CommitBatch, BeginHistorical,
         FinishHistorical, Restart, vars
<1> QED BY <1>2, <1>6, <1>16, <1>17

-----------------------------------------------------------------------------
(* write_block, and the theorems *)

PP == INSTANCE PersistenceProofs
        WITH cold <- DurableCold, cycling <- (job["archiver"].pc # "idle"),
             Writers <- {}, IterFails <- FALSE, loc <- <<>>

\* write_block is the operator of Persistence in both instances.
LEMMA SameWrite ==
  ASSUME NEW b, P!write_block(b)
  PROVE  PP!write_block(b)
BY DEF P!write_block, PP!write_block, P!commit_batch, PP!commit_batch, P!LatestAfter, PP!LatestAfter, P!NewLatest,
       PP!NewLatest, P!LatestOrSeed, PP!LatestOrSeed, P!NoBlock, PP!NoBlock, P!Seed, PP!Seed,
       P!NewGaps, PP!NewGaps, P!NewHighest, PP!NewHighest, P!WalksTo, PP!WalksTo,
       P!find_containing_gap, PP!find_containing_gap, P!EntryAtOrBefore, PP!EntryAtOrBefore,
       P!ApplyBatch, PP!ApplyBatch, P!add_gap_range, PP!add_gap_range, P!fill_gap_block,
       PP!fill_gap_block, P!MergeBatch, PP!MergeBatch, P!SweepEnd, PP!SweepEnd,
       P!SweepClosed, PP!SweepClosed, P!LeftNeighbour, PP!LeftNeighbour, P!NoGapChange,
       PP!NoGapChange

\* The two instances state the same invariant.
LEMMA SameInv == (PP!Inv <=> DbInv) /\ (PP!Inv' <=> DbInv')
<1>1. PP!NoBlock = NoBlock /\ PP!NoBlock' = NoBlock' /\ PP!Seed = P!Seed /\ PP!Seed' = P!Seed'
  BY DEF PP!NoBlock, NoBlock, PP!Seed, P!Seed
<1>2. (PP!TypeOK <=> P!TypeOK) /\ (PP!TypeOK' <=> P!TypeOK')
  BY DEF PP!TypeOK, P!TypeOK, PP!NoBlock, P!NoBlock, PP!GapEntry, P!GapEntry
<1>3. (PP!GapsSeparated <=> P!GapsSeparated) /\ (PP!GapsSeparated' <=> P!GapsSeparated')
  BY DEF PP!GapsSeparated, P!GapsSeparated, PP!Separated, P!Separated
<1>4. PP!Stored = P!Stored /\ PP!Stored' = P!Stored'
  BY DEF PP!Stored, P!Stored
<1>5. PP!LatestOrSeed = P!LatestOrSeed /\ PP!LatestOrSeed' = P!LatestOrSeed'
  BY <1>1 DEF PP!LatestOrSeed, P!LatestOrSeed, PP!NoBlock, P!NoBlock
<1>6. /\ PP!ContiguousStored <=> P!ContiguousStored
      /\ PP!ContiguousStored' <=> P!ContiguousStored'
  BY <1>1, <1>4 DEF PP!ContiguousStored, P!ContiguousStored
<1>7. /\ PP!MissingIsTracked <=> P!MissingIsTracked
      /\ PP!MissingIsTracked' <=> P!MissingIsTracked'
  BY <1>1, <1>4 DEF PP!MissingIsTracked, P!MissingIsTracked, PP!MissingIn, P!MissingIn,
                  PP!InGap, P!InGap
<1>8. /\ PP!LatestIsGreatest <=> P!LatestIsGreatest
      /\ PP!LatestIsGreatest' <=> P!LatestIsGreatest'
  BY <1>1, <1>4, <1>5 DEF PP!LatestIsGreatest, P!LatestIsGreatest, PP!NoBlock, P!NoBlock
<1>9. /\ PP!OnlyFrontSkipped <=> P!OnlyFrontSkipped
      /\ PP!OnlyFrontSkipped' <=> P!OnlyFrontSkipped'
  BY DEF PP!OnlyFrontSkipped, P!OnlyFrontSkipped
<1> QED BY <1>1, <1>2, <1>3, <1>6, <1>7, <1>8, <1>9 DEF PP!Inv, DbInv

LEMMA CrashInit == Init => CrashInv /\ Durable!Init
<1> SUFFICES ASSUME Init PROVE CrashInv /\ Durable!Init
  OBVIOUS
<1>1. DurableCold = {} /\ Stored = {}
  BY DEF Init, DurableCold, BlocksOf, Complete, Stored
<1>2. PP!Seed = P!Seed
  BY DEF PP!Seed, P!Seed
<1>3. job = [j \in Jobs |-> Idle] /\ trigger = FALSE
  BY DEF Init
<1>4. job["archiver"].pc = "idle"
  BY <1>3 DEF Jobs, Idle
<1>5. PP!Init
  BY <1>1, <1>2, <1>4 DEF Init, PP!Init, PP!NoBlock, NoBlock
<1>6. DbInv
  BY <1>5, PP!InvInit, SameInv, TieredAssumption
<1>7. FilesOK
  BY DEF Init, FilesOK
<1>8. \A j \in Jobs : JobOK(j)
  BY <1>3 DEF JobOK, Idle, Pcs, Writing
<1>9. job = [j \in Jobs |-> job[j]]
  BY <1>3
<1>10. Durable!Init
  BY <1>1 DEF Init, Durable!Init
<1> QED BY <1>6, <1>7, <1>8, <1>9, <1>10 DEF CrashInv

\* write_block, with the jobs and files as they are.
LEMMA WriteStep ==
  ASSUME CrashInv, NEW b \in Blocks, WriteBlock(b)
  PROVE  CrashInv' /\ Durable!Store(b)
<1>0. PP!Inv
  BY SameInv DEF CrashInv
<1>1. PP!write_block(b) /\ UNCHANGED <<fileVars, job>>
  BY SameWrite DEF WriteBlock
<1>2. PP!Inv' /\ PP!Stored' = PP!Stored \cup {b} /\ highest <= highest'
  BY <1>0, <1>1, PP!WriteBlockPreserves, TieredAssumption
<1>3. hot' = hot \cup {b} /\ (earliestHot # NoBlock => earliestHot' = earliestHot)
  BY <1>1 DEF PP!write_block, PP!commit_batch, PP!NoBlock, NoBlock
<1>4. dataFiles' = dataFiles /\ indexFiles' = indexFiles /\ job' = job
  BY <1>1 DEF fileVars
<1>5. \A j \in Jobs : JobOK(j)'
  BY <1>3, <1>4, JobRests DEF CrashInv
<1>6. CrashInv'
  BY <1>2, <1>4, <1>5, SameInv DEF CrashInv, FilesOK
<1>7. PP!Stored = Stored /\ PP!Stored' = Stored' /\ PP!Seed = P!Seed
  BY DEF PP!Stored, Stored, PP!Seed, P!Seed
<1>8. highest' \in Int
  BY <1>2 DEF PP!Inv, PP!TypeOK
<1>9. \A n \in P!Seed + 1 .. highest' : n \in Stored'
  BY <1>2, <1>7 DEF PP!Inv, PP!ContiguousStored, PP!Seed, P!Seed
<1>10. highest \in Int
  BY DbFacts
<1>11. Durable!Store(b)
  BY <1>2, <1>7, <1>8, <1>9, <1>10 DEF Durable!Store, Durable!Vouched
<1> QED BY <1>6, <1>11

LEMMA CrashStep ==
  ASSUME CrashInv, [Next]_vars
  PROVE  SafeStep
<1> SUFFICES CrashInv' /\ [Durable!Next]_(Durable!vars)
  BY DEF SafeStep
<1>1. ASSUME NEW b \in Blocks, WriteBlock(b)
      PROVE  CrashInv' /\ [Durable!Next]_(Durable!vars)
  BY <1>1, WriteStep DEF Durable!Next
<1>2. ASSUME NEW j \in Jobs, ArchiveIO(j)
      PROVE  CrashInv' /\ [Durable!Next]_(Durable!vars)
  <2>1. CASE RenameIndex(j)
    BY <2>1, RenameIndexStep
  <2>2. CASE RenameData(j)
    BY <2>2, RenameDataStep DEF Durable!vars
  <2>3. CASE WriteTemp(j) \/ LoadIndex(j) \/ JobFails(j)
    BY <2>3, JobStep DEF Durable!vars
  <2> QED BY <1>2, <2>1, <2>2, <2>3 DEF ArchiveIO
<1>3. CASE WakeArchiver \/ CycleDone \/ SkipBatch \/ BeginBatch
  BY <1>3, CycleStep DEF Durable!vars
<1>4. CASE CommitBatch
  BY <1>4, CommitStep DEF Durable!vars
<1>5. CASE (\E r \in Batches : BeginHistorical(r)) \/ FinishHistorical
  BY <1>5, HistoricalStep DEF Durable!vars
<1>6. CASE Client \/ Crash \/ Restart \/ UNCHANGED vars
  BY <1>6, OutsideStep DEF Durable!vars
<1> QED BY <1>1, <1>2, <1>3, <1>4, <1>5, <1>6 DEF Next

LEMMA CrashInvAlways == Spec => []CrashInv
<1>1. CrashInv /\ [Next]_vars => CrashInv'
  BY CrashStep DEF SafeStep
<1> QED BY <1>1, CrashInit, PTL DEF Spec

\* A crash between any two file operations of write_archive, any RocksDB commits
\* or any step of initialize() loses no stored block and leaves the contiguous
\* watermark sound, for every batch size and every set of historical batches.
THEOREM CrashAlwaysSafe == Spec => CrashSafe
<1>1. CrashInv /\ [Next]_vars => [Durable!Next]_(Durable!vars)
  BY CrashStep DEF SafeStep
<1> QED BY <1>1, CrashInit, CrashInvAlways, PTL DEF Spec, CrashSafe, Durable!Spec

LEMMA ChunkInvAlways == HistoricalApart => (Spec => [](CrashInv /\ ChunkInv))
<1> SUFFICES ASSUME HistoricalApart PROVE Spec => [](CrashInv /\ ChunkInv)
  OBVIOUS
<1>1. CrashInv /\ ChunkInv /\ [Next]_vars => CrashInv' /\ ChunkInv'
  BY CrashStep, ChunkStep DEF SafeStep
<1> QED BY <1>1, CrashInit, ChunkInit, PTL DEF Spec

\* ColdReader looks into one chunk, the last that starts at or before the block;
\* as long as historical batches overlap nothing, that is enough: re-archived
\* windows, failed loads and restarts never make one chunk hide another.
THEOREM OnlyUnloadedUnreadable == HistoricalApart => (Spec => []UnreadableOnlyIfNotLoaded)
<1>1. CrashInv /\ ChunkInv => UnreadableOnlyIfNotLoaded
  BY LookupFinds DEF UnreadableOnlyIfNotLoaded, Readable, Stored
<1> QED BY <1>1, ChunkInvAlways, PTL

\* getBlock: a block that moves from the hot to the cold tier between the two
\* lookups is found in the second; NOT_FOUND and NOT_AVAILABLE are never the
\* answer for a block that was readable when the call began, nor for the latest.
THEOREM ReadsNeverMiss == HistoricalApart => (Spec => []ReadNeverMisses)
<1> SUFFICES ASSUME HistoricalApart PROVE Spec => []ReadNeverMisses
  OBVIOUS
<1>1. Init => ReadInv
  BY ReadInit
<1>2. CrashInv /\ ChunkInv /\ ReadInv /\ [Next]_vars => ReadInv'
  BY ReadStep, CrashStep
<1>3. ReadInv => ReadNeverMisses
  BY DEF ReadInv, ReadNeverMisses
<1>4. Spec => [](CrashInv /\ ChunkInv)
  BY ChunkInvAlways
<1> QED BY <1>1, <1>2, <1>3, <1>4, PTL DEF Spec

\* serverStatus reads the earliest and the latest block one after the other, with
\* writes, archival, historical batches, crashes and restarts in between: both
\* are stored (or 0) and in order.
THEOREM StatusAlwaysStored == HistoricalBelow => (Spec => []StatusIsStored)
<1> SUFFICES ASSUME HistoricalBelow PROVE Spec => []StatusIsStored
  OBVIOUS
<1>1. Init => EdgeInv /\ StatusInv
  BY EdgeInit
<1>2. CrashInv /\ EdgeInv /\ StatusInv /\ [Next]_vars => EdgeInv' /\ StatusInv'
  BY EdgeStep, StatusStep, CrashStep
<1>3. StatusInv => StatusIsStored
  BY DEF StatusInv
<1> QED BY <1>1, <1>2, <1>3, CrashInvAlways, PTL DEF Spec
=============================================================================
