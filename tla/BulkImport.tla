----------------------------- MODULE BulkImport -----------------------------
(***************************************************************************)
(* One COPY-mode bulk import, from the upload to its terminal status: the  *)
(* API that stores the file and publishes the drive (submitCopyImport.ts), *)
(* the drive that stages the file and plans bands (runBulkImport.ts), the  *)
(* chunk jobs that merge a band, count it and refill the window            *)
(* (bulkProcessChunk.ts, queues/bulkImports.ts), and the reaper that       *)
(* re-publishes a drive whose job has stopped (importReaperSweep.ts).      *)
(*                                                                         *)
(* Every step of a worker is one transaction or one queue call.  A queue   *)
(* record is kept for a while after it ends, and `add` with the id of a    *)
(* kept record does nothing.  Each band has one row; a row may repeat the  *)
(* person of an earlier one.                                               *)
(***************************************************************************)
EXTENDS Naturals, FiniteSets

CONSTANTS
  MaxBands,      \* bound: the bands of the longest file
  FileSizes,     \* how many bands an uploaded file may have
  Rejected,      \* bands whose row fails validation and is not staged
  Original,      \* the first band of the file with the row's identity_key
  Existing,      \* originals whose contact the workspace already has
  Window,        \* IMPORT_CHUNK_WINDOW; 0 enqueues every band at once
  Workers,       \* worker processes, each taking one job at a time
  DriveAttempts, \* attempts of a drive the API publishes; others have one
  MaxStalled,    \* maxStalledCount: redeliveries before a record fails
  FaultKinds,    \* what may break: "api", "crash", "throw", "stall"
  MaxFaults      \* bound: how often

Bands == 1 .. MaxBands
Drive == 0                       \* the id import-drive:<jobId>
Ids   == {Drive} \cup Bands      \* and import-chunk:<chunkId>

\* Rows whose person an earlier row of the file already names.
Repeats == {b \in Bands : Original[b] # b}

ASSUME FilesAssumption ==
  /\ MaxBands \in Nat /\ FileSizes \subseteq 0 .. MaxBands
  /\ Rejected \subseteq Bands

ASSUME IdentityAssumption ==
  /\ Original \in [Bands -> Bands]
  /\ \A b \in Bands : Original[b] <= b /\ Original[b] \notin Repeats
  /\ \A b \in Repeats : b \notin Rejected /\ Original[b] \notin Rejected
  /\ Existing \subseteq Bands \ Repeats

ASSUME LimitsAssumption ==
  {Window, DriveAttempts, MaxStalled, MaxFaults} \subseteq Nat

VARIABLES
  job,       \* the import_jobs row
  band,      \* import_job_chunks.status per band
  staging,   \* the staging table: copies of every row, and those dedup saw
  contacts,  \* originals whose person is a contact of the workspace
  queue,     \* BullMQ's record of each id
  upload,    \* how far the API request has come
  worker,    \* what each worker is doing
  rollups,   \* how often the rollups were fired
  faults,    \* how often something broke
  hit        \* where: history, for the properties' conditions

vars == <<job, band, staging, contacts, queue, upload, worker, rollups, faults, hit>>

BullMQ == INSTANCE JobQueue

NoTable == [exists |-> FALSE, copies |-> 0, marked |-> 0]
Free    == [pc |-> "idle", id |-> Drive, locked |-> FALSE, deduped |-> 0]

Done     == {b \in Bands : band[b] = "completed"}
Pending  == {b \in Bands : band[b] = "queued"}
Terminal == job.status \in {"completed", "partial", "failed"}
Live(i)  == BullMQ!Live(queue[i])

Lowest(S, k) == {b \in S : Cardinality({a \in S : a < b}) < k}

\* Broken variant: every drive enqueues all the bands it finds.
WindowIgnored(S) == S

\* chunkWindowLimit applied to the bands in chunk_index order.
Windowed(S) == IF Window = 0 THEN S ELSE Lowest(S, Window)

Init ==
  /\ job = [status |-> "none", size |-> 0, stored |-> FALSE, staged |-> FALSE,
            total |-> 0, counted |-> 0, rows |-> 0, rejected |-> 0,
            deduped |-> 0, created |-> 0, duplicate |-> 0]
  /\ band = [b \in Bands |-> "none"]
  /\ staging = NoTable
  /\ contacts = Existing
  /\ queue = [i \in Ids |-> BullMQ!Absent]
  /\ upload = "start"
  /\ worker = [w \in Workers |-> Free]
  /\ rollups = 0
  /\ faults = 0
  /\ hit = {}

Break(kind, where) ==
  /\ kind \in FaultKinds
  /\ faults < MaxFaults
  /\ faults' = faults + 1
  /\ hit' = hit \cup {where}

NoFault == UNCHANGED <<faults, hit>>

(***************************************************************************)
(* The API: the row first, then the object, then the drive.                *)
(***************************************************************************)
CreateRow(n) ==
  /\ upload = "start"
  /\ upload' = "store"
  /\ job' = [job EXCEPT !.status = "queued", !.size = n]
  /\ NoFault
  /\ UNCHANGED <<band, staging, contacts, queue, worker, rollups>>

Store ==
  /\ upload = "store"
  /\ upload' = "enqueue"
  /\ job' = [job EXCEPT !.stored = TRUE]
  /\ NoFault
  /\ UNCHANGED <<band, staging, contacts, queue, worker, rollups>>

StoreFails ==
  /\ upload = "store"
  /\ Break("api", "store")
  /\ upload' = "end"
  /\ job' = [job EXCEPT !.status = "failed"]
  /\ UNCHANGED <<band, staging, contacts, queue, worker, rollups>>

Publish ==
  /\ upload = "enqueue"
  /\ upload' = "end"
  /\ queue' = BullMQ!Added(queue, {Drive}, DriveAttempts, TRUE)
  /\ NoFault
  /\ UNCHANGED <<job, band, staging, contacts, worker, rollups>>

\* The queue sheds the drive (503), or the process dies with the request open.
Shed ==
  /\ upload \in {"store", "enqueue"}
  /\ Break("api", IF job.stored THEN "shed" ELSE "unstored")
  /\ upload' = "end"
  /\ UNCHANGED <<job, band, staging, contacts, queue, worker, rollups>>

(***************************************************************************)
(* The queue's side of a worker: a job is taken, ends, fails or is lost.   *)
(***************************************************************************)
Running(w, pc) == worker[w].pc = pc
At(w)          == worker[w].id

Goto(w, pc) == worker' = [worker EXCEPT ![w].pc = pc]
Leave(w)    == worker' = [worker EXCEPT ![w] = Free]

Take(w, i) ==
  /\ Running(w, "idle")
  /\ queue[i].st = "waiting"
  /\ queue' = [queue EXCEPT ![i].st = "active"]
  /\ worker' = [worker EXCEPT ![w] =
       [pc |-> IF i = Drive THEN "readDrive" ELSE "readBand", id |-> i,
        locked |-> TRUE, deduped |-> 0]]
  /\ NoFault
  /\ UNCHANGED <<job, band, staging, contacts, upload, rollups>>

\* A worker whose lock was taken away can no longer settle the record.
Settled(w, q) == IF worker[w].locked THEN [q EXCEPT ![At(w)].st = "completed"] ELSE q

\* The processor throws; the job's rows are as they were.
Thrown(w) ==
  /\ Leave(w)
  /\ queue' = IF worker[w].locked THEN [queue EXCEPT ![At(w)] = BullMQ!Retried(@)]
              ELSE queue
  /\ UNCHANGED <<job, band, contacts, upload, rollups>>

Throws(w) ==
  /\ worker[w].pc \in {"stage", "merge"}
  /\ Break("throw", "throw")
  /\ Thrown(w)
  /\ UNCHANGED staging

WorkerDies(w) ==
  /\ ~Running(w, "idle")
  /\ Break("crash", worker[w].pc)
  /\ Leave(w)
  /\ queue' = IF worker[w].locked THEN [queue EXCEPT ![At(w)] = BullMQ!Redelivered(@)]
              ELSE queue
  /\ UNCHANGED <<job, band, staging, contacts, upload, rollups>>

\* The lock expires although the worker goes on (a blocked event loop).
LockExpires(w) ==
  /\ worker[w].locked
  /\ Break("stall", "stall")
  /\ worker' = [worker EXCEPT ![w].locked = FALSE]
  /\ queue' = [queue EXCEPT ![At(w)] = BullMQ!Redelivered(@)]
  /\ UNCHANGED <<job, band, staging, contacts, upload, rollups>>

\* Retention: completed records go, failed ones unless the API added them.
Expire(i) ==
  /\ BullMQ!Expires(queue[i])
  /\ queue' = [queue EXCEPT ![i] = BullMQ!Absent]
  /\ NoFault
  /\ UNCHANGED <<job, band, staging, contacts, upload, worker, rollups>>

(***************************************************************************)
(* The drive: runBulkImport.                                               *)
(***************************************************************************)

\* Staging is done and its bands exist.
CanResume == job.staged /\ Pending \cup Done # {}

Resume(w) ==
  /\ Running(w, "readDrive")
  /\ CanResume
  /\ queue' = Settled(w, BullMQ!Added(queue, Windowed(Pending), 1, FALSE))
  /\ Leave(w)
  /\ NoFault
  /\ UNCHANGED <<job, band, staging, contacts, upload, rollups>>

StartDrive(w) ==
  /\ Running(w, "readDrive")
  /\ ~CanResume
  /\ job' = [job EXCEPT !.status = "validating"]
  /\ Goto(w, "stage")
  /\ NoFault
  /\ UNCHANGED <<band, staging, contacts, queue, upload, rollups>>

\* createStagingTable IF NOT EXISTS, then COPY: all rows or none.
Stage(w) ==
  /\ Running(w, "stage")
  /\ job.stored
  /\ staging' = [exists |-> TRUE, copies |-> staging.copies + 1, marked |-> staging.marked]
  /\ Goto(w, "dedup")
  /\ NoFault
  /\ UNCHANGED <<job, band, contacts, queue, upload, rollups>>

MissingObject(w) ==
  /\ Running(w, "stage")
  /\ ~job.stored
  /\ staging' = [staging EXCEPT !.exists = TRUE]
  /\ Thrown(w)
  /\ NoFault

\* dedupWithinFile: one UPDATE that marks every copy of a repeated row, and
\* counts those an earlier run of it has marked too.  It compares line
\* numbers, so every copy of a surviving line survives.
DedupCount == staging.copies * Cardinality(Repeats \cap 1 .. job.size)

Dedup(w) ==
  /\ Running(w, "dedup")
  /\ staging.exists
  /\ staging' = [staging EXCEPT !.marked = staging.copies]
  /\ worker' = [worker EXCEPT ![w].pc = "record", ![w].deduped = DedupCount]
  /\ NoFault
  /\ UNCHANGED <<job, band, contacts, queue, upload, rollups>>

DedupThrows(w) ==
  /\ Running(w, "dedup")
  /\ ~staging.exists
  /\ Thrown(w)
  /\ NoFault
  /\ UNCHANGED staging

RecordStaged(w) ==
  /\ Running(w, "record")
  /\ job' = [job EXCEPT !.status = "staged", !.staged = TRUE, !.total = job.size,
                        !.rows = @ + job.size,
                        !.rejected = @ + Cardinality(Rejected \cap 1 .. job.size),
                        !.deduped = @ + worker[w].deduped]
  /\ Goto(w, "plan")
  /\ NoFault
  /\ UNCHANGED <<band, staging, contacts, queue, upload, rollups>>

\* A header-only file has no band whose worker could finalize the job.
FinishEmpty(w) ==
  /\ Running(w, "plan")
  /\ job.size = 0
  /\ job' = [job EXCEPT !.status = IF job.rejected > 0 THEN "partial" ELSE "completed"]
  /\ staging' = NoTable
  /\ queue' = Settled(w, queue)
  /\ Leave(w)
  /\ NoFault
  /\ UNCHANGED <<band, contacts, upload, rollups>>

Plan(w) ==
  /\ Running(w, "plan")
  /\ job.size > 0
  /\ Pending \cup Done = {}
  /\ band' = [b \in Bands |-> IF b <= job.size THEN "queued" ELSE "none"]
  /\ Goto(w, "fanOut")
  /\ NoFault
  /\ UNCHANGED <<job, staging, contacts, queue, upload, rollups>>

\* uniq_import_job_chunks_job_chunk: another drive has planned the bands.
PlannedAlready(w) ==
  /\ Running(w, "plan")
  /\ job.size > 0
  /\ Pending \cup Done # {}
  /\ Thrown(w)
  /\ NoFault
  /\ UNCHANGED staging

FanOut(w) ==
  /\ Running(w, "fanOut")
  /\ queue' = Settled(w, BullMQ!Added(queue, Windowed(1 .. job.size), 1, FALSE))
  /\ Leave(w)
  /\ NoFault
  /\ UNCHANGED <<job, band, staging, contacts, upload, rollups>>

(***************************************************************************)
(* A chunk: bulkProcessChunk, finalizeIfLastChunk, continueChunkWindow.    *)
(***************************************************************************)

\* Broken variant: a redelivered band is merged again.
NeverDone(b) == FALSE

\* What the chunk row said when the worker read it.
AlreadyDone(b) == band[b] = "completed"

SkipBand(w) ==
  /\ Running(w, "readBand")
  /\ AlreadyDone(At(w))
  /\ queue' = Settled(w, queue)
  /\ Leave(w)
  /\ NoFault
  /\ UNCHANGED <<job, band, staging, contacts, upload, rollups>>

ReadBand(w) ==
  /\ Running(w, "readBand")
  /\ ~AlreadyDone(At(w))
  /\ Goto(w, "merge")
  /\ NoFault
  /\ UNCHANGED <<job, band, staging, contacts, queue, upload, rollups>>

\* Pending rows of a band in the staging table.
Staged(b) == IF b \in Rejected THEN 0
             ELSE IF b \in Repeats THEN staging.copies - staging.marked
             ELSE staging.copies

\* Broken variant: no unique index holds the second copy of a contact back.
CannotMergeUnindexed(b) == ~staging.exists

\* A dropped table, or two copies of one new contact (uniq_contacts_ws_email).
CannotMerge(b) == \/ ~staging.exists
                  \/ Staged(b) > 1 /\ Original[b] \notin contacts

MergeThrows(w) ==
  /\ Running(w, "merge")
  /\ CannotMerge(At(w))
  /\ Thrown(w)
  /\ NoFault
  /\ UNCHANGED staging

\* One transaction under the `skip` policy: a new row becomes a contact, a
\* known one is held back as a duplicate, and the chunk is completed.
Merge(w) ==
  /\ Running(w, "merge")
  /\ ~CannotMerge(At(w))
  /\ LET b   == At(w)
         new == Original[b] \notin contacts /\ Staged(b) > 0
     IN  /\ contacts' = IF new THEN contacts \cup {Original[b]} ELSE contacts
         /\ job' = [job EXCEPT !.created = @ + (IF new THEN Staged(b) ELSE 0),
                               !.duplicate = @ + (IF new THEN 0 ELSE Staged(b))]
         /\ band' = [band EXCEPT ![b] = "completed"]
  /\ Goto(w, "count")
  /\ NoFault
  /\ UNCHANGED <<staging, queue, upload, rollups>>

\* The chunk whose increment reaches total_chunks.
IsLast == job.counted + 1 >= job.total

CountBand(w) ==
  /\ Running(w, "count")
  /\ ~IsLast
  /\ job' = [job EXCEPT !.counted = @ + 1]
  /\ Goto(w, "refill")
  /\ NoFault
  /\ UNCHANGED <<band, staging, contacts, queue, upload, rollups>>

Finalize(w) ==
  /\ Running(w, "count")
  /\ IsLast
  /\ job' = [job EXCEPT !.counted = @ + 1,
                        !.status = IF job.rejected > 0 THEN "partial" ELSE "completed"]
  /\ Goto(w, IF job.created > 0 THEN "fire" ELSE "drop")
  /\ NoFault
  /\ UNCHANGED <<band, staging, contacts, queue, upload, rollups>>

\* The staging table goes; the rollups follow when the job landed a contact.
CleanUp(w) ==
  /\ worker[w].pc \in {"fire", "drop"}
  /\ staging' = NoTable
  /\ rollups' = IF Running(w, "fire") THEN rollups + 1 ELSE rollups
  /\ queue' = Settled(w, queue)
  /\ Leave(w)
  /\ NoFault
  /\ UNCHANGED <<job, band, contacts, upload>>

\* continueChunkWindow: the lowest pending bands; nothing under enqueue-all.
Refill == IF Window = 0 THEN {} ELSE Lowest(Pending, Window)

Continue(w) ==
  /\ Running(w, "refill")
  /\ queue' = Settled(w, BullMQ!Added(queue, Refill, 1, FALSE))
  /\ Leave(w)
  /\ NoFault
  /\ UNCHANGED <<job, band, staging, contacts, upload, rollups>>

(***************************************************************************)
(* The reaper: a queued or staged job older than the grace whose drive is  *)
(* not live gets its drive published again.                                *)
(***************************************************************************)

\* Broken variant: only jobs that were never staged are re-driven.
OrphanedQueued == job.status = "queued" /\ ~Live(Drive)

Orphaned == job.status \in {"queued", "staged"} /\ ~Live(Drive)

Reap ==
  /\ Orphaned
  /\ queue' = BullMQ!Added(queue, {Drive}, 1, FALSE)
  /\ NoFault
  /\ UNCHANGED <<job, band, staging, contacts, upload, worker, rollups>>

(***************************************************************************)
(* The specification.                                                      *)
(***************************************************************************)
Api == \/ \E n \in FileSizes : CreateRow(n)
       \/ Store \/ StoreFails \/ Publish \/ Shed

DriveStep(w) == \/ Resume(w) \/ StartDrive(w) \/ Stage(w) \/ MissingObject(w)
                \/ Dedup(w) \/ DedupThrows(w) \/ RecordStaged(w)
                \/ FinishEmpty(w) \/ Plan(w) \/ PlannedAlready(w) \/ FanOut(w)

ChunkStep(w) == \/ SkipBand(w) \/ ReadBand(w) \/ MergeThrows(w) \/ Merge(w)
                \/ CountBand(w) \/ Finalize(w) \/ CleanUp(w) \/ Continue(w)

Step(w) == DriveStep(w) \/ ChunkStep(w)

Next == \/ Api
        \/ \E w \in Workers : Step(w) \/ Throws(w) \/ WorkerDies(w) \/ LockExpires(w)
        \/ \E w \in Workers, i \in Ids : Take(w, i)
        \/ \E i \in Ids : Expire(i)
        \/ Reap

Spec == Init /\ [][Next]_vars

\* A request goes on, a worker's process runs, waiting jobs are taken, the
\* retention is enforced, and the sweep repeats every minute.
Fairness ==
  /\ WF_vars(Store \/ Publish)
  /\ \A w \in Workers : WF_vars(Step(w))
  /\ \A i \in Ids : WF_vars(\E w \in Workers : Take(w, i))
  /\ \A i \in Ids : WF_vars(Expire(i))
  /\ WF_vars(Reap)

LiveSpec == Spec /\ Fairness

(***************************************************************************)
(* Properties.                                                             *)
(***************************************************************************)
Statuses == {"none", "queued", "validating", "staged", "completed", "partial", "failed"}

TypeOK ==
  /\ job \in [status : Statuses, size : 0 .. MaxBands, stored : BOOLEAN, staged : BOOLEAN,
              total : Nat, counted : Nat, rows : Nat, rejected : Nat,
              deduped : Nat, created : Nat, duplicate : Nat]
  /\ band \in [Bands -> {"none", "queued", "completed"}]
  /\ staging \in [exists : BOOLEAN, copies : Nat, marked : Nat]
  /\ contacts \in SUBSET Bands
  /\ queue \in [Ids -> BullMQ!Records]
  /\ upload \in {"start", "store", "enqueue", "end"}
  /\ worker \in [Workers -> [pc : {"idle", "readDrive", "stage", "dedup", "record",
                                   "plan", "fanOut", "readBand", "merge", "count",
                                   "refill", "fire", "drop"},
                             id : Ids, locked : BOOLEAN, deduped : Nat]]
  /\ rollups \in Nat
  /\ faults \in 0 .. MaxFaults

\* rows_created is the number of contacts the import really added, whatever
\* is redelivered, staged twice or merged by two workers at once.
CreatedIsTruth == job.created = Cardinality(contacts \ Existing)

\* A band that says completed has its contact, unless its row was rejected or
\* repeats another.
CompletedBandLanded == Done \ (Rejected \cup Repeats) \subseteq contacts

\* The invariant of every import, under every fault.
ImportInv == TypeOK /\ CreatedIsTruth /\ CompletedBandLanded

Closed == job.status \in {"completed", "partial"}

\* The buckets of countAccountingViolations that this import fills.
Buckets == job.created + job.duplicate + job.rejected + job.deduped

\* A finished job has merged every band, no row of it is missing from the
\* buckets, and the rollups ran at most once: unless a worker outlived its lock,
\* or a drive died between the COPY and its bookkeeping.  The buckets add up
\* to rows_total exactly, unless the file repeats a person and a drive died
\* between its bookkeeping and the bands: the next one stages every row
\* again, and its dedup counts the repeats of both.
FinishedJobReconciles ==
  Closed /\ hit \cap {"stall", "dedup", "record"} = {}
  => /\ Done = 1 .. job.size
     /\ Buckets >= job.rows
     /\ "plan" \notin hit \/ Repeats = {} => Buckets = job.rows
     /\ rollups <= 1

\* What runBulkImport.ts:239 says of the bookkeeping, that it adds "onto the
\* zeroed columns", and countAccountingViolations of a terminal job: "an
\* unreconciled total is itself a defect" (importJobRepository.ts:567).  The
\* one fault is the death of a drive after its bookkeeping.
BucketsAddUp == Closed /\ hit \subseteq {"plan"} => Buckets = job.rows

\* The window: however completions, re-drives and retention interleave, no
\* more than K unfinished bands are in the queue at once.
WindowHolds ==
  Window > 0 => Cardinality({b \in Pending : Live(b)}) <= Window

\* Where a fault is healed: the redelivery, the retention and the reaper
\* together bring the job to its end.
Healed == {"shed", "throw", "readDrive", "stage", "fanOut", "readBand", "merge",
           "refill", "fire", "drop"}

\* Every uploaded file ends in a terminal status, unless it was hit where
\* nothing heals it: between the COPY and the bands, between a chunk's merge
\* and its count, or by a drive that fails for good: its record is kept for
\* ever when the API added it, and the reaper ignores a validating job.
ImportEnds ==
  (upload # "start") ~> \/ Terminal
                        \/ hit \ Healed # {}
                        \/ queue[Drive].st = "failed" /\ queue[Drive].kept
                        \/ ~Live(Drive) /\ job.status = "validating"

\* What bulkProcessChunk.ts:34-35 says of the worker: completed_chunks is
\* incremented exactly once per completed chunk.
ChunksCountedOnce ==
  (\A w \in Workers : ~Running(w, "count")) => job.counted = Cardinality(Done)

=============================================================================
