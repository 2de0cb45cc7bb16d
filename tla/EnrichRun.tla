----------------------------- MODULE EnrichRun ------------------------------
(***************************************************************************)
(* One bulk re-enrichment run: the estimate that arms the confirm gate and *)
(* the confirm that commits the drive's message with the transition        *)
(* (enrichmentJobRepository.ts), the outbox relays that publish it, the    *)
(* drive that creates the chunks (runBulkEnrich.ts), and the chunk jobs    *)
(* that spend under two brakes: the confirmed ceiling of the run and the   *)
(* workspace's daily budget (bulkProcessEnrichChunk.ts, enrichContact.ts). *)
(*                                                                         *)
(* A step of a worker is one transaction, one queue call or one vendor     *)
(* call.  Every contact the cache does not answer costs 1, and the run     *)
(* happens within one day of the budget.  A run has a contact: the request *)
(* that creates it answers 404 to an empty selection.                      *)
(***************************************************************************)
EXTENDS Integers, FiniteSets, FiniteSetsExt

CONSTANTS
  Total,       \* contacts of the run, 1 .. Total
  BandRows,    \* CHUNK_ROWS
  Fresh,       \* contacts the provider-call cache already answers
  Dry,         \* contacts no vendor knows: a paid miss, not a cache entry
  Limits,      \* pairs of a run's confirmed ceiling (cap) and what its day's
               \* ENRICH_DAILY_BUDGET_MICROS leaves (daily)
  Workers,     \* worker processes, each with one bulk-enrichment job at a time
  Relays,      \* and their outbox relays
  DriveRow,    \* the outbox row of the drive
  MaxAttempts, \* MAX_PUBLISH_ATTEMPTS
  MaxStalled,  \* maxStalledCount
  FaultKinds,  \* what may break: "relay", "crash", "throw", "contact", "stall"
  MaxFaults    \* bound: how often

Contacts == 1 .. Total
Chunks   == 1 .. (Total + BandRows - 1) \div BandRows
Drive    == 0                    \* the id bulkenrich:drive:<jobId>
Ids      == {Drive} \cup Chunks  \* and bulkenrich:chunk:<jobId>:<chunkId>

First(k) == (k - 1) * BandRows + 1
Last(k)  == IF k * BandRows < Total THEN k * BandRows ELSE Total

ASSUME RunAssumption ==
  /\ {MaxFaults, MaxStalled} \subseteq Nat
  /\ {Total, BandRows, MaxAttempts} \subseteq Nat \ {0}
  /\ Limits \subseteq [cap : Nat, daily : Nat]
  /\ Fresh \subseteq Contacts /\ Dry \subseteq Contacts \ Fresh
  /\ IsFiniteSet(Workers)

VARIABLES
  limits,    \* this run's, of Limits
  job,       \* the enrichment_jobs row
  chunk,     \* enrichment_job_chunks.status
  row,       \* the outbox: see WorkerOutbox
  relay,
  accepted,
  queue,     \* BullMQ's record of each id
  worker,    \* what each worker is doing
  calls,     \* the provider_calls of each contact: the cache and the daily spend
  bills,     \* history: what the vendors were asked for, per contact
  ledger,    \* enrichment_job_rows per contact
  faults,    \* how often something broke
  hit        \* where, and whether a brake stopped a chunk: history

outbox  == <<row, relay, accepted>>
records == <<job, chunk, calls, bills, ledger>>
vars    == <<limits, records, outbox, queue, worker, faults, hit>>

Cap         == limits.cap
DailyBudget == limits.daily

Outbox == INSTANCE WorkerOutbox WITH Rows <- {DriveRow}, Unrouted <- {}
BullMQ == INSTANCE JobQueue

Free == [pc |-> "idle", id |-> Drive, locked |-> FALSE, seen |-> 0, next |-> 0,
         paid |-> 0, braked |-> FALSE]

Completed == {k \in Chunks : chunk[k] = "completed"}
Created   == {k \in Chunks : chunk[k] # "none"}

Init ==
  /\ limits \in Limits
  /\ job = [status |-> "estimating", spent |-> 0, processed |-> 0, charged |-> 0]
  /\ chunk = [k \in Chunks |-> "none"]
  /\ Outbox!Init
  /\ queue = [i \in Ids |-> BullMQ!Absent]
  /\ worker = [w \in Workers |-> Free]
  /\ calls = [c \in Contacts |-> IF c \in Fresh THEN "cached" ELSE "none"]
  /\ bills = [c \in Contacts |-> 0]
  /\ ledger = [c \in Contacts |-> 0]
  /\ faults = 0
  /\ hit = {}

Break(kind, where) ==
  /\ kind \in FaultKinds
  /\ faults < MaxFaults
  /\ faults' = faults + 1
  /\ hit' = hit \cup {where}
  /\ UNCHANGED limits

NoFault == UNCHANGED <<faults, hit, limits>>

(***************************************************************************)
(* The API, and the relays.                                                *)
(***************************************************************************)
Arm ==
  /\ job.status = "estimating"
  /\ job' = [job EXCEPT !.status = "awaiting_confirmation"]
  /\ NoFault
  /\ UNCHANGED <<chunk, outbox, queue, worker, calls, bills, ledger>>

\* The transition and the drive's message are one transaction.
Confirm ==
  /\ job.status = "awaiting_confirmation"
  /\ job' = [job EXCEPT !.status = "running"]
  /\ Outbox!Enqueue(DriveRow)
  /\ NoFault
  /\ UNCHANGED <<chunk, queue, worker, calls, bills, ledger>>

Claim(r) ==
  /\ Outbox!Claim(r)
  /\ NoFault
  /\ UNCHANGED <<records, queue, worker>>

Publish(r) ==
  /\ Outbox!Publish(r, DriveRow)
  /\ queue' = BullMQ!Added(queue, {Drive}, 3, FALSE)
  /\ NoFault
  /\ UNCHANGED <<records, worker>>

Settle(r) ==
  /\ Outbox!Settle(r, DriveRow)
  /\ NoFault
  /\ UNCHANGED <<records, queue, worker>>

RelayBreaks(r) ==
  /\ \/ Outbox!PublishFails(r, DriveRow)
     \/ Outbox!SettleFails(r, DriveRow)
     \/ Outbox!Dies(r)
  /\ Break("relay", "relay")
  /\ UNCHANGED <<records, queue, worker>>

(***************************************************************************)
(* The queue's side of a worker.                                           *)
(***************************************************************************)
At(w)          == worker[w].id
Running(w, pc) == worker[w].pc = pc
Goto(w, pc)    == worker' = [worker EXCEPT ![w].pc = pc]
Leave(w)       == worker' = [worker EXCEPT ![w] = Free]

Take(w, i) ==
  /\ Running(w, "idle")
  /\ queue[i].st = "waiting"
  /\ queue' = [queue EXCEPT ![i].st = "active"]
  /\ worker' = [worker EXCEPT ![w] =
       [Free EXCEPT !.pc = IF i = Drive THEN "drive" ELSE "job", !.id = i,
                    !.locked = TRUE]]
  /\ NoFault
  /\ UNCHANGED <<records, outbox>>

Settled(w, q) == IF worker[w].locked THEN [q EXCEPT ![At(w)].st = "completed"] ELSE q

\* The processor returns.
Finish(w) == queue' = Settled(w, queue) /\ Leave(w)

\* The job ends with record r, unless its lock is lost; a job that failed for
\* good is marked in `hit`.
EndsWith(w, kind, r) ==
  /\ Leave(w)
  /\ queue' = IF worker[w].locked THEN [queue EXCEPT ![At(w)] = r] ELSE queue
  /\ Break(kind, IF worker[w].locked /\ r.st = "failed" THEN "dead" ELSE worker[w].pc)
  /\ UNCHANGED <<records, outbox>>

\* A transaction of the job fails: all but the vendor path, which isolates it.
Throws(w) ==
  /\ worker[w].pc \in {"drive", "create", "fanOut", "job", "chunk", "add", "ledger",
                       "progress", "mark", "pause", "list", "complete"}
  /\ EndsWith(w, "throw", BullMQ!Retried(queue[At(w)]))

WorkerDies(w) ==
  /\ ~Running(w, "idle")
  /\ EndsWith(w, "crash", BullMQ!Redelivered(queue[At(w)]))

\* The lock expires although the worker goes on (a blocked event loop).
LockExpires(w) ==
  /\ worker[w].locked
  /\ Break("stall", "stall")
  /\ worker' = [worker EXCEPT ![w].locked = FALSE]
  /\ queue' = [queue EXCEPT ![At(w)] = BullMQ!Redelivered(@)]
  /\ UNCHANGED <<records, outbox>>

\* Whether the id can be added again; the other records may as well stay.
Addable(i) ==
  IF i = Drive
  THEN row[DriveRow].status = "pending" \/ \E r \in Relays : relay[r].todo # {}
  ELSE i \notin Completed

\* Retention removes a settled record.
Expire(i) ==
  /\ BullMQ!Expires(queue[i])
  /\ Addable(i)
  /\ queue' = [queue EXCEPT ![i] = BullMQ!Absent]
  /\ NoFault
  /\ UNCHANGED <<records, outbox, worker>>

(***************************************************************************)
(* The drive: runBulkEnrich.                                               *)
(***************************************************************************)
SkipDrive(w) ==
  /\ Running(w, "drive")
  /\ job.status # "running"
  /\ Finish(w)
  /\ NoFault
  /\ UNCHANGED <<records, outbox>>

\* A run already chunked re-enqueues its unfinished chunks; add ignores those
\* whose record is still kept.
Resume(w) ==
  /\ Running(w, "drive")
  /\ job.status = "running" /\ Created # {}
  /\ queue' = Settled(w, BullMQ!Added(queue, Created \ Completed, 1, FALSE))
  /\ Leave(w)
  /\ NoFault
  /\ UNCHANGED <<records, outbox>>

Plan(w) ==
  /\ Running(w, "drive")
  /\ job.status = "running" /\ Created = {}
  /\ Goto(w, "create")
  /\ NoFault
  /\ UNCHANGED <<records, outbox, queue>>

\* One batch, refused by the unique (job, chunkIndex) when it exists already.
Create(w) ==
  /\ Running(w, "create")
  /\ IF Created = {}
     THEN /\ chunk' = [k \in Chunks |-> "queued"]
          /\ Goto(w, "fanOut")
          /\ UNCHANGED queue
     ELSE /\ Leave(w)
          /\ queue' = IF worker[w].locked
                      THEN [queue EXCEPT ![At(w)] = BullMQ!Retried(@)] ELSE queue
          /\ UNCHANGED chunk
  /\ NoFault
  /\ UNCHANGED <<job, calls, bills, ledger, outbox>>

FanOut(w) ==
  /\ Running(w, "fanOut")
  /\ queue' = Settled(w, BullMQ!Added(queue, Chunks, 1, FALSE))
  /\ Leave(w)
  /\ NoFault
  /\ UNCHANGED <<records, outbox>>

(***************************************************************************)
(* A chunk: bulkProcessEnrichChunk, and enrichContact's transaction.       *)
(***************************************************************************)

\* The job is read first: its status, and the run's spend at this moment.
ReadJob(w) ==
  /\ Running(w, "job")
  /\ IF job.status = "running"
     THEN /\ worker' = [worker EXCEPT ![w].pc = "chunk", ![w].seen = job.spent]
          /\ UNCHANGED queue
     ELSE Finish(w)
  /\ NoFault
  /\ UNCHANGED <<records, outbox>>

ReadChunk(w) ==
  /\ Running(w, "chunk")
  /\ IF chunk[At(w)] # "completed"
     THEN /\ worker' = [worker EXCEPT ![w].pc = "next", ![w].next = First(At(w))]
          /\ UNCHANGED queue
     ELSE Finish(w)
  /\ NoFault
  /\ UNCHANGED <<records, outbox>>

Ahead(w) == worker[w].next <= Last(At(w))

EndBand(w) ==
  /\ Running(w, "next") /\ ~Ahead(w)
  /\ Goto(w, "ledger")
  /\ NoFault
  /\ UNCHANGED <<records, outbox, queue>>

\* Broken variant: the cap is checked against what this chunk read at its start.
CapReachedAtStart(w) == worker[w].seen >= Cap /\ worker[w].paid = 0

\* The brake of the run: the last total this chunk has seen.
CapReached(w) == worker[w].seen >= Cap

Halt(w) ==
  /\ worker' = [worker EXCEPT ![w].pc = "ledger", ![w].braked = TRUE]
  /\ hit' = hit \cup {"brake"}
  /\ UNCHANGED <<faults, limits, records, outbox, queue>>

Brake(w) ==
  /\ Running(w, "next") /\ Ahead(w)
  /\ CapReached(w)
  /\ Halt(w)

\* enrichContact looks in the cache before it waits for the budget's lock.
Look(w) ==
  /\ Running(w, "next") /\ Ahead(w)
  /\ ~CapReached(w)
  /\ worker' = IF calls[worker[w].next] = "cached"
               THEN [worker EXCEPT ![w].next = @ + 1]
               ELSE [worker EXCEPT ![w].pc = "lock"]
  /\ NoFault
  /\ UNCHANGED <<records, outbox, queue>>

DailySpend == Cardinality({c \in Contacts \ Fresh : calls[c] # "none"})

\* Broken variant: the budget is read without the advisory lock.
AlwaysFree == TRUE

\* lockDailyBudget is held from the check to the record's commit.
BudgetFree == \A v \in Workers : ~Running(v, "call")

DailyBreak(w) ==
  /\ Running(w, "lock")
  /\ BudgetFree
  /\ DailySpend >= DailyBudget
  /\ Halt(w)

Call(w) ==
  /\ Running(w, "lock")
  /\ BudgetFree
  /\ DailySpend < DailyBudget
  /\ bills' = [bills EXCEPT ![worker[w].next] = @ + 1]
  /\ Goto(w, "call")
  /\ NoFault
  /\ UNCHANGED <<job, chunk, calls, ledger, outbox, queue>>

\* record leaves a paid answer of the same request as it is.
Record(w) ==
  /\ Running(w, "call")
  /\ LET c == worker[w].next
     IN  calls' = [calls EXCEPT ![c] = IF @ # "none" THEN @
                                       ELSE IF c \in Dry THEN "miss" ELSE "cached"]
  /\ Goto(w, "add")
  /\ NoFault
  /\ UNCHANGED <<job, chunk, bills, ledger, outbox, queue>>

\* The contact's transaction fails and takes the record of the call with it;
\* the chunk goes on to the next contact.
ContactFails(w) ==
  /\ Running(w, "call")
  /\ Break("contact", "contact")
  /\ worker' = [worker EXCEPT ![w].pc = "next", ![w].next = @ + 1]
  /\ UNCHANGED <<records, outbox, queue>>

\* addRunSpendReturningTotal: one UPDATE that returns the run's total.
AddSpend(w) ==
  /\ Running(w, "add")
  /\ job' = [job EXCEPT !.spent = @ + 1]
  /\ worker' = [worker EXCEPT ![w].pc = "next", ![w].next = @ + 1,
                              ![w].paid = @ + 1, ![w].seen = job.spent + 1]
  /\ NoFault
  /\ UNCHANGED <<chunk, calls, bills, ledger, outbox, queue>>

\* insertJobRows: a row per contact the chunk ran, with no unique key.
WriteLedger(w) ==
  /\ Running(w, "ledger")
  /\ ledger' = [c \in Contacts |->
       IF First(At(w)) <= c /\ c < worker[w].next THEN ledger[c] + 1 ELSE ledger[c]]
  /\ Goto(w, "progress")
  /\ NoFault
  /\ UNCHANGED <<job, chunk, calls, bills, outbox, queue>>

Progress(w) ==
  /\ Running(w, "progress")
  /\ job' = [job EXCEPT !.processed = @ + worker[w].next - First(At(w)),
                        !.charged = @ + worker[w].paid]
  /\ Goto(w, "mark")
  /\ NoFault
  /\ UNCHANGED <<chunk, calls, bills, ledger, outbox, queue>>

Mark(w) ==
  /\ Running(w, "mark")
  /\ chunk' = [chunk EXCEPT ![At(w)] = "completed"]
  /\ Goto(w, IF worker[w].braked THEN "pause" ELSE "list")
  /\ NoFault
  /\ UNCHANGED <<job, calls, bills, ledger, outbox, queue>>

\* Whatever the status is by now.
Pause(w) ==
  /\ Running(w, "pause")
  /\ job' = [job EXCEPT !.status = "paused"]
  /\ Finish(w)
  /\ NoFault
  /\ UNCHANGED <<chunk, calls, bills, ledger, outbox>>

\* Broken variant: the chunk that is last by number finalizes.
AllDoneByNumber(w) == Completed # {} /\ At(w) = Max(Chunks)

\* listChunks: every chunk is completed.
AllDone(w) == Completed = Chunks

List(w) ==
  /\ Running(w, "list")
  /\ IF AllDone(w) THEN Goto(w, "reread") /\ UNCHANGED queue ELSE Finish(w)
  /\ NoFault
  /\ UNCHANGED <<records, outbox>>

\* The status is read again ...
Reread(w) ==
  /\ Running(w, "reread")
  /\ IF job.status = "running" THEN Goto(w, "complete") /\ UNCHANGED queue
     ELSE Finish(w)
  /\ NoFault
  /\ UNCHANGED <<records, outbox>>

\* ... and written in another transaction, whatever it is by then.
Complete(w) ==
  /\ Running(w, "complete")
  /\ job' = [job EXCEPT !.status = "completed"]
  /\ Finish(w)
  /\ NoFault
  /\ UNCHANGED <<chunk, calls, bills, ledger, outbox>>

(***************************************************************************)
(* The specification.                                                      *)
(***************************************************************************)
DriveStep(w) == \/ SkipDrive(w) \/ Resume(w) \/ Plan(w)
                \/ Create(w) \/ FanOut(w)

ChunkStep(w) == \/ ReadJob(w) \/ ReadChunk(w) \/ EndBand(w) \/ Brake(w) \/ Look(w)
                \/ DailyBreak(w) \/ Call(w) \/ Record(w) \/ AddSpend(w)
                \/ WriteLedger(w) \/ Progress(w) \/ Mark(w) \/ Pause(w)
                \/ List(w) \/ Reread(w) \/ Complete(w)

Step(w) == DriveStep(w) \/ ChunkStep(w)

RelayStep(r) == Claim(r) \/ Publish(r) \/ Settle(r)

Next == \/ Arm \/ Confirm
        \/ \E r \in Relays : RelayStep(r) \/ RelayBreaks(r)
        \/ \E w \in Workers : \/ Step(w) \/ ContactFails(w)
                              \/ Throws(w) \/ WorkerDies(w) \/ LockExpires(w)
        \/ \E w \in Workers, i \in Ids : Take(w, i)
        \/ \E i \in Ids : Expire(i)

Spec == Init /\ [][Next]_vars

\* The relays poll every second, a worker's process runs and waiting jobs are
\* taken.  Nobody has to confirm.
Fairness ==
  /\ \A r \in Relays : WF_vars(RelayStep(r))
  /\ \A w \in Workers : WF_vars(Step(w))
  /\ WF_vars(\E w \in Workers, i \in Ids : Take(w, i))

LiveSpec == Spec /\ Fairness

(***************************************************************************)
(* Properties.                                                             *)
(***************************************************************************)
TypeOK ==
  /\ limits \in Limits
  /\ job \in [status : {"estimating", "awaiting_confirmation", "running", "paused",
                        "completed"},
              spent : Nat, processed : Nat, charged : Nat]
  /\ chunk \in [Chunks -> {"none", "queued", "completed"}]
  /\ Outbox!OutboxTypeOK
  /\ queue \in [Ids -> BullMQ!Records]
  /\ worker \in [Workers ->
       [pc : {"idle", "drive", "create", "fanOut", "job", "chunk", "next", "lock", "call",
              "add", "ledger", "progress", "mark", "pause", "list", "reread", "complete"},
        id : Ids, locked : BOOLEAN, seen : Nat, next : Nat, paid : Nat, braked : BOOLEAN]]
  /\ calls \in [Contacts -> {"none", "miss", "cached"}]
  /\ bills \in [Contacts -> Nat]
  /\ ledger \in [Contacts -> Nat]
  /\ faults \in 0 .. MaxFaults

\* The breaker is atomic: concurrent chunks never overshoot the day's budget
\* in the calls the workspace has on record.
DailyBudgetHolds == DailySpend <= DailyBudget

\* A confirmed run keeps its drive: its message is due, or its job is live or
\* has run, or every attempt to publish was used up, or the job failed for good.
DriveNeverStranded ==
  job.status = "running" /\ Created = {} =>
    \/ row[DriveRow].status = "pending"
    \/ row[DriveRow].attempts = MaxAttempts
    \/ BullMQ!Live(queue[Drive])
    \/ \E w \in Workers : worker[w].pc \in {"drive", "create"}
    \/ hit \cap {"dead", "stall"} # {}

\* The invariant of every run, under every fault.
RunInv == TypeOK /\ Outbox!OutboxSound /\ DailyBudgetHolds /\ DriveNeverStranded

\* "A hard stop": vendors are asked at most for the ceiling, plus one contact
\* in flight at every other worker, plus one call lost with each fault.
CapHolds ==
  MapThenSumSet(LAMBDA c : bills[c], Contacts)
    <= (IF Cap = 0 THEN 0 ELSE Cap + Cardinality(Workers) - 1 + faults)

\* A completed run that no brake stopped has one ledger row per contact and has
\* charged what it spent, also when a contact failed or the drive was published
\* twice; not when a chunk ran twice or stopped half-way.
RunReconciles ==
  job.status = "completed" /\ hit \subseteq {"contact", "relay"} =>
    /\ \A c \in Contacts : ledger[c] = 1
    /\ job.processed = Total
    /\ job.spent = job.charged

\* Where a fault is healed: a relay by the next poll, a drive by its retries,
\* a chunk by the redelivery, until the chunk is marked completed.
Unhealed == {"dead", "pause", "list", "reread", "complete"}

\* A confirmed run stops, completed or paused by a brake, unless its message
\* was given up or a chunk died after it was marked.
RunEnds ==
  (job.status = "running") ~> \/ job.status \in {"completed", "paused"}
                              \/ row[DriveRow].attempts = MaxAttempts
                              \/ hit \cap Unhealed # {}

\* What bulkProcessEnrichChunk.ts:227-228 says: a run that a brake has paused is
\* never set to completed.
BrakeSticks ==
  [][job.status = "paused" => job'.status # "completed"]_vars

\* The abstract outbox: what the relays do here is what they do for any topic.
ImplementsOutbox == Outbox!Spec

=============================================================================
