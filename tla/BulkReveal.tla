----------------------------- MODULE BulkReveal -----------------------------
(***************************************************************************)
(* One asynchronous bulk-reveal job, from its creation to the release of   *)
(* its lease: the API requests that create, confirm, pause, resume and     *)
(* cancel it (apps/api/src/features/reveal/routes.ts, createRevealJob.ts), *)
(* the queue with its drive and chunk messages (queues/bulkReveal.ts), the *)
(* workers that process them (runBulkReveal.ts), and the control row and   *)
(* work rows they share (revealJobRepository.ts).                          *)
(*                                                                         *)
(* Every step is one database transaction or one queue operation, so all   *)
(* that a worker or a request remembers between two of them can be stale,  *)
(* and is lost when it crashes.  One reveal type is modelled; a contact's  *)
(* price is what the verifier leaves of the unit cost, all or nothing.     *)
(***************************************************************************)
EXTENDS CreditAccount, FiniteSets, FiniteSetsExt

CONSTANTS
  Total,         \* contacts selected; row_index 0 .. Total - 1
  BandRows,      \* REVEAL_CHUNK_ROWS
  CheckEvery,    \* rows between two looks at the job's status
  Billable,      \* rows with something to reveal when the job is created
  Late,          \* rows whose field arrives, or is found in Layer-0, later
  UnitCost,      \* the reveal type's price
  Funds,         \* the tenant's purchased credits
  Workers,       \* worker processes
  Shared,        \* rows whose contact another user may reveal meanwhile
  Buttons,       \* what users press: "cancel", "pause", "confirm_early"
  MaxResumes,    \* bound: how often a job is resumed
  Faults,        \* what may break: "worker", "chunk", "api"
  MaxFaults      \* bound: how often

Rows  == 0 .. Total - 1
Bands == {b \in Rows : b % BandRows = 0}       \* a band's rowStart
RowsOf(b) == {r \in Rows : b <= r /\ r < b + BandRows}

ASSUME SizesAssumption ==
  /\ {BandRows, CheckEvery} \subseteq Nat \ {0}
  /\ {Total, UnitCost, Funds, MaxResumes, MaxFaults} \subseteq Nat
  /\ IsFiniteSet(Workers)

ASSUME SelectionAssumption ==
  /\ Billable \subseteq Rows
  /\ Late \subseteq Rows \ Billable
  /\ Shared \subseteq Rows

VARIABLES
  account,    \* the tenant's credits and ledger
  job,        \* the reveal_jobs row
  row,        \* reveal_job_rows.outcome
  owner,      \* contact_reveals: who revealed the row's contact
  price,      \* contact_reveals.credits_consumed
  request,    \* API requests in flight
  queue,      \* messages waiting: drives, and chunks per band
  worker,     \* what each worker is doing
  resumes,    \* how often the job was resumed
  faults      \* how often something broke

vars == <<account, job, row, owner, price, request, queue, worker, resumes, faults>>

Idle == [pc |-> "idle", band |-> 0, todo |-> {}, processed |-> 0, checked |-> FALSE,
         outcome |-> "queued", charged |-> 0, spent |-> 0, file |-> {},
         overrun |-> 0]

Init ==
  /\ account = [EmptyAccount EXCEPT !.total = Funds, !.sum = Funds]
  /\ job     = [status |-> "none", leased |-> 0, leasedSub |-> 0,
                spent |-> 0, file |-> {}]
  /\ row     = [r \in Rows |-> "absent"]
  /\ owner   = [r \in Rows |-> "none"]
  /\ price   = [r \in Rows |-> 0]
  /\ request = [inserting |-> FALSE, unsent |-> 0]
  /\ queue   = [drives |-> 0, chunks |-> [b \in Bands |-> 0]]
  /\ worker  = [w \in Workers |-> Idle]
  /\ resumes = 0
  /\ faults  = 0

(***************************************************************************)
(* The API.                                                                *)
(***************************************************************************)

\* Broken variant: only the first chunk of the selection is priced.
EstimateFirstChunk ==
  UnitCost * Cardinality({r \in Billable : owner[r] = "none" /\ r < BandRows})

\* projectRevealEstimate over what the contacts hold and own now.
Estimate == UnitCost * Cardinality({r \in Billable : owner[r] = "none"})

\* The control row is committed, and listed to its creator, before the rows.
CreateJob ==
  /\ job.status = "none"
  /\ job' = [job EXCEPT !.status = "awaiting", !.leased = Estimate]
  /\ request' = [request EXCEPT !.inserting = TRUE]
  /\ UNCHANGED <<account, row, owner, price, queue, worker, resumes, faults>>

InsertRows ==
  /\ request.inserting
  /\ row' = [r \in Rows |-> "queued"]
  /\ request' = [request EXCEPT !.inserting = FALSE]
  /\ UNCHANGED <<account, job, owner, price, queue, worker, resumes, faults>>

\* confirmAndLease, then (Send) the drive message.  Until it is confirmed the
\* job's `leased` stands for credit_estimate.
Confirm ==
  /\ job.status = "awaiting"
  /\ "confirm_early" \in Buttons \/ \A r \in Rows : row[r] # "absent"
  /\ CanCover(account, job.leased)
  /\ job' = [job EXCEPT !.status = "running",
                        !.leasedSub = LeasedFromSub(account, job.leased)]
  /\ account' = Lease(account, <<"lease">>, job.leased)
  /\ request' = [request EXCEPT !.unsent = @ + 1]
  /\ UNCHANGED <<row, owner, price, queue, worker, resumes, faults>>

Send ==
  /\ request.unsent > 0
  /\ request' = [request EXCEPT !.unsent = @ - 1]
  /\ queue' = [queue EXCEPT !.drives = @ + 1]
  /\ UNCHANGED <<account, job, row, owner, price, worker, resumes, faults>>

Pause ==
  /\ "pause" \in Buttons
  /\ job.status = "running"
  /\ job' = [job EXCEPT !.status = "paused"]
  /\ UNCHANGED <<account, row, owner, price, request, queue, worker, resumes, faults>>

Resume ==
  /\ resumes < MaxResumes
  /\ job.status = "paused"
  /\ job' = [job EXCEPT !.status = "running"]
  /\ request' = [request EXCEPT !.unsent = @ + 1]
  /\ resumes' = resumes + 1
  /\ UNCHANGED <<account, row, owner, price, queue, worker, faults>>

ReleaseLease == Release(account, <<"release">>, job.leased, job.leasedSub, job.spent)

\* Broken variant: a job that was never confirmed is released too.
CancelReleasing ==
  /\ "cancel" \in Buttons
  /\ job.status \in {"awaiting", "running", "paused"}
  /\ job' = [job EXCEPT !.status = "cancelled"]
  /\ account' = ReleaseLease
  /\ UNCHANGED <<row, owner, price, request, queue, worker, resumes, faults>>

\* cancelAndRelease: nothing was leased before the confirmation.
Cancel ==
  /\ "cancel" \in Buttons
  /\ job.status \in {"awaiting", "running", "paused"}
  /\ job' = [job EXCEPT !.status = "cancelled"]
  /\ account' = IF job.status = "awaiting" THEN account ELSE ReleaseLease
  /\ UNCHANGED <<row, owner, price, request, queue, worker, resumes, faults>>

\* The price of a reveal that finds the contact unclaimed: the unit cost or,
\* for an unusable result or an empty field, nothing.
Prices(r) == IF r \in Billable \cup Late THEN {0, UnitCost} ELSE {0}

\* Another user reveals the contact, charged to the counter at once.
OtherReveal(r) ==
  /\ r \in Shared
  /\ owner[r] = "none"
  /\ \E p \in Prices(r) :
       /\ CanCover(account, p)
       /\ price' = [price EXCEPT ![r] = p]
       /\ account' = IF p = 0 THEN account ELSE Spend(account, account, <<"reveal", r>>, p)
  /\ owner' = [owner EXCEPT ![r] = "other"]
  /\ UNCHANGED <<job, row, request, queue, worker, resumes, faults>>

(***************************************************************************)
(* The drive: one chunk message per band, though some rows may be done.  A *)
(* job of no rows (nothing selected was visible) is finalized at once.     *)
(***************************************************************************)
First(S) == CHOOSE x \in S : \A y \in S : x <= y

TakeDrive(w) ==
  /\ worker[w].pc = "idle"
  /\ queue.drives > 0
  /\ queue' = [queue EXCEPT !.drives = @ - 1]
  /\ LET empty == job.status = "running" /\ Bands = {}
     IN  /\ job' = IF empty THEN [job EXCEPT !.status = "completed"] ELSE job
         /\ account' = IF empty THEN ReleaseLease ELSE account
  /\ worker' = IF job.status = "running" /\ Bands # {}
               THEN [worker EXCEPT ![w] = [Idle EXCEPT !.pc = "drive", !.todo = Bands]]
               ELSE worker
  /\ UNCHANGED <<row, owner, price, request, resumes, faults>>

EnqueueChunk(w) ==
  /\ worker[w].pc = "drive"
  /\ LET b    == First(worker[w].todo)
         rest == worker[w].todo \ {b}
     IN  /\ queue' = [queue EXCEPT !.chunks[b] = @ + 1]
         /\ worker' = [worker EXCEPT ![w] =
                         IF rest = {} THEN Idle ELSE [@ EXCEPT !.todo = rest]]
  /\ UNCHANGED <<account, job, row, owner, price, request, resumes, faults>>

(***************************************************************************)
(* The chunk.                                                              *)
(***************************************************************************)

TakeChunk(w, b) ==
  /\ worker[w].pc = "idle"
  /\ queue.chunks[b] > 0
  /\ queue' = [queue EXCEPT !.chunks[b] = @ - 1]
  /\ worker' = IF job.status = "running"
               THEN [worker EXCEPT ![w] = [Idle EXCEPT !.pc = "list", !.band = b]]
               ELSE worker
  /\ UNCHANGED <<account, job, row, owner, price, request, resumes, faults>>

\* A step that only this worker's memory feels.
Remember(w, memory) ==
  /\ worker' = [worker EXCEPT ![w] = memory]
  /\ UNCHANGED <<account, job, row, owner, price, request, queue, resumes, faults>>

ListRows(w) ==
  /\ worker[w].pc = "list"
  /\ Remember(w, [worker[w] EXCEPT
                    !.pc = "row",
                    !.todo = {r \in RowsOf(worker[w].band) : row[r] = "queued"}])

\* Broken variant: the first look comes one interval late.
CheckDueLate(w) ==
  /\ worker[w].processed > CheckEvery
  /\ worker[w].processed % CheckEvery = 0
  /\ ~worker[w].checked

CheckDue(w) ==
  /\ worker[w].processed > 0
  /\ worker[w].processed % CheckEvery = 0
  /\ ~worker[w].checked

\* Rows that are left when the job no longer runs stay queued.
CheckStatus(w) ==
  /\ worker[w].pc = "row"
  /\ worker[w].todo # {}
  /\ CheckDue(w)
  /\ Remember(w, IF job.status = "running"
                 THEN [worker[w] EXCEPT !.checked = TRUE, !.overrun = 0]
                 ELSE [worker[w] EXCEPT !.todo = {}])

\* What revealContact in lease mode returns for the row; `overrun` counts the
\* rows it revealed for a job that did not run, since it last looked.
Revealed(w, outcome, charged) ==
  worker' = [worker EXCEPT ![w].pc      = "outcome",
                           ![w].outcome = outcome,
                           ![w].charged = charged,
                           ![w].overrun = IF job.status = "running" THEN 0 ELSE @ + 1]

\* The claim is unique per contact and reveal type; the counter is not touched.
RevealRow(w) ==
  /\ worker[w].pc = "row"
  /\ worker[w].todo # {}
  /\ ~CheckDue(w)
  /\ LET r == First(worker[w].todo) IN
       \/ /\ owner[r] = "none"
          /\ \E p \in Prices(r) :
               /\ price' = [price EXCEPT ![r] = p]
               /\ Revealed(w, "revealed", p)
          /\ owner' = [owner EXCEPT ![r] = "job"]
       \/ /\ owner[r] # "none"
          /\ Revealed(w, "already_owned", 0)
          /\ UNCHANGED <<owner, price>>
       \/ /\ Revealed(w, "failed", 0)                \* suppressed, or an error
          /\ UNCHANGED <<owner, price>>
  /\ UNCHANGED <<account, job, row, request, queue, resumes, faults>>

RecordRow(w) ==
  /\ worker[w].pc = "outcome"
  /\ LET r == First(worker[w].todo) IN
       /\ row' = [row EXCEPT ![r] = IF @ = "queued" THEN worker[w].outcome ELSE @]
       /\ worker' = [worker EXCEPT ![w] =
            [worker[w] EXCEPT !.pc = "row", !.todo = @ \ {r}, !.processed = @ + 1,
                              !.checked = FALSE, !.spent = @ + worker[w].charged]]
  /\ UNCHANGED <<account, job, owner, price, request, queue, resumes, faults>>

\* Broken variant: the tally is written, not added.
AddProgressOverwriting(w) ==
  /\ worker[w].pc = "row"
  /\ worker[w].todo = {}
  /\ job' = [job EXCEPT !.spent = worker[w].spent]
  /\ worker' = [worker EXCEPT ![w].pc = "count"]
  /\ UNCHANGED <<account, row, owner, price, request, queue, resumes, faults>>

\* credit_spent = credit_spent + the band's tally, whatever the job's status.
AddProgress(w) ==
  /\ worker[w].pc = "row"
  /\ worker[w].todo = {}
  /\ job' = [job EXCEPT !.spent = @ + worker[w].spent]
  /\ worker' = [worker EXCEPT ![w].pc = "count"]
  /\ UNCHANGED <<account, row, owner, price, request, queue, resumes, faults>>

\* Broken variants: only the worker's own band is counted; failed rows are counted too.
CountQueuedOfBand(w) ==
  /\ worker[w].pc = "count"
  /\ Remember(w, IF \E r \in RowsOf(worker[w].band) : row[r] = "queued"
                 THEN Idle
                 ELSE [worker[w] EXCEPT !.pc = "file"])

CountUndelivered(w) ==
  /\ worker[w].pc = "count"
  /\ Remember(w, IF \E r \in Rows : row[r] \in {"queued", "failed"}
                 THEN Idle
                 ELSE [worker[w] EXCEPT !.pc = "file"])

CountQueued(w) ==
  /\ worker[w].pc = "count"
  /\ Remember(w, IF \E r \in Rows : row[r] = "queued"
                 THEN Idle
                 ELSE [worker[w] EXCEPT !.pc = "file"])

Delivered == {r \in Rows : row[r] \in {"revealed", "already_owned"}}

BuildFile(w) ==
  /\ worker[w].pc = "file"
  /\ Remember(w, [worker[w] EXCEPT !.pc = "finalize", !.file = Delivered])

\* Broken variant: the status is not pinned.
FinalizeUnpinned(w) ==
  /\ worker[w].pc = "finalize"
  /\ job' = [job EXCEPT !.status = "completed", !.file = worker[w].file]
  /\ account' = ReleaseLease
  /\ worker' = [worker EXCEPT ![w] = Idle]
  /\ UNCHANGED <<row, owner, price, request, queue, resumes, faults>>

\* finalizeAndRelease is pinned to a running job: a sibling loses the race.
Finalize(w) ==
  /\ worker[w].pc = "finalize"
  /\ \/ /\ job.status = "running"
        /\ job' = [job EXCEPT !.status = "completed", !.file = worker[w].file]
        /\ account' = ReleaseLease
     \/ /\ job.status # "running"
        /\ UNCHANGED <<job, account>>
  /\ worker' = [worker EXCEPT ![w] = Idle]
  /\ UNCHANGED <<row, owner, price, request, queue, resumes, faults>>

(***************************************************************************)
(* Faults.                                                                 *)
(***************************************************************************)

Breaks(kind) ==
  /\ kind \in Faults
  /\ faults < MaxFaults
  /\ faults' = faults + 1

\* The queue redelivers the message of a worker that died.
WorkerCrash(w) ==
  /\ Breaks("worker")
  /\ worker[w].pc # "idle"
  /\ queue' = IF worker[w].pc = "drive"
              THEN [queue EXCEPT !.drives = @ + 1]
              ELSE [queue EXCEPT !.chunks[worker[w].band] = @ + 1]
  /\ worker' = [worker EXCEPT ![w] = Idle]
  /\ UNCHANGED <<account, job, row, owner, price, request, resumes>>

\* A chunk has one attempt: an exception sends it to the dead letters.
ChunkFails(w) ==
  /\ Breaks("chunk")
  /\ worker[w].pc \notin {"idle", "drive"}
  /\ worker' = [worker EXCEPT ![w] = Idle]
  /\ UNCHANGED <<account, job, row, owner, price, request, queue, resumes>>

\* The API process dies between the commit and what was to follow it.
ApiCrash ==
  /\ Breaks("api")
  /\ \/ request.inserting /\ request' = [request EXCEPT !.inserting = FALSE]
     \/ request.unsent > 0 /\ request' = [request EXCEPT !.unsent = @ - 1]
  /\ UNCHANGED <<account, job, row, owner, price, queue, worker, resumes>>

ApiStep ==
  CreateJob \/ InsertRows \/ Confirm \/ Send \/ Pause \/ Resume \/ Cancel

WorkerStep(w) ==
  \/ TakeDrive(w) \/ EnqueueChunk(w) \/ \E b \in Bands : TakeChunk(w, b)
  \/ ListRows(w) \/ CheckStatus(w) \/ RevealRow(w) \/ RecordRow(w)
  \/ AddProgress(w) \/ CountQueued(w) \/ BuildFile(w) \/ Finalize(w)

Next ==
  \/ ApiStep
  \/ \E r \in Rows : OtherReveal(r)
  \/ \E w \in Workers : WorkerStep(w) \/ WorkerCrash(w) \/ ChunkFails(w)
  \/ ApiCrash

Spec == Init /\ [][Next]_vars

(***************************************************************************)
(* Fairness: a request that has begun goes on to its end, and a worker     *)
(* takes what is queued and goes on with what it took.  Nobody has to      *)
(* press a button, and nothing has to break.                               *)
(***************************************************************************)
Fairness ==
  /\ WF_vars(InsertRows)
  /\ WF_vars(Send)
  /\ \A w \in Workers : WF_vars(WorkerStep(w))

LiveSpec == Spec /\ Fairness

-----------------------------------------------------------------------------
(***************************************************************************)
(* Properties.                                                             *)
(***************************************************************************)

Outcomes == {"queued", "revealed", "already_owned", "failed"}

Keys == {<<"lease">>, <<"release">>} \cup ({"reveal"} \X Rows)

TypeOK ==
  /\ account \in Accounts(Keys)
  /\ job \in [status : {"none", "awaiting", "running", "paused",
                        "completed", "cancelled"},
              leased : Nat, leasedSub : Nat, spent : Nat, file : SUBSET Rows]
  /\ row \in [Rows -> Outcomes \cup {"absent"}]
  /\ owner \in [Rows -> {"none", "job", "other"}]
  /\ price \in [Rows -> {0, UnitCost}]
  /\ request \in [inserting : BOOLEAN, unsent : Nat]
  /\ queue \in [drives : Nat, chunks : [Bands -> Nat]]
  /\ worker \in [Workers ->
       [pc : {"idle", "drive", "list", "row", "outcome", "count", "file", "finalize"},
        band : Bands \cup {0}, todo : SUBSET Rows, processed : 0 .. BandRows,
        checked : BOOLEAN, outcome : Outcomes, charged : {0, UnitCost},
        spent : Nat, file : SUBSET Rows, overrun : Nat]]
  /\ resumes \in 0 .. MaxResumes
  /\ faults \in 0 .. MaxFaults

\* billing-recon finds no drift, the row's CHECKs hold: the lease is taken and
\* released once, whoever confirms, cancels or finalizes, and however often.
LedgerReconciles == Balanced(account) /\ Sound(account)

PricesOf(who) == MapThenSumSet(LAMBDA r : price[r], {r \in Rows : owner[r] = who})

Worth == PricesOf("job")

\* What the job has taken from the counter, as the counter tells it.
Paid == Funds - account.total - PricesOf("other")

Settled == job.status \in {"completed", "cancelled"}

\* ADR-0029: the job keeps the lease contract.  It never costs more than its
\* reservation, nor more than its reveals are worth: no row is billed twice by
\* a redelivered, overlapping or resumed band.
Contract ==
  INSTANCE LeaseContract
    WITH phase <- CASE job.status \in {"none", "awaiting"}   -> "open"
                    [] job.status \in {"running", "paused"}  -> "held"
                    [] OTHER                                 -> "closed",
         paid  <- Paid,
         worth <- Worth

ImplementsLeaseContract == Contract!Spec

Drained == \A w \in Workers : worker[w].pc = "idle"

\* ADR-0029: the lease and its release net to exactly the actual spend, so once
\* a job is settled and its bands have ended, what it revealed has been paid.
NoFreeReveal == Settled /\ Drained => Paid = Worth

\* What the job revealed of contacts that gained their field after the estimate.
LateWorth == MapThenSumSet(LAMBDA r : price[r], {r \in Late : owner[r] = "job"})

\* What every worker may hold of its band when a stop or a sibling settles the
\* job; the one that finalizes has added its own tally.
Holders == IF job.status = "completed" THEN Cardinality(Workers) - 1 ELSE Cardinality(Workers)

\* runBulkReveal.ts adds a band's tally once, when the band ends.  So a settled
\* job has paid for all but the bands its workers still held, and those whose
\* worker died, however often it was paused and its bands sent again; or it has
\* spent its lease, and goes unpaid only for what the estimate could not see.
\* One worker that completes the job undisturbed leaves nothing unpaid.
UnpaidIsBounded ==
  Settled =>
    \/ Worth <= Paid + LateWorth
    \/ Worth <= Paid + (Holders + faults) * (BandRows * UnitCost)

\* estimate.ts: the lease covers whatever the job may reveal of the contacts
\* that had something to reveal at the estimate, whatever others reveal and
\* whichever contacts gain a field since.
LeaseCoversWork == job.status # "none" => Worth <= job.leased + LateWorth

\* What estimate.ts:37 says: the estimate is the worst case.
EstimateIsWorstCase == job.status # "none" => Worth <= job.leased

\* runBulkReveal.ts: a job is finalized when its last queued row is drained, and
\* its file then holds every contact it delivered.
CompletedMeansDrained ==
  job.status = "completed" =>
    /\ \A r \in Rows : row[r] \notin {"absent", "queued"}
    /\ job.file = Delivered

\* runBulkReveal.ts: a cancel or a pause stops a band promptly.  A worker
\* reveals at most CheckEvery rows for a job that does not run before it looks
\* at the status again.
StopsPromptly == \A w \in Workers : worker[w].overrun <= CheckEvery

\* A running job does not keep its lease for ever: it is finalized, unless
\* somebody stops it.
RunningJobEnds == job.status = "running" ~> job.status # "running"

=============================================================================
