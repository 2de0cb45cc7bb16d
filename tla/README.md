# TruePoint: a verification project

TLA+ modules, TLC configurations and TLAPS proofs about the parts of TruePoint
where several processes touch one piece of state: what moves a customer's money
(the credit counter and its ledger, single and bulk reveals, the monthly grant,
the bounce refund, the `Idempotency-Key` middleware), the queued pipelines (bulk
import, bulk enrichment, the outbox that feeds it), the sequence emails with their
quota, the user's sessions and the cache of the feature gates. File paths below are
relative to the repository.

## 1. The system

TruePoint is a multi-tenant prospecting product: an API (`apps/api`, Hono),
background workers (`apps/workers`, BullMQ over Redis), web front ends, and a
Postgres database reached through repositories (`packages/db`). The logic is in
`packages/core`. A request or a queue job runs one or more Postgres transactions
(READ COMMITTED, row locks where the code takes them), and everything it
remembers between two of them may be stale. There is no other shared memory.

### Inventory

| Component | State | Operations | Hard behaviour | What makes it correct |
|---|---|---|---|---|
| **Credit account** `creditRepository.ts`, `platformAdminWrites.ts`, `rls/billing.sql` | `tenants.reveal_credit_balance` (counter), `subscription_credit_balance` (the bucket that expires), `credit_ledger` | charge, grant, refund, staff adjustment, lease, release, monthly reset, credit-back | many writers under one row lock; redelivered events; CHECKs tested per statement | never overdrawn; counter = sum of the ledger; a key posted once; purchased credits survive resets; the bucket is spent first |
| **Subscription grants** `subscriptionGrantSweep.ts`, `subscriptionRepository.ts` | `billing_cycles` | open a cycle, list due cycles, grant, mark | overlapping sweeps, a list that is stale, cycles that fail for ever | granted once; granted in the end |
| **Bulk reveal** `reveal/bulk/*`, `revealJobRepository.ts`, `queues/bulkReveal.ts` | job row, row outcomes, lease, queue | create, confirm, drive, chunk, pause, resume, cancel, finalize | sibling chunks, redelivery, cancel against finalize, API or worker death between two transactions | lease taken and returned once; the tenant pays what was delivered; a completed job is drained; a running job ends |
| **Single reveal** `revealContact.ts`, `revealCharge.ts` | `contact_reveals`, the contact row | verify, lock, claim, charge | reveals of several types at once; failure after the claim; a contact that gains fields in between | each field paid once; nothing delivered that no claim uncovered or covers |
| **Outreach and bounces** `sendStep.ts`, `handleBounce.ts` | `outreach_log`, suppression list | send, advance, bounce, credit-back | bounces redelivered, at once, or before the send commits | refund once and at most what was charged, but for the races, which are counted |
| **Idempotency-Key** `middleware/idempotency.ts`, `idempotencyRepository.ts` | `idempotency_keys` | claim, replay, take over, finalize, release | retries racing, slow or dead claimants | one charge, one stored answer, no key blocked |
| **Approvals** `admin/routes.ts` | approval requests | file, approve, reject | decided twice | executed once |
| **Outreach dispatch** `schedulerRepository.ts`, `queues/outreach.ts`, `dispatchOutreachSend.ts`, `sendQuotaRepository.ts` | `outreach_log` (status, step, `last_event_at`), `email_send_used` and its window, BullMQ records, the mailbox's token bucket | claim due, enqueue, gate, throttle, defer, send, advance, refund, reply, send by hand | a mail that left and a commit that did not; refunds after the roll-over; a tick against a job still queued, or whose record was evicted; a reply during a send | a window mails its quota; a step is mailed once unless a send was disturbed; delays hold; a reply pauses; every enrollment ends |
| **Worker outbox** `outboxRepository.ts`, `outboxRelay.ts` | `worker_outbox` rows, each relay's batch | enqueue in the caller's transaction, claim, publish, settle, poison | relays that die between publish and settle, two relays with one row | published at least once or poisoned after the last attempt |
| **Bulk import** `runBulkImport.ts`, `bulkProcessChunk.ts`, `queues/bulkImports.ts`, `importReaperSweep.ts` | job, chunks, staging table, contacts, BullMQ records | store, stage, dedup, plan, merge, count, refill, finalize, reap | a continuation that is lost, a drive redelivered half-way, a job run twice | rows_created is the truth; a finished job adds up; the window bounds the queue; every upload ends |
| **Bulk enrichment** `runBulkEnrich.ts`, `bulkProcessEnrichChunk.ts`, `enrichContact.ts` | job, chunks, `provider_calls`, spend | confirm, plan, look, call, record, brake, pause, finalize | a cap that siblings share, a pause against a completion | spend within the cap; the budget's breaker is atomic; a completed run is accounted; a run stops |
| **Sessions** `session.ts`, `refresh.ts`, `createAuthClient.ts`, `refreshElection.ts` | `user_sessions`, the browser's cookie, the tabs' lock and tokens | elect, refresh, rotate, detect reuse, log in, evict, change password | two tabs at once, answers lost or late, logins that overlap | a race signs nobody out; the cap is passed only by those known to get past it; no tab waits for ever |
| Realtime relay | events | publish | best effort | not modelled yet |
| **Feature gates and the read-through cache** `gateMemo.ts`, `cache/readThrough.ts` | memo of each process, generation and entries in Redis, in-flight loads, epochs | read, join, load, store, invalidate one, invalidate all | a stale load written back or joined; an epoch dropped too early; another process's load | nothing read before an invalidation is stored or served after it by the process that invalidated; a retired generation stays retired; staleness ends |
| CRM sync, webhooks, retention, DSAR, dedup, search, scoring, front ends, Forge | various | various | mostly I/O and data transformation | not modelled, section 8 |

Components touch each other through the database and the queue: a reveal, a
bulk job, a purchase, the sweep, staff and a bounce all write the one tenant
row; the bulk job calls the single reveal for each row in `lease` mode (the
claim records the cost, the counter is left to the job); the bounce handler
reads the reveals' claims to find what to refund; the middleware wraps handlers
that charge. Confirming an enrichment run writes the run and its outbox row in one
transaction; the relay turns the row into a BullMQ job; drives fan out into chunk
jobs with stable ids, which BullMQ refuses to add twice while a record is kept. The
tabs of a browser share nothing but a cookie jar, a lock without a compare-and-swap
and a broadcast channel per app. `PROJECT.json` lists the hazards with their lines.

## 2. Modules

    CreditAccount            the account's state and pure operations
      |-- TenantCredits      all writers of one tenant       --implements--> LedgerBook
      |-- BulkReveal         one bulk job, queue and workers --implements--> LeaseContract
      |-- ContactReveal      reveals, send and bounce of one contact
      '-- IdempotentCharge   one key, many attempts
    MoneyLemmas              what the operations preserve, and sums over finite sets (proved)
      '-- TenantCreditsProofs, IdempotentChargeProofs, ContactProofs,
          BulkRevealProofs, EnrichRunProofs

    JobQueue                 a BullMQ queue: stable ids, retries, redelivery, retention
      |-- BulkImport         one COPY import               --proved in-- BulkImportProofs
      |-- EnrichRun          one enrichment run, with    --proved in-- EnrichRunProofs
      |     WorkerOutbox     the outbox and its relays   --proved in-- EnrichRunProofs
      |                      (for any messages; EnrichRun implements it)
      '-- OutreachSend       the sends of one tenant   --proved in-- ContactProofs
                                                   (with ContactReveal)
    Sessions                 one user's sessions, browsers and tabs
    GateCache                one feature flag in the API processes and in Redis
                                               both --proved in-- AccessProofs

    MCTenantCredits, MCBulkReveal, MCContactReveal, MCEnrichRun,   instances for TLC
    MCSessions, MCOutreachSend, MCGateCache, MCBulkImport

* **CreditAccount.** An account is a record: `total` (the counter), `sub` (the
  bucket), `sum` (SUM of ledger deltas), `keys` (the idempotency keys posted).
  An operation is a function from account to account. `Posted` is
  `insertLedger` with its ON CONFLICT DO NOTHING: the sum moves only if the key
  is new, while the counter moves regardless, which is how a double posting
  becomes visible as drift. `Spend` takes the balances as the caller *read*
  them (`seen`) and applies them to the account as it *is*.
* **TenantCredits.** One action per transaction, except that a charge takes the
  row lock and commits in two steps; while `lock` is held nobody else writes
  the row. `due` is the list a sweep read earlier. `ConfirmAndLease`, `Settle`
  and `CancelAwaiting` stand for a bulk job as the account sees it.
* **BulkReveal.** One action per transaction or queue operation: `TakeChunk`
  (reads the job), `ListRows`, `CheckStatus`, `RevealRow`, `RecordRow`,
  `AddProgress`, `CountQueued`, `BuildFile`, `Finalize`. A worker's record
  holds what the chunk's local variables hold. The queue counts messages,
  delivered in any order and again after a worker dies (`WorkerCrash`) or a
  chunk throws (`ChunkFails`). `ApiCrash` loses what a request still owed: the
  rows to insert or the message to enqueue.
* **ContactReveal.** `Verify` (outside any transaction: what the workspace's copy
  holds at that moment, and what Layer 0 adds), `Begin` (the gate, and
  `revealed_at`), `LockContact` (the update that takes the row, and the read of
  what is owned), then `AlreadyClaimed`, `ClaimAndCharge` or `Abort`. What is
  charged and delivered is what `Verify` found (`found`), although `Gain` (an
  import, an enrichment, anything that calls `contactRepository.update`) and the
  copies of Layer 0's values (`Copied`) go on filling the contact. The send is open
  between `Send` and `Advance`; `ReadBounce` and `HandleBounce` are the two halves of
  a bounce handler, of which several may run, and as soon as a mail has left.
* **IdempotentCharge.** The statements of a claim are steps of their own
  (`InsertSentinel`, `FindStale`, `TakeOver`, ...), as READ COMMITTED lets each see
  what others committed in between.
* **JobQueue.** Operators on BullMQ's records, with no state of its own: `Added`
  (ignored for an id that is kept), `Retried` (the attempts of a failing
  processor), `Redelivered` (a stalled job, without spending an attempt), and
  `Expires` (the retention, after which an id can be added again).
* **BulkImport.** A step per transaction or queue call of the API request
  (`CreateRow`, `Store`, `Publish`), the drive (`StartDrive`, `Stage`, `Dedup`,
  `RecordStaged`, `Plan`, `FanOut`, or `Resume`), a chunk (`ReadBand`, `Merge`,
  `CountBand` or `Finalize`, `CleanUp`, `Continue`) and the sweep (`Reap`). `Merge`
  is the whole merge transaction. `LockExpires` lets two workers run one job.
  A loop of `queue.add` calls is one step. `Original` says which earlier row a row
  repeats; the staging table counts the copies of every row and how many of them
  `Dedup` has marked.
* **WorkerOutbox, EnrichRun.** The outbox is a specification of its own for any
  set of messages. `EnrichRun` instantiates it with the drive of one run, and
  conjoins `Publish` with what the registered publisher does.
  `seen` is the chunk's local `runSpent`; `BudgetFree` is the advisory lock, held
  from the check to the record. A contact the cache does not answer costs 1.
* **Sessions.** A session stands for its refresh token: `live`, `revoked` within
  REUSE_GRACE_MS, or `aged`. A tab elects itself in three steps (`Check`, `Write`,
  `Win` or `StandDown`), or refreshes on demand; the server looks the token up
  (`Look`) and then punishes or rotates in a step of its own; the answer arrives
  (`Served`, `Refused`), is lost, or finds the tab closed. A login creates its
  session, lists, evicts and sets the cookie in four steps; `CapFails` is the `catch`
  around the cap, which lets the login stand. `over` counts what got past the cap
  since a login last listed. Clocks are left out:
  `ClaimEnds` and `GraceEnds` may happen whenever the code's constants allow it. A
  request sent with a good cookie is answered within the grace unless the fault
  "slow" says otherwise; only tokens somebody still holds age, since no one can
  present another.
* **OutreachSend.** The tick claims an enrollment and leases it (`ClaimDue`), and
  enqueues a job whose id is the step (`EnqueueStep`, which BullMQ ignores while a
  record of that id is kept: until its age, `Expire`, or until a thousand other jobs
  have completed, `Evict`, at any time then). A job passes the `Gate` (roll, assert and consume under
  the row lock), is `Throttled` and put back under an id of its own (`Defer`), or
  reads its step (`ReadLog`), mails (`Mail`) and commits (`AdvanceStep`); a failure on
  the way goes through `RefundUnit`. `BecomesDue` and `WindowElapses` are the clock.
  A worker's `unit` says what its unit of the quota has become: `held`, `spent` on a
  mail, or `old` once the window rolled over. `DeadlinePasses` and `LockExpires` end
  the attempt and leave its processor running. `SendInline` is the send by hand, which
  knows neither job nor quota. `disturbed` counts what may cost an enrollment a mail.
* `Sessions` and `OutreachSend` each share a proof module with another component, so
  the names that would clash are qualified (`SessionsSpec`, `SendNext`, `SetCookie`,
  `RefundUnit`).
* **GateCache.** A step is what a process does between two awaits. `Enter` captures
  the epoch, `Lookup` asks Redis, `JoinOrLoad`, `Load`, `Store` and `Settle` are the
  miss; `Answer` is the hit. A write commits (`Commit`) and its invalidation follows,
  for one key (`Forget`, `Invalidate`) or for all (`InvalidateAll`). A value is the
  number of the write it shows, so staleness is a comparison.
* **LedgerBook, LeaseContract.** What the ledger and a lease promise, after
  ADR-0029: a book whose counter moves only with new entries and by their
  deltas; a reservation settled once, never above itself or the work's worth.

Definitions headed "Broken variant" are plausible bugs (a missing guard, a
stale read, a swapped order). No specification uses them; substituting one for
its neighbour makes the property named in `PROJECT.json` fail, which shows that
the property depends on that code.

## 3. Runs

Run `tlc -workers 2 -config X.cfg M`. Every run must end without error, except
the two that exhibit a disagreement between code and documentation.

| Run | Bounds | Shows |
|---|---|---|
| `TenantCredits` | 2 charges, 1 purchase, 1 job, 2 cycles, 2 sweeps, 1 adjustment of -2 or +3 | `LedgerInv` (the inductive invariant: never overdrawn, counter equal to the ledger, cycles marked with their grant), refinement of `LedgerBook`, `ResetKeepsPurchased`, `SubscriptionFirst`, and `CycleGrantedUnlessStuck` |
| `BulkReveal` | 1 worker, 3 rows in bands of 2, one row another user may reveal, one that gains its field after the estimate, one pause and resume, one worker death | the lease covers all that the estimate could see, a completed job is drained and its file whole, a stopped job stops, `RunningJobEnds` |
| `BulkRevealFaults` | 2 workers, 3 rows in bands of 1, cancel, one fault of any kind; workers symmetric | the ledger reconciles, refinement of `LeaseContract`, and what siblings, a cancel and a redelivered band leave unpaid is at most a band per worker and fault |
| `ContactReveal` | 2 requests, each for an email or a full profile, fields gained at any time, Layer-0 values, a sequence of 2 steps, 2 bounce handlers that may overlap and run early; `Abort` stands for any failure, lack of credits included | each field paid once, everything delivered accounted, refunds within charges but for a charge per race, counter and ledger part by no more, every reveal ends |
| `IdempotentCharge` | 3 attempts, up to 2 faults of 5 kinds | the claim invariant, one charge unless cut off after it, first response stands, answers were charged, no key blocked |
| `BulkImport` | 2 workers, a file of 0 or 2 bands of one row, the second a repeat of the first, a window of 1, up to 2 faults of 4 kinds | `ImportInv` (created is the truth, a completed band has landed), a finished job reconciles, the window holds, every upload ends unless hit where nothing heals it |
| `EnrichRun` | 2 workers, 1 relay, 3 contacts in bands of 2, several caps and daily budgets, 1 fault of 5 kinds | `RunInv` (the outbox is sound, the day's budget is never overshot on record, the drive is never stranded), the cap, a completed run reconciles, a run stops |
| `Sessions` | 2 browsers, 2 tabs of one app in the first, 2 logins under a cap of 1, 2 expiries, 5 sessions, 1 fault of 6 kinds (an enforcement of the cap that fails is one) | rotation races are forgiven, between logins no more sessions than the cap and those that got past it, waiting tabs are served |
| `OutreachSend` | 1 enrollment of 2 steps, a quota of 1, 2 workers, 1 deferral, 1 fault of 8 kinds, or 1 evicted record, or 1 send by hand | `QuotaAccounts`, a step mailed once per disturbance, `ScheduleKept` (delays hold, a reply pauses), every enrollment ends |
| `GateCache` | 2 processes, 2 requests in one and 1 in the other, each again and again, 1 write, for one tenant or for all, 1 fault of 3 kinds | `CacheInv` (no stale write-back, retired generations, one load that counts), no stale answer after an invalidation, staleness ends |

Why the bounds suffice. Two is what an interleaving of one kind needs: two
holders of a lock, two sweeps, two claimants; a third attempt is there because
a takeover's victim, its taker and a newcomer are three. Three rows in bands of
two give a full and a short band, a status check inside a band (every row, for
the code's 25), a sibling and a last row. Amounts are chosen apart so that a
wrong one is seen: an allotment of 2 against a charge of 2 and a pack of 2, a
lease ceiling of 3 that spans bucket and purchased credits, prices 1, 3 and 4.
An adjustment of -2 exceeds what is purchased in some states, so the clamp is
exercised. In `ContactReveal` two requests of either type are what a shared field
needs, two handlers and two steps what a race of bounces needs: two that read at
once, or a mail whose send writes its status after the bounce, and a second
notification for the next. The contact starts with any fields it may hold. The other parameters in a `.cfg` that bound counters are
`MaxFaults`, `MaxResumes` and `Steps`. `BulkReveal` was also checked with no rows at
all (the drive finalizes at once). In `BulkRevealFaults` the bands have one row, so that
what a job leaves unpaid is several bands and the bound of `UnpaidIsBounded` is tight:
with one band less it fails. Its three properties were also checked with bands of two
of which one row gains its field after the estimate (225 thousand states), and with two
rows, a pause and a resume, and the same faults (850 thousand), where resuming puts two
chunks over one band.

For the pipelines: a window of 1 over two bands makes the refill necessary; the
second row repeats the first, so that a repeat and its original are in bands
that different workers may have; two
faults let a worker die and its redelivery be hit again (the import's safety was also
checked with three bands of which one is already a contact, 864 thousand states, and its
end with a rejected row, 353 thousand); a run whose last contact
is a paid miss (`Dry`) tells spend from cache entries; a cap below the run's price
and a budget below the cap make each brake the one that stops. The safety of
`EnrichRun` was also checked with two faults (6.2 million states). The real
`maxStalledCount` is 2 for imports and sends and 1 for enrichment; the instances use 1. In
`Sessions` two logins with a cap of one are what overlapping evictions need, and
`Tabs` may be given different apps in `MCSessions`, which then never share a token.

`OutreachSend` has a quota of one under two workers, so that every second send meets
a full window, and two steps, so that a redelivered send may find the next one. One
eviction or one send by hand per run: each is counted by `disturbed`, and the theorem
is about any number. Its safety was also checked with two enrollments (of two steps and one) under two workers
without faults (3.0 million states). `GateCache` needs two readers of one process for
joining and for the count of readers, and the third for what another process may
store; its safety was also checked with two writes and the two readers of one process.

`CHECK_DEADLOCK FALSE` in every configuration: each instance has finitely many
requests and really stops when they are answered.

### Disagreements between the code and what it says

Two runs are expected to fail, each with its one property:

| Run | Property | What happens |
|---|---|---|
| `StuckCycle` | `OpenCycleIsGranted` | The reset lowers the total before the bucket. The CHECK `sub <= total` is tested after each statement, so a tenant whose unused allotment exceeds its purchased credits can never be reset. |
| `FreeReveal` | `NoFreeReveal` | The tally is added when the band ends; a cancel before that returns what the band has spent. |

Thirteen more configurations stand beside them and fail in the same way; each takes
seconds, and each is the limit of a property above that holds:

| Configuration (module) | Property | What happens |
|---|---|---|
| `LeaseTooSmall` (`MCBulkReveal`) | `EstimateIsWorstCase` | The estimate counts the fields contacts have when the job is created, and not what Layer 0 holds; the chunk reveals what they have by then. The reveals are worth more than the lease (`estimate.ts:37`: "the worst-case estimate"), and nobody pays the difference. |
| `DoubleCreditBack` (`MCContactReveal`) | `OneCreditBack` | Two bounce handlers read the enrollment before either commits, or a send's `advance` writes over `bounced`: the counter is credited twice under one ledger key (`handleBounce.ts:33`, against 78-79). |
| `DuplicateByEviction` (`MCOutreachSend`) | `NeverSentTwice` | A throttled attempt completes its job; the record is evicted by count while the deferral waits; the tick adds the step again and it is mailed twice (`tracedQueue.ts:49`, against `register.ts:1156-1157` and `retryPolicies.ts:36-42`). |
| `DedupCountedTwice` (`MCBulkImport`) | `BucketsAddUp` | A drive dies after its bookkeeping; the next stages the file again into the same table, and the dedup counts the repeats of both copies (`runBulkImport.ts:250`, against 239 and `importJobRepository.ts:567`). |
| `ConfirmBeforeRows` (`MCBulkReveal`) | `CompletedMeansDrained` | The job can be confirmed and completed before its rows are inserted (`createRevealJob.ts:73`). |
| `PhoneRefunded` (`MCContactReveal`) | `OnlyEmailRefunded` | `revealed_at` is the start of the transaction, the row lock orders the commits; the earliest claim may be the phone-only one (`outreachLogRepository.ts:199`, against 182-184). |
| `GainedField` (`MCContactReveal`) | `DeliveredIsUncovered` | A contact gains its email after a full profile that found only the phone was charged. The claim owns both fields by its type, so the next full profile delivers the email and charges nothing; `ownedRevealFields` documents that ownership goes by type (`revealRepository.ts:197-215`), so no text contradicts it. |
| `BrakeLost` (`MCEnrichRun`) | `BrakeSticks` | The last chunk re-reads the status and writes `completed` in another transaction: a sibling's pause in between is lost (`bulkProcessEnrichChunk.ts:233`, against 225-229). |
| `LostCount` (`MCBulkImport`) | `ChunksCountedOnce` | A worker dies after the merge commits and before the count: the redelivered chunk is skipped, so the counter never reaches the total and the job never finalizes (`bulkImports.ts:185-188`, against `bulkProcessChunk.ts:33-35`). |
| `DoubleCharge` (`IdempotentCharge`) | `ChargedOnce` | The process dies after the charge and before the response is stored; the retry charges under a fresh key (`companyRoutes.ts:143`, against 88-90). |
| `FamilyRevoked` (`MCSessions`) | `ValidClientsNeverReplay` | A login elsewhere evicts this browser's session; its tab presents the cookie it still has after the grace, and the whole family is revoked, the new login included (`session.ts:214`, against 190-191: "a valid client never presents a revoked one"). |
| `ReplyOverwritten` (`MCOutreachSend`) | `ReplySticks` | A reply is recorded while a send is under way; `advance` writes `active` over `replied` and the sequence goes on (`outreachLogRepository.ts:104`, against `schedulerRepository.ts:7-8`). No fault is needed. |
| `StaleMemo` (`MCGateCache`) | `LandsOnNextRequest` | A request that read the flag before the write sets the memo of its process after the invalidation, for up to five seconds (`gateMemo.ts:82`, against `admin/routes.ts:1361-1363`). |

Change a constant to see their variants. `NoFreeReveal` also fails with two
workers and no buttons (a sibling finalizes first) and with
`Faults = {"worker"}` (the redelivered band finds the contact owned, price 0).
`RunningJobEnds` fails with `Faults = {"api"}`:
the lease commits and the drive is never enqueued; nothing reaps such a job.
`ChargedOnce` fails with any one of `{"finalize"}`, `{"slow"}` and, with three
attempts, `{"handler"}` (a claim is released between a rival's INSERT conflict
and its SELECT, and the rival runs with no row), and holds with `{}` and
`{"crash_before"}`. A lease released after a reset can leave the bucket above
the new allotment: credits of last month survive it. That breaks no documented
rule of the account and is not a run.

What else the newer models show, stated as conditions of their properties:

* *Import.* A drive that dies between the COPY and its bookkeeping stages the file
  again; dedup compares line numbers, so both copies of a surviving line stay, and
  the merge of a new contact fails on `uniq_contacts_ws_email` or counts a known one
  twice. A job that stays `validating` is not the reaper's, and a drive the API
  added is kept for ever when it fails (`removeOnFail: false`), so its id cannot be
  added again. A job executed twice after its lock expired is counted twice and may
  finalize early.
* *Enrichment.* Row locks end with the claim (`outboxRepository.ts:55-100`), so two
  relays may publish one row; the stable id absorbs it while the record is kept. A
  provider is called inside the contact's transaction, so a rollback loses the record
  of a paid call. A worker that dies between `Mark` and the end leaves a run
  `running` for good, which the comment at `bulkProcessEnrichChunk.ts:225-229` does
  not expect; a drive that fails for good does too.
* *Sessions.* Neither `rotate` nor `revoke` asks whether the row is live: two
  requests that both looked the token up before either rotated leave two live
  sessions, one of them unheld, and a rotation of a session already chosen for
  eviction escapes the cap. So does a login whose enforcement fails: the `catch` lets
  it stand, on purpose (`session.ts:97-99`). Two overlapping logins under a cap of one evict each
  other. A fault of the database clears the cookie (`route.ts:53-57`).
  `changePassword` keeps the session it read at its start, which a tab may have
  rotated by then: this browser is signed out too.
* *Outreach.* A worker that dies, a deadline or a lost lock after the mail and before
  the commit has the retry mail the step again; after the commit, the retry mails the
  *next* step at once, without its delay. A refund in a window that rolled over since,
  or after the mail left, lets the window mail one more than its quota. A throttle
  that cannot reach Redis throws outside the refund (`dispatchOutreachSend.ts:67`), and
  the unit is burnt. A step whose job failed for good is not enqueued again until its
  record expires (a week), because the id is still there.
* *Bounces.* The refund is per enrollment and its key too. A contact enrolled in two
  sequences has two `outreach_log` rows, and a bounce of each gives the same charge
  back; the model has one enrollment.
* *Gates.* Epochs guard the process that invalidates: another process may store what
  it loaded before the write, and serve it until the entry expires. A generation that
  cannot be read counts as 0, so an outage may read and fill generation 0.

## 4. Fairness

* `TenantCredits`: a transaction that holds the row ends (weak); the sweep, a
  repeatable BullMQ job, runs again and takes failing cycles in turn (weak);
  a grant possible again and again succeeds (strong, per sweep and cycle:
  Postgres queues those who wait for the row). Nobody has to charge, buy,
  approve or open a cycle.
* `BulkReveal`: a request that began inserts its rows and enqueues its message,
  unless the API dies; a worker takes what is queued and continues (weak).
  Buttons and faults are never forced; a redelivery is a message in the queue.
* `ContactReveal`: a request runs on (weak) and gets the row when it is free
  again and again (strong, Postgres queues waiters).
* `IdempotentCharge`: a server process runs on unless it dies, a refused client
  asks again, time passes (weak). Nothing forces a first request.
* `BulkImport`: a request goes on, a worker's process runs (a crash is a fault and
  frees the worker), waiting jobs are taken, BullMQ enforces its retention, and the
  reaper, a repeatable job, runs every minute (all weak).
* `EnrichRun`: relays poll every second, a worker's process runs, waiting jobs are
  taken (weak). Nobody has to confirm; retention need not happen.
* `Sessions`: a tab's timer fires and its request is answered (weak, per tab: one
  of its steps, the server's or the answer's); a claim ends by LOCK_TTL_MS and a
  grace by REUSE_GRACE_MS (weak). Nobody has to log in, close or change anything.

* `OutreachSend`: the clock moves, the tick runs every minute, a worker's process runs
  and takes waiting jobs (weak); retention is by the clock, whatever happens in between
  (strong, per record). Nobody has to reply, and the throttle need not refuse.
* `GateCache`: a request or an invalidation that began goes on, memos and entries
  expire (weak). Nobody has to ask or to write.

## 5. Proofs

`tlapm M.tla` checks each module. The assumptions on constants
(`AmountsAssumption`, `CyclesAssumption`, `NoClaimAssumption`,
`IdempotencyAssumption`, `RevealsAssumption`, `FilesAssumption`, `LimitsAssumption`,
`RunAssumption`, `SizesAssumption`, `SelectionAssumption`, `GateAssumption`,
`UserAssumption`, `OutreachAssumption`) say only that amounts and limits are naturals,
cycles numbers, bands among those of the longest file, requests, workers and processes
finitely many, the null values no members, a sequence has a step, the quota is
positive, and the browsers that start signed in have a session each and are no more
than the cap allows.
Besides these, one theorem has a hypothesis (`CompletedIsDrained`: nobody confirms a job
before its rows exist).

* **MoneyLemmas**: each operation, applied to a sound and balanced account with a key
  not yet posted, gives a sound and balanced account and posts exactly its keys. And
  sums over finite sets: `SumOver(f, S)` is the fold the models use. That it has a table
  of partial sums follows from the principle that a nonempty set of numbers has a least
  one (`LeastNumber`, `SmallestSet`), and from the table what a sum does when one
  summand changes or the set grows, and how it is bounded.
* **TenantCreditsProofs**: `LedgerInv` is inductive. Soundness and balance
  alone are not: a repeated key would move the counter and not the sum. So the
  invariant carries `KeysFollowStatus` (a key is not posted before its record
  reaches the status that posts it), `HolderIsCurrent` (what the lock holder
  read is what the row holds, because nobody else writes) and
  `GrantsAreLedgered`. From it: `NeverOverdrawn`, `NoDrift`,
  `CycleGrantedOnce`, and, as properties of steps, `ImplementsBook`
  (refinement of `LedgerBook`), `ResetLeavesPurchased` and `PerishableGoesFirst` (a
  spend takes the bucket before what was bought); for any number of charges,
  purchases, jobs, cycles, sweeps and adjustments, and any amounts.
* **IdempotentChargeProofs**: `ClaimInv` is inductive. `ChargedOnceUnlessCutOff`
  rests on `OneClaimant`: while nothing was cut off there is one working
  attempt, behind a fresh sentinel, and whoever was charged is it or has
  stored its answer. Also `NoEmptyAnswer` and `StoredStands`; for any number
  of attempts and faults.
* **ContactProofs**, on `ContactReveal`: `OwnershipInv` is inductive. `FieldPaidOnce` needs
  that the row has one holder, that what it read as owned stays true until it
  commits, and that the fields owned by type are the fields uncovered by the
  claims. Also `DeliveredIsAccounted`; for any number of requests and prices.
  What a claim owns by type was uncovered by some claim or had not been found by it
  (`Owned` within `Uncovered` and `Unseen`), whatever the contact gained since: that is
  why a field gained later is delivered for nothing, and why nothing else is.
  `RefundWithinCharges` and `DriftIsBounded` add the money (`MoneyInv`), for any bounces,
  early, late or at once: the earliest claim's cost is part of what was charged, and
  the credit-backs are at most one more than the races (`CreditsPerRace`). A race is
  counted where it starts: a handler that reads an enrollment another one has read or
  is about to credit, and a send whose status write puts a `bounced` enrollment back.
  Only the second credit-back and those after it find their key taken (`Repeated`), and
  by so much counter and ledger part. `DoubleCreditBack.cfg` shows that a race is real.
* **BulkImportProofs**: `IInv` is inductive and gives `ImportTruth` (`ImportInv`) and
  `WindowIsABound` (`WindowHolds`), for any files, windows, workers and faults. The
  first needs that staging happens before bands and that a completed band has
  landed (`Untouched`, `StagedFirst`, `Landed`). The second is the harder one: the
  live bands are always among the `Window` lowest unfinished ones (`LowestLive`),
  so no count of messages is needed; `LowestBound` bounds the size of that set, and
  a band that completes only lets others move up. `FinishedIsReconciled` is about runs
  in which no lock was outlived and no drive died before it recorded what it staged
  (`Clean`, the condition of the property): every worker then holds its lock (`Alone`),
  so one drive stages at a time (`OneDrive`); the count never passes the finished bands
  that nobody has still to count (`Counted`), so the last count finds all of them
  finished; and with k recorded stagings every counter is k times the rows it stands
  for (`Accounts`), until the table is dropped, except `rows_deduped`, to which the
  j-th staging adds the repeats of j copies (`Marks`). So no row is missing from the
  buckets, and they are exact when the file has no repeats or was staged once, which
  it was unless a drive died with its bands unplanned (`Once`).
* **BulkRevealProofs**: the lease and its release post their keys once, from the
  status that the job's row pins (`KeysFollow`), so the counter equals the ledger;
  `Memories` and `Unlooked` bound what a worker reveals after a stop by what is left of
  its check interval. Completion is the hardest: a running job's rows are written
  (`Written`), and a worker that is past its count, building the file or finalizing,
  leaves no row queued, since nothing queues a row again (`Worked`, `Follows`). It
  needs that nobody confirms a job before its rows exist: `ConfirmBeforeRows`
  shows what happens otherwise, and the theorem `CompletedIsDrained` says so.
  The money: what is booked and what the workers have yet to book never exceed the
  worth of the rows revealed, and equal it unless something broke (`SpentInv`, a sum
  over the workers against one over the rows); from it `KeepsLeaseContract` (refinement
  of `LeaseContract`), `LeaseCovers` (`CoverInv`: what the job could own and the
  estimate saw was priced into the lease; the rest of its worth is `LateWorth`, of
  contacts that gained their field since) and `UnpaidIsFewBands` (`LoadInv`: a settled
  job has spent its lease, or what was spent and what is still to be booked exceed what
  was paid by at most what its workers may still hold, `Burden`; the one that finalizes
  holds nothing; and each death or failure takes one band's share). The last two hold
  for any workers, redeliveries and late fields.
* **EnrichRunProofs**: first the outbox, for any messages, relays and number of
  attempts, through an instance of `WorkerOutbox` whose messages are parameters
  (`AtLeastOnceOrPoison`): a message held by a relay or sent belongs to a row that was
  written (`NothingOfNone`) and a row is marked sent only by a relay whose publish
  returned (`SentAccepted`). `RelaysImplementOutbox` is the run's refinement of it.
  `RunIsSafe` gives `RunInv` from `RelayInv` (what the outbox and its relays hold),
  `DriveInv` (a confirmed run keeps its drive in the outbox or in the queue, short of a
  poisoned row or a used-up drive: `DriveKept`, `LockLostByStall`) and `BudgetInv`
  (whoever is at a vendor holds the day's lock alone and had budget left when it asked).
  `CeilingHolds` is `CapHolds` for any number of siblings: calls made are at most the
  recorded spend, those in flight and one lost per fault, and from the ceiling on each
  worker that has not noticed adds at most one, the one that reached it none (`CapInv`).
  `RunIsReconciled` is `RunReconciles`: in a run that no fault touched but a contact's or
  a relay's, each band has one worker (`Exclusive`), the ledger has a row for exactly
  the contacts of the bands that are logged, and spend is what was charged plus what
  workers still owe (`Books`).
* **AccessProofs**, on `GateCache`: `GateInv` is inductive and gives `CacheIsSafe` (`CacheInv`) and the
  step property `AnswersAreFresh`. `NoStaleWriteBack` alone is not inductive: what a
  load will store is decided when it captured its epoch. So the invariant says of every
  request what it may still store or hand on (`Reading`), of everyone who joined a load
  that it is as new as they need (`Joining`), and of every load that can still be joined
  that it is as new as what its process knows (`Linked`); `Bounded` keeps what Redis
  holds behind what is committed. For any processes, requests, writes and faults.
* **AccessProofs**, on `Sessions`: `RaceInv` is inductive and gives `SessionsInv`
  (`RacesForgiven`) and `SessionCapHolds` (`CapIsKept`), for any browsers, tabs, logins
  and faults. That a cookie is good says nothing of what a late answer may overwrite it
  with. So while nothing happened from outside, the invariant says in whose hands each
  live session is: a token in flight was good when it was sent and is not past its
  grace (`InGrace`), a successor under way and a new login's session are in nobody
  else's hands (`Successors`, `Entrances`), and a cookie's token is presented by its own
  browser's tabs only (`Apart`). A race is then between tabs of one browser, whose
  cookie the winner has replaced or is about to. The cap is a count: the live sessions
  that no login has chosen to evict are at most `Cap`, one for each login that has
  still to list, and those that got past the cap since one listed (`over`, `CapInv`): a
  rotation that revives a session, an enforcement that failed open. Every login creates
  its session before it lists, so the one that lists last sees all of them and restores
  the bound.
* **ContactProofs**, on `OutreachSend`: `SendInv` is inductive, for any enrollments,
  lengths, quota, workers and faults, and has three parts. `WindowInv` gives
  `QuotaAccounts` (`QuotaIsKept`): a unit of the window is mailed, held by a send, lost
  or given back by mistake, and a send that is over holds none. `MailInv` gives
  `MailedOncePerDisturbance` (`MailedOnce`): an enrollment's chances to send (jobs that
  wait, and jobs that a tick may still add, `InReach`) and the workers with a send of it
  are at most one more than its disturbances (`OneSend`), and a mail is paid for by one
  of these that leaves the count (`OneMail`). A disturbance is a fault that cuts off a
  send, a record evicted while its deferral waits, which puts its id in reach again, or
  a send by hand, which no job knows of: each adds one chance at most. The hard part is a
  worker whose lock was lost and that writes its step late, over a later one: it moves
  the enrollment backwards and puts ids in reach again, so `OneMail` also counts the
  workers that are `Behind` a step. `DelayInv` gives the step property `ScheduleKept`
  (`ScheduleIsKept`): while the delay of a step runs, an undisturbed enrollment has no
  send under way and no job that waits (`Resting`), which is why nothing mails it early.

## 6. Only model-checked

Every safety property and every property of steps in the passing runs is the
conclusion of a theorem of section 5. What remains with TLC is liveness
(`CycleGrantedUnlessStuck`, `RunningJobEnds`, `RevealEnds`, `KeyNeverBricked`,
`ImportEnds`, `RunEnds`, `TabsAreServed`, `EnrollmentsEnd`, `StalenessEnds`), which is
out of the prover's reach together with ENABLED. So is induction over data with an
operator as its parameter; the sums above go around it by arguing about a smallest
counterexample. Each inductive invariant was checked by TLC on an instance before it
was proved; `SendInv` on instances of 0.9 and 1.5 million states. The properties of the
runs that are expected to fail, and of the configurations beside them, are false.

## 7. Abstractions

Amounts are integers without a width (the columns are Postgres integers, where
an overflow is an error that rolls the transaction back). A verifier's grade is usable or not; a bulk row's price
is the unit cost or nothing. Only reveals of one contact contend for its row, so
`BulkReveal` reveals a row in one step. Expired idempotency keys (30 days),
approval expiry and the maker-checker rule are left out. The sweep's limit of 500
cycles is above the model's two. An import's bands have one row each and all rows
of a file are staged or none; a run happens within one day of the budget; a session
does not expire. The sends are those of one tenant with a quota, from one mailbox, of
sequences that stay active; the delay of a step, the lease of a claim and the window of
the quota end at any time. The cache holds one flag of one tenant; its time to live may
end at any time. Signature checks, parsing, events to browsers,
audit rows and logging are left out, since they change no state read here.

## 8. Not modelled, and the plan

Built so far, most important first: the account and its writers, the bulk reveal,
the single reveal with its refund, the middleware, the import, the enrichment run
with its outbox, the sessions, the sequence sends, the gate cache, and the proofs of
section 5.

Parts of modelled components that are left out, with the reason:

* *Credits*: the opening-balance backfill of tenants older than the ledger, and the
  sweep's limit (500 cycles that always fail would starve newer ones).
* *Bulk reveal*: `requeueFailedRows` and `updateJobStatus`, which nothing calls.
* *Import*: fast mode (the rows travel in the payload; one transaction per row), the
  AV gate and the `overwrite` and `keep_both` policies (more branches of `Merge` with
  the same concurrency), fairness deferrals, the files of rejected rows.
* *Enrichment*: the order of providers in the waterfall, circuit breakers (state of
  one process), the single-contact route, WATERFALL_V2 (off by default).
* *Sessions*: the Redis deny-list (it shortens the life of access tokens, which are
  not modelled), expiry and idle limits (no action depends on more than the clock),
  tenant suspension, logout, switches, the extension's tokens, admin revocation.
* *Outreach*: the console sender behind the `email.send` flag (no quota, no throttle),
  several mailboxes (the token bucket is one atomic script; its refusals are free
  here), sequences paused in between (one more reason for `NothingLeaves`), a quota changed
  by staff, the record of the sent message (best effort, after everything else).
* *Cache*: the entitlement basis of `gateMemo.ts` (the same layers under another key),
  and the search, pricing and home reads (a key each, with a version in the key where
  they have one).

What would follow, in order:

1. `BulkReveal` over `WorkerOutbox`, the design that would close its lost-drive gap,
   and over `JobQueue`.
2. `OutreachSend` composed with the bounce handler of `ContactReveal`: a bounce and a
   reply for one enrollment, which both write its status.
3. The realtime outbox and its relay, over `WorkerOutbox`'s pattern.

Left out for good: entity resolution (real-valued weights), search, scoring and
projections (queries), front ends, CRM sync, webhooks and retention (mostly calls to
outside services or batch deletes), Forge (a separate product with a database of its
own), and third-party services, modelled only as what they may do to the code here (a
verifier's answer, a redelivered message, a bounce, a provider's miss).
