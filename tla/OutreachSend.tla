---------------------------- MODULE OutreachSend ----------------------------
(***************************************************************************)
(* The sequence scheduler and the sends of one tenant: the tick that       *)
(* claims enrollments whose next step is due and enqueues a job for each   *)
(* (schedulerRepository.ts, register.ts), the outreach jobs that pass the  *)
(* send gate (dispatchOutreachSend.ts, sendQuotaRepository.ts), send       *)
(* through the provider and advance the enrollment (sendStep.ts), the send *)
(* by hand that advances it without the queue (routes.ts), and the reply   *)
(* that pauses it (recordInboundReply.ts).                                 *)
(*                                                                         *)
(* A step of a worker is one transaction, one queue call or one call of    *)
(* the provider.  The tenant has the real send path and a quota, one       *)
(* mailbox, and sequences that stay active.  One action claims one         *)
(* enrollment: the tick claims its batch in a statement and enqueues it    *)
(* row by row.                                                             *)
(***************************************************************************)
EXTENDS Integers, FiniteSets

CONSTANTS
  Logs,        \* the enrollments (outreach_log rows)
  Length,      \* how many steps each one's sequence has
  Quota,       \* email_send_quota
  Workers,     \* runs of the outreach processor, and sends by hand, that may overlap
  MaxStalled,  \* maxStalledCount
  MaxDefers,   \* bound: how often an enrollment's sends are throttled
  FaultKinds,  \* what may break: "redis", "send", "refund", "late", "commit",
               \* "crash", "deadline", "stall"; and what a send is bounded by like
               \* a fault: "evict", "inline"
  MaxFaults    \* bound: how often

\* Job <<l, k>> is seqstep:<l>:<k> for a step k; the numbers above are the jobs a
\* throttled send is put back as, which BullMQ gives ids of its own.
Ids == UNION {{l} \X (1 .. Length[l] + MaxDefers) : l \in Logs}

ASSUME OutreachAssumption ==
  /\ {MaxStalled, MaxDefers, MaxFaults} \subseteq Nat
  /\ Quota \in Nat \ {0}
  /\ Logs # {} /\ IsFiniteSet(Workers)
  /\ Length \in [Logs -> Nat \ {0}]

VARIABLES
  log,        \* the outreach_log row: status and current_step
  clock,      \* its last_event_at against now: the step's "delay" runs, it is
              \* "due", or it is "leased" to a tick
  claimed,    \* the step a tick has claimed and not enqueued, or 0
  queue,      \* BullMQ's record of each id
  worker,     \* what each worker is doing
  quota,      \* email_send_used, and whether the window has elapsed
  mails,      \* history: the window's mails, by the window that paid for them
  lost,       \* history: the window's units that nobody holds or gives back
  wrong,      \* history: units given back although they were spent or stale
  mailed,     \* history: how often each step was mailed
  disturbed,  \* history: faults that left a send of the enrollment half done, jobs'
              \* records evicted while it was under way, and sends by hand
  faults      \* how often something broke

enrollmentVars == <<log, clock, claimed>>
counted    == <<quota, mails, lost, wrong>>
history    == <<mailed, disturbed, faults>>
sendVars       == <<enrollmentVars, queue, worker, counted, history>>

BullMQ == INSTANCE JobQueue

Someone == CHOOSE i \in Ids : TRUE
Free == [pc |-> "idle", id |-> Someone, owned |-> FALSE, step |-> 0,
         unit |-> "none", deferred |-> FALSE]

SendInit ==
  /\ log = [l \in Logs |-> [status |-> "enrolled", step |-> 0]]
  /\ clock = [l \in Logs |-> "delay"]
  /\ claimed = [l \in Logs |-> 0]
  /\ queue = [i \in Ids |-> BullMQ!Absent]
  /\ worker = [w \in Workers |-> Free]
  /\ quota = [used |-> 0, elapsed |-> FALSE]
  /\ mails = 0 /\ lost = 0 /\ wrong = 0
  /\ mailed = [l \in Logs |-> [s \in 1 .. Length[l] |-> 0]]
  /\ disturbed = [l \in Logs |-> 0]
  /\ faults = 0

NoFault == UNCHANGED <<disturbed, faults>>

Break(kind) ==
  /\ kind \in FaultKinds
  /\ faults < MaxFaults
  /\ faults' = faults + 1

\* A fault that does not disturb a send.
BreakCleanly(kind) == Break(kind) /\ UNCHANGED disturbed

BreakSend(kind, l) ==
  /\ Break(kind)
  /\ disturbed' = [disturbed EXCEPT ![l] = @ + 1]

(***************************************************************************)
(* Time, the tick and the reply.                                           *)
(***************************************************************************)

\* Broken variant: every enrollment that is not completed is claimed.
ClaimableUnlessDone(l) == log[l].status # "completed" /\ log[l].step < Length[l]

Claimable(l) == log[l].status \in {"enrolled", "active"} /\ log[l].step < Length[l]

\* The step's delay, or the tick's lease, is over.
BecomesDue(l) ==
  /\ Claimable(l)
  /\ clock[l] # "due"
  /\ clock' = [clock EXCEPT ![l] = "due"]
  /\ NoFault
  /\ UNCHANGED <<log, claimed, queue, worker, counted, mailed>>

WindowElapses ==
  /\ ~quota.elapsed
  /\ quota' = [quota EXCEPT !.elapsed = TRUE]
  /\ NoFault
  /\ UNCHANGED <<enrollmentVars, queue, worker, mails, lost, wrong, mailed>>

ClaimDue(l) ==
  /\ claimed[l] = 0
  /\ Claimable(l)
  /\ clock[l] = "due"
  /\ claimed' = [claimed EXCEPT ![l] = log[l].step + 1]
  /\ clock' = [clock EXCEPT ![l] = "leased"]
  /\ NoFault
  /\ UNCHANGED <<log, queue, worker, counted, mailed>>

Attempts == 2

\* Broken variant: the job has no id of its step.
EnqueueAnonymously(l) ==
  /\ claimed[l] # 0
  /\ \E i \in Ids : /\ i[1] = l /\ queue[i].st = "absent"
                    /\ queue' = BullMQ!Added(queue, {i}, Attempts, FALSE)
  /\ claimed' = [claimed EXCEPT ![l] = 0]
  /\ NoFault
  /\ UNCHANGED <<log, clock, worker, counted, mailed>>

\* The id of the job is its step: add ignores it while a record is kept.
EnqueueStep(l) ==
  /\ claimed[l] # 0
  /\ queue' = BullMQ!Added(queue, {<<l, claimed[l]>>}, Attempts, FALSE)
  /\ claimed' = [claimed EXCEPT ![l] = 0]
  /\ NoFault
  /\ UNCHANGED <<log, clock, worker, counted, mailed>>

\* A failed add does not throw: the lease will end.
EnqueueFails(l) ==
  /\ claimed[l] # 0
  /\ claimed' = [claimed EXCEPT ![l] = 0]
  /\ BreakCleanly("redis")
  /\ UNCHANGED <<log, clock, queue, worker, counted, mailed>>

\* setReplied: a person has answered a mail.  (It stamps last_event_at too, which
\* nothing reads while the row is replied.)
Reply(l) ==
  /\ \E s \in 1 .. Length[l] : mailed[l][s] > 0
  /\ log[l].status \in {"enrolled", "active"}
  /\ log' = [log EXCEPT ![l].status = "replied"]
  /\ NoFault
  /\ UNCHANGED <<clock, claimed, queue, worker, counted, mailed>>

(***************************************************************************)
(* The queue's side of a worker.                                           *)
(***************************************************************************)
LogOf(w)       == worker[w].id[1]
Running(w, pc) == worker[w].pc = pc
Goto(w, pc)    == worker' = [worker EXCEPT ![w].pc = pc]
Holds(w)       == worker[w].unit = "held"

\* Something of the enrollment is under way.
UnderWay(l) ==
  \/ claimed[l] # 0
  \/ \E i \in Ids : i[1] = l /\ BullMQ!Live(queue[i])
  \/ \E w \in Workers : ~Running(w, "idle") /\ LogOf(w) = l

Take(w, i) ==
  /\ Running(w, "idle")
  /\ queue[i].st = "waiting"
  /\ queue' = [queue EXCEPT ![i].st = "active"]
  /\ worker' = [worker EXCEPT ![w] =
       [Free EXCEPT !.pc = "gate", !.id = i, !.owned = TRUE]]
  /\ NoFault
  /\ UNCHANGED <<enrollmentVars, counted, mailed>>

\* The worker's job ends with record r, unless it is no longer the worker's.
Ends(w, r) ==
  /\ worker' = [worker EXCEPT ![w] = Free]
  /\ queue' = IF worker[w].owned THEN [queue EXCEPT ![worker[w].id] = r] ELSE queue

Record(w) == queue[worker[w].id]

Finish(w) ==
  /\ Running(w, "done")
  /\ Ends(w, [BullMQ!Absent EXCEPT !.st = "completed"])
  /\ NoFault
  /\ UNCHANGED <<enrollmentVars, counted, mailed>>

\* The processor has thrown.
Fail(w) ==
  /\ Running(w, "fail")
  /\ Ends(w, BullMQ!Retried(Record(w)))
  /\ NoFault
  /\ UNCHANGED <<enrollmentVars, counted, mailed>>

WorkerDies(w) ==
  /\ ~Running(w, "idle")
  /\ Ends(w, BullMQ!Redelivered(Record(w)))
  /\ lost' = IF Holds(w) THEN lost + 1 ELSE lost
  /\ BreakSend("crash", LogOf(w))
  /\ UNCHANGED <<enrollmentVars, quota, mails, wrong, mailed>>

\* withDeadline fails the attempt, or the lock expires; the processor runs on.
Orphaned(w, kind, r) ==
  /\ worker[w].owned
  /\ queue' = [queue EXCEPT ![worker[w].id] = r]
  /\ worker' = [worker EXCEPT ![w].owned = FALSE]
  /\ BreakSend(kind, LogOf(w))
  /\ UNCHANGED <<enrollmentVars, counted, mailed>>

DeadlinePasses(w) == /\ worker[w].pc \notin {"done", "fail"}
                     /\ Orphaned(w, "deadline", BullMQ!Retried(Record(w)))
LockExpires(w) == Orphaned(w, "stall", BullMQ!Redelivered(Record(w)))

\* A completed job's record is kept for a day, a failed one's for a week.
Expire(i) ==
  /\ i[2] <= Length[i[1]]
  /\ BullMQ!Expires(queue[i])
  /\ ~UnderWay(i[1])
  /\ queue' = [queue EXCEPT ![i] = BullMQ!Absent]
  /\ NoFault
  /\ UNCHANGED <<enrollmentVars, worker, counted, mailed>>

\* Of the completed jobs only the last thousand are kept, and a throttled one is
\* completed: its record may go while its deferral waits, or while a tick has claimed
\* the step again.
Evict(i) ==
  /\ i[2] <= Length[i[1]]
  /\ queue[i].st = "completed"
  /\ UnderWay(i[1])
  /\ queue' = [queue EXCEPT ![i] = BullMQ!Absent]
  /\ BreakSend("evict", i[1])
  /\ UNCHANGED <<enrollmentVars, worker, counted, mailed>>

(***************************************************************************)
(* The gate: dispatchOutreachSend and the quota.                           *)
(***************************************************************************)

\* Broken variant: nothing resets the window.
UsedEver == quota.used

\* What the window has used, when it is rolled over first.
Used == IF quota.elapsed THEN 0 ELSE quota.used

WithinQuota == Used + 1 <= Quota

\* A unit of a window that is over.
Aged(u) == IF u \in {"held", "spent"} /\ quota.elapsed THEN "old" ELSE u

\* One transaction under the row lock: roll, assert, consume.
Gate(w) ==
  /\ Running(w, "gate")
  /\ WithinQuota
  /\ quota' = [used |-> Used + 1, elapsed |-> FALSE]
  /\ worker' = [v \in Workers |->
       IF v = w THEN [worker[w] EXCEPT !.pc = "throttle", !.unit = "held"]
       ELSE [worker[v] EXCEPT !.unit = Aged(@)]]
  /\ IF quota.elapsed THEN mails' = 0 /\ lost' = 0 /\ wrong' = 0
     ELSE UNCHANGED <<mails, lost, wrong>>
  /\ NoFault
  /\ UNCHANGED <<enrollmentVars, queue, mailed>>

\* The gate's transaction rolls back: over the quota, or no identity to send as.
GateRefuses(w) ==
  /\ Running(w, "gate")
  /\ Goto(w, "fail")
  /\ \/ ~WithinQuota /\ NoFault
     \/ BreakCleanly("send")
  /\ UNCHANGED <<enrollmentVars, queue, counted, mailed>>

Deferrals(l) == {l} \X (Length[l] + 1 .. Length[l] + MaxDefers)
Unused(l)    == {i \in Deferrals(l) : queue[i].st = "absent"}

Deferring(l) == {w \in Workers : /\ worker[w].pc \in {"refund", "defer"}
                                /\ worker[w].deferred /\ LogOf(w) = l}

\* Broken variant: the unit of a throttled send is not given back.
ThrottledUnrefunded(w) ==
  /\ Running(w, "throttle")
  /\ Cardinality(Deferring(LogOf(w))) < Cardinality(Unused(LogOf(w)))
  /\ worker' = [worker EXCEPT ![w].pc = "defer", ![w].deferred = TRUE]
  /\ NoFault
  /\ UNCHANGED <<enrollmentVars, queue, counted, mailed>>

Throttled(w) ==
  /\ Running(w, "throttle")
  /\ Cardinality(Deferring(LogOf(w))) < Cardinality(Unused(LogOf(w)))
  /\ worker' = [worker EXCEPT ![w].pc = "refund", ![w].deferred = TRUE]
  /\ NoFault
  /\ UNCHANGED <<enrollmentVars, queue, counted, mailed>>

\* The token bucket is out of reach: the unit is not given back.
ThrottleFails(w) ==
  /\ Running(w, "throttle")
  /\ lost' = IF Holds(w) THEN lost + 1 ELSE lost
  /\ worker' = [worker EXCEPT ![w].pc = "fail", ![w].unit = "none"]
  /\ BreakCleanly("redis")
  /\ UNCHANGED <<enrollmentVars, queue, quota, mails, wrong, mailed>>

AfterRefund(w) == IF worker[w].deferred THEN "defer" ELSE "fail"

\* release: floored at zero, in whatever window it finds.
Released == IF quota.used > 0 THEN quota.used - 1 ELSE 0

RefundUnit(w) ==
  /\ Running(w, "refund")
  /\ quota' = [quota EXCEPT !.used = Released]
  /\ wrong' = IF Holds(w) \/ quota.used = 0 THEN wrong ELSE wrong + 1
  /\ worker' = [worker EXCEPT ![w].pc = AfterRefund(w), ![w].unit = "none",
                              ![w].step = 0]
  /\ NoFault
  /\ UNCHANGED <<enrollmentVars, queue, mails, lost, mailed>>

\* The failure of a refund is swallowed.
RefundFails(w) ==
  /\ Running(w, "refund")
  /\ lost' = IF Holds(w) THEN lost + 1 ELSE lost
  /\ worker' = [worker EXCEPT ![w].pc = AfterRefund(w), ![w].unit = "none",
                              ![w].step = 0]
  /\ BreakCleanly("refund")
  /\ UNCHANGED <<enrollmentVars, queue, quota, mails, wrong, mailed>>

\* reEnqueue: a new job, with an id nothing deduplicates.
Defer(w) ==
  /\ Running(w, "defer")
  /\ \E i \in Unused(LogOf(w)) :
       /\ \A j \in Unused(LogOf(w)) : i[2] <= j[2]
       /\ queue' = BullMQ!Added(queue, {i}, Attempts, FALSE)
  /\ Goto(w, "done")
  /\ NoFault
  /\ UNCHANGED <<enrollmentVars, counted, mailed>>

DeferFails(w) ==
  /\ Running(w, "defer")
  /\ Goto(w, "fail")
  /\ BreakCleanly("redis")
  /\ UNCHANGED <<enrollmentVars, queue, counted, mailed>>

(***************************************************************************)
(* The send: sendStep.                                                     *)
(***************************************************************************)

\* The throttle allows it; the transaction reads the enrollment, without a lock,
\* and its next step.
ReadLog(w) ==
  /\ Running(w, "throttle")
  /\ worker' = [worker EXCEPT
       ![w].step = log[LogOf(w)].step + 1,
       ![w].pc = IF log[LogOf(w)].step < Length[LogOf(w)] THEN "mail" ELSE "refund"]
  /\ NoFault
  /\ UNCHANGED <<enrollmentVars, queue, counted, mailed>>

\* Nothing has left: the contact is suppressed, the database or provider fails.
NothingLeaves(w) ==
  /\ worker[w].pc \in {"throttle", "mail"}
  /\ Goto(w, "refund")
  /\ BreakCleanly("send")
  /\ UNCHANGED <<enrollmentVars, queue, counted, mailed>>

\* The provider accepts the mail.
Leaves(w, pc) ==
  /\ Running(w, "mail")
  /\ mailed' = [mailed EXCEPT ![LogOf(w)][worker[w].step] = @ + 1]
  /\ mails' = IF Holds(w) THEN mails + 1 ELSE mails
  /\ worker' = [worker EXCEPT ![w].pc = pc,
                              ![w].unit = IF Holds(w) THEN "spent" ELSE @]
  /\ UNCHANGED <<enrollmentVars, queue, quota, lost, wrong>>

Mail(w) == Leaves(w, "advance") /\ NoFault

\* It accepts it and its answer is lost.
MailUnheard(w) == Leaves(w, "refund") /\ BreakSend("late", LogOf(w))

\* The commit that overwrites the status and the step.
AdvanceStep(w) ==
  /\ Running(w, "advance")
  /\ log' = [log EXCEPT ![LogOf(w)] =
       [status |-> IF worker[w].step < Length[LogOf(w)] THEN "active" ELSE "completed",
        step |-> worker[w].step]]
  /\ clock' = [clock EXCEPT ![LogOf(w)] = "delay"]
  /\ worker' = [worker EXCEPT ![w].pc = "done", ![w].unit = "none", ![w].step = 0]
  /\ NoFault
  /\ UNCHANGED <<claimed, queue, counted, mailed>>

AdvanceFails(w) ==
  /\ Running(w, "advance")
  /\ worker[w].unit # "none"
  /\ Goto(w, "refund")
  /\ BreakSend("commit", LogOf(w))
  /\ UNCHANGED <<enrollmentVars, queue, counted, mailed>>

\* POST /log/:id/send: sendStep in the request, whatever the status, without a job,
\* the gate or a real mail; AdvanceStep commits it, or the request dies.
SendInline(w, l) ==
  /\ Running(w, "idle")
  /\ log[l].step < Length[l]
  /\ worker' = [worker EXCEPT ![w] =
       [Free EXCEPT !.pc = "advance", !.id = <<l, log[l].step + 1>>,
                    !.step = log[l].step + 1]]
  /\ BreakSend("inline", l)
  /\ UNCHANGED <<enrollmentVars, queue, counted, mailed>>

(***************************************************************************)
(* The specification.                                                      *)
(***************************************************************************)
Tick(l) == ClaimDue(l) \/ EnqueueStep(l)

Runs(w) ==
  \/ Gate(w) \/ GateRefuses(w) \/ Throttled(w) \/ RefundUnit(w) \/ Defer(w)
  \/ ReadLog(w) \/ Mail(w) \/ AdvanceStep(w) \/ Finish(w) \/ Fail(w)

Breaks(w) ==
  \/ ThrottleFails(w) \/ RefundFails(w) \/ DeferFails(w) \/ NothingLeaves(w)
  \/ MailUnheard(w) \/ AdvanceFails(w)
  \/ WorkerDies(w) \/ DeadlinePasses(w) \/ LockExpires(w)

SendNext ==
  \/ WindowElapses
  \/ \E l \in Logs : BecomesDue(l) \/ Tick(l) \/ EnqueueFails(l) \/ Reply(l)
  \/ \E i \in Ids : Expire(i) \/ Evict(i) \/ \E w \in Workers : Take(w, i)
  \/ \E w \in Workers : Runs(w) \/ Breaks(w) \/ \E l \in Logs : SendInline(w, l)

SendSpec == SendInit /\ [][SendNext]_sendVars

\* The clock moves, the tick runs every minute, retention is enforced, workers
\* take jobs and go on with them.  Nobody has to reply.
LiveSends ==
  /\ SendSpec
  /\ WF_sendVars(WindowElapses)
  /\ \A l \in Logs : WF_sendVars(BecomesDue(l)) /\ WF_sendVars(Tick(l))
  /\ \A i \in Ids : SF_sendVars(Expire(i))
  /\ \A w \in Workers : WF_sendVars(Runs(w)) /\ WF_sendVars(\E i \in Ids : Take(w, i))

(***************************************************************************)
(* Properties.                                                             *)
(***************************************************************************)
SendTyped ==
  /\ log \in [Logs -> [status : {"enrolled", "active", "completed", "replied"},
                       step : Nat]]
  /\ \A l \in Logs : log[l].step <= Length[l] /\ claimed[l] \in 0 .. Length[l]
  /\ clock \in [Logs -> {"delay", "due", "leased"}]
  /\ queue \in [Ids -> BullMQ!Records]
  /\ worker \in [Workers ->
       [pc : {"idle", "gate", "throttle", "refund", "defer", "mail",
              "advance", "done", "fail"},
        id : Ids, owned : BOOLEAN, step : Nat, deferred : BOOLEAN,
        unit : {"none", "held", "spent", "old"}]]
  /\ quota \in [used : Nat, elapsed : BOOLEAN]
  /\ {mails, lost, wrong, faults} \subseteq Nat
  /\ disturbed \in [Logs -> Nat]

InFlight == Cardinality({w \in Workers : Holds(w)})

\* sendQuotaRepository.ts: under concurrent sends, roll-overs and refunds, a
\* window mails no more than its quota and what was refunded by mistake (a mail
\* that left, a unit of the window before); and a failed send burns nothing, but
\* for units lost with a worker or a refund.
QuotaAccounts ==
  /\ SendTyped
  /\ quota.used <= Quota
  /\ mails <= Quota + wrong
  /\ quota.used <= mails + InFlight + lost

\* retryPolicies.ts: each disturbance of a send (a fault that cuts it off, a record
\* evicted meanwhile, a send by hand) makes one mail more of a step at worst, and
\* without one every step is mailed once, however often the tick claims it and the
\* throttle puts it back.
MailedOncePerDisturbance ==
  \A l \in Logs : \A s \in 1 .. Length[l] : mailed[l][s] <= 1 + disturbed[l]

\* What register.ts:1156-1157 says of the step's id: a step is never sent twice.
NeverSentTwice == \A l \in Logs : \A s \in 1 .. Length[l] : mailed[l][s] <= 1

\* A step mailed while its delay runs, of an enrollment none of whose sends was
\* disturbed.
MailedEarly(l) == mailed'[l] # mailed[l] /\ clock[l] = "delay" /\ disturbed[l] = 0

Paused(l) == log[l].status = "replied" /\ ~UnderWay(l)

\* schedulerRepository.ts: the delay of a step is preserved, whatever waits in
\* the queue, unless a send of the enrollment was disturbed; and once no job of it
\* is left, a reply pauses the enrollment until somebody sends by hand.
ScheduleKept ==
  [][\A l \in Logs :
       /\ ~MailedEarly(l)
       /\ Paused(l) => UNCHANGED <<log[l], claimed[l], mailed[l]>>]_sendVars

\* What schedulerRepository.ts:7-8 says: a reply pauses the enrollment.
ReplySticks ==
  [][\A l \in Logs : log[l].status = "replied" => log'[l].status = "replied"]_sendVars

\* schedulerRepository.ts: whatever fails, an enrollment is retried until all its
\* steps are sent or a reply pauses it.
EnrollmentsEnd ==
  \A l \in Logs : <>[](log[l].status \in {"completed", "replied"})

=============================================================================
