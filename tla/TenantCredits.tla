---------------------------- MODULE TenantCredits ----------------------------
(***************************************************************************)
(* The writers of one tenant's credit account, interleaved: reveals and    *)
(* billable API calls (core/reveal/revealContact.ts, api/public-api), bulk *)
(* reveal leases and releases (revealJobRepository.ts), Stripe purchases   *)
(* (grantFromEvent), approved staff adjustments and refunds                *)
(* (platformAdminWrites.ts, admin/routes.ts), and the monthly grant sweep  *)
(* (subscriptionGrantSweep.ts).  The credit-back of a bounce, which reads  *)
(* the reveals it gives back, is in ContactReveal.                         *)
(*                                                                         *)
(* A step is a committed transaction, except where a transaction waits on  *)
(* the tenant row: a spender takes the row lock in one step and commits in *)
(* another, and while it holds the lock no other writer can touch the row. *)
(* The sweep reads its list of due cycles in a transaction of its own, so  *)
(* the list can be stale when a cycle is granted, and the leader lock that *)
(* should keep sweeps apart can expire under a slow holder: Sweeps may     *)
(* therefore overlap.                                                      *)
(***************************************************************************)
EXTENDS CreditAccount

CONSTANTS
  Claims,       \* reveals and API calls that will be charged
  Purchases,    \* Stripe checkout events
  Jobs,         \* bulk reveal jobs
  Cycles,       \* billing cycles, numbered in period order
  Sweeps,       \* runs of the grant sweep
  Approvals,    \* credit_adjust requests in the approvals queue
  SignupBonus,  \* plan_templates.trial_bonus_credits
  Cost,         \* credits a claim costs
  Pack,         \* credits of a purchase
  Ceiling,      \* worst case a job reserves
  Allotment,    \* the plan's monthly grant
  Deltas,       \* the amounts staff adjust by
  NoClaim       \* nobody holds the tenants row

ASSUME AmountsAssumption ==
  /\ SignupBonus \in Nat
  /\ Cost \in Nat \ {0}
  /\ Pack \in Nat \ {0}
  /\ Ceiling \in Nat
  /\ Allotment \in Nat
  /\ Deltas \subseteq Int

ASSUME CyclesAssumption == Cycles \subseteq Nat

ASSUME NoClaimAssumption == NoClaim \notin Claims

VARIABLES
  account,      \* the tenants row and its ledger
  lock,         \* the claim whose transaction holds the tenants row, or NoClaim
  seen,         \* what that transaction read under the lock
  claim,        \* contact_reveals: "absent" or "charged"
  purchase,     \* purchases.status, "absent" before the row exists
  job,          \* reveal_jobs: status and what was leased
  cycle,        \* billing_cycles.status, "absent" before the row exists
  due,          \* the cycles each sweep run still has to grant
  approval      \* approval_requests.status

vars == <<account, lock, seen, claim, purchase, job, cycle, due, approval>>

AwaitingJob == [status |-> "awaiting", leased |-> 0, leasedSub |-> 0]

\* Broken variant: the balance is read without FOR UPDATE, so nobody waits.
NobodyWaits == TRUE

\* The tenant row is not held FOR UPDATE by another transaction.
RowFree == lock = NoClaim

(***************************************************************************)
(* provisionNewOrg seeds the counter and posts the signup grant.           *)
(***************************************************************************)
NewTenant ==
  IF SignupBonus > 0
  THEN Grant(EmptyAccount, <<"signup">>, SignupBonus)
  ELSE EmptyAccount

Init ==
  /\ account  = NewTenant
  /\ lock     = NoClaim
  /\ seen     = EmptyAccount
  /\ claim    = [c \in Claims |-> "absent"]
  /\ purchase = [p \in Purchases |-> "absent"]
  /\ job      = [j \in Jobs |-> AwaitingJob]
  /\ cycle    = [c \in Cycles |-> "absent"]
  /\ due      = [s \in Sweeps |-> {}]
  /\ approval = [a \in Approvals |-> "pending"]

(***************************************************************************)
(* Reveals and billable API calls.                                         *)
(***************************************************************************)

\* The claim row is inserted and SELECT ... FOR UPDATE returns the balance.
LockBalance(c) ==
  /\ claim[c] = "absent"
  /\ RowFree
  /\ lock' = c
  /\ seen' = account
  /\ UNCHANGED <<account, claim, purchase, job, cycle, due, approval>>

Charge(c) ==
  /\ lock = c
  /\ CanCover(seen, Cost)
  /\ account' = Spend(account, seen, <<"reveal", c>>, Cost)
  /\ claim' = [claim EXCEPT ![c] = "charged"]
  /\ lock' = NoClaim
  /\ seen' = EmptyAccount
  /\ UNCHANGED <<purchase, job, cycle, due, approval>>

\* InsufficientCreditsError, or any other failure before COMMIT: the claim
\* row goes with the rest of the transaction.
Rollback(c) ==
  /\ lock = c
  /\ lock' = NoClaim
  /\ seen' = EmptyAccount
  /\ UNCHANGED <<account, claim, purchase, job, cycle, due, approval>>

(***************************************************************************)
(* Stripe purchases and their refunds.                                     *)
(***************************************************************************)

\* Broken variant: a redelivered event is granted again.
GrantFromEventAgain(p) ==
  /\ RowFree
  /\ purchase' = [purchase EXCEPT ![p] = "completed"]
  /\ account' = Grant(account, <<"grant", p>>, Pack)
  /\ UNCHANGED <<lock, seen, claim, job, cycle, due, approval>>

\* The insert into purchases wins once per event: a redelivery is a no-op.
GrantFromEvent(p) ==
  /\ RowFree
  /\ purchase[p] = "absent"
  /\ purchase' = [purchase EXCEPT ![p] = "completed"]
  /\ account' = Grant(account, <<"grant", p>>, Pack)
  /\ UNCHANGED <<lock, seen, claim, job, cycle, due, approval>>

RefundPurchase(p) ==
  /\ RowFree
  /\ purchase[p] = "completed"
  /\ purchase' = [purchase EXCEPT ![p] = "refunded"]
  /\ account' = Refund(account, <<"refund", p>>, Pack)
  /\ UNCHANGED <<lock, seen, claim, job, cycle, due, approval>>

(***************************************************************************)
(* Staff adjustments: a second operator approves, and the money moves in   *)
(* the transaction that marks the request executed.                        *)
(***************************************************************************)

ApproveAdjust(a, delta) ==
  /\ RowFree
  /\ approval[a] = "pending"
  /\ ~WouldOverdraw(account, delta)
  /\ approval' = [approval EXCEPT ![a] = "executed"]
  /\ account' = Adjust(account, <<"approval", a>>, delta)
  /\ UNCHANGED <<lock, seen, claim, purchase, job, cycle, due>>

RejectAdjust(a) ==
  /\ approval[a] = "pending"
  /\ approval' = [approval EXCEPT ![a] = "rejected"]
  /\ UNCHANGED <<account, lock, seen, claim, purchase, job, cycle, due>>

(***************************************************************************)
(* Bulk reveal jobs: one lease, one release, each behind a status pin.     *)
(***************************************************************************)

ConfirmAndLease(j) ==
  /\ RowFree
  /\ job[j].status = "awaiting"
  /\ CanCover(account, Ceiling)
  /\ job' = [job EXCEPT ![j] = [status    |-> "running",
                                leased    |-> Ceiling,
                                leasedSub |-> LeasedFromSub(account, Ceiling)]]
  /\ account' = Lease(account, <<"lease", j>>, Ceiling)
  /\ UNCHANGED <<lock, seen, claim, purchase, cycle, due, approval>>

\* finalizeAndRelease and cancelAndRelease: `spent` is whatever credit_spent
\* has reached by then.
Settle(j, spent) ==
  /\ RowFree
  /\ job[j].status = "running"
  /\ job' = [job EXCEPT ![j].status = "settled"]
  /\ account' = Release(account, <<"release", j>>,
                        job[j].leased, job[j].leasedSub, spent)
  /\ UNCHANGED <<lock, seen, claim, purchase, cycle, due, approval>>

CancelAwaiting(j) ==
  /\ job[j].status = "awaiting"
  /\ job' = [job EXCEPT ![j].status = "settled"]
  /\ UNCHANGED <<account, lock, seen, claim, purchase, cycle, due, approval>>

(***************************************************************************)
(* Subscription cycles: the webhook opens them, the sweep grants them.     *)
(***************************************************************************)

\* Idempotent on (subscription, period_start).
OpenCycle(c) ==
  /\ cycle[c] = "absent"
  /\ cycle' = [cycle EXCEPT ![c] = "open"]
  /\ UNCHANGED <<account, lock, seen, claim, purchase, job, due, approval>>

\* Broken variant: only the newest cycle is looked at.
ReadDueNewest(s) ==
  /\ due[s] = {}
  /\ due' = [due EXCEPT ![s] =
       {c \in Cycles : cycle[c] = "open" /\ \A d \in Cycles : cycle[d] # "absent" => d <= c}]
  /\ due' # due
  /\ UNCHANGED <<account, lock, seen, claim, purchase, job, cycle, approval>>

ReadDue(s) ==
  /\ due[s] = {}
  /\ due' = [due EXCEPT ![s] = {c \in Cycles : cycle[c] = "open"}]
  /\ due' # due
  /\ UNCHANGED <<account, lock, seen, claim, purchase, job, cycle, approval>>

NextDue(s, c) == c \in due[s] /\ \A d \in due[s] : c <= d

\* applyMonthlyReset and markGranted commit together, if the row passes its
\* CHECKs after each statement.
GrantCycle(s, c) ==
  /\ NextDue(s, c)
  /\ RowFree
  /\ cycle[c] = "open"
  /\ ResetFits(account)
  /\ account' = MonthlyReset(account, <<"sub_reset_expiry", c>>,
                             <<"sub_grant", c>>, Allotment)
  /\ cycle' = [cycle EXCEPT ![c] = "granted"]
  /\ due' = [due EXCEPT ![s] = @ \ {c}]
  /\ UNCHANGED <<lock, seen, claim, purchase, job, approval>>

\* The transaction, which like GrantCycle first waits for the row, fails: a
\* CHECK on the row, the billing_cycles trigger that refuses to mark a granted
\* cycle again, or any other error.  The cycle stays as it is and the sweep
\* goes on with the next one.
CycleFails(s, c) ==
  /\ NextDue(s, c)
  /\ RowFree
  /\ due' = [due EXCEPT ![s] = @ \ {c}]
  /\ UNCHANGED <<account, lock, seen, claim, purchase, job, cycle, approval>>

Next ==
  \/ \E c \in Claims : LockBalance(c) \/ Charge(c) \/ Rollback(c)
  \/ \E p \in Purchases : GrantFromEvent(p) \/ RefundPurchase(p)
  \/ \E a \in Approvals : RejectAdjust(a) \/ \E d \in Deltas : ApproveAdjust(a, d)
  \/ \E j \in Jobs : \/ ConfirmAndLease(j)
                     \/ CancelAwaiting(j)
                     \/ \E spent \in 0..Ceiling : Settle(j, spent)
  \/ \E c \in Cycles : OpenCycle(c)
  \/ \E s \in Sweeps : \/ ReadDue(s)
                       \/ \E c \in Cycles : GrantCycle(s, c) \/ CycleFails(s, c)

Spec == Init /\ [][Next]_vars

(***************************************************************************)
(* Fairness.  A transaction that holds the row ends (statement timeouts),  *)
(* the sweep is a repeatable job, so it runs again and again, and a cycle  *)
(* that failed stays open for the next run: an attempt that is possible    *)
(* again and again succeeds in the end.                                    *)
(***************************************************************************)
Fairness ==
  /\ \A c \in Claims : WF_vars(Charge(c) \/ Rollback(c))
  /\ \A s \in Sweeps :
       /\ WF_vars(ReadDue(s) \/ \E c \in Cycles : CycleFails(s, c))
       /\ \A c \in Cycles : SF_vars(GrantCycle(s, c))

LiveSpec == Spec /\ Fairness

-----------------------------------------------------------------------------
(***************************************************************************)
(* Properties.                                                             *)
(***************************************************************************)

Statuses == {"awaiting", "running", "settled"}

\* The idempotency keys the writers use.
Keys ==
  {<<"signup">>}
    \cup ({"grant", "refund"} \X Purchases)
    \cup ({"reveal"} \X Claims)
    \cup ({"lease", "release"} \X Jobs)
    \cup ({"sub_reset_expiry", "sub_grant"} \X Cycles)
    \cup ({"approval"} \X Approvals)

\* Types of the state the repositories keep.
TypeOK ==
  /\ account \in Accounts(Keys)
  /\ seen \in Accounts(Keys)
  /\ lock \in Claims \cup {NoClaim}
  /\ claim \in [Claims -> {"absent", "charged"}]
  /\ purchase \in [Purchases -> {"absent", "completed", "refunded"}]
  /\ job \in [Jobs -> [status : Statuses, leased : Nat, leasedSub : Nat]]
  /\ cycle \in [Cycles -> {"absent", "open", "granted"}]
  /\ due \in [Sweeps -> SUBSET Cycles]
  /\ approval \in [Approvals -> {"pending", "executed", "rejected"}]

(***************************************************************************)
(* The inductive invariant.                                                *)
(***************************************************************************)

\* The holder of the row sees it as it is, and has not been charged.
HolderIsCurrent ==
  lock # NoClaim => seen = account /\ claim[lock] = "absent"

\* A key is not in the ledger before the record it belongs to has reached the
\* status that posts it.
Unposted(status, key, before) == status \in before => key \notin account.keys

KeysFollowStatus ==
  /\ \A c \in Claims : Unposted(claim[c], <<"reveal", c>>, {"absent"})
  /\ \A p \in Purchases :
       /\ Unposted(purchase[p], <<"grant", p>>, {"absent"})
       /\ Unposted(purchase[p], <<"refund", p>>, {"absent", "completed"})
  /\ \A j \in Jobs :
       /\ Unposted(job[j].status, <<"lease", j>>, {"awaiting"})
       /\ Unposted(job[j].status, <<"release", j>>, {"awaiting", "running"})
  /\ \A c \in Cycles : \A kind \in {"sub_reset_expiry", "sub_grant"} :
       Unposted(cycle[c], <<kind, c>>, {"absent", "open"})
  /\ \A a \in Approvals : Unposted(approval[a], <<"approval", a>>, {"pending"})

GrantsAreLedgered ==
  \A c \in Cycles :
    cycle[c] = "granted" /\ Allotment > 0 => <<"sub_grant", c>> \in account.keys

LedgerInv ==
  /\ TypeOK
  /\ Sound(account)
  /\ Balanced(account)
  /\ HolderIsCurrent
  /\ KeysFollowStatus
  /\ GrantsAreLedgered

(***************************************************************************)
(* Safety and liveness.                                                    *)
(***************************************************************************)

\* The CHECK constraints on tenants (rls/billing.sql) never fire: whatever the
\* order of spends, leases, releases, resets, refunds and adjustments, the
\* counter is not overdrawn and the perishable bucket stays inside it.
AccountSound == Sound(account)

\* billing-recon finds no drift: the counter is SUM(credit_ledger.delta)
\* after every transaction of every writer.
LedgerReconciles == Balanced(account)

\* The credit repository implements the ledger book of ADR-0029: the counter
\* moves only with new entries and by their deltas.
Book == INSTANCE LedgerBook WITH total <- account.total,
                                 sum   <- account.sum,
                                 keys  <- account.keys

ImplementsLedgerBook == Book!Spec

\* ADR-0041: the monthly reset never touches purchased credits, whatever was
\* spent, leased or refunded since the cycle was listed as due.
ResetKeepsPurchased ==
  [][\A c \in Cycles :
       cycle[c] # "granted" /\ cycle'[c] = "granted"
         => Purchased(account') = Purchased(account)]_vars

\* ADR-0041: a spend or a lease takes purchased credits only once the
\* perishable bucket is empty.
SpendKinds == {"reveal", "lease"}

SubscriptionFirst ==
  [][(/\ \E key \in account'.keys \ account.keys : key[1] \in SpendKinds
      /\ Purchased(account') < Purchased(account))
     => account'.sub = 0]_vars

\* A granted cycle is in the ledger once, and no open cycle is: two sweep
\* runs with the same cycle on their lists grant it once.
GrantedIffLedgered ==
  Allotment > 0 =>
    \A c \in Cycles : cycle[c] = "granted" <=> <<"sub_grant", c>> \in account.keys

\* Every opened cycle is granted in the end, though sweeps fail on it, overlap,
\* and wait for reveals that hold the row; unless the row's CHECK keeps the
\* reset from fitting (ResetFits).
CycleGrantedUnlessStuck ==
  \A c \in Cycles :
    cycle[c] = "open" ~> (cycle[c] = "granted" \/ ~ResetFits(account))

\* rls/billing.sql: every mutation of the row, the monthly reset included,
\* preserves its CHECKs; so nothing but a passing failure keeps an open cycle
\* from its grant.
OpenCycleIsGranted ==
  \A c \in Cycles : cycle[c] = "open" ~> cycle[c] = "granted"

=============================================================================
