------------------------- MODULE TenantCreditsProofs -------------------------
(***************************************************************************)
(* The credit account is sound and reconciles for any number of reveals,   *)
(* purchases, jobs, cycles, sweeps and approvals, and any amounts.         *)
(*                                                                         *)
(* The argument is the same for every writer.  Its transaction moves the   *)
(* counter and posts an entry of the same delta; that keeps the account    *)
(* balanced only if the entry's key is fresh, because ON CONFLICT DO       *)
(* NOTHING drops a repeated one.  A key is fresh because the status pin of *)
(* the record it belongs to (KeysFollowStatus) lets each status change     *)
(* happen once; and the account a spender subtracts from is the one it     *)
(* read, because it holds the row (HolderIsCurrent).                       *)
(***************************************************************************)
EXTENDS TenantCredits, MoneyLemmas

\* A new tenant starts with its signup grant in the ledger.
LEMMA InitInv == Init => LedgerInv
  <1> SUFFICES ASSUME Init PROVE LedgerInv OBVIOUS
  <1>1. Good(Keys, EmptyAccount)
    BY DEF Good, Accounts, Sound, Balanced, EmptyAccount
  <1>2. <<"signup">> \in Keys /\ <<"signup">> \notin EmptyAccount.keys
    BY DEF Keys, EmptyAccount
  <1>7. SignupBonus \in Nat
    BY AmountsAssumption DEF AmountsAssumption
  <1>3. Good(Keys, NewTenant) /\ NewTenant.keys \subseteq {<<"signup">>}
    <2>1. CASE SignupBonus > 0
      BY <1>7, <1>1, <1>2, <2>1, GrantGood DEF NewTenant, EmptyAccount, Advances
    <2>2. CASE ~(SignupBonus > 0)
      BY <1>1, <2>2 DEF NewTenant, EmptyAccount
    <2>3. QED BY <2>1, <2>2
  <1>4. TypeOK
    BY <1>1, <1>3 DEF Init, TypeOK, Good, AwaitingJob, Statuses
  <1>5. Sound(account) /\ Balanced(account)
    BY <1>3 DEF Init, Good
  <1>6. KeysFollowStatus
    BY <1>3 DEF Init, KeysFollowStatus, Unposted
  <1>8. QED
    BY <1>4, <1>5, <1>6 DEF Init, LedgerInv, HolderIsCurrent, GrantsAreLedgered

LEMMA ChargeInv ==
  ASSUME LedgerInv, NEW c \in Claims, Charge(c)
  PROVE  /\ LedgerInv'
         /\ Advances(Keys, account, account', {<<"reveal", c>>})
  <1>1. Good(Keys, account) /\ seen = account /\ lock = c /\ lock # NoClaim
    BY NoClaimAssumption DEF NoClaimAssumption, LedgerInv, TypeOK, Good, HolderIsCurrent, Charge
  <1>2. /\ <<"reveal", c>> \in Keys
        /\ <<"reveal", c>> \notin account.keys
        /\ CanCover(account, Cost) /\ Cost \in Nat
    BY <1>1, AmountsAssumption
    DEF Keys, LedgerInv, HolderIsCurrent, KeysFollowStatus, Unposted, Charge,
        AmountsAssumption
  <1>3. /\ Advances(Keys, account, account', {<<"reveal", c>>})
    BY <1>1, <1>2, SpendGood DEF Charge
  <1>4. TypeOK'
    BY <1>3 DEF LedgerInv, Advances, TypeOK, Charge, Good, EmptyAccount, Accounts
  <1>5. KeysFollowStatus'
    BY <1>3 DEF LedgerInv, Advances, TypeOK, KeysFollowStatus, Unposted, Charge
  <1>6. GrantsAreLedgered'
    BY <1>3 DEF LedgerInv, Advances, GrantsAreLedgered, Charge
  <1>7. QED
    BY <1>3, <1>4, <1>5, <1>6 DEF LedgerInv, Advances, HolderIsCurrent, Charge, Good


\* Taking the row, letting it go and a failed reset leave the account alone.
LEMMA HoldInv ==
  ASSUME LedgerInv,
         \/ \E c \in Claims : LockBalance(c) \/ Rollback(c)
         \/ \E a \in Approvals : RejectAdjust(a)
         \/ \E c \in Cycles : OpenCycle(c)
         \/ \E s \in Sweeps : ReadDue(s) \/ \E c \in Cycles : CycleFails(s, c)
         \/ \E j \in Jobs : CancelAwaiting(j)
  PROVE  LedgerInv' /\ account' = account
  <1>1. CASE \E c \in Claims : LockBalance(c) \/ Rollback(c)
    BY <1>1 DEF LedgerInv, TypeOK, HolderIsCurrent, KeysFollowStatus, Unposted,
                GrantsAreLedgered, LockBalance, Rollback, EmptyAccount, Accounts
  <1>2. CASE \E a \in Approvals : RejectAdjust(a)
    BY <1>2 DEF LedgerInv, TypeOK, HolderIsCurrent, KeysFollowStatus, Unposted,
                GrantsAreLedgered, RejectAdjust
  <1>3. CASE \E c \in Cycles : OpenCycle(c)
    BY <1>3 DEF LedgerInv, TypeOK, HolderIsCurrent, KeysFollowStatus, Unposted,
                GrantsAreLedgered, OpenCycle
  <1>4. CASE \E s \in Sweeps : ReadDue(s) \/ \E c \in Cycles : CycleFails(s, c)
    BY <1>4 DEF LedgerInv, TypeOK, HolderIsCurrent, KeysFollowStatus, Unposted,
                GrantsAreLedgered, ReadDue, CycleFails
  <1>5. CASE \E j \in Jobs : CancelAwaiting(j)
    BY <1>5 DEF LedgerInv, TypeOK, HolderIsCurrent, KeysFollowStatus, Unposted,
                GrantsAreLedgered, CancelAwaiting, Statuses
  <1>6. QED BY <1>1, <1>2, <1>3, <1>4, <1>5

LEMMA GrantFromEventInv ==
  ASSUME LedgerInv, NEW p \in Purchases, GrantFromEvent(p)
  PROVE  /\ LedgerInv'
         /\ Advances(Keys, account, account', {<<"grant", p>>})
  <1>1. Good(Keys, account) /\ lock' = NoClaim
    BY DEF LedgerInv, TypeOK, Good, GrantFromEvent, RowFree
  <1>2. /\ <<"grant", p>> \in Keys
        /\ <<"grant", p>> \notin account.keys
        /\ Pack \in Nat
    BY AmountsAssumption DEF AmountsAssumption, Keys, LedgerInv, KeysFollowStatus, Unposted, GrantFromEvent
  <1>3. /\ Advances(Keys, account, account', {<<"grant", p>>})
    BY <1>1, <1>2, GrantGood DEF GrantFromEvent
  <1>4. TypeOK'
    BY <1>3 DEF LedgerInv, Advances, TypeOK, GrantFromEvent, Good
  <1>5. KeysFollowStatus'
    BY <1>3 DEF LedgerInv, Advances, TypeOK, KeysFollowStatus, Unposted, GrantFromEvent
  <1>6. GrantsAreLedgered'
    BY <1>3 DEF LedgerInv, Advances, GrantsAreLedgered, GrantFromEvent
  <1>7. QED
    BY <1>1, <1>3, <1>4, <1>5, <1>6 DEF LedgerInv, Advances, HolderIsCurrent, Good

LEMMA RefundPurchaseInv ==
  ASSUME LedgerInv, NEW p \in Purchases, RefundPurchase(p)
  PROVE  /\ LedgerInv'
         /\ Advances(Keys, account, account', {<<"refund", p>>})
  <1>1. Good(Keys, account) /\ lock' = NoClaim
    BY DEF LedgerInv, TypeOK, Good, RefundPurchase, RowFree
  <1>2. /\ <<"refund", p>> \in Keys
        /\ <<"refund", p>> \notin account.keys
        /\ Pack \in Nat
    BY AmountsAssumption DEF AmountsAssumption, Keys, LedgerInv, KeysFollowStatus, Unposted, RefundPurchase
  <1>3. /\ Advances(Keys, account, account', {<<"refund", p>>})
    BY <1>1, <1>2, RefundGood DEF RefundPurchase
  <1>4. TypeOK'
    BY <1>3 DEF LedgerInv, Advances, TypeOK, RefundPurchase, Good
  <1>5. KeysFollowStatus'
    BY <1>3 DEF LedgerInv, Advances, TypeOK, KeysFollowStatus, Unposted, RefundPurchase
  <1>6. GrantsAreLedgered'
    BY <1>3 DEF LedgerInv, Advances, GrantsAreLedgered, RefundPurchase
  <1>7. QED
    BY <1>1, <1>3, <1>4, <1>5, <1>6 DEF LedgerInv, Advances, HolderIsCurrent, Good

LEMMA ApproveAdjustInv ==
  ASSUME LedgerInv, NEW a \in Approvals, NEW delta \in Deltas,
         ApproveAdjust(a, delta)
  PROVE  /\ LedgerInv'
         /\ Advances(Keys, account, account', {<<"approval", a>>})
  <1>1. Good(Keys, account) /\ lock' = NoClaim /\ delta \in Int
    BY AmountsAssumption
    DEF LedgerInv, TypeOK, Good, ApproveAdjust, RowFree, AmountsAssumption
  <1>2. /\ <<"approval", a>> \in Keys
        /\ <<"approval", a>> \notin account.keys
    BY DEF Keys, LedgerInv, KeysFollowStatus, Unposted, ApproveAdjust
  <1>3. /\ Advances(Keys, account, account', {<<"approval", a>>})
    BY <1>1, <1>2, AdjustGood DEF ApproveAdjust
  <1>4. TypeOK'
    BY <1>3 DEF LedgerInv, Advances, TypeOK, ApproveAdjust, Good
  <1>5. KeysFollowStatus'
    BY <1>3 DEF LedgerInv, Advances, TypeOK, KeysFollowStatus, Unposted, ApproveAdjust
  <1>6. GrantsAreLedgered'
    BY <1>3 DEF LedgerInv, Advances, GrantsAreLedgered, ApproveAdjust
  <1>7. QED
    BY <1>1, <1>3, <1>4, <1>5, <1>6 DEF LedgerInv, Advances, HolderIsCurrent, Good

LEMMA ConfirmAndLeaseInv ==
  ASSUME LedgerInv, NEW j \in Jobs, ConfirmAndLease(j)
  PROVE  /\ LedgerInv'
         /\ Advances(Keys, account, account', {<<"lease", j>>})
  <1>1. Good(Keys, account) /\ lock' = NoClaim /\ CanCover(account, Ceiling)
    BY DEF LedgerInv, TypeOK, Good, ConfirmAndLease, RowFree
  <1>2. /\ <<"lease", j>> \in Keys
        /\ <<"lease", j>> \notin account.keys
        /\ Ceiling \in Nat
    BY AmountsAssumption
    DEF Keys, LedgerInv, KeysFollowStatus, Unposted, ConfirmAndLease,
        AmountsAssumption
  <1>3. /\ Advances(Keys, account, account', {<<"lease", j>>})
        /\ LeasedFromSub(account, Ceiling) \in Nat
    BY <1>1, <1>2, LeaseGood DEF ConfirmAndLease
  <1>4. TypeOK'
    BY <1>2, <1>3 DEF LedgerInv, Advances, TypeOK, ConfirmAndLease, Good, Statuses
  <1>5. KeysFollowStatus'
    BY <1>3 DEF LedgerInv, Advances, TypeOK, KeysFollowStatus, Unposted, ConfirmAndLease
  <1>6. GrantsAreLedgered'
    BY <1>3 DEF LedgerInv, Advances, GrantsAreLedgered, ConfirmAndLease
  <1>7. QED
    BY <1>1, <1>3, <1>4, <1>5, <1>6 DEF LedgerInv, Advances, HolderIsCurrent, Good

LEMMA SettleInv ==
  ASSUME LedgerInv, NEW j \in Jobs, NEW spent \in 0..Ceiling, Settle(j, spent)
  PROVE  /\ LedgerInv'
         /\ Advances(Keys, account, account', {<<"release", j>>})
  <1>1. Good(Keys, account) /\ lock' = NoClaim
    BY DEF LedgerInv, TypeOK, Good, Settle, RowFree
  <1>2. <<"release", j>> \in Keys /\ <<"release", j>> \notin account.keys
    BY DEF Keys, LedgerInv, KeysFollowStatus, Unposted, Settle
  <1>3. job[j].leased \in Nat /\ job[j].leasedSub \in Nat
    BY DEF LedgerInv, TypeOK
  <1>4. spent \in Nat
    BY AmountsAssumption DEF AmountsAssumption
  <1>5. /\ Advances(Keys, account, account', {<<"release", j>>})
    BY <1>1, <1>2, <1>3, <1>4, ReleaseGood DEF Settle
  <1>6. TypeOK'
    BY <1>5 DEF LedgerInv, Advances, TypeOK, Settle, Good, Statuses
  <1>7. KeysFollowStatus'
    BY <1>5 DEF LedgerInv, Advances, TypeOK, KeysFollowStatus, Unposted, Settle
  <1>8. GrantsAreLedgered'
    BY <1>5 DEF LedgerInv, Advances, GrantsAreLedgered, Settle
  <1>9. QED
    BY <1>1, <1>5, <1>6, <1>7, <1>8 DEF LedgerInv, Advances, HolderIsCurrent, Good

LEMMA GrantCycleInv ==
  ASSUME LedgerInv, NEW s \in Sweeps, NEW c \in Cycles, GrantCycle(s, c)
  PROVE  /\ LedgerInv'
         /\ Advances(Keys, account, account',
                     {<<"sub_reset_expiry", c>>, <<"sub_grant", c>>})
         /\ Purchased(account') = Purchased(account)
  <1> DEFINE expiry == <<"sub_reset_expiry", c>>
             grant  == <<"sub_grant", c>>
  <1>1. Good(Keys, account) /\ lock' = NoClaim
    BY DEF LedgerInv, TypeOK, Good, GrantCycle, RowFree
  <1>2. /\ expiry \in Keys /\ grant \in Keys /\ expiry # grant
        /\ expiry \notin account.keys /\ grant \notin account.keys
        /\ Allotment \in Nat
    BY AmountsAssumption
    DEF Keys, LedgerInv, KeysFollowStatus, Unposted, GrantCycle,
        AmountsAssumption
  <1>3. /\ Advances(Keys, account, account', {expiry, grant})
        /\ Allotment > 0 => grant \in account'.keys
        /\ Purchased(account') = Purchased(account)
    BY <1>1, <1>2, ResetGood DEF GrantCycle
  <1>4. TypeOK'
    BY <1>3 DEF LedgerInv, Advances, TypeOK, GrantCycle, Good
  <1>5. KeysFollowStatus'
    BY <1>3 DEF LedgerInv, Advances, TypeOK, KeysFollowStatus, Unposted, GrantCycle
  <1>6. GrantsAreLedgered'
    BY <1>3 DEF LedgerInv, Advances, TypeOK, GrantsAreLedgered, GrantCycle
  <1>7. QED
    BY <1>1, <1>3, <1>4, <1>5, <1>6 DEF LedgerInv, Advances, HolderIsCurrent, Good

\* The account is left alone, or new entries are posted.
BookStep ==
  \/ account' = account
  \/ account.keys \subseteq account'.keys /\ account'.keys # account.keys

\* Every step keeps the invariant, and changes the account only together with
\* the set of posted entries.
LEMMA StepInv ==
  ASSUME LedgerInv, [Next]_vars
  PROVE  LedgerInv' /\ BookStep
  <1>1. CASE \E c \in Claims : LockBalance(c) \/ Rollback(c)
    BY <1>1, HoldInv DEF BookStep
  <1>2. CASE \E c \in Claims : Charge(c)
    BY <1>2, ChargeInv DEF BookStep, Advances
  <1>3. CASE \E p \in Purchases : GrantFromEvent(p)
    BY <1>3, GrantFromEventInv DEF BookStep, Advances
  <1>4. CASE \E p \in Purchases : RefundPurchase(p)
    BY <1>4, RefundPurchaseInv DEF BookStep, Advances
  <1>5. CASE \E a \in Approvals : RejectAdjust(a)
    BY <1>5, HoldInv DEF BookStep
  <1>6. CASE \E a \in Approvals : \E d \in Deltas : ApproveAdjust(a, d)
    BY <1>6, ApproveAdjustInv DEF BookStep, Advances
  <1>7. CASE \E j \in Jobs : ConfirmAndLease(j)
    BY <1>7, ConfirmAndLeaseInv DEF BookStep, Advances
  <1>8. CASE \E j \in Jobs : CancelAwaiting(j)
    BY <1>8, HoldInv DEF BookStep
  <1>9. CASE \E j \in Jobs : \E spent \in 0..Ceiling : Settle(j, spent)
    BY <1>9, SettleInv DEF BookStep, Advances
  <1>10. CASE \E c \in Cycles : OpenCycle(c)
    BY <1>10, HoldInv DEF BookStep
  <1>11. CASE \E s \in Sweeps : ReadDue(s) \/ \E c \in Cycles : CycleFails(s, c)
    BY <1>11, HoldInv DEF BookStep
  <1>12. CASE \E s \in Sweeps : \E c \in Cycles : GrantCycle(s, c)
    BY <1>12, GrantCycleInv DEF BookStep, Advances
  <1>13. CASE UNCHANGED vars
    BY <1>13 DEF BookStep, vars, LedgerInv, TypeOK, HolderIsCurrent, KeysFollowStatus,
                 Unposted, GrantsAreLedgered
  <1>14. QED
    BY <1>1, <1>2, <1>3, <1>4, <1>5, <1>6, <1>7, <1>8, <1>9, <1>10, <1>11,
       <1>12, <1>13 DEF Next

\* LedgerInv holds in every reachable state, for any number of writers and any
\* amounts.
THEOREM LedgerInvHolds == Spec => []LedgerInv
  <1>1. Init => LedgerInv
    BY InitInv
  <1>2. LedgerInv /\ [Next]_vars => LedgerInv'
    BY StepInv
  <1>3. QED
    BY <1>1, <1>2, PTL DEF Spec

\* The repositories keep the types of their columns: in particular no amount
\* leased is negative.
THEOREM TypeCorrect == Spec => []TypeOK
  <1>1. LedgerInv => TypeOK
    BY DEF LedgerInv
  <1>2. QED BY <1>1, LedgerInvHolds, PTL

\* The CHECKs of rls/billing.sql hold after every transaction: no order of
\* spends, leases, releases, resets, refunds and adjustments overdraws the
\* counter or lets the perishable bucket outgrow it.
THEOREM NeverOverdrawn == Spec => []AccountSound
  <1>1. LedgerInv => AccountSound
    BY DEF LedgerInv, AccountSound
  <1>2. QED BY <1>1, LedgerInvHolds, PTL

\* billing-recon finds no drift after any transaction of any writer.
THEOREM NoDrift == Spec => []LedgerReconciles
  <1>1. LedgerInv => LedgerReconciles
    BY DEF LedgerInv, LedgerReconciles
  <1>2. QED BY <1>1, LedgerInvHolds, PTL

\* Overlapping sweeps grant a cycle once, and a cycle that is not granted has
\* nothing in the ledger.
THEOREM CycleGrantedOnce == Spec => []GrantedIffLedgered
  <1>1. LedgerInv => GrantedIffLedgered
    BY DEF LedgerInv, TypeOK, KeysFollowStatus, Unposted, GrantsAreLedgered,
           GrantedIffLedgered
  <1>2. QED BY <1>1, LedgerInvHolds, PTL

\* The credit repository implements the ledger book of ADR-0029: no writer
\* moves the counter without posting entries of the same total.
THEOREM ImplementsBook == Spec => ImplementsLedgerBook
  <1>1. Init => Book!Init
    BY InitInv, GoodFields
    DEF Book!Init, LedgerInv, TypeOK, Good, Init
  <1>2. LedgerInv /\ LedgerInv' /\ [Next]_vars => [Book!Move]_(Book!vars)
    <2> SUFFICES ASSUME LedgerInv, LedgerInv', [Next]_vars
                 PROVE  Book!Move \/ UNCHANGED Book!vars
      OBVIOUS
    <2>1. Good(Keys, account) /\ Good(Keys, account')
      BY DEF LedgerInv, TypeOK, Good
    <2>2. /\ account.total = account.sum /\ account.total \in Int
          /\ account'.total = account'.sum /\ account'.total \in Nat
      BY <2>1, GoodFields
    <2>3. CASE account' = account
      BY <2>3 DEF Book!vars
    <2>4. CASE account.keys \subseteq account'.keys /\ account'.keys # account.keys
      BY <2>2, <2>4 DEF Book!Move
    <2>5. QED
      BY <2>3, <2>4, StepInv DEF BookStep
  <1>3. QED
    BY <1>1, <1>2, LedgerInvHolds, PTL DEF Spec, ImplementsLedgerBook, Book!Spec

\* ADR-0041: whatever happened since a sweep listed the cycle, the reset leaves
\* the purchased credits exactly as they were.
THEOREM ResetLeavesPurchased == Spec => ResetKeepsPurchased
  <1> DEFINE Keeps == \A c \in Cycles :
                        cycle[c] # "granted" /\ cycle'[c] = "granted"
                          => Purchased(account') = Purchased(account)
  <1>1. LedgerInv /\ [Next]_vars => [Keeps]_vars
    <2> SUFFICES ASSUME LedgerInv, Next PROVE Keeps
      OBVIOUS
    <2>1. CASE \E s \in Sweeps : \E c \in Cycles : GrantCycle(s, c)
      BY <2>1, GrantCycleInv
    <2>2. CASE \E c \in Cycles : OpenCycle(c)
      BY <2>2 DEF OpenCycle, LedgerInv, TypeOK
    <2>3. CASE UNCHANGED cycle
      BY <2>3
    <2>4. QED
      BY <2>1, <2>2, <2>3
      DEF Next, LockBalance, Charge, Rollback, GrantFromEvent, RefundPurchase,
          RejectAdjust, ApproveAdjust, ConfirmAndLease, CancelAwaiting, Settle,
          ReadDue, CycleFails
  <1>2. QED
    BY <1>1, LedgerInvHolds, PTL DEF Spec, ResetKeepsPurchased

\* A step that posts a spend or a lease takes purchased credits only when the
\* bucket is empty after it; no other step posts one.
LEMMA SpendOrder ==
  ASSUME LedgerInv, NEW key \in Keys, key \notin account.keys, NEW cost \in Nat,
         CanCover(account, cost), account' = Spend(account, account, key, cost),
         Purchased(account') < Purchased(account)
  PROVE  account'.sub = 0
  <1>1. Good(Keys, account)
    BY DEF LedgerInv, TypeOK, Good
  <1>2. Advances(Keys, account, Spend(account, account, key, cost), {key})
    BY <1>1, SpendGood
  <1>3. /\ Spend(account, account, key, cost).total = account.total - cost
        /\ Spend(account, account, key, cost).sub = account.sub - Least(cost, account.sub)
    BY <1>1, <1>2, SpendGood
  <1>4. account.total \in Nat /\ account.sub \in Nat
    BY <1>1, GoodFields
  <1> QED BY <1>3, <1>4 DEF Purchased, Least

LEMMA OtherKinds ==
  ASSUME LedgerInv, [Next]_vars,
         ~(\E c \in Claims : Charge(c)), ~(\E j \in Jobs : ConfirmAndLease(j))
  PROVE  \A key \in account'.keys \ account.keys : key[1] \notin SpendKinds
  <1> USE DEF SpendKinds
  <1>1. CASE account' = account
    BY <1>1
  <1>2. ASSUME NEW p \in Purchases, GrantFromEvent(p)
        PROVE  \A key \in account'.keys \ account.keys : key[1] \notin SpendKinds
    BY <1>2, GrantFromEventInv DEF Advances
  <1>3. ASSUME NEW p \in Purchases, RefundPurchase(p)
        PROVE  \A key \in account'.keys \ account.keys : key[1] \notin SpendKinds
    BY <1>3, RefundPurchaseInv DEF Advances
  <1>4. ASSUME NEW a \in Approvals, NEW d \in Deltas, ApproveAdjust(a, d)
        PROVE  \A key \in account'.keys \ account.keys : key[1] \notin SpendKinds
    BY <1>4, ApproveAdjustInv DEF Advances
  <1>5. ASSUME NEW j \in Jobs, NEW spent \in 0..Ceiling, Settle(j, spent)
        PROVE  \A key \in account'.keys \ account.keys : key[1] \notin SpendKinds
    BY <1>5, SettleInv DEF Advances
  <1>6. ASSUME NEW s \in Sweeps, NEW c \in Cycles, GrantCycle(s, c)
        PROVE  \A key \in account'.keys \ account.keys : key[1] \notin SpendKinds
    BY <1>6, GrantCycleInv DEF Advances
  <1>7. CASE UNCHANGED vars
    BY <1>1, <1>7 DEF vars
  <1>8. CASE \/ \E c \in Claims : LockBalance(c) \/ Rollback(c)
             \/ \E a \in Approvals : RejectAdjust(a)
             \/ \E c \in Cycles : OpenCycle(c)
             \/ \E s \in Sweeps : ReadDue(s) \/ \E c \in Cycles : CycleFails(s, c)
             \/ \E j \in Jobs : CancelAwaiting(j)
    BY <1>1, <1>8, HoldInv
  <1> QED
    BY <1>2, <1>3, <1>4, <1>5, <1>6, <1>7, <1>8 DEF Next

\* ADR-0041: no spend and no lease takes purchased credits while the perishable
\* bucket holds any.
THEOREM PerishableGoesFirst == Spec => SubscriptionFirst
  <1> DEFINE First == (/\ \E key \in account'.keys \ account.keys : key[1] \in SpendKinds
                       /\ Purchased(account') < Purchased(account)) => account'.sub = 0
  <1>1. LedgerInv /\ [Next]_vars => [First]_vars
    <2> SUFFICES ASSUME LedgerInv, [Next]_vars,
                        \E key \in account'.keys \ account.keys : key[1] \in SpendKinds,
                        Purchased(account') < Purchased(account)
                 PROVE  account'.sub = 0
      OBVIOUS
    <2>1. ASSUME NEW c \in Claims, Charge(c) PROVE account'.sub = 0
      <3>1. seen = account /\ CanCover(account, Cost) /\ Cost \in Nat
        BY <2>1, NoClaimAssumption, AmountsAssumption DEF LedgerInv, HolderIsCurrent, Charge
      <3>2. /\ <<"reveal", c>> \in Keys /\ <<"reveal", c>> \notin account.keys
            /\ account' = Spend(account, account, <<"reveal", c>>, Cost)
        BY <2>1, <3>1, NoClaimAssumption
        DEF Keys, LedgerInv, HolderIsCurrent, KeysFollowStatus, Unposted, Charge
      <3> QED BY <3>1, <3>2, SpendOrder
    <2>2. ASSUME NEW j \in Jobs, ConfirmAndLease(j) PROVE account'.sub = 0
      <3>1. /\ <<"lease", j>> \in Keys /\ <<"lease", j>> \notin account.keys
            /\ Ceiling \in Nat /\ CanCover(account, Ceiling)
            /\ account' = Lease(account, <<"lease", j>>, Ceiling)
        BY <2>2, AmountsAssumption
        DEF Keys, LedgerInv, KeysFollowStatus, Unposted, ConfirmAndLease
      <3>2. account' # account
        OBVIOUS
      <3>3. account' = Spend(account, account, <<"lease", j>>, Ceiling)
        BY <3>1, <3>2 DEF Lease
      <3> QED BY <3>1, <3>3, SpendOrder
    <2> QED BY <2>1, <2>2, OtherKinds
  <1>2. QED
    BY <1>1, LedgerInvHolds, PTL DEF Spec, SubscriptionFirst

=============================================================================
