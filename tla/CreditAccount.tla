--------------------------- MODULE CreditAccount ---------------------------
(***************************************************************************)
(* One tenant's credit account and the arithmetic every money path applies *)
(* to it (packages/db/src/repositories/creditRepository.ts,                *)
(* leaseAccounting.ts, subscriptionResetMath.ts, platformAdminWrites.ts).  *)
(*                                                                         *)
(* An account is a record                                                  *)
(*   total  tenants.reveal_credit_balance, the counter                     *)
(*   sub    tenants.subscription_credit_balance, the perishable part of it *)
(*   sum    SUM(credit_ledger.delta) of the tenant                         *)
(*   keys   the idempotency keys in credit_ledger                          *)
(* The ledger table is append-only (a trigger refuses UPDATE and DELETE),  *)
(* so its SUM changes only by the delta of each inserted row and the rows  *)
(* themselves need not be kept.                                            *)
(*                                                                         *)
(* Every operator returns the account after one committed transaction.     *)
(***************************************************************************)
EXTENDS Integers

Least(a, b) == IF a <= b THEN a ELSE b

\* The accounts whose ledger entries have their keys in K.
Accounts(K) == [total : Int, sub : Int, sum : Int, keys : SUBSET K]

EmptyAccount == [total |-> 0, sub |-> 0, sum |-> 0, keys |-> {}]

\* CHECK tenants_credit_nonnegative and tenants_subscription_bucket.
Sound(acct) == 0 <= acct.sub /\ acct.sub <= acct.total

\* What billing-recon compares: the counter against SUM(delta).
Balanced(acct) == acct.total = acct.sum

Purchased(acct) == acct.total - acct.sub

(***************************************************************************)
(* The two halves of every movement of credits: the UPDATE of the tenants  *)
(* row, and the ledger row beside it.                                      *)
(***************************************************************************)

\* INSERT INTO credit_ledger ... ON CONFLICT (tenant, key) DO NOTHING.
Posted(acct, key, delta) ==
  IF key \in acct.keys
  THEN acct
  ELSE [acct EXCEPT !.sum = @ + delta, !.keys = @ \cup {key}]

\* The counter moves by delta, the perishable bucket to `bucket`, and the
\* entry is posted.
Moved(acct, key, delta, bucket) ==
  Posted([acct EXCEPT !.total = @ + delta, !.sub = bucket], key, delta)

(***************************************************************************)
(* Spending, subscription bucket first.                                    *)
(***************************************************************************)

CanCover(acct, amount) == acct.total >= amount

\* Broken variant: the purchased credits go first.
SpendPurchasedFirst(acct, seen, key, cost) ==
  Moved(acct, key, -cost, acct.sub - (cost - Least(cost, Purchased(seen))))

\* `seen` is the account the caller read under its lock: the split is computed
\* from that read, the UPDATE is relative to the row as it is now.
Spend(acct, seen, key, cost) ==
  Moved(acct, key, -cost, acct.sub - Least(cost, seen.sub))

\* A zero ceiling reserves nothing and posts nothing.
Lease(acct, key, ceiling) ==
  IF ceiling = 0 THEN acct ELSE Spend(acct, acct, key, ceiling)

LeasedFromSub(acct, ceiling) == Least(ceiling, acct.sub)

(***************************************************************************)
(* Settling a lease: the unspent remainder comes back, and of it the part  *)
(* of the subscription bucket that the spend did not consume.              *)
(***************************************************************************)

ReleaseSplit(leased, leasedSub, spent) ==
  LET used    == Least(leased, spent)
      fromSub == Least(leased, leasedSub)
  IN  [remainder |-> leased - used,
       toSub     |-> IF leased = used THEN 0 ELSE fromSub - Least(used, fromSub)]

Release(acct, key, leased, leasedSub, spent) ==
  LET split == ReleaseSplit(leased, leasedSub, spent)
  IN  IF split.remainder = 0
      THEN acct
      ELSE Moved(acct, key, split.remainder, acct.sub + split.toSub)

(***************************************************************************)
(* Grants, the monthly reset, and the staff and bounce corrections.        *)
(***************************************************************************)

Grant(acct, key, credits) == Moved(acct, key, credits, acct.sub)

\* Broken variant: nothing expires.
ResetWithoutExpiry(acct, expiryKey, grantKey, allotment) ==
  IF allotment > 0 THEN Moved(acct, grantKey, allotment, allotment) ELSE acct

\* What is left of the perishable bucket expires, the new allotment is
\* granted, and the bucket becomes exactly the allotment.
MonthlyReset(acct, expiryKey, grantKey, allotment) ==
  LET lapsed == IF acct.sub > 0 THEN Moved(acct, expiryKey, -acct.sub, 0) ELSE acct
  IN  IF allotment > 0
      THEN Moved(lapsed, grantKey, allotment, allotment)
      ELSE lapsed

\* The reset's first UPDATE takes the expired credits off the counter and
\* leaves the bucket for its last one.  The CHECKs are tested per statement,
\* so the transaction fails unless the row is sound in between.
ResetFits(acct) ==
  acct.sub > 0 => Sound([acct EXCEPT !.total = @ - acct.sub])

WouldOverdraw(acct, delta) == acct.total + delta < 0

\* The perishable bucket is trimmed to the new counter.
Adjust(acct, key, delta) ==
  Moved(acct, key, delta, Least(acct.sub, acct.total + delta))

\* A refund of credits already spent reverses only what is left.
Refund(acct, key, credits) ==
  LET reversed == Least(credits, acct.total)
  IN  IF reversed = 0 THEN acct ELSE Adjust(acct, key, -reversed)

CreditBack(acct, key, amount) == Grant(acct, key, amount)

=============================================================================
