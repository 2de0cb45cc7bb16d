---------------------------- MODULE MoneyLemmas -----------------------------
(***************************************************************************)
(* What one transaction on the credit account preserves: each lemma takes  *)
(* a sound, balanced account and a fresh ledger key, and shows that the    *)
(* account after the operation is again sound and balanced, and which keys *)
(* its ledger then has.  And how a sum of prices changes with one of them. *)
(***************************************************************************)
EXTENDS CreditAccount, FiniteSets, FiniteSetsExt, FiniteSetTheorems,
        WellFoundedInduction, TLAPS

Good(K, acct) == acct \in Accounts(K) /\ Sound(acct) /\ Balanced(acct)

\* An operation leaves the account as it is, or posts some of the fresh keys
\* and leaves it good.
Advances(K, acct, after, fresh) ==
  /\ Good(K, after)
  /\ \/ after = acct
     \/ /\ acct.keys \subseteq after.keys
        /\ acct.keys # after.keys
        /\ after.keys \subseteq acct.keys \cup fresh

\* The columns of a good account, as the provers use them.
LEMMA GoodFields ==
  ASSUME NEW K, NEW acct, Good(K, acct)
  PROVE  /\ acct \in Accounts(K)
         /\ acct.total \in Nat /\ acct.sub \in 0..acct.total
         /\ acct.sum = acct.total
         /\ acct.keys \in SUBSET K
  BY DEF Good, Accounts, Sound, Balanced

\* Posting a fresh key changes the ledger columns and nothing else.
LEMMA PostedFresh ==
  ASSUME NEW K, NEW acct \in Accounts(K), NEW key \in K, NEW delta \in Int,
         key \notin acct.keys
  PROVE  Posted(acct, key, delta) =
           [total |-> acct.total, sub |-> acct.sub,
            sum |-> acct.sum + delta, keys |-> acct.keys \cup {key}]
  BY DEF Posted, Accounts

\* The one argument behind every operation: the counter and the ledger move
\* together, so the account stays balanced, and it stays sound when the
\* bucket lies between zero and the new counter.
LEMMA MovedGood ==
  ASSUME NEW K, NEW acct, Good(K, acct), NEW key \in K, key \notin acct.keys,
         NEW delta \in Int, NEW bucket \in Int,
         0 <= bucket, bucket <= acct.total + delta
  PROVE  /\ Good(K, Moved(acct, key, delta, bucket))
         /\ Moved(acct, key, delta, bucket).total = acct.total + delta
         /\ Moved(acct, key, delta, bucket).sub = bucket
         /\ Moved(acct, key, delta, bucket).keys = acct.keys \cup {key}
  <1> DEFINE total == acct.total + delta
             row   == [acct EXCEPT !.total = total, !.sub = bucket]
  <1>1. /\ total \in Int
        /\ acct \in Accounts(K)
        /\ acct.total = acct.sum /\ acct.sum \in Int
    BY GoodFields
  <1> HIDE DEF total
  <1>2. /\ row \in Accounts(K)
        /\ row.total = total /\ row.sub = bucket
        /\ row.sum = acct.sum /\ row.keys = acct.keys
    BY <1>1 DEF Accounts
  <1> HIDE DEF row
  <1>3. Posted(row, key, delta)
          = [total |-> total, sub |-> bucket,
             sum |-> acct.sum + delta, keys |-> acct.keys \cup {key}]
    BY <1>2, PostedFresh
  <1>4. Good(K, Posted(row, key, delta))
    BY <1>1, <1>3 DEF Good, Accounts, Sound, Balanced, total
  <1>5. QED
    BY <1>3, <1>4 DEF Moved, row, total

\* A movement keeps the types, and posts its own entry and no other, whatever
\* the account holds.
LEMMA MovedPosts ==
  ASSUME NEW K, NEW acct \in Accounts(K), NEW key \in K,
         NEW delta \in Int, NEW bucket \in Int
  PROVE  /\ Moved(acct, key, delta, bucket) \in Accounts(K)
         /\ Moved(acct, key, delta, bucket).keys = acct.keys \cup {key}
  <1> DEFINE row == [acct EXCEPT !.total = @ + delta, !.sub = bucket]
  <1>1. row \in Accounts(K) /\ row.keys = acct.keys
    <2>1. acct.total + delta \in Int
      BY DEF Accounts
    <2> QED BY <2>1 DEF Accounts
  <1> HIDE DEF row
  <1>2. CASE key \in acct.keys
    BY <1>1, <1>2 DEF Posted, Moved, row
  <1>3. CASE key \notin acct.keys
    <2>1. Posted(row, key, delta) =
            [total |-> row.total, sub |-> row.sub,
             sum |-> row.sum + delta, keys |-> row.keys \cup {key}]
      BY <1>1, <1>3, PostedFresh
    <2>2. /\ row.total \in Int /\ row.sub \in Int
          /\ row.sum + delta \in Int
          /\ row.keys \cup {key} \in SUBSET K
      BY <1>1 DEF Accounts
    <2>3. Posted(row, key, delta) \in Accounts(K)
      BY <2>1, <2>2 DEF Accounts
    <2> QED BY <1>1, <2>1, <2>3 DEF Moved, row
  <1> QED BY <1>2, <1>3

\* Its columns: the counter moves by delta always, the ledger's sum only when
\* the key is new.
LEMMA MovedColumns ==
  ASSUME NEW K, NEW acct \in Accounts(K), NEW key \in K,
         NEW delta \in Int, NEW bucket \in Int
  PROVE  /\ Moved(acct, key, delta, bucket).total = acct.total + delta
         /\ Moved(acct, key, delta, bucket).sub = bucket
         /\ Moved(acct, key, delta, bucket).sum
              = IF key \in acct.keys THEN acct.sum ELSE acct.sum + delta
  <1> DEFINE row == [acct EXCEPT !.total = @ + delta, !.sub = bucket]
  <1>1. /\ row \in Accounts(K) /\ row.keys = acct.keys /\ row.sum = acct.sum
        /\ row.total = acct.total + delta /\ row.sub = bucket
    <2>1. acct.total + delta \in Int
      BY DEF Accounts
    <2> QED BY <2>1 DEF Accounts
  <1> HIDE DEF row
  <1>2. CASE key \in acct.keys
    BY <1>1, <1>2 DEF Posted, Moved, row
  <1>3. CASE key \notin acct.keys
    <2>1. Posted(row, key, delta) =
            [total |-> row.total, sub |-> row.sub,
             sum |-> row.sum + delta, keys |-> row.keys \cup {key}]
      BY <1>1, <1>3, PostedFresh
    <2> QED BY <1>1, <1>3, <2>1 DEF Moved, row
  <1> QED BY <1>2, <1>3

LEMMA SpendPosts ==
  ASSUME NEW K, NEW acct \in Accounts(K), NEW key \in K, NEW cost \in Int
  PROVE  /\ Spend(acct, acct, key, cost) \in Accounts(K)
         /\ Spend(acct, acct, key, cost).keys = acct.keys \cup {key}
  <1>1. -cost \in Int /\ acct.sub - Least(cost, acct.sub) \in Int
    BY DEF Accounts, Least
  <1> QED BY <1>1, MovedPosts DEF Spend

\* A covered spend, split by the balance read under the lock.
LEMMA SpendGood ==
  ASSUME NEW K, NEW acct, Good(K, acct), NEW key \in K, NEW cost \in Nat,
         key \notin acct.keys, CanCover(acct, cost)
  PROVE  /\ Advances(K, acct, Spend(acct, acct, key, cost), {key})
         /\ Spend(acct, acct, key, cost).keys = acct.keys \cup {key}
         /\ Spend(acct, acct, key, cost).total = acct.total - cost
         /\ Spend(acct, acct, key, cost).sub = acct.sub - Least(cost, acct.sub)
  <1> DEFINE bucket == acct.sub - Least(cost, acct.sub)
  <1>1. /\ -cost \in Int /\ bucket \in Int
        /\ 0 <= bucket /\ bucket <= acct.total + (-cost)
        /\ acct.total + (-cost) = acct.total - cost
    BY GoodFields DEF CanCover, Least
  <1>2. QED
    BY <1>1, MovedGood DEF Spend, Advances

\* A lease is a spend of the ceiling, or nothing at all.
LEMMA LeaseGood ==
  ASSUME NEW K, NEW acct, Good(K, acct), NEW key \in K, NEW ceiling \in Nat,
         key \notin acct.keys, CanCover(acct, ceiling)
  PROVE  /\ Advances(K, acct, Lease(acct, key, ceiling), {key})
         /\ Lease(acct, key, ceiling).total = acct.total - ceiling
         /\ LeasedFromSub(acct, ceiling) \in 0..ceiling
  <1>1. LeasedFromSub(acct, ceiling) \in 0..ceiling
    BY GoodFields DEF LeasedFromSub, Least
  <1>2. CASE ceiling = 0
    BY <1>1, <1>2, GoodFields DEF Lease, Advances
  <1>3. CASE ceiling # 0
    BY <1>1, <1>3, SpendGood DEF Lease
  <1>4. QED BY <1>2, <1>3

\* A release returns at most what was leased, to each bucket its share.
LEMMA ReleaseGood ==
  ASSUME NEW K, NEW acct, Good(K, acct), NEW key \in K, key \notin acct.keys,
         NEW leased \in Nat, NEW leasedSub \in Nat, NEW spent \in Nat
  PROVE  /\ Advances(K, acct, Release(acct, key, leased, leasedSub, spent), {key})
         /\ Release(acct, key, leased, leasedSub, spent).total
              = acct.total + leased - Least(leased, spent)
  <1> DEFINE split  == ReleaseSplit(leased, leasedSub, spent)
             bucket == acct.sub + split.toSub
  <1>1. /\ split.remainder \in Nat
        /\ split.toSub \in 0..split.remainder
        /\ split.remainder = leased - Least(leased, spent)
    BY DEF ReleaseSplit, Least
  <1>a. Least(leased, spent) \in Int /\ acct.total \in Int
    BY GoodFields DEF Least
  <1> HIDE DEF split
  <1>2. CASE split.remainder = 0
    BY <1>1, <1>2, <1>a DEF Release, split, Advances
  <1>3. CASE split.remainder # 0
    <2>1. Release(acct, key, leased, leasedSub, spent)
            = Moved(acct, key, split.remainder, bucket)
      BY <1>3 DEF Release, split
    <2>2. /\ split.remainder \in Int /\ bucket \in Int
          /\ 0 <= bucket /\ bucket <= acct.total + split.remainder
      BY <1>1, GoodFields
    <2> HIDE DEF bucket
    <2>3. QED
      BY <1>1, <1>a, <2>1, <2>2, MovedGood DEF Advances
  <1>4. QED BY <1>2, <1>3

\* A purchase lands in the purchased part of the balance.
LEMMA GrantGood ==
  ASSUME NEW K, NEW acct, Good(K, acct), NEW key \in K, key \notin acct.keys,
         NEW credits \in Nat
  PROVE  Advances(K, acct, Grant(acct, key, credits), {key})
  <1>1. /\ credits \in Int /\ acct.sub \in Int
        /\ 0 <= acct.sub /\ acct.sub <= acct.total + credits
    BY GoodFields
  <1>2. QED
    BY <1>1, MovedGood DEF Grant, Advances

\* A staff correction that does not overdraw; the bucket is trimmed to fit.
LEMMA AdjustGood ==
  ASSUME NEW K, NEW acct, Good(K, acct), NEW key \in K, key \notin acct.keys,
         NEW delta \in Int, ~WouldOverdraw(acct, delta)
  PROVE  Advances(K, acct, Adjust(acct, key, delta), {key})
  <1> DEFINE bucket == Least(acct.sub, acct.total + delta)
  <1>1. /\ bucket \in Int
        /\ 0 <= bucket /\ bucket <= acct.total + delta
    BY GoodFields DEF WouldOverdraw, Least
  <1>2. QED
    BY <1>1, MovedGood DEF Adjust, Advances

\* A refund reverses at most what is left.
LEMMA RefundGood ==
  ASSUME NEW K, NEW acct, Good(K, acct), NEW key \in K, key \notin acct.keys,
         NEW credits \in Nat
  PROVE  Advances(K, acct, Refund(acct, key, credits), {key})
  <1> DEFINE reversed == Least(credits, acct.total)
  <1>1. /\ -reversed \in Int
        /\ ~WouldOverdraw(acct, -reversed)
    BY GoodFields DEF Least, WouldOverdraw
  <1>2. Refund(acct, key, credits)
          = IF reversed = 0 THEN acct ELSE Adjust(acct, key, -reversed)
    BY DEF Refund
  <1> HIDE DEF reversed
  <1>3. QED
    BY <1>1, <1>2, AdjustGood DEF Advances

\* The monthly reset: the old bucket expires, the allotment is granted, and
\* the purchased credits are exactly what they were.
LEMMA ResetGood ==
  ASSUME NEW K, NEW acct, Good(K, acct),
         NEW expiryKey \in K, NEW grantKey \in K, expiryKey # grantKey,
         expiryKey \notin acct.keys, grantKey \notin acct.keys,
         NEW allotment \in Nat
  PROVE  LET after == MonthlyReset(acct, expiryKey, grantKey, allotment)
         IN  /\ Advances(K, acct, after, {expiryKey, grantKey})
             /\ allotment > 0 => grantKey \in after.keys
             /\ Purchased(after) = Purchased(acct)
  <1> DEFINE lapsed == IF acct.sub > 0
                       THEN Moved(acct, expiryKey, -acct.sub, 0)
                       ELSE acct
             after  == IF allotment > 0
                       THEN Moved(lapsed, grantKey, allotment, allotment)
                       ELSE lapsed
  <1>1. /\ Good(K, lapsed)
        /\ lapsed.sub = 0
        /\ lapsed.total = acct.total - acct.sub
        /\ Advances(K, acct, lapsed, {expiryKey})
    <2>1. CASE acct.sub > 0
      <3>1. /\ -acct.sub \in Int /\ 0 \in Int
            /\ 0 <= acct.total + (-acct.sub)
            /\ acct.total + (-acct.sub) = acct.total - acct.sub
        BY GoodFields
      <3>2. QED
        BY <2>1, <3>1, MovedGood DEF Advances
    <2>2. CASE ~(acct.sub > 0)
      BY <2>2, GoodFields DEF Advances
    <2>3. QED BY <2>1, <2>2
  <1> HIDE DEF lapsed
  <1>2. /\ lapsed.total \in Nat
        /\ acct.total \in Int /\ acct.sub \in Int
    BY <1>1, GoodFields
  <1>3. grantKey \notin lapsed.keys /\ acct.keys \subseteq lapsed.keys
    BY <1>1 DEF Advances
  <1>4. /\ Advances(K, acct, after, {expiryKey, grantKey})
        /\ allotment > 0 => grantKey \in after.keys
        /\ Purchased(after) = Purchased(acct)
    <2>1. CASE allotment > 0
      <3>1. /\ Good(K, Moved(lapsed, grantKey, allotment, allotment))
            /\ Moved(lapsed, grantKey, allotment, allotment).total
                 = lapsed.total + allotment
            /\ Moved(lapsed, grantKey, allotment, allotment).sub = allotment
            /\ Moved(lapsed, grantKey, allotment, allotment).keys
                 = lapsed.keys \cup {grantKey}
        BY <1>1, <1>2, <1>3, MovedGood
      <3>2. QED
        BY <1>1, <1>2, <1>3, <2>1, <3>1 DEF Purchased, Advances
    <2>2. CASE ~(allotment > 0)
      BY <1>1, <1>2, <2>2 DEF Purchased, Advances
    <2>3. QED BY <2>1, <2>2
  <1>5. MonthlyReset(acct, expiryKey, grantKey, allotment) = after
    BY DEF MonthlyReset, lapsed
  <1> HIDE DEF after
  <1>6. QED
    BY <1>4, <1>5

(***************************************************************************)
(* Sums of prices.  SumOver unfolds to the fold the specifications use;    *)
(* its table of partial sums is shown to exist by the least number         *)
(* principle, and everything else follows from its defining equation.      *)
(***************************************************************************)
SumOver(f, S) == MapThenSumSet(LAMBDA x : f[x], S)

Chosen(s) == CHOOSE x \in s : TRUE

Others(s) == s \ {Chosen(s)}

\* What the fold computes from a table h of the sums of smaller sets.
SumNext(f, h, s) == IF s = {} THEN 0 ELSE f[Chosen(s)] + h[Others(s)]

SumTable(f, S) == CHOOSE h : h = [s \in SUBSET S |-> SumNext(f, h, s)]

LEMMA ChosenIn ==
  ASSUME NEW s, s # {}
  PROVE  Chosen(s) \in s
  BY DEF Chosen

LEMMA LeastNumber ==
  ASSUME NEW T, T \subseteq Nat, T # {}
  PROVE  \E n \in T : \A m \in T : n <= m
  <1>1. \E x \in T : \A y \in T : ~ (<<y, x>> \in OpToRel(<, Nat))
    BY WFMin, NatLessThanWellFounded
  <1>2. PICK x \in T : \A y \in T : ~ (<<y, x>> \in OpToRel(<, Nat))
    BY <1>1
  <1>3. \A y \in T : ~ (y < x)
    BY <1>2 DEF OpToRel
  <1> QED
    BY <1>3

\* Among finite sets with some property one has no smaller one.
LEMMA SmallestSet ==
  ASSUME NEW D, IsFiniteSet(D), NEW T, T \subseteq SUBSET D, T # {}
  PROVE  \E s \in T : \A t \in T : ~ (t \subseteq s /\ t # s)
  <1>1. \A s \in T : IsFiniteSet(s) /\ Cardinality(s) \in Nat
    BY FS_Subset, FS_CardinalityType
  <1> DEFINE N == {Cardinality(s) : s \in T}
  <1>2. N \subseteq Nat /\ N # {}
    BY <1>1
  <1>3. \E n \in N : \A m \in N : n <= m
    BY <1>2, LeastNumber
  <1>4. PICK s \in T : \A t \in T : Cardinality(s) <= Cardinality(t)
    BY <1>3
  <1>5. ASSUME NEW t \in T, t \subseteq s, t # s
        PROVE  FALSE
    <2>1. IsFiniteSet(s) /\ t \in SUBSET s
      BY <1>1, <1>5
    <2>2. Cardinality(t) <= Cardinality(s) /\ (Cardinality(s) = Cardinality(t) => s = t)
      BY <2>1, FS_Subset
    <2> QED
      BY <1>1, <1>4, <1>5, <2>2
  <1> QED
    BY <1>5

LEMMA OthersSmaller ==
  ASSUME NEW s, s # {}
  PROVE  Chosen(s) \in s /\ Others(s) \subseteq s /\ Others(s) # s /\ Chosen(s) \notin Others(s)
  BY ChosenIn DEF Others

\* h is right on the subsets of S with at most n elements.
SumRight(f, S, n, h) ==
  /\ h = [s \in SUBSET S |-> h[s]]
  /\ \A s \in SUBSET S : Cardinality(s) <= n => h[s] = SumNext(f, h, s)

LEMMA PartialSumTable ==
  ASSUME NEW f, NEW S, IsFiniteSet(S), NEW n \in Nat
  PROVE  \E h : SumRight(f, S, n, h)
  <1> DEFINE Bad == {k \in Nat : ~ \E h : SumRight(f, S, k, h)}
  <1>0. \A s \in SUBSET S : IsFiniteSet(s) /\ Cardinality(s) \in Nat
    BY FS_Subset, FS_CardinalityType
  <1>1. \E h : SumRight(f, S, 0, h)
    <2> DEFINE z == [s \in SUBSET S |-> 0]
    <2>1. \A s \in SUBSET S : Cardinality(s) <= 0 => s = {}
      BY <1>0, FS_EmptySet
    <2>2. \A s \in SUBSET S : Cardinality(s) <= 0 => z[s] = SumNext(f, z, s)
      BY <2>1 DEF SumNext
    <2>3. SumRight(f, S, 0, z)
      BY <2>2 DEF SumRight
    <2> QED
      BY <2>3
  <1>2. ASSUME NEW k \in Nat, \E h : SumRight(f, S, k, h)
        PROVE  \E h : SumRight(f, S, k + 1, h)
    <2>1. PICK h : SumRight(f, S, k, h)
      BY <1>2
    <2> DEFINE g == [s \in SUBSET S |-> SumNext(f, h, s)]
    <2>2. ASSUME NEW s \in SUBSET S, Cardinality(s) <= k + 1
          PROVE  g[s] = SumNext(f, g, s)
      <3>1. CASE s = {}
        BY <3>1 DEF SumNext
      <3>2. CASE s # {}
        <4>1. Others(s) \in SUBSET S /\ Cardinality(Others(s)) <= k
          <5>1. Chosen(s) \in s
            BY <3>2, ChosenIn
          <5>2. Cardinality(Others(s)) = Cardinality(s) - 1
            BY <5>1, <1>0, FS_RemoveElement DEF Others
          <5>3. Others(s) \in SUBSET S
            BY DEF Others
          <5> QED
            BY <1>0, <2>2, <5>2, <5>3
        <4>2. h[Others(s)] = SumNext(f, h, Others(s))
          BY <2>1, <4>1 DEF SumRight
        <4>3. g[Others(s)] = SumNext(f, h, Others(s))
          BY <4>1
        <4>4. g[s] = SumNext(f, h, s)
          OBVIOUS
        <4> QED
          BY <3>2, <4>2, <4>3, <4>4 DEF SumNext
      <3> QED
        BY <3>1, <3>2
    <2>3. SumRight(f, S, k + 1, g)
      BY <2>2 DEF SumRight
    <2> QED
      BY <2>3
  <1>3. Bad = {}
    <2>1. SUFFICES ASSUME Bad # {} PROVE FALSE
      OBVIOUS
    <2>2. \E k \in Bad : \A m \in Bad : k <= m
      BY <2>1, LeastNumber
    <2>3. PICK k \in Bad : \A m \in Bad : k <= m
      BY <2>2
    <2>4. k # 0 /\ k \in Nat
      BY <1>1
    <2>5. k - 1 \in Nat /\ k - 1 \notin Bad
      BY <2>3, <2>4
    <2>6. \E h : SumRight(f, S, k - 1, h)
      BY <2>5
    <2>7. \E h : SumRight(f, S, (k - 1) + 1, h)
      BY <1>2, <2>5, <2>6
    <2>8. (k - 1) + 1 = k
      BY <2>4
    <2> QED
      BY <2>7, <2>8
  <1> QED
    BY <1>3

LEMMA SumTableExists ==
  ASSUME NEW f, NEW S, IsFiniteSet(S)
  PROVE  \A s \in SUBSET S : SumTable(f, S)[s] = SumNext(f, SumTable(f, S), s)
  <1>1. Cardinality(S) \in Nat
    BY FS_CardinalityType
  <1>2. PICK h : SumRight(f, S, Cardinality(S), h)
    BY <1>1, PartialSumTable
  <1>3. \A s \in SUBSET S : h[s] = SumNext(f, h, s)
    BY <1>2, FS_Subset DEF SumRight
  <1>4. h = [s \in SUBSET S |-> SumNext(f, h, s)]
    BY <1>2, <1>3 DEF SumRight
  <1>5. \E g : g = [s \in SUBSET S |-> SumNext(f, g, s)]
    BY <1>4
  <1>6. SumTable(f, S) = [s \in SUBSET S |-> SumNext(f, SumTable(f, S), s)]
    BY <1>5 DEF SumTable
  <1> DEFINE g == SumTable(f, S)
  <1> HIDE DEF g
  <1>7. g = [s \in SUBSET S |-> SumNext(f, g, s)]
    BY <1>6 DEF g
  <1>8. \A s \in SUBSET S : g[s] = SumNext(f, g, s)
    BY <1>7
  <1> QED
    BY <1>8 DEF g

LEMMA SumIsTable ==
  ASSUME NEW f, NEW S
  PROVE  SumOver(f, S) = SumTable(f, S)[S]
  BY DEF SumOver, SumTable, SumNext, Others, Chosen, MapThenSumSet, MapThenFoldSet

\* Tables of different sets agree where both are defined.
LEMMA SumTablesAgree ==
  ASSUME NEW f, NEW S, IsFiniteSet(S), NEW s \in SUBSET S
  PROVE  SumTable(f, S)[s] = SumOver(f, s)
  <1> DEFINE T == {t \in SUBSET s : SumTable(f, S)[t] # SumTable(f, s)[t]}
  <1>0. IsFiniteSet(s)
    BY FS_Subset
  <1>1. SUFFICES T = {}
    BY <1>1, SumIsTable
  <1>2. SUFFICES ASSUME T # {} PROVE FALSE
    OBVIOUS
  <1>3. PICK t \in T : \A u \in T : ~ (u \subseteq t /\ u # t)
    <2>1. T \subseteq SUBSET s
      OBVIOUS
    <2> HIDE DEF T
    <2> QED
      BY <1>0, <1>2, <2>1, SmallestSet
  <1>4. SumTable(f, S)[t] = SumNext(f, SumTable(f, S), t) /\ SumTable(f, s)[t] = SumNext(f, SumTable(f, s), t)
    <2>1. t \in SUBSET S /\ t \in SUBSET s
      OBVIOUS
    <2>2. SumTable(f, S)[t] = SumNext(f, SumTable(f, S), t)
      BY <2>1, SumTableExists
    <2>3. SumTable(f, s)[t] = SumNext(f, SumTable(f, s), t)
      BY <1>0, <2>1, SumTableExists
    <2> QED
      BY <2>2, <2>3
  <1>5. t # {}
    BY <1>4 DEF SumNext
  <1>6. Others(t) \in SUBSET s /\ Others(t) \notin T
    BY <1>3, <1>5, OthersSmaller
  <1> QED
    BY <1>4, <1>5, <1>6 DEF SumNext

LEMMA SumStep ==
  ASSUME NEW f, NEW S, IsFiniteSet(S), S # {}
  PROVE  SumOver(f, S) = f[Chosen(S)] + SumOver(f, Others(S))
  <1>1. SumTable(f, S)[S] = SumNext(f, SumTable(f, S), S)
    BY SumTableExists
  <1>2. Others(S) \in SUBSET S
    BY DEF Others
  <1> QED
    BY <1>1, <1>2, SumIsTable, SumTablesAgree DEF SumNext

LEMMA SumEmpty ==
  ASSUME NEW f
  PROVE  SumOver(f, {}) = 0
  <1>1. SumTable(f, {})[{}] = SumNext(f, SumTable(f, {}), {})
    BY SumTableExists, FS_EmptySet
  <1> QED
    BY <1>1, SumIsTable DEF SumNext

LEMMA SumInt ==
  ASSUME NEW S, IsFiniteSet(S), NEW f, \A x \in S : f[x] \in Int
  PROVE  SumOver(f, S) \in Int
  <1> DEFINE T == {t \in SUBSET S : SumOver(f, t) \notin Int}
  <1>1. SUFFICES ASSUME T # {} PROVE FALSE
    OBVIOUS
  <1>2. PICK t \in T : \A u \in T : ~ (u \subseteq t /\ u # t)
    <2>1. T \subseteq SUBSET S
      OBVIOUS
    <2> HIDE DEF T
    <2> QED
      BY <1>1, <2>1, SmallestSet
  <1>3. t # {}
    BY SumEmpty
  <1>4. Chosen(t) \in S /\ Others(t) \in SUBSET S /\ Others(t) \notin T
    BY <1>2, <1>3, OthersSmaller
  <1>5. SumOver(f, t) = f[Chosen(t)] + SumOver(f, Others(t))
    BY <1>3, SumStep, FS_Subset
  <1> QED
    BY <1>4, <1>5

LEMMA SumRemove ==
  ASSUME NEW S, IsFiniteSet(S), NEW f, \A y \in S : f[y] \in Int, NEW x \in S
  PROVE  SumOver(f, S) = f[x] + SumOver(f, S \ {x})
  <1> DEFINE T == {t \in SUBSET S : \E y \in t : SumOver(f, t) # f[y] + SumOver(f, t \ {y})}
  <1>1. SUFFICES ASSUME T # {} PROVE FALSE
    OBVIOUS
  <1>2. PICK t \in T : \A u \in T : ~ (u \subseteq t /\ u # t)
    <2>1. T \subseteq SUBSET S
      OBVIOUS
    <2> HIDE DEF T
    <2> QED
      BY <1>1, <2>1, SmallestSet
  <1>3. PICK y \in t : SumOver(f, t) # f[y] + SumOver(f, t \ {y})
    OBVIOUS
  <1>4. IsFiniteSet(t) /\ t \in SUBSET S
    BY FS_Subset
  <1> DEFINE p == Chosen(t)
  <1>5. p \in t /\ SumOver(f, t) = f[p] + SumOver(f, t \ {p})
    BY <1>4, SumStep, ChosenIn DEF Others
  <1> HIDE DEF p
  <1>6. y # p
    BY <1>3, <1>5
  <1> DEFINE u == t \ {p}
             v == t \ {y}
             w == (t \ {p}) \ {y}
  <1>7. u \in SUBSET S /\ u \notin T /\ v \in SUBSET S /\ v \notin T
    BY <1>2, <1>4, <1>5
  <1>8. SumOver(f, u) = f[y] + SumOver(f, w)
    BY <1>6, <1>7
  <1>9. SumOver(f, v) = f[p] + SumOver(f, w)
    <2>1. v \ {p} = w /\ p \in v
      BY <1>5, <1>6
    <2>2. SumOver(f, v) = f[p] + SumOver(f, v \ {p})
      BY <1>7, <2>1
    <2> QED
      BY <2>1, <2>2
  <1>10. SumOver(f, w) \in Int /\ f[y] \in Int /\ f[p] \in Int
    <2>1. IsFiniteSet(w) /\ w \in SUBSET S
      BY <1>4, FS_Subset
    <2> QED
      BY <1>4, <1>5, <2>1, SumInt
  <1> HIDE DEF u, v, w
  <1>11. SumOver(f, t) = f[p] + SumOver(f, u) /\ SumOver(f, t) # f[y] + SumOver(f, v)
    BY <1>3, <1>5 DEF u, v
  <1> QED
    BY <1>8, <1>9, <1>10, <1>11

\* Two functions that agree on a set have the same total.
LEMMA SumSame ==
  ASSUME NEW S, IsFiniteSet(S), NEW f, NEW g, \A x \in S : f[x] = g[x]
  PROVE  SumOver(f, S) = SumOver(g, S)
  <1> DEFINE T == {t \in SUBSET S : SumOver(f, t) # SumOver(g, t)}
  <1>1. SUFFICES ASSUME T # {} PROVE FALSE
    OBVIOUS
  <1>2. PICK t \in T : \A u \in T : ~ (u \subseteq t /\ u # t)
    <2>1. T \subseteq SUBSET S
      OBVIOUS
    <2> HIDE DEF T
    <2> QED
      BY <1>1, <2>1, SmallestSet
  <1>3. t # {}
    BY SumEmpty
  <1>4. Chosen(t) \in S /\ Others(t) \in SUBSET S /\ Others(t) \notin T
    BY <1>2, <1>3, OthersSmaller
  <1>5. IsFiniteSet(t)
    BY FS_Subset
  <1>6. SumOver(f, t) = f[Chosen(t)] + SumOver(f, Others(t)) /\ SumOver(g, t) = g[Chosen(t)] + SumOver(g, Others(t))
    BY <1>3, <1>5, SumStep
  <1> QED
    BY <1>4, <1>6

\* Changing one summand changes the total by as much.
LEMMA SumChange ==
  ASSUME NEW S, IsFiniteSet(S), NEW f, NEW g, NEW x \in S,
         \A y \in S : f[y] \in Int /\ g[y] \in Int,
         \A y \in S \ {x} : g[y] = f[y]
  PROVE  SumOver(g, S) = SumOver(f, S) + g[x] - f[x]
  <1> DEFINE R == S \ {x}
  <1>1. IsFiniteSet(R)
    BY FS_RemoveElement
  <1>2. SumOver(f, S) = f[x] + SumOver(f, R) /\ SumOver(g, S) = g[x] + SumOver(g, R)
    BY SumRemove
  <1>3. SumOver(g, R) = SumOver(f, R)
    BY <1>1, SumSame
  <1>4. SumOver(f, R) \in Int /\ f[x] \in Int /\ g[x] \in Int
    BY <1>1, SumInt
  <1> HIDE DEF R
  <1> QED
    BY <1>2, <1>3, <1>4

\* A total of naturals grows with the set.
LEMMA SumBelow ==
  ASSUME NEW S, IsFiniteSet(S), NEW f, \A x \in S : f[x] \in Nat, NEW U \in SUBSET S
  PROVE  /\ SumOver(f, S) \in Nat /\ SumOver(f, U) \in Nat
         /\ SumOver(f, U) <= SumOver(f, S)
  <1> DEFINE T == {t \in SUBSET S : \/ SumOver(f, t) \notin Nat
                                    \/ \E u \in SUBSET t : ~(SumOver(f, u) \in Nat /\ SumOver(f, u) <= SumOver(f, t))}
  <1>1. SUFFICES ASSUME T # {} PROVE FALSE
    OBVIOUS
  <1>2. PICK t \in T : \A u \in T : ~ (u \subseteq t /\ u # t)
    <2>1. T \subseteq SUBSET S
      OBVIOUS
    <2> HIDE DEF T
    <2> QED
      BY <1>1, <2>1, SmallestSet
  <1>3. IsFiniteSet(t) /\ t \in SUBSET S /\ \A y \in t : f[y] \in Int
    BY FS_Subset
  <1>4. CASE t = {}
    BY <1>4, SumEmpty
  <1>5. CASE t # {}
    <2>1. \A y \in t : /\ SumOver(f, t) = f[y] + SumOver(f, t \ {y})
                       /\ t \ {y} \notin T /\ t \ {y} \in SUBSET S
      BY <1>2, <1>3, SumRemove
    <2>2. ASSUME NEW y \in t
          PROVE  SumOver(f, t \ {y}) \in Nat /\ SumOver(f, t \ {y}) <= SumOver(f, t) /\ SumOver(f, t) \in Nat
      <3> DEFINE v == t \ {y}
      <3>1. v \in SUBSET S /\ v \notin T
        BY <2>1
      <3>2. SumOver(f, v) \in Nat /\ f[y] \in Nat
        BY <1>3, <3>1
      <3>3. SumOver(f, t) = f[y] + SumOver(f, v)
        BY <2>1
      <3> HIDE DEF v, T
      <3>4. SumOver(f, v) \in Nat /\ SumOver(f, v) <= SumOver(f, t) /\ SumOver(f, t) \in Nat
        BY <3>2, <3>3
      <3> QED
        BY <3>4 DEF v
    <2>3. PICK y \in t : TRUE
      BY <1>5
    <2>4. SumOver(f, t) \in Nat
      BY <2>2, <2>3
    <2>5. ASSUME NEW u \in SUBSET t, u # t
          PROVE  SumOver(f, u) \in Nat /\ SumOver(f, u) <= SumOver(f, t)
      <3>1. PICK z \in t : u \in SUBSET (t \ {z})
        BY <2>5
      <3>2. SumOver(f, u) \in Nat /\ SumOver(f, u) <= SumOver(f, t \ {z})
        BY <2>1, <3>1
      <3>3. SumOver(f, t \ {z}) <= SumOver(f, t) /\ SumOver(f, t \ {z}) \in Nat
        BY <2>2
      <3> QED
        BY <2>4, <3>2, <3>3
    <2>6. \A u \in SUBSET t : SumOver(f, u) \in Nat /\ SumOver(f, u) <= SumOver(f, t)
      BY <2>4, <2>5
    <2> QED
      BY <2>4, <2>6
  <1> QED
    BY <1>4, <1>5

LEMMA SumAdd ==
  ASSUME NEW S, IsFiniteSet(S), NEW f, NEW x, x \notin S,
         \A y \in S \cup {x} : f[y] \in Int
  PROVE  SumOver(f, S \cup {x}) = SumOver(f, S) + f[x]
  <1>1. IsFiniteSet(S \cup {x}) /\ (S \cup {x}) \ {x} = S
    BY FS_AddElement
  <1>2. SumOver(f, S \cup {x}) = f[x] + SumOver(f, (S \cup {x}) \ {x})
    BY <1>1, SumRemove
  <1>3. SumOver(f, S) \in Int /\ f[x] \in Int
    BY SumInt
  <1> DEFINE U == S \cup {x}
  <1> HIDE DEF U
  <1>4. SumOver(f, U) = f[x] + SumOver(f, S)
    BY <1>1, <1>2 DEF U
  <1>5. SumOver(f, U) = SumOver(f, S) + f[x]
    BY <1>3, <1>4
  <1> QED
    BY <1>5 DEF U

\* No summand is more than u.
LEMMA SumAtMost ==
  ASSUME NEW S, IsFiniteSet(S), NEW f, NEW u \in Nat,
         \A x \in S : f[x] \in Nat /\ f[x] <= u
  PROVE  SumOver(f, S) <= u * Cardinality(S)
  <1> DEFINE T == {t \in SUBSET S : ~ SumOver(f, t) <= u * Cardinality(t)}
  <1>1. SUFFICES ASSUME T # {} PROVE FALSE
    OBVIOUS
  <1>2. PICK t \in T : \A v \in T : ~ (v \subseteq t /\ v # t)
    <2>1. T \subseteq SUBSET S
      OBVIOUS
    <2> HIDE DEF T
    <2> QED
      BY <1>1, <2>1, SmallestSet
  <1>3. IsFiniteSet(t) /\ t \in SUBSET S
    BY FS_Subset
  <1>4. t # {}
    <2>1. u * 0 = 0 /\ 0 <= 0
      OBVIOUS
    <2>2. Cardinality({}) = 0 /\ SumOver(f, {}) = 0
      BY SumEmpty, FS_EmptySet
    <2>3. SumOver(f, {}) <= u * Cardinality({})
      BY <2>1, <2>2
    <2> QED
      BY <2>3
  <1> DEFINE p == Chosen(t)
             v == Others(t)
  <1>5. p \in t /\ v \in SUBSET S /\ v \notin T /\ v = t \ {p}
    BY <1>2, <1>3, <1>4, OthersSmaller DEF Others
  <1>6. SumOver(f, t) = f[p] + SumOver(f, v)
    BY <1>3, <1>4, SumStep
  <1> HIDE DEF p, v
  <1>7. Cardinality(v) = Cardinality(t) - 1 /\ Cardinality(t) \in Nat
    BY <1>3, <1>5, FS_RemoveElement, FS_CardinalityType
  <1>8. SumOver(f, v) <= u * Cardinality(v) /\ f[p] \in Nat /\ f[p] <= u
    BY <1>3, <1>5
  <1>9. SumOver(f, v) \in Int
    BY <1>5, FS_Subset, SumInt
  <1>10. ~ SumOver(f, t) <= u * Cardinality(t)
    OBVIOUS
  <1> HIDE DEF T
  <1>11. u * Cardinality(t) = u * Cardinality(v) + u
    <2> DEFINE n == Cardinality(v)
    <2>1. n \in Int /\ Cardinality(t) = n + 1
      BY <1>7
    <2> HIDE DEF n
    <2>2. u * (n + 1) = u * n + u
      BY <2>1
    <2> QED
      BY <2>1, <2>2 DEF n
  <1>12. u * Cardinality(v) \in Int
    <2> DEFINE n == Cardinality(v)
    <2>1. n \in Int
      BY <1>7
    <2> HIDE DEF n
    <2>2. u * n \in Int
      BY <2>1
    <2> QED
      BY <2>2 DEF n
  <1> QED
    BY <1>6, <1>8, <1>9, <1>10, <1>11, <1>12

\* Members whose summand is zero do not count.
LEMMA SumSupport ==
  ASSUME NEW S, IsFiniteSet(S), NEW f, \A x \in S : f[x] \in Int,
         NEW U \in SUBSET S, \A x \in S \ U : f[x] = 0
  PROVE  SumOver(f, S) = SumOver(f, U)
  <1> DEFINE T == {t \in SUBSET S : U \subseteq t /\ SumOver(f, t) # SumOver(f, U)}
  <1>1. SUFFICES ASSUME T # {} PROVE FALSE
    OBVIOUS
  <1>2. PICK t \in T : \A v \in T : ~ (v \subseteq t /\ v # t)
    <2>1. T \subseteq SUBSET S
      OBVIOUS
    <2> HIDE DEF T
    <2> QED
      BY <1>1, <2>1, SmallestSet
  <1>3. PICK x \in t : x \notin U
    <2>1. t # U /\ U \subseteq t
      OBVIOUS
    <2> QED
      BY <2>1
  <1> DEFINE v == t \ {x}
  <1>4. v \in SUBSET S /\ U \subseteq v /\ v # t /\ v \subseteq t
    BY <1>3
  <1>5. SumOver(f, v) = SumOver(f, U)
    BY <1>2, <1>4
  <1>6. SumOver(f, t) = f[x] + SumOver(f, v) /\ f[x] = 0 /\ SumOver(f, v) \in Int
    <2>1. IsFiniteSet(t) /\ t \in SUBSET S /\ IsFiniteSet(v)
      BY <1>4, FS_Subset
    <2> QED
      BY <1>3, <1>4, <2>1, SumRemove, SumInt
  <1>7. SumOver(f, t) # SumOver(f, U)
    OBVIOUS
  <1> HIDE DEF v, T
  <1> QED
    BY <1>5, <1>6, <1>7

\* Larger summands, larger sum.
LEMMA SumMore ==
  ASSUME NEW S, IsFiniteSet(S), NEW f, NEW g,
         \A x \in S : f[x] \in Int /\ g[x] \in Int /\ f[x] <= g[x]
  PROVE  SumOver(f, S) <= SumOver(g, S)
  <1> DEFINE T == {t \in SUBSET S : ~ SumOver(f, t) <= SumOver(g, t)}
  <1>1. SUFFICES ASSUME T # {} PROVE FALSE
    OBVIOUS
  <1>2. PICK t \in T : \A u \in T : ~ (u \subseteq t /\ u # t)
    <2>1. T \subseteq SUBSET S
      OBVIOUS
    <2> HIDE DEF T
    <2> QED
      BY <1>1, <2>1, SmallestSet
  <1>3. t # {}
    <2>1. SumOver(f, {}) = 0 /\ SumOver(g, {}) = 0
      BY SumEmpty
    <2>2. SumOver(f, {}) <= SumOver(g, {})
      BY <2>1
    <2> QED
      BY <2>2
  <1>4. Chosen(t) \in S /\ Others(t) \in SUBSET S /\ Others(t) \notin T
    BY <1>2, <1>3, OthersSmaller
  <1>5. IsFiniteSet(t) /\ IsFiniteSet(Others(t))
    BY <1>4, FS_Subset
  <1>6. /\ SumOver(f, t) = f[Chosen(t)] + SumOver(f, Others(t))
        /\ SumOver(g, t) = g[Chosen(t)] + SumOver(g, Others(t))
    BY <1>3, <1>5, SumStep
  <1>7. SumOver(f, Others(t)) \in Int /\ SumOver(g, Others(t)) \in Int
    BY <1>4, <1>5, SumInt
  <1>8. SumOver(f, Others(t)) <= SumOver(g, Others(t)) /\ ~ SumOver(f, t) <= SumOver(g, t)
    BY <1>4
  <1> HIDE DEF T
  <1> QED
    BY <1>4, <1>6, <1>7, <1>8

\* A sum over a set is the sum over a part of it and over the rest.
LEMMA SumSplit ==
  ASSUME NEW S, IsFiniteSet(S), NEW f, \A x \in S : f[x] \in Int, NEW U \in SUBSET S
  PROVE  SumOver(f, S) = SumOver(f, U) + SumOver(f, S \ U)
  <1> DEFINE T == {t \in SUBSET S : U \subseteq t /\ SumOver(f, t) # SumOver(f, U) + SumOver(f, t \ U)}
  <1>1. SUFFICES ASSUME T # {} PROVE FALSE
    OBVIOUS
  <1>2. PICK t \in T : \A v \in T : ~ (v \subseteq t /\ v # t)
    <2>1. T \subseteq SUBSET S
      OBVIOUS
    <2> HIDE DEF T
    <2> QED
      BY <1>1, <2>1, SmallestSet
  <1>3. PICK x \in t : x \notin U
    <2>1. SumOver(f, U \ U) = 0
      <3>1. U \ U = {}
        OBVIOUS
      <3> QED
        BY <3>1, SumEmpty
    <2>2. SumOver(f, U) = SumOver(f, U) + SumOver(f, U \ U)
      <3>1. SumOver(f, U) \in Int
        <4>1. IsFiniteSet(U) /\ \A y \in U : f[y] \in Int
          BY FS_Subset
        <4> QED
          BY <4>1, SumInt
      <3> HIDE DEF T
      <3> QED
        BY <2>1, <3>1
    <2>3. t # U /\ U \subseteq t
      BY <2>2
    <2> QED
      BY <2>3
  <1> DEFINE v == t \ {x}
  <1>4. v \in SUBSET S /\ U \subseteq v /\ v # t /\ v \subseteq t
    BY <1>3
  <1>5. SumOver(f, v) = SumOver(f, U) + SumOver(f, v \ U)
    BY <1>2, <1>4
  <1>6. t \in SUBSET S /\ t \ U \in SUBSET S /\ x \in t \ U /\ (t \ U) \ {x} = v \ U /\ v \ U \in SUBSET S
    BY <1>3, <1>4
  <1>7. SumOver(f, t) # SumOver(f, U) + SumOver(f, t \ U)
    OBVIOUS
  <1>8. IsFiniteSet(t) /\ IsFiniteSet(t \ U) /\ IsFiniteSet(v \ U)
    BY <1>6, FS_Subset
  <1>9. SumOver(f, t) = f[x] + SumOver(f, v) /\ SumOver(f, t \ U) = f[x] + SumOver(f, v \ U)
    <2>1. SumOver(f, t) = f[x] + SumOver(f, v)
      BY <1>3, <1>6, <1>8, SumRemove
    <2>2. SumOver(f, t \ U) = f[x] + SumOver(f, (t \ U) \ {x})
      BY <1>6, <1>8, SumRemove
    <2> QED
      BY <1>6, <2>1, <2>2
  <1>10. SumOver(f, U) \in Int /\ SumOver(f, v \ U) \in Int /\ f[x] \in Int
    <2>1. IsFiniteSet(U) /\ \A y \in U : f[y] \in Int
      BY FS_Subset
    <2>2. \A y \in v \ U : f[y] \in Int
      BY <1>6
    <2>3. SumOver(f, U) \in Int
      BY <2>1, SumInt
    <2>4. SumOver(f, v \ U) \in Int
      BY <1>8, <2>2, SumInt
    <2> QED
      BY <1>6, <2>3, <2>4
  <1> HIDE DEF v, T
  <1> QED
    BY <1>5, <1>7, <1>9, <1>10

=============================================================================
