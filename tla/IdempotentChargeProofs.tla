------------------------ MODULE IdempotentChargeProofs ------------------------
(***************************************************************************)
(* Proofs about IdempotentCharge: its claim invariant is inductive, so the *)
(* key is charged once unless a claimant is cut off, whatever the number   *)
(* of attempts and of faults.                                              *)
(***************************************************************************)
EXTENDS IdempotentCharge, MoneyLemmas

USE DEF NoRow, Sentinel, InFlight, Working, Goes, Happens, Charged, Undisturbed

\* A charge posts its own entry and no other.
LEMMA ChargePosts ==
  ASSUME NEW a \in Attempts, TypeOK
  PROVE  /\ Spend(account, account, <<"api", a>>, Cost) \in Accounts({"api"} \X Attempts)
         /\ Spend(account, account, <<"api", a>>, Cost).keys = account.keys \cup {<<"api", a>>}
  <1>1. /\ account \in Accounts({"api"} \X Attempts)
        /\ <<"api", a>> \in {"api"} \X Attempts
        /\ Cost \in Nat
    BY IdempotencyAssumption DEF TypeOK
  <1> QED BY <1>1, SpendPosts

\* The invariant holds when no attempt has been made.
LEMMA InitClaim == Init => ClaimInv
  <1> SUFFICES ASSUME Init
               PROVE  ClaimInv
    OBVIOUS
  <1>1. account \in Accounts({"api"} \X Attempts) /\ account.keys = {}
    <2>1. Funds \in Int /\ 0 \in Int /\ {} \in SUBSET ({"api"} \X Attempts)
      BY IdempotencyAssumption
    <2>2. account = [total |-> Funds, sub |-> 0, sum |-> Funds, keys |-> {}]
      BY DEF Init, EmptyAccount
    <2> QED BY <2>1, <2>2 DEF Accounts
  <1>2. TypeOK
    BY <1>1, IdempotencyAssumption DEF Init, TypeOK
  <1>3. OneClaimant /\ ChargedOnceUnlessCutOff /\ AnswersWereCharged
    BY <1>1 DEF Init, OneClaimant, ChargedOnceUnlessCutOff, ChargedOnce, AnswersWereCharged
  <1> QED BY <1>2, <1>3 DEF Init, ClaimInv

\* Every step keeps the types.
LEMMA StepTypes ==
  ASSUME TypeOK, [Next]_vars
  PROVE  TypeOK'
  <1>1. ASSUME NEW a \in Attempts, Charge(a)
        PROVE  TypeOK'
    <2>1. account' \in Accounts({"api"} \X Attempts)
      BY <1>1, ChargePosts DEF Charge
    <2> QED BY <1>1, <2>1 DEF Charge, TypeOK
  <1>2. ASSUME NEW a \in Attempts, Request(a)
        PROVE  TypeOK'
    BY <1>2 DEF Request, TypeOK
  <1>3. ASSUME NEW a \in Attempts, Claim(a)
        PROVE  TypeOK'
    <2>1. CASE InsertSentinel(a)
      BY <2>1 DEF InsertSentinel, TypeOK
    <2>2. CASE FindNoRow(a)
      BY <2>2 DEF FindNoRow, TypeOK
    <2>3. CASE Replay(a)
      BY <2>3 DEF Replay, TypeOK
    <2>4. CASE FindTwin(a) \/ FindStale(a)
      BY <2>4 DEF FindTwin, FindStale, TypeOK
    <2>5. CASE TakeOver(a)
      BY <2>5 DEF TakeOver, TypeOK
    <2> QED BY <1>3, <2>1, <2>2, <2>3, <2>4, <2>5 DEF Claim
  <1>4. ASSUME NEW a \in Attempts, Refuse(a)
        PROVE  TypeOK'
    BY <1>4 DEF Refuse, TypeOK
  <1>5. ASSUME NEW a \in Attempts, HandlerFails(a) \/ CrashBefore(a) \/ CrashAfter(a)
        PROVE  TypeOK'
    <2>1. faults' \in 0 .. MaxFaults /\ seen' \subseteq FaultKinds \cup {"vanished"}
      BY <1>5, IdempotencyAssumption DEF HandlerFails, CrashBefore, CrashAfter, TypeOK
    <2> QED BY <1>5, <2>1 DEF HandlerFails, CrashBefore, CrashAfter, TypeOK
  <1>6. ASSUME NEW a \in Attempts, Settle(a)
        PROVE  TypeOK'
    <2>1. CASE Finalize(a)
      BY <2>1 DEF Finalize, TypeOK
    <2>2. CASE ReleaseClaim(a)
      BY <2>2 DEF ReleaseClaim, Released, TypeOK
    <2> QED BY <1>6, <2>1, <2>2 DEF Settle
  <1>7. ASSUME NEW a \in Attempts, FinalizeFails(a)
        PROVE  TypeOK'
    <2>1. faults' \in 0 .. MaxFaults /\ seen' \subseteq FaultKinds \cup {"vanished"}
      BY <1>7, IdempotencyAssumption DEF FinalizeFails, TypeOK
    <2> QED BY <1>7, <2>1 DEF FinalizeFails, Released, TypeOK
  <1>8. CASE GrowStale
    <2>1. faults' \in 0 .. MaxFaults /\ seen' \subseteq FaultKinds \cup {"vanished"}
      BY <1>8, IdempotencyAssumption DEF GrowStale, TypeOK
    <2> QED BY <1>8, <2>1 DEF GrowStale, TypeOK
  <1>9. CASE UNCHANGED vars
    BY <1>9 DEF vars, TypeOK
  <1> QED BY <1>1, <1>2, <1>3, <1>4, <1>5, <1>6, <1>7, <1>8, <1>9 DEF Next

\* The claim: whoever is let through while undisturbed finds nobody at work.
LEMMA ClaimKeeps ==
  ASSUME ClaimInv, NEW a \in Attempts, Claim(a) \/ Request(a)
  PROVE  OneClaimant' /\ ChargedOnceUnlessCutOff' /\ AnswersWereCharged'
  <1> USE DEF ClaimInv, TypeOK, OneClaimant, ChargedOnceUnlessCutOff, ChargedOnce,
              AnswersWereCharged
  <1>1. CASE InsertSentinel(a)
    BY <1>1 DEF InsertSentinel
  <1>2. CASE FindNoRow(a)
    BY <1>2 DEF FindNoRow
  <1>3. CASE Replay(a) \/ FindTwin(a) \/ FindStale(a) \/ Request(a)
    BY <1>3 DEF Replay, FindTwin, FindStale, Request
  <1>4. CASE TakeOver(a)
    BY <1>4 DEF TakeOver
  <1> QED BY <1>1, <1>2, <1>3, <1>4 DEF Claim

\* The handler runs for the one claimant, and only its commit charges.
LEMMA HandlerKeeps ==
  ASSUME ClaimInv, NEW a \in Attempts,
         Charge(a) \/ Refuse(a) \/ HandlerFails(a) \/ CrashBefore(a) \/ CrashAfter(a)
  PROVE  OneClaimant' /\ ChargedOnceUnlessCutOff' /\ AnswersWereCharged'
  <1> USE DEF ClaimInv, TypeOK, OneClaimant, ChargedOnceUnlessCutOff, ChargedOnce,
              AnswersWereCharged
  <1>1. CASE Charge(a)
    <2>1. account'.keys = account.keys \cup {<<"api", a>>}
      BY <1>1, ChargePosts DEF Charge
    <2>2. \A b \in Attempts : Charged(b)' <=> (Charged(b) \/ b = a)
      BY <2>1
    <2>3. a \in Working /\ attempt[a] # "charged"
      BY <1>1 DEF Charge
    <2>4. Undisturbed => \A b \in Attempts : ~Charged(b)
      BY <2>3
    <2> QED BY <1>1, <2>2, <2>4 DEF Charge
  <1>2. CASE Refuse(a) \/ HandlerFails(a)
    BY <1>2 DEF Refuse, HandlerFails
  <1>3. CASE CrashBefore(a) \/ CrashAfter(a)
    BY <1>3 DEF CrashBefore, CrashAfter
  <1> QED BY <1>1, <1>2, <1>3

\* The end of a claim: a response that is stored belongs to a charge.
LEMMA SettleKeeps ==
  ASSUME ClaimInv, NEW a \in Attempts, Settle(a) \/ FinalizeFails(a)
  PROVE  OneClaimant' /\ ChargedOnceUnlessCutOff' /\ AnswersWereCharged'
  <1> USE DEF ClaimInv, TypeOK, OneClaimant, ChargedOnceUnlessCutOff, ChargedOnce,
              AnswersWereCharged
  <1>1. CASE Finalize(a)
    BY <1>1 DEF Finalize
  <1>2. CASE ReleaseClaim(a)
    BY <1>2 DEF ReleaseClaim, Released
  <1>3. CASE FinalizeFails(a)
    BY <1>3 DEF FinalizeFails, Released
  <1> QED BY <1>1, <1>2, <1>3 DEF Settle

\* The last two conjuncts of the invariant: what is charged or stored has its
\* ledger entry.
LEMMA EntriesStay ==
  ASSUME ClaimInv, [Next]_vars
  PROVE  /\ \A b \in Attempts : attempt'[b] = "charged" => Charged(b)'
         /\ key'.status = "stored" => key'.response \in Attempts /\ Charged(key.response)'
  <1> USE DEF ClaimInv, TypeOK
  <1>1. ASSUME NEW a \in Attempts, Charge(a)
        PROVE  account'.keys = account.keys \cup {<<"api", a>>}
    BY <1>1, ChargePosts DEF Charge
  <1>2. ASSUME NEW a \in Attempts, Charge(a)
        PROVE  /\ \A b \in Attempts : attempt'[b] = "charged" => Charged(b)'
               /\ key'.status = "stored" => key'.response \in Attempts /\ Charged(key.response)'
    BY <1>1, <1>2 DEF Charge
  <1>3. ASSUME NEW a \in Attempts, Request(a) \/ Claim(a)
        PROVE  /\ \A b \in Attempts : attempt'[b] = "charged" => Charged(b)'
               /\ key'.status = "stored" => key'.response \in Attempts /\ Charged(key.response)'
    BY <1>3 DEF Request, Claim, InsertSentinel, FindNoRow, Replay, FindTwin, FindStale, TakeOver
  <1>4. ASSUME NEW a \in Attempts,
               Refuse(a) \/ HandlerFails(a) \/ CrashBefore(a) \/ CrashAfter(a)
        PROVE  /\ \A b \in Attempts : attempt'[b] = "charged" => Charged(b)'
               /\ key'.status = "stored" => key'.response \in Attempts /\ Charged(key.response)'
    BY <1>4 DEF Refuse, HandlerFails, CrashBefore, CrashAfter
  <1>5. ASSUME NEW a \in Attempts, Settle(a) \/ FinalizeFails(a)
        PROVE  /\ \A b \in Attempts : attempt'[b] = "charged" => Charged(b)'
               /\ key'.status = "stored" => key'.response \in Attempts /\ Charged(key.response)'
    <2>1. CASE Finalize(a)
      BY <2>1 DEF Finalize
    <2>2. CASE ReleaseClaim(a)
      BY <2>2 DEF ReleaseClaim, Released
    <2>3. CASE FinalizeFails(a)
      BY <2>3 DEF FinalizeFails, Released
    <2> QED BY <1>5, <2>1, <2>2, <2>3 DEF Settle
  <1>6. CASE GrowStale
    BY <1>6 DEF GrowStale
  <1>7. CASE UNCHANGED vars
    BY <1>7 DEF vars
  <1> QED BY <1>2, <1>3, <1>4, <1>5, <1>6, <1>7 DEF Next

\* The invariant is inductive.
LEMMA StepClaim == ClaimInv /\ [Next]_vars => ClaimInv'
  <1> SUFFICES ASSUME ClaimInv, [Next]_vars
               PROVE  ClaimInv'
    OBVIOUS
  <1>1. TypeOK'
    BY StepTypes DEF ClaimInv
  <1>2. OneClaimant' /\ ChargedOnceUnlessCutOff' /\ AnswersWereCharged'
    <2>1. CASE GrowStale
      BY <2>1 DEF GrowStale, ClaimInv, TypeOK, OneClaimant, ChargedOnceUnlessCutOff,
                  ChargedOnce, AnswersWereCharged
    <2>2. CASE UNCHANGED vars
      BY <2>2 DEF vars, ClaimInv, OneClaimant, ChargedOnceUnlessCutOff,
                  ChargedOnce, AnswersWereCharged
    <2> QED BY <2>1, <2>2, ClaimKeeps, HandlerKeeps, SettleKeeps DEF Next
  <1> QED BY <1>1, <1>2, EntriesStay DEF ClaimInv

\* ClaimInv is an invariant of the middleware.
THEOREM ClaimInvHolds == Spec => []ClaimInv
  BY InitClaim, StepClaim, PTL DEF Spec

\* However many attempts, retries, failures and deaths: the key is charged once
\* unless a claimant was cut off after its commit.
THEOREM ChargesOnce == Spec => []ChargedOnceUnlessCutOff
  <1>1. ClaimInv => ChargedOnceUnlessCutOff
    BY DEF ClaimInv
  <1> QED BY <1>1, ClaimInvHolds, PTL

\* Nobody is given the response of a call that was not charged.
THEOREM NoEmptyAnswer == Spec => []AnswersWereCharged
  <1>1. ClaimInv => AnswersWereCharged
    BY DEF ClaimInv
  <1> QED BY <1>1, ClaimInvHolds, PTL

\* The stored response is never replaced or removed by a late finalize, release
\* or takeover.
THEOREM StoredStands == Spec => FirstResponseStands
  <1>1. ClaimInv /\ [Next]_vars => (key.status = "stored" => key' = key)
    <2> SUFFICES ASSUME ClaimInv, [Next]_vars, key.status = "stored"
                 PROVE  key' = key
      OBVIOUS
    <2> USE DEF ClaimInv, TypeOK
    <2>1. ASSUME NEW a \in Attempts, Request(a) \/ Claim(a)
          PROVE  key' = key
      BY <2>1 DEF Request, Claim, InsertSentinel, FindNoRow, Replay, FindTwin, FindStale, TakeOver
    <2>2. ASSUME NEW a \in Attempts,
                 Charge(a) \/ Refuse(a) \/ HandlerFails(a) \/ CrashBefore(a) \/ CrashAfter(a)
          PROVE  key' = key
      BY <2>2 DEF Charge, Refuse, HandlerFails, CrashBefore, CrashAfter
    <2>3. ASSUME NEW a \in Attempts, Settle(a) \/ FinalizeFails(a)
          PROVE  key' = key
      BY <2>3 DEF Settle, Finalize, ReleaseClaim, FinalizeFails, Released
    <2>4. CASE GrowStale
      BY <2>4 DEF GrowStale
    <2>5. CASE UNCHANGED vars
      BY <2>5 DEF vars
    <2> QED BY <2>1, <2>2, <2>3, <2>4, <2>5 DEF Next
  <1> QED BY <1>1, ClaimInvHolds, PTL DEF Spec, FirstResponseStands

=============================================================================
