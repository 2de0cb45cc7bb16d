--------------------------- MODULE IdempotentCharge ---------------------------
(***************************************************************************)
(* One Idempotency-Key of one tenant on a money endpoint                   *)
(* (middleware/idempotency.ts, idempotencyRepository.ts) whose handler     *)
(* charges the tenant's account (public-api/companyRoutes.ts).             *)
(*                                                                         *)
(* The client sends the request again and again, each attempt on a server  *)
(* process of its own.  A claim is one transaction but several statements, *)
(* each of which sees what the others have committed by then.  Time is     *)
(* abstract: a claim turns stale when TAKEOVER_AFTER_MS have passed.       *)
(***************************************************************************)
EXTENDS CreditAccount

CONSTANTS
  Attempts,   \* the requests with this key
  Cost,       \* API_COST_COMPANY_ENRICH
  Funds,      \* the tenant's credits
  Faults,     \* what may go wrong, see FaultKinds
  MaxFaults,  \* bound: how often
  Nobody      \* no response is stored

\* A process dies before or after its handler's commit, the handler fails, the
\* response cannot be stored, the handler outlives TAKEOVER_AFTER_MS.
FaultKinds == {"crash_before", "crash_after", "handler", "finalize", "slow"}

ASSUME IdempotencyAssumption ==
  /\ {Cost, Funds} \subseteq Nat
  /\ MaxFaults \in Nat
  /\ Faults \subseteq FaultKinds
  /\ Nobody \notin Attempts

VARIABLES
  account,    \* the tenant's credits and ledger
  key,        \* the idempotency_keys row; `response` names the attempt it answers
  attempt,    \* what each attempt is doing
  answer,     \* the attempt whose response each attempt was given
  faults,     \* how often something went wrong
  seen        \* what has gone wrong, and whether a claimant found no row

vars == <<account, key, attempt, answer, faults, seen>>

NoRow == [status |-> "absent", response |-> Nobody, age |-> "fresh"]

Sentinel == [status |-> "in_flight", response |-> Nobody, age |-> "fresh"]

Init ==
  /\ account = [EmptyAccount EXCEPT !.total = Funds, !.sum = Funds]
  /\ key     = NoRow
  /\ attempt = [a \in Attempts |-> "unsent"]
  /\ answer  = [a \in Attempts |-> Nobody]
  /\ faults  = 0
  /\ seen    = {}

InFlight == key.status = "in_flight"

Goes(a, from, to) == attempt[a] = from /\ attempt' = [attempt EXCEPT ![a] = to]

Happens(kind) ==
  /\ kind \in Faults
  /\ faults < MaxFaults
  /\ faults' = faults + 1
  /\ seen' = seen \cup {kind}

Request(a) ==
  /\ Goes(a, "unsent", "asking")
  /\ UNCHANGED <<account, key, answer, faults, seen>>

(***************************************************************************)
(* claim.                                                                  *)
(***************************************************************************)

\* Broken variant: ON CONFLICT DO UPDATE.
UpsertSentinel(a) ==
  /\ Goes(a, "asking", "executing")
  /\ key' = Sentinel
  /\ UNCHANGED <<account, answer, faults, seen>>

\* INSERT ... ON CONFLICT DO NOTHING.
InsertSentinel(a) ==
  /\ \/ /\ key = NoRow
        /\ Goes(a, "asking", "executing")
        /\ key' = Sentinel
     \/ /\ key # NoRow
        /\ Goes(a, "asking", "conflict")
        /\ UNCHANGED key
  /\ UNCHANGED <<account, answer, faults, seen>>

\* The row is gone: treated as claimed, though nothing is staked.
FindNoRow(a) ==
  /\ key = NoRow
  /\ Goes(a, "conflict", "executing")
  /\ seen' = seen \cup {"vanished"}
  /\ UNCHANGED <<account, key, answer, faults>>

Replay(a) ==
  /\ key.status = "stored"
  /\ Goes(a, "conflict", "answered")
  /\ answer' = [answer EXCEPT ![a] = key.response]
  /\ UNCHANGED <<account, key, faults, seen>>

\* 409 request_in_flight: the client asks again.
FindTwin(a) ==
  /\ InFlight
  /\ key.age = "fresh"
  /\ Goes(a, "conflict", "asking")
  /\ UNCHANGED <<account, key, answer, faults, seen>>

\* Broken variant: a stale claim is refused like a fresh one.
FindStaleRefused(a) ==
  /\ InFlight
  /\ key.age = "stale"
  /\ Goes(a, "conflict", "asking")
  /\ UNCHANGED <<account, key, answer, faults, seen>>

FindStale(a) ==
  /\ InFlight
  /\ key.age = "stale"
  /\ Goes(a, "conflict", "taking")
  /\ UNCHANGED <<account, key, answer, faults, seen>>

\* Broken variant: it does not.
TakeOverBlind(a) ==
  /\ Goes(a, "taking", "executing")
  /\ key' = Sentinel
  /\ UNCHANGED <<account, answer, faults, seen>>

\* The UPDATE tests the sentinel and its age again.
TakeOver(a) ==
  /\ IF InFlight /\ key.age = "stale"
     THEN Goes(a, "taking", "executing") /\ key' = Sentinel
     ELSE Goes(a, "taking", "asking") /\ UNCHANGED key
  /\ UNCHANGED <<account, answer, faults, seen>>

(***************************************************************************)
(* The handler, and the end of the claim.                                  *)
(***************************************************************************)

\* Every executed call is a spend under a random ledger key.
Charge(a) ==
  /\ CanCover(account, Cost)
  /\ Goes(a, "executing", "charged")
  /\ account' = Spend(account, account, <<"api", a>>, Cost)
  /\ UNCHANGED <<key, answer, faults, seen>>

\* InsufficientCreditsError.
Refuse(a) ==
  /\ ~CanCover(account, Cost)
  /\ Goes(a, "executing", "failed")
  /\ UNCHANGED <<account, key, answer, faults, seen>>

HandlerFails(a) ==
  /\ Happens("handler")
  /\ Goes(a, "executing", "failed")
  /\ UNCHANGED <<account, key, answer>>

\* finalize is guarded by the sentinel: a later one finds the first response.
Finalize(a) ==
  /\ Goes(a, "charged", "answered")
  /\ key' = IF InFlight THEN [key EXCEPT !.status = "stored", !.response = a] ELSE key
  /\ answer' = [answer EXCEPT ![a] = a]
  /\ UNCHANGED <<account, faults, seen>>

\* Broken variant: the DELETE is not guarded by the sentinel.
ReleasedAlways == NoRow

Released == IF InFlight THEN NoRow ELSE key

\* The response is not stored, and the claim is released.
FinalizeFails(a) ==
  /\ Happens("finalize")
  /\ Goes(a, "charged", "answered")
  /\ key' = Released
  /\ answer' = [answer EXCEPT ![a] = a]
  /\ UNCHANGED account

\* Broken variant: a failure is stored as the response.
StoreFailure(a) ==
  /\ Goes(a, "failed", "asking")
  /\ key' = IF InFlight THEN [key EXCEPT !.status = "stored", !.response = a] ELSE key
  /\ UNCHANGED <<account, answer, faults, seen>>

\* Failures are never replayed; the client asks again.
ReleaseClaim(a) ==
  /\ Goes(a, "failed", "asking")
  /\ key' = Released
  /\ UNCHANGED <<account, answer, faults, seen>>

(***************************************************************************)
(* Crashes, and the passing of time.                                       *)
(***************************************************************************)

\* The client sees a timeout and asks again with another attempt.
CrashBefore(a) ==
  /\ Happens("crash_before")
  /\ Goes(a, "executing", "dead")
  /\ UNCHANGED <<account, key, answer>>

CrashAfter(a) ==
  /\ Happens("crash_after")
  /\ Goes(a, "charged", "dead")
  /\ UNCHANGED <<account, key, answer>>

Working == {a \in Attempts : attempt[a] \in {"executing", "charged", "failed"}}

GrowStale ==
  /\ InFlight
  /\ key.age = "fresh"
  /\ key' = [key EXCEPT !.age = "stale"]
  /\ IF Working = {} THEN UNCHANGED <<faults, seen>> ELSE Happens("slow")
  /\ UNCHANGED <<account, attempt, answer>>

Claim(a) ==
  \/ InsertSentinel(a) \/ FindNoRow(a) \/ Replay(a)
  \/ FindTwin(a) \/ FindStale(a) \/ TakeOver(a)

Settle(a) == Finalize(a) \/ ReleaseClaim(a)

Next ==
  \/ \E a \in Attempts : \/ Request(a) \/ Claim(a)
                         \/ Charge(a) \/ Refuse(a) \/ HandlerFails(a)
                         \/ Settle(a) \/ FinalizeFails(a)
                         \/ CrashBefore(a) \/ CrashAfter(a)
  \/ GrowStale

Spec == Init /\ [][Next]_vars

(***************************************************************************)
(* Fairness: what a server process has begun goes on unless it dies, a     *)
(* client that was refused asks again, and time passes.                    *)
(***************************************************************************)
LiveSpec ==
  /\ Spec
  /\ \A a \in Attempts :
       WF_vars(Claim(a) \/ Charge(a) \/ Refuse(a) \/ HandlerFails(a)
               \/ Settle(a) \/ FinalizeFails(a))
  /\ WF_vars(GrowStale)

-----------------------------------------------------------------------------
(***************************************************************************)
(* Properties.                                                             *)
(***************************************************************************)

TypeOK ==
  /\ account \in Accounts({"api"} \X Attempts)
  /\ key \in [status : {"absent", "in_flight", "stored"},
              response : Attempts \cup {Nobody}, age : {"fresh", "stale"}]
  /\ attempt \in [Attempts ->
       {"unsent", "asking", "conflict", "taking", "executing", "charged", "failed",
        "answered", "dead"}]
  /\ answer \in [Attempts -> Attempts \cup {Nobody}]
  /\ faults \in 0 .. MaxFaults
  /\ seen \subseteq FaultKinds \cup {"vanished"}

Charged(a) == <<"api", a>> \in account.keys

\* companyRoutes.ts: "a retry after a timeout cannot double-charge you"; the
\* middleware "never lets the same Idempotency-Key execute twice".
ChargedOnce == \A a, b \in Attempts : Charged(a) /\ Charged(b) => a = b

\* No claimant was cut off between its commit and the stored response, ran past
\* the takeover, or found the row it had conflicted with gone.
Undisturbed == seen \cap {"crash_after", "finalize", "slow", "vanished"} = {}

\* What the middleware does ensure, however many attempts run at once, and
\* though handlers fail and claimants die before they commit.
ChargedOnceUnlessCutOff == Undisturbed => ChargedOnce

\* One response is stored and every replay gives that one, whatever stale
\* claimants finalize or release later.
FirstResponseStands ==
  [][key.status = "stored" => key' = key]_vars

\* An answer is the response of an execution that was charged: failures are not
\* replayed.
AnswersWereCharged ==
  \A a \in Attempts : answer[a] # Nobody => Charged(answer[a])

\* While undisturbed there is one claimant, behind a fresh sentinel, and whoever
\* was charged is it, or has stored its response.
OneClaimant ==
  Undisturbed =>
    /\ \A a, b \in Working : a = b
    /\ Working # {} => InFlight /\ key.age = "fresh"
    /\ \A a \in Attempts : Charged(a) => attempt[a] = "charged" \/ key.status = "stored"

\* The inductive invariant.
ClaimInv ==
  /\ TypeOK
  /\ OneClaimant
  /\ ChargedOnceUnlessCutOff
  /\ AnswersWereCharged
  /\ \A a \in Attempts : attempt[a] = "charged" => Charged(a)
  /\ key.status = "stored" => key.response \in Attempts /\ Charged(key.response)

\* A claimant that died cannot brick the key: a client that keeps asking is
\* answered, unless its own process dies or the tenant cannot pay.
KeyNeverBricked ==
  \A a \in Attempts :
    attempt[a] = "asking" ~>
      (attempt[a] \in {"answered", "dead"} \/ ~CanCover(account, Cost))

=============================================================================
