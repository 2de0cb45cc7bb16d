---------------------------- MODULE ContactReveal ----------------------------
(***************************************************************************)
(* One contact of one workspace: its concurrent reveals (revealContact.ts, *)
(* revealCharge.ts, chargeFor.ts, revealRepository.ts), the sequence that  *)
(* then mails it (sendStep.ts) and the hard bounce that suppresses it and  *)
(* gives the charge back (handleBounce.ts, outreachLogRepository.ts).      *)
(*                                                                         *)
(* A reveal reads and verifies the contact with no transaction open; its   *)
(* transaction passes the suppression gate, waits for the contact's row,   *)
(* and then decides what is new and commits, by what it read at first: a   *)
(* field the contact gains in between is not seen.  A send and a bounce    *)
(* read the enrollment without a lock and write it when they commit.       *)
(***************************************************************************)
EXTENDS CreditAccount, FiniteSets

CONSTANTS
  Requests,      \* reveal requests of the workspace's users
  Asked,         \* the reveal types they may ask for
  Price,         \* credits per reveal type
  Funds,         \* the tenant's credits
  Steps,         \* steps of the sequence the contact is enrolled in
  Webhooks       \* handlers of bounce notifications running at once

Types == {"email", "phone", "full_profile"}

Fields == {"email", "phone"}

ASSUME RevealsAssumption ==
  /\ IsFiniteSet(Requests)
  /\ Asked \subseteq Types
  /\ Price \in [Types -> Nat]
  /\ Funds \in Nat
  /\ Steps \in Nat
  /\ IsFiniteSet(Webhooks)

VARIABLES
  present,      \* the fields the workspace's copy of the contact holds
  account,      \* the tenant's credits and ledger
  claim,        \* contact_reveals, a row per reveal type at most
  rowLock,      \* the requests whose transactions hold the contact's row
  request,      \* what each reveal request has seen and done
  enrollment,   \* outreach_log: status and current_step
  sending,      \* is a send transaction open?
  handling,     \* the webhooks whose transactions have read the enrollment
  suppressed,   \* is there a suppression_list row for the contact?
  posted,       \* history: was a mail ever given to the provider?
  races,        \* history: how often a bounce was read while another was being
                \* handled, or its status was written over by a send
  credits       \* history: credit-backs to the counter

vars == <<present, account, claim, rowLock, request, enrollment, sending, handling,
          suppressed, posted, races, credits>>

\* What only the send and the bounce change.
outreach == <<enrollment, sending, handling, suppressed, posted, races, credits>>

\* A claim's row has the fields that were found, `new` are those of them that
\* no earlier claim owned.
Unclaimed == [at |-> 0, cost |-> 0, fields |-> {}, new |-> {}]

\* `found` are the fields asked for that the pre-read found, `licensed` those of
\* them that only Layer 0 holds.
Waiting == [pc |-> "idle", type |-> "email", found |-> {}, licensed |-> {}, usable |-> {},
            at |-> 0, owned |-> {}, delivered |-> {}]

Init ==
  /\ present \in SUBSET Fields
  /\ account = [EmptyAccount EXCEPT !.total = Funds, !.sum = Funds]
  /\ claim = [t \in Types |-> Unclaimed]
  /\ rowLock = {}
  /\ request = [q \in Requests |-> Waiting]
  /\ enrollment = [status |-> "enrolled", step |-> 0]
  /\ sending = FALSE
  /\ handling = {}
  /\ suppressed = FALSE
  /\ posted = FALSE
  /\ races = 0
  /\ credits = 0

(***************************************************************************)
(* What a reveal covers and costs.                                         *)
(***************************************************************************)

Covers(t) ==
  CASE t = "email"        -> {"email"}
    [] t = "phone"        -> {"phone"}
    [] t = "full_profile" -> {"email", "phone"}

Claimed(t) == claim[t] # Unclaimed

\* Broken variant: a claim that cost nothing does not count.
OwnedPaid == UNION {Covers(t) : t \in {u \in Types : Claimed(u) /\ claim[u].cost > 0}}

\* ownedRevealFields: any claim of a covering type, whatever it cost.
Owned == UNION {Covers(t) : t \in {u \in Types : Claimed(u)}}

\* A bundle of two new fields is priced, and graded, by its email.
Cost(new, usable) ==
  CASE new = {"email", "phone"} -> IF "email" \in usable THEN Price["full_profile"] ELSE 0
    [] new = {"email"}          -> IF "email" \in usable THEN Price["email"] ELSE 0
    [] new = {"phone"}          -> IF "phone" \in usable THEN Price["phone"] ELSE 0
    [] OTHER                    -> 0

(***************************************************************************)
(* The reveal.                                                             *)
(***************************************************************************)

\* An import or an enrichment fills a field of the contact; like every update
\* it waits for the row.  Known values are never wiped.
Gain ==
  /\ rowLock = {}
  /\ \E field \in Fields \ present : present' = present \cup {field}
  /\ UNCHANGED <<account, claim, rowLock, request, outreach>>

\* A request of some type: the pre-read, Layer 0's values for what the copy lacks,
\* and what the verifiers make of the fields.
Verify(q) ==
  /\ request[q].pc = "idle"
  /\ \E t \in Asked :
       \E licensed \in SUBSET (Covers(t) \ present) :
         \E usable \in SUBSET ((Covers(t) \cap present) \cup licensed) :
           request' = [request EXCEPT
             ![q].pc       = "verified",
             ![q].type     = t,
             ![q].found    = (Covers(t) \cap present) \cup licensed,
             ![q].licensed = licensed,
             ![q].usable   = usable]
  /\ UNCHANGED <<present, account, claim, rowLock, outreach>>

\* The transaction begins (a claim's revealed_at is its begin, now()) and
\* assertNotSuppressed lets it pass or ends it.
Begin(q) ==
  /\ request[q].pc = "verified"
  /\ request' = [request EXCEPT
       ![q].pc = IF suppressed THEN "refused" ELSE "gated",
       ![q].at = 1 + Cardinality({p \in Requests : request[p].at > 0})]
  /\ UNCHANGED <<present, account, claim, rowLock, outreach>>

\* contactRepository.update takes the contact's row; what the workspace owns is
\* read under it.
LockContact(q) ==
  /\ request[q].pc = "gated"
  /\ rowLock = {}
  /\ rowLock' = {q}
  /\ request' = [request EXCEPT ![q].pc = "locked", ![q].owned = Owned]
  /\ UNCHANGED <<present, account, claim, outreach>>

\* A request that has been answered: what it read is gone.
Answered(q, pc, delivered) ==
  [Waiting EXCEPT !.pc = pc, !.at = request[q].at, !.delivered = delivered]

\* Broken variant: the row is not given back.
RespondHolding(q, pc, delivered) ==
  /\ request' = [request EXCEPT ![q] = Answered(q, pc, delivered)]
  /\ UNCHANGED rowLock

Respond(q, pc, delivered) ==
  /\ request' = [request EXCEPT ![q] = Answered(q, pc, delivered)]
  /\ rowLock' = rowLock \ {q}

\* Layer 0's values are copied onto the contact when the transaction commits,
\* an email unless another contact of the workspace has its address.
Copied(q) ==
  \E kept \in SUBSET request[q].licensed :
    /\ "phone" \in request[q].licensed => "phone" \in kept
    /\ present' = present \cup kept

\* Same type claimed before: the fields are returned and nothing is charged.
AlreadyClaimed(q) ==
  /\ request[q].pc = "locked"
  /\ Claimed(request[q].type)
  /\ Copied(q)
  /\ Respond(q, "done", request[q].found)
  /\ UNCHANGED <<account, claim, outreach>>

ClaimAndCharge(q) ==
  LET t    == request[q].type
      new  == request[q].found \ request[q].owned
      cost == Cost(new, request[q].usable)
  IN  /\ request[q].pc = "locked"
      /\ ~Claimed(t)
      /\ CanCover(account, cost)
      /\ claim' = [claim EXCEPT ![t] = [at     |-> request[q].at,
                                        cost   |-> cost,
                                        fields |-> request[q].found,
                                        new    |-> new]]
      /\ account' = IF cost = 0
                    THEN account
                    ELSE Spend(account, account, <<"reveal", t>>, cost)
      /\ Copied(q)
      /\ Respond(q, "done", request[q].found)
      /\ UNCHANGED outreach

\* Broken variant: the fields are returned though nothing was committed.
AbortDelivering(q) ==
  /\ request[q].pc = "locked"
  /\ Respond(q, "refused", request[q].found)
  /\ UNCHANGED <<present, account, claim, outreach>>

\* InsufficientCreditsError, or any other failure before COMMIT.
Abort(q) ==
  /\ request[q].pc = "locked"
  /\ Respond(q, "refused", {})
  /\ UNCHANGED <<present, account, claim, outreach>>

(***************************************************************************)
(* The send.                                                               *)
(***************************************************************************)

\* The gate, and the call of the provider, which cannot be taken back.
Send ==
  /\ ~sending
  /\ enrollment.step < Steps
  /\ \E t \in Types : Claimed(t)
  /\ "email" \in present
  /\ ~suppressed
  /\ sending' = TRUE
  /\ posted' = TRUE
  /\ UNCHANGED <<present, account, claim, rowLock, request, enrollment, handling, suppressed,
                 races, credits>>

\* `advance` writes the status it computed over whatever is there.
Advance ==
  LET step == enrollment.step + 1
  IN  /\ sending
      /\ enrollment' = [status |-> IF step >= Steps THEN "completed" ELSE "active",
                        step   |-> step]
      /\ sending' = FALSE
      /\ races' = IF enrollment.status = "bounced" THEN races + 1 ELSE races
      /\ UNCHANGED <<present, account, claim, rowLock, request, handling, suppressed,
                     posted, credits>>

SendFails ==
  /\ sending
  /\ sending' = FALSE
  /\ UNCHANGED <<present, account, claim, rowLock, request, enrollment, handling, suppressed,
                 posted, races, credits>>

(***************************************************************************)
(* The bounce: notifications come at least once, two at a time too, and as *)
(* soon as a mail has left, its send committed or not.                     *)
(***************************************************************************)

\* Broken variant: the status is not looked at.
ReadBounceAgain(h) ==
  /\ h \notin handling
  /\ posted
  /\ handling' = handling \cup {h}
  /\ races' = IF handling # {} THEN races + 1 ELSE races
  /\ UNCHANGED <<present, account, claim, rowLock, request, enrollment, sending, suppressed,
                 posted, credits>>

\* getWithSequence reads the status; a bounced enrollment is a no-op.
ReadBounce(h) ==
  /\ h \notin handling
  /\ posted
  /\ enrollment.status # "bounced"
  /\ handling' = handling \cup {h}
  /\ races' = IF handling # {} THEN races + 1 ELSE races
  /\ UNCHANGED <<present, account, claim, rowLock, request, enrollment, sending, suppressed,
                 posted, credits>>

EmailClaims == {t \in {"email", "full_profile"} : Claimed(t)}

\* Broken variant: the price is given back, not what was paid.
CreditBackPrice == IF EmailClaims = {} THEN 0 ELSE Price["email"]

\* The cost of the earliest claim, by revealed_at, that covers the email.
CreditBackAmount ==
  IF EmailClaims = {}
  THEN 0
  ELSE LET first == CHOOSE t \in EmailClaims :
                      \A u \in EmailClaims : claim[t].at <= claim[u].at
       IN  claim[first].cost

\* setStatus, the suppression row, the refund and its entry commit together.
HandleBounce(h) ==
  /\ h \in handling
  /\ handling' = handling \ {h}
  /\ enrollment' = [enrollment EXCEPT !.status = "bounced"]
  /\ suppressed' = TRUE
  /\ account' = IF CreditBackAmount = 0
                THEN account
                ELSE CreditBack(account, <<"credit_back">>, CreditBackAmount)
  /\ credits' = IF CreditBackAmount = 0 THEN credits ELSE credits + 1
  /\ UNCHANGED <<present, claim, rowLock, request, sending, posted, races>>

Reveal(q) ==
  Verify(q) \/ Begin(q) \/ LockContact(q) \/ AlreadyClaimed(q) \/ ClaimAndCharge(q) \/ Abort(q)

Next ==
  \/ Gain
  \/ \E q \in Requests : Reveal(q)
  \/ Send \/ Advance \/ SendFails
  \/ \E h \in Webhooks : ReadBounce(h) \/ HandleBounce(h)

Spec == Init /\ [][Next]_vars

(***************************************************************************)
(* Fairness: a request runs to its end; the row, when it is free again and *)
(* again, is given to each that waits for it (PostgreSQL queues waiters).  *)
(***************************************************************************)
LiveSpec ==
  /\ Spec
  /\ \A q \in Requests :
       /\ WF_vars(Begin(q))
       /\ SF_vars(LockContact(q))
       /\ WF_vars(AlreadyClaimed(q) \/ ClaimAndCharge(q) \/ Abort(q))

-----------------------------------------------------------------------------
(***************************************************************************)
(* Properties.                                                             *)
(***************************************************************************)

Keys == {<<"credit_back">>} \cup ({"reveal"} \X Types)

Phases == {"idle", "verified", "gated", "locked", "done", "refused"}

RequestRecords ==
  [pc : Phases, type : Types, found : SUBSET Fields, licensed : SUBSET Fields,
   usable : SUBSET Fields, at : Nat, owned : SUBSET Fields, delivered : SUBSET Fields]

ClaimRows == [at : Nat, cost : Nat, fields : SUBSET Fields, new : SUBSET Fields]

TypeOK ==
  /\ present \subseteq Fields
  /\ account \in Accounts(Keys)
  /\ claim \in [Types -> ClaimRows]
  /\ rowLock \subseteq Requests
  /\ request \in [Requests -> RequestRecords]
  /\ enrollment \in [status : {"enrolled", "active", "completed", "bounced"}, step : 0 .. Steps]
  /\ sending \in BOOLEAN
  /\ handling \subseteq Webhooks
  /\ suppressed \in BOOLEAN
  /\ posted \in BOOLEAN
  /\ races \in Nat
  /\ credits \in Nat

\* The fields that claims have uncovered.
Uncovered == UNION {claim[t].new : t \in Types}

\* The fields that a claim covers by its type without having found them.
Unseen == UNION {Covers(t) \ claim[t].fields : t \in {u \in Types : Claimed(u)}}

\* revealContact.ts: no field is charged twice, by reveals of different types
\* that run at once least of all.
FieldPaidOnce ==
  \A t, u \in Types : t # u => claim[t].new \cap claim[u].new = {}

\* Every field a request was given, as its pre-read found it, was uncovered by a
\* claim and priced by its own grade; or a claim that covers it by type had not
\* found it, and the field the contact gained afterwards is given for nothing.
DeliveredIsAccounted ==
  \A q \in Requests : request[q].delivered \subseteq Uncovered \cup Unseen

\* What would hold of a contact that gains nothing: each field given was
\* uncovered by a claim.
DeliveredIsUncovered ==
  \A q \in Requests : request[q].delivered \subseteq Uncovered

StepsLeft == sending => enrollment.step < Steps

\* The inductive invariant behind the two: the contact's row has one holder,
\* whose read of what is owned stays true until it commits; and what is owned,
\* by the types of the claims, is what they uncovered or had not found.
OwnershipInv ==
  /\ TypeOK
  /\ StepsLeft
  /\ \A q \in Requests : q \in rowLock <=> request[q].pc = "locked"
  /\ \A p, q \in rowLock : p = q
  /\ \A q \in rowLock : request[q].owned = Owned
  /\ \A q \in Requests : request[q].pc \in {"gated", "locked"} => request[q].at > 0
  /\ \A q \in Requests : request[q].found \subseteq Covers(request[q].type)
  /\ \A t \in Types : claim[t].new \subseteq Covers(t)
  /\ Owned \subseteq Uncovered \cup Unseen
  /\ FieldPaidOnce
  /\ DeliveredIsAccounted

Charged == claim["email"].cost + claim["phone"].cost + claim["full_profile"].cost

Refunded == account.total - (Funds - Charged)

\* handleBounce.ts: redelivered bounces give the charge back once, and once more
\* only for each race that lets a second handler past the status check.
NetWithinCharges == 0 <= Refunded /\ Refunded <= (1 + races) * Charged

\* ADR-0029: the counter and the ledger part only by a second credit-back, whose
\* key is taken: never without a race, by no more than a charge for each, and
\* always in the tenant's favour.
DriftPerRace ==
  /\ Sound(account)
  /\ account.sum <= account.total
  /\ account.total - account.sum <= races * Charged

\* handleBounce.ts, of the credit-back's key: "the already-bounced early-return
\* guarantees one credit-back per log".
OneCreditBack == credits <= 1

\* outreachLogRepository.ts, of the credit-back: "refunds the email charge
\* exactly ... and NEVER refunds a phone charge".
OnlyEmailRefunded ==
  Refunded > 0 =>
    \E t \in EmailClaims : Refunded = claim[t].cost /\ "email" \in claim[t].new

\* A reveal that has begun is answered: a transaction that fails or finds the
\* contact claimed gives the row to the next.
RevealEnds ==
  \A q \in Requests :
    request[q].pc = "verified" ~> request[q].pc \in {"done", "refused"}

=============================================================================
