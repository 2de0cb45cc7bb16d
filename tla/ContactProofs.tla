----------------------------- MODULE ContactProofs -----------------------------
(***************************************************************************)
(* Proofs about what a tenant does with a contact: ContactReveal, the      *)
(* reveals it pays for, and OutreachSend, the mails of its sequences.      *)
(*                                                                         *)
(* Of ContactReveal: whatever the number of concurrent reveals, the prices *)
(* and the fields the contact gains meanwhile, no field is charged twice   *)
(* and none is given away unaccounted; and whatever bounces are delivered, *)
(* again or at once, what is given back, and by how much the counter       *)
(* leaves the ledger, is bounded by the races between them.                *)
(*                                                                         *)
(* Of OutreachSend: whatever the number of enrollments, steps, workers and *)
(* faults, the quota's window accounts for its mails, a step is mailed     *)
(* once and once more for each disturbance of a send, and no step is       *)
(* mailed while the delay of an undisturbed enrollment runs.               *)
(***************************************************************************)
EXTENDS ContactReveal, OutreachSend, MoneyLemmas, FiniteSetTheorems

\* The claims of a request that holds the row.
New(q) == request[q].found \ request[q].owned

LEMMA CoversFields ==
  ASSUME NEW t \in Types
  PROVE  Covers(t) \subseteq Fields
  BY DEF Types, Covers, Fields

LEMMA AskedType ==
  ASSUME TypeOK, NEW q \in Requests
  PROVE  request[q].type \in Types
  BY DEF TypeOK, RequestRecords

LEMMA CostInNat ==
  ASSUME NEW new, NEW usable
  PROVE  Cost(new, usable) \in Nat
  BY RevealsAssumption DEF Cost, Types

\* The begin of a transaction is a positive number.
LEMMA AtInNat ==
  1 + Cardinality({p \in Requests : request[p].at > 0}) \in Nat \ {0}
  <1>1. {p \in Requests : request[p].at > 0} \in SUBSET Requests
    OBVIOUS
  <1>2. IsFiniteSet({p \in Requests : request[p].at > 0})
    BY <1>1, FS_Subset, RevealsAssumption
  <1> QED BY <1>2, FS_CardinalityType

\* The amount given back is a claim's cost, or nothing.
LEMMA AmountInNat ==
  ASSUME TypeOK
  PROVE  CreditBackAmount \in Nat
  <1> DEFINE Earliest(t) == \A u \in EmailClaims : claim[t].at <= claim[u].at
  <1>1. \A t \in EmailClaims : t \in Types /\ claim[t].at \in Nat /\ claim[t].cost \in Nat
    BY DEF EmailClaims, Types, TypeOK, ClaimRows
  <1>2. CASE EmailClaims = {}
    BY <1>2 DEF CreditBackAmount
  <1>3. CASE EmailClaims # {}
    <2>1. \E t \in EmailClaims : Earliest(t)
      BY <1>1, <1>3 DEF EmailClaims
    <2>2. (CHOOSE t \in EmailClaims : Earliest(t)) \in EmailClaims
      BY <2>1
    <2> QED BY <1>1, <1>3, <2>2 DEF CreditBackAmount
  <1> QED BY <1>2, <1>3

\* A request's record stays one when the pre-read is entered.
LEMMA VerifiedRecord ==
  ASSUME TypeOK, NEW q \in Requests, NEW pc \in Phases, NEW found \in SUBSET Fields,
         NEW licensed \in SUBSET Fields, NEW usable \in SUBSET Fields, NEW t \in Types
  PROVE  /\ request[q] \in RequestRecords
         /\ [request[q] EXCEPT !.pc = pc, !.type = t, !.found = found, !.licensed = licensed,
                               !.usable = usable] \in RequestRecords
  <1>1. request[q] \in RequestRecords
    BY DEF TypeOK
  <1> QED BY <1>1 DEF RequestRecords

\* Nor does it cease to be one when it begins, takes the row or is answered.
LEMMA RecordChanges ==
  ASSUME TypeOK, NEW q \in Requests, NEW pc \in Phases, NEW at \in Nat,
         NEW owned \in SUBSET Fields, NEW delivered \in SUBSET Fields
  PROVE  /\ request[q] \in RequestRecords
         /\ request[q].at \in Nat
         /\ request[q].found \in SUBSET Fields
         /\ [request[q] EXCEPT !.pc = pc, !.at = at] \in RequestRecords
         /\ [request[q] EXCEPT !.pc = pc, !.owned = owned] \in RequestRecords
         /\ Answered(q, pc, delivered) \in RequestRecords
  <1>1. request[q] \in RequestRecords
    BY DEF TypeOK
  <1>2. request[q].at \in Nat /\ request[q].found \in SUBSET Fields
    BY <1>1 DEF RequestRecords
  <1>3. Waiting \in RequestRecords
    BY DEF Waiting, RequestRecords, Phases, Types
  <1>4. Answered(q, pc, delivered) \in RequestRecords
    <2> DEFINE w == Waiting
    <2>1. w \in [pc : Phases, type : Types, found : SUBSET Fields, licensed : SUBSET Fields,
                 usable : SUBSET Fields, at : Nat, owned : SUBSET Fields,
                 delivered : SUBSET Fields]
      BY <1>3 DEF RequestRecords
    <2> HIDE DEF w
    <2>2. [w EXCEPT !.pc = pc, !.at = request[q].at, !.delivered = delivered]
             \in RequestRecords
      BY <1>2, <2>1 DEF RequestRecords
    <2> QED BY <2>2 DEF Answered, w
  <1> QED BY <1>1, <1>2, <1>4 DEF RequestRecords

-----------------------------------------------------------------------------
\* The invariant holds before the first request.
LEMMA InitOwnership == Init => OwnershipInv
  <1> SUFFICES ASSUME Init
               PROVE  OwnershipInv
    OBVIOUS
  <1>1. account \in Accounts(Keys)
    <2>1. Funds \in Int /\ 0 \in Int /\ {} \in SUBSET Keys
      BY RevealsAssumption
    <2>2. account = [total |-> Funds, sub |-> 0, sum |-> Funds, keys |-> {}]
      BY DEF Init, EmptyAccount
    <2> QED BY <2>1, <2>2 DEF Accounts
  <1>2. TypeOK
    <2>1. Unclaimed \in ClaimRows
      BY DEF Unclaimed, ClaimRows
    <2>2. Waiting \in RequestRecords
      BY DEF Waiting, RequestRecords, Phases, Types
    <2>3. /\ present \subseteq Fields
          /\ enrollment \in [status : {"enrolled", "active", "completed", "bounced"},
                             step : 0 .. Steps]
      BY RevealsAssumption DEF Init
    <2> QED BY <1>1, <2>1, <2>2, <2>3 DEF Init, TypeOK
  <1>3. \A t \in Types : ~Claimed(t) /\ claim[t].new = {}
    BY DEF Init, Claimed, Unclaimed
  <1>4. Owned = {}
    BY <1>3 DEF Owned
  <1> QED BY <1>2, <1>3, <1>4
          DEF Init, OwnershipInv, StepsLeft, FieldPaidOnce, DeliveredIsAccounted, Waiting

\* What the invariant says does not depend on the account, the sequence or the
\* fields the contact holds.
LEMMA Elsewhere ==
  ASSUME OwnershipInv, TypeOK', StepsLeft', UNCHANGED <<claim, rowLock, request>>
  PROVE  OwnershipInv'
  BY DEF OwnershipInv, FieldPaidOnce, DeliveredIsAccounted, Uncovered, Unseen, Owned, Claimed

\* Nor on a request that neither takes nor gives back the row.
LEMMA Bystander ==
  ASSUME OwnershipInv, NEW q \in Requests, NEW r \in RequestRecords,
         request[q].pc # "locked", r.pc # "locked", r.delivered = request[q].delivered,
         r.found \subseteq Covers(r.type), r.pc = "gated" => r.at > 0,
         request' = [request EXCEPT ![q] = r],
         UNCHANGED <<present, account, claim, rowLock, outreach>>
  PROVE  OwnershipInv'
  <1>1. /\ request'[q] = r
        /\ \A p \in Requests : p # q => request'[p] = request[p]
    BY DEF OwnershipInv, TypeOK
  <1>2. TypeOK'
    <2>1. request' \in [Requests -> RequestRecords]
      BY DEF OwnershipInv, TypeOK
    <2> QED BY <2>1 DEF OwnershipInv, TypeOK, outreach
  <1>3. Owned' = Owned /\ Uncovered' = Uncovered /\ Unseen' = Unseen
    BY DEF Owned, Claimed, Uncovered, Unseen
  <1>4. q \notin rowLock
    BY DEF OwnershipInv
  <1>5. /\ \A p \in Requests : p \in rowLock' <=> request'[p].pc = "locked"
        /\ \A p \in rowLock' : request'[p].owned = Owned'
        /\ \A p \in Requests : request'[p].found \subseteq Covers(request'[p].type)
        /\ \A p \in Requests : request'[p].pc \in {"gated", "locked"} => request'[p].at > 0
    BY <1>1, <1>3, <1>4 DEF OwnershipInv, TypeOK
  <1>6. DeliveredIsAccounted'
    BY <1>1, <1>3 DEF OwnershipInv, DeliveredIsAccounted
  <1> QED BY <1>2, <1>3, <1>5, <1>6 DEF OwnershipInv, StepsLeft, FieldPaidOnce, outreach

\* The row goes to a request when nobody holds it.
LEMMA LockKeeps ==
  ASSUME OwnershipInv, NEW q \in Requests, LockContact(q)
  PROVE  OwnershipInv'
  <1> DEFINE r == [request[q] EXCEPT !.pc = "locked", !.owned = Owned]
  <1>1. Owned \subseteq Fields
    BY CoversFields DEF Owned
  <1>2. request' = [request EXCEPT ![q] = r] /\ r \in RequestRecords
    <2>1. TypeOK /\ "locked" \in Phases
      BY DEF OwnershipInv, Phases
    <2> QED BY <1>1, <2>1, RecordChanges DEF LockContact, OwnershipInv, TypeOK
  <1>3. r.pc = "locked" /\ r.owned = Owned /\ r.found = request[q].found
        /\ r.type = request[q].type
        /\ r.delivered = request[q].delivered /\ r.at > 0
    <2>1. request[q] \in RequestRecords /\ request[q].at > 0
      BY DEF OwnershipInv, TypeOK, LockContact
    <2> QED BY <2>1 DEF RequestRecords
  <1> HIDE DEF r
  <1>4. TypeOK'
    <2>1. request' \in [Requests -> RequestRecords]
      BY <1>2 DEF OwnershipInv, TypeOK
    <2> QED BY <2>1 DEF LockContact, OwnershipInv, TypeOK, outreach
  <1>5. Owned' = Owned /\ Uncovered' = Uncovered /\ Unseen' = Unseen
    BY DEF LockContact, Owned, Claimed, Uncovered, Unseen
  <1>6. /\ request'[q] = r
        /\ \A p \in Requests : p # q => request'[p] = request[p]
        /\ rowLock = {} /\ rowLock' = {q}
    BY <1>2 DEF OwnershipInv, TypeOK, LockContact
  <1> QED BY <1>3, <1>4, <1>5, <1>6
          DEF LockContact, OwnershipInv, StepsLeft, FieldPaidOnce, DeliveredIsAccounted, outreach

\* An answer gives back the row.
LEMMA AnswerGivesBack ==
  ASSUME OwnershipInv, NEW q \in Requests, q \in rowLock,
         NEW pc \in {"done", "refused"}, NEW delivered \in SUBSET Fields,
         Respond(q, pc, delivered)
  PROVE  /\ request' \in [Requests -> RequestRecords]
         /\ rowLock' = {}
         /\ \A p \in Requests : request'[p].pc # "locked"
         /\ \A p \in Requests : request'[p].found \subseteq Covers(request'[p].type)
         /\ \A p \in Requests : request'[p].pc = "gated" => request'[p].at > 0
         /\ request'[q].delivered = delivered
         /\ \A p \in Requests : p # q => request'[p].delivered = request[p].delivered
  <1>1. Answered(q, pc, delivered) \in RequestRecords
    <2>1. TypeOK /\ pc \in Phases
      BY DEF OwnershipInv, Phases
    <2> QED BY <2>1, RecordChanges
  <1>2. /\ Answered(q, pc, delivered).pc = pc
        /\ Answered(q, pc, delivered).found = {}
        /\ Answered(q, pc, delivered).delivered = delivered
    BY DEF Answered, Waiting
  <1>3. /\ request' = [request EXCEPT ![q] = Answered(q, pc, delivered)]
        /\ rowLock' = rowLock \ {q}
    BY DEF Respond
  <1>4. /\ request'[q] = Answered(q, pc, delivered)
        /\ \A p \in Requests : p # q => request'[p] = request[p]
    BY <1>3 DEF OwnershipInv, TypeOK
  <1>5. rowLock' = {} /\ \A p \in Requests : p # q => p \notin rowLock
    BY <1>3 DEF OwnershipInv
  <1> QED BY <1>1, <1>2, <1>3, <1>4, <1>5 DEF OwnershipInv, TypeOK

\* What is copied are fields.
LEMMA CopiedFields ==
  ASSUME TypeOK, NEW q \in Requests, Copied(q)
  PROVE  present' \subseteq Fields
  <1>1. request[q].licensed \subseteq Fields
    BY DEF TypeOK, RequestRecords
  <1> QED BY <1>1 DEF Copied, TypeOK

\* The row is given back without a claim; what is delivered, if anything, is
\* owned.
LEMMA GiveBackKeeps ==
  ASSUME OwnershipInv, NEW q \in Requests, AlreadyClaimed(q) \/ Abort(q)
  PROVE  OwnershipInv'
  <1>1. PICK pc \in {"done", "refused"}, delivered \in SUBSET Fields :
          Respond(q, pc, delivered) /\ delivered \subseteq Uncovered \cup Unseen
    <2>1. CASE AlreadyClaimed(q)
      <3>1. Covers(request[q].type) \subseteq Owned
        BY <2>1, AskedType DEF AlreadyClaimed, Owned, OwnershipInv
      <3>2. request[q].found \subseteq Uncovered \cup Unseen
        BY <3>1 DEF OwnershipInv
      <3>3. request[q].found \in SUBSET Fields
        BY DEF OwnershipInv, TypeOK, RequestRecords
      <3> QED BY <2>1, <3>2, <3>3 DEF AlreadyClaimed
    <2>2. CASE Abort(q)
      <3>1. {} \in SUBSET Fields /\ {} \subseteq Uncovered
        OBVIOUS
      <3> QED BY <2>2, <3>1 DEF Abort
    <2> QED BY <2>1, <2>2
  <1>2. /\ UNCHANGED <<account, claim, outreach>>
        /\ present' \subseteq Fields
        /\ q \in rowLock
    BY CopiedFields DEF AlreadyClaimed, Abort, OwnershipInv, TypeOK
  <1>3. TypeOK'
    BY <1>1, <1>2, AnswerGivesBack DEF OwnershipInv, TypeOK, outreach
  <1>4. Owned' = Owned /\ Uncovered' = Uncovered /\ Unseen' = Unseen
    BY <1>2 DEF Owned, Claimed, Uncovered, Unseen
  <1>5. DeliveredIsAccounted'
    BY <1>1, <1>2, <1>4, AnswerGivesBack DEF OwnershipInv, DeliveredIsAccounted
  <1>6. /\ StepsLeft' /\ FieldPaidOnce'
        /\ \A t \in Types : claim'[t].new \subseteq Covers(t)
    BY <1>2 DEF OwnershipInv, StepsLeft, FieldPaidOnce, outreach
  <1>7. /\ rowLock' = {}
        /\ \A p \in Requests : request'[p].pc # "locked"
        /\ \A p \in Requests : request'[p].found \subseteq Covers(request'[p].type)
        /\ \A p \in Requests : request'[p].pc = "gated" => request'[p].at > 0
    BY <1>1, <1>2, AnswerGivesBack
  <1> QED BY <1>3, <1>4, <1>5, <1>6, <1>7 DEF OwnershipInv

\* The heart of it: the claim takes exactly what no other claim has uncovered,
\* and what its type covers besides it has not found.
LEMMA ClaimKeeps ==
  ASSUME OwnershipInv, NEW q \in Requests, ClaimAndCharge(q)
  PROVE  OwnershipInv'
  <1>0. PICK t \in Types : t = request[q].type
    BY AskedType DEF OwnershipInv
  <1> DEFINE row == [at |-> request[q].at, cost |-> Cost(New(q), request[q].usable),
                     fields |-> request[q].found, new |-> New(q)]
  <1>1. /\ t \in Types /\ ~Claimed(t)
        /\ q \in rowLock /\ request[q].owned = Owned
        /\ New(q) = request[q].found \ Owned
        /\ request[q].found \subseteq Fields
        /\ request[q].found \subseteq Covers(t)
    <2>1. request[q] \in RequestRecords
      BY DEF OwnershipInv, TypeOK
    <2> QED BY <1>0, <2>1 DEF ClaimAndCharge, OwnershipInv, New, RequestRecords
  <1>2. /\ claim' = [claim EXCEPT ![t] = row]
        /\ Respond(q, "done", request[q].found)
        /\ Copied(q)
        /\ UNCHANGED outreach
    BY <1>0 DEF ClaimAndCharge, New
  <1>3. account' \in Accounts(Keys)
    <2>1. /\ account \in Accounts(Keys) /\ <<"reveal", t>> \in Keys
          /\ Cost(New(q), request[q].usable) \in Int
      BY <1>1, CostInNat DEF OwnershipInv, TypeOK, Keys
    <2> QED BY <1>0, <2>1, SpendPosts DEF ClaimAndCharge, New
  <1>4. row \in ClaimRows
    <2>1. request[q].at \in Nat
      <3>1. request[q] \in RequestRecords
        BY DEF OwnershipInv, TypeOK
      <3> QED BY <3>1 DEF RequestRecords
    <2> QED BY <1>1, <2>1, CostInNat DEF ClaimRows
  <1>5. row.new = New(q) /\ row.fields = request[q].found /\ row # Unclaimed
    <2>1. request[q].at > 0 /\ request[q].at \in Nat
      <3>1. request[q] \in RequestRecords
        BY DEF OwnershipInv, TypeOK
      <3> QED BY <3>1 DEF RequestRecords, ClaimAndCharge, OwnershipInv
    <2> QED BY <2>1 DEF Unclaimed
  <1> HIDE DEF row
  <1>6. /\ request' \in [Requests -> RequestRecords]
        /\ rowLock' = {}
        /\ \A p \in Requests : request'[p].pc # "locked"
        /\ \A p \in Requests : request'[p].found \subseteq Covers(request'[p].type)
        /\ \A p \in Requests : request'[p].pc = "gated" => request'[p].at > 0
        /\ request'[q].delivered = request[q].found
        /\ \A p \in Requests : p # q => request'[p].delivered = request[p].delivered
    BY <1>1, <1>2, AnswerGivesBack
  <1>7. TypeOK'
    <2>1. claim' \in [Types -> ClaimRows]
      BY <1>1, <1>2, <1>4 DEF OwnershipInv, TypeOK
    <2>2. present' \subseteq Fields
      BY <1>2, CopiedFields DEF OwnershipInv
    <2> QED BY <1>2, <1>3, <1>6, <2>1, <2>2 DEF OwnershipInv, TypeOK, outreach
  <1>8. /\ claim'[t].new = New(q) /\ claim'[t].fields = request[q].found
        /\ \A u \in Types : u # t => claim'[u] = claim[u]
        /\ claim[t].new = {} /\ Claimed(t)'
    BY <1>1, <1>2, <1>5 DEF Claimed, Unclaimed, OwnershipInv, TypeOK
  <1>9. Uncovered' = Uncovered \cup New(q)
    BY <1>1, <1>8 DEF Uncovered
  <1>10. \A u \in Types : claim[u].new \subseteq Owned
    <2>1. \A u \in Types : claim[u].new # {} => Claimed(u)
      BY DEF Claimed, Unclaimed
    <2> QED BY <2>1 DEF Owned, OwnershipInv
  <1>11. FieldPaidOnce'
    BY <1>1, <1>8, <1>10 DEF OwnershipInv, FieldPaidOnce
  <1>12. /\ Owned' \subseteq Owned \cup Covers(t)
         /\ Unseen \subseteq Unseen'
    BY <1>1, <1>8 DEF Owned, Unseen, Claimed
  <1>13. Covers(t) \subseteq Owned \cup Uncovered' \cup Unseen'
    <2>1. SUFFICES ASSUME NEW f \in Covers(t), f \notin Owned, f \notin Uncovered'
                   PROVE  f \in Unseen'
      OBVIOUS
    <2>2. f \notin request[q].found
      BY <1>1, <1>9, <2>1
    <2> QED BY <1>1, <1>8, <2>1, <2>2 DEF Unseen
  <1>14. Owned' \subseteq Uncovered' \cup Unseen'
    BY <1>9, <1>12, <1>13 DEF OwnershipInv
  <1>15. DeliveredIsAccounted'
    <2>1. request[q].found \subseteq Uncovered' \cup Unseen'
      BY <1>1, <1>9, <1>12, <1>13 DEF OwnershipInv
    <2> QED BY <1>6, <1>9, <1>12, <2>1 DEF OwnershipInv, DeliveredIsAccounted
  <1>16. \A u \in Types : claim'[u].new \subseteq Covers(u)
    BY <1>1, <1>8 DEF OwnershipInv
  <1>17. StepsLeft'
    BY <1>2 DEF OwnershipInv, StepsLeft, outreach
  <1> QED BY <1>6, <1>7, <1>11, <1>14, <1>15, <1>16, <1>17 DEF OwnershipInv

\* Every step keeps the invariant.
LEMMA StepOwnership == OwnershipInv /\ [Next]_vars => OwnershipInv'
  <1> SUFFICES ASSUME OwnershipInv, [Next]_vars
               PROVE  OwnershipInv'
    OBVIOUS
  <1>1. ASSUME NEW q \in Requests, Verify(q)
        PROVE  OwnershipInv'
    <2>1. PICK t \in Types, found \in SUBSET Fields, licensed \in SUBSET Fields,
               usable \in SUBSET Fields :
            /\ found \subseteq Covers(t)
            /\ request' = [request EXCEPT ![q].pc = "verified", ![q].type = t, ![q].found = found,
                                         ![q].licensed = licensed, ![q].usable = usable]
      <3>1. PICK t \in Asked : \E licensed \in SUBSET (Covers(t) \ present) :
              \E usable \in SUBSET ((Covers(t) \cap present) \cup licensed) :
                request' = [request EXCEPT
                  ![q].pc = "verified",
                  ![q].type = t,
                  ![q].found = (Covers(t) \cap present) \cup licensed,
                  ![q].licensed = licensed,
                  ![q].usable = usable]
        BY <1>1 DEF Verify
      <3>2. t \in Types /\ Covers(t) \subseteq Fields
        BY RevealsAssumption, CoversFields
      <3>3. PICK licensed \in SUBSET (Covers(t) \ present) :
              \E usable \in SUBSET ((Covers(t) \cap present) \cup licensed) :
                request' = [request EXCEPT
                  ![q].pc = "verified",
                  ![q].type = t,
                  ![q].found = (Covers(t) \cap present) \cup licensed,
                  ![q].licensed = licensed,
                  ![q].usable = usable]
        BY <3>1
      <3>4. PICK usable \in SUBSET ((Covers(t) \cap present) \cup licensed) :
              request' = [request EXCEPT
                ![q].pc = "verified",
                ![q].type = t,
                ![q].found = (Covers(t) \cap present) \cup licensed,
                ![q].licensed = licensed,
                ![q].usable = usable]
        BY <3>3
      <3> DEFINE found == (Covers(t) \cap present) \cup licensed
      <3>5. /\ found \subseteq Covers(t) /\ found \in SUBSET Fields
            /\ licensed \in SUBSET Fields /\ usable \in SUBSET Fields
        BY <3>2, <3>3, <3>4
      <3> QED BY <3>2, <3>4, <3>5
    <2> DEFINE r == [request[q] EXCEPT !.pc = "verified", !.type = t, !.found = found,
                                       !.licensed = licensed, !.usable = usable]
    <2>2. /\ r \in RequestRecords /\ r.pc = "verified" /\ r.found = found /\ r.type = t
          /\ r.delivered = request[q].delivered
      <3>1. TypeOK /\ "verified" \in Phases
        BY DEF OwnershipInv, Phases
      <3>2. r \in RequestRecords /\ request[q] \in RequestRecords
        BY <3>1, VerifiedRecord
      <3>3. request[q] \in [pc : Phases, type : Types, found : SUBSET Fields,
                            licensed : SUBSET Fields, usable : SUBSET Fields, at : Nat,
                            owned : SUBSET Fields, delivered : SUBSET Fields]
        BY <3>2 DEF RequestRecords
      <3> HIDE DEF RequestRecords
      <3>4. r.pc = "verified" /\ r.found = found /\ r.type = t
            /\ r.delivered = request[q].delivered
        BY <3>3
      <3> QED BY <3>2, <3>4
    <2>3. request' = [request EXCEPT ![q] = r]
      BY <2>1 DEF OwnershipInv, TypeOK
    <2> HIDE DEF r
    <2> QED BY <1>1, <2>1, <2>2, <2>3, Bystander DEF Verify
  <1>2. ASSUME NEW q \in Requests, Begin(q)
        PROVE  OwnershipInv'
    <2>1. PICK pc \in {"gated", "refused"}, at \in Nat \ {0} :
            request' = [request EXCEPT ![q].pc = pc, ![q].at = at]
      BY <1>2, AtInNat DEF Begin
    <2> DEFINE r == [request[q] EXCEPT !.pc = pc, !.at = at]
    <2>2. /\ r \in RequestRecords /\ r.pc # "locked" /\ r.at > 0
          /\ r.delivered = request[q].delivered /\ r.found = request[q].found
          /\ r.type = request[q].type
      <3>1. TypeOK /\ pc \in Phases
        BY DEF OwnershipInv, Phases
      <3>2. r \in RequestRecords /\ request[q] \in RequestRecords
        BY <3>1, RecordChanges
      <3> QED BY <3>2 DEF RequestRecords
    <2>3. request' = [request EXCEPT ![q] = r]
      BY <2>1 DEF OwnershipInv, TypeOK
    <2>4. r.found \subseteq Covers(r.type)
      BY <2>2 DEF OwnershipInv
    <2> HIDE DEF r
    <2> QED BY <1>2, <2>2, <2>3, <2>4, Bystander DEF Begin
  <1>3. ASSUME NEW q \in Requests,
               LockContact(q) \/ AlreadyClaimed(q) \/ ClaimAndCharge(q) \/ Abort(q)
        PROVE  OwnershipInv'
    BY <1>3, LockKeeps, ClaimKeeps, GiveBackKeeps
  <1>4. CASE Gain
    <2>1. TypeOK' /\ StepsLeft'
      BY <1>4 DEF Gain, OwnershipInv, TypeOK, StepsLeft, outreach
    <2> QED BY <1>4, <2>1, Elsewhere DEF Gain
  <1>5. CASE Send \/ SendFails
    <2>1. TypeOK'
      BY <1>5 DEF Send, SendFails, OwnershipInv, TypeOK
    <2> QED BY <1>5, <2>1, Elsewhere DEF Send, SendFails, OwnershipInv, StepsLeft
  <1>6. CASE Advance
    <2>1. TypeOK'
      <3>1. /\ enrollment.step + 1 \in 0 .. Steps
            /\ enrollment' \in [status : {"completed", "active"}, step : 0 .. Steps]
        BY <1>6, RevealsAssumption DEF Advance, OwnershipInv, TypeOK, StepsLeft
      <3>2. races' \in Nat
        BY <1>6 DEF Advance, OwnershipInv, TypeOK
      <3> QED BY <1>6, <3>1, <3>2 DEF Advance, OwnershipInv, TypeOK
    <2> QED BY <1>6, <2>1, Elsewhere DEF Advance, StepsLeft
  <1>7. ASSUME NEW h \in Webhooks, ReadBounce(h)
        PROVE  OwnershipInv'
    <2>1. TypeOK'
      <3>1. races' \in Nat
        BY <1>7 DEF ReadBounce, OwnershipInv, TypeOK
      <3> QED BY <1>7, <3>1 DEF ReadBounce, OwnershipInv, TypeOK
    <2> QED BY <1>7, <2>1, Elsewhere DEF ReadBounce, OwnershipInv, StepsLeft
  <1>8. ASSUME NEW h \in Webhooks, HandleBounce(h)
        PROVE  OwnershipInv'
    <2>1. account' \in Accounts(Keys)
      <3>1. /\ account \in Accounts(Keys) /\ <<"credit_back">> \in Keys
            /\ CreditBackAmount \in Int /\ account.sub \in Int
        BY AmountInNat DEF OwnershipInv, TypeOK, Keys, Accounts
      <3> QED BY <1>8, <3>1, MovedPosts DEF HandleBounce, CreditBack, Grant
    <2>2. credits' \in Nat
      BY <1>8 DEF HandleBounce, OwnershipInv, TypeOK
    <2>3. TypeOK'
      BY <1>8, <2>1, <2>2 DEF HandleBounce, OwnershipInv, TypeOK
    <2> QED BY <1>8, <2>3, Elsewhere DEF HandleBounce, OwnershipInv, TypeOK, StepsLeft
  <1>9. CASE UNCHANGED vars
    <2>1. TypeOK' /\ StepsLeft'
      BY <1>9 DEF vars, OwnershipInv, TypeOK, StepsLeft
    <2> QED BY <1>9, <2>1, Elsewhere DEF vars
  <1> QED BY <1>1, <1>2, <1>3, <1>4, <1>5, <1>6, <1>7, <1>8, <1>9 DEF Next, Reveal

\* OwnershipInv is an invariant of the reveals.
THEOREM OwnershipHolds == Spec => []OwnershipInv
  BY InitOwnership, StepOwnership, PTL DEF Spec

\* No field of a contact is charged by two claims, in whatever order reveals of
\* different types are verified, gated, and given the row, and whatever fields
\* the contact gains meanwhile.
THEOREM PaidOnce == Spec => []FieldPaidOnce
  <1>1. OwnershipInv => FieldPaidOnce
    BY DEF OwnershipInv
  <1> QED BY <1>1, OwnershipHolds, PTL

\* A request is given a field that no claim uncovered only if a claim covers it
\* by its type and had not found it.
THEOREM NothingUnaccounted == Spec => []DeliveredIsAccounted
  <1>1. OwnershipInv => DeliveredIsAccounted
    BY DEF OwnershipInv
  <1> QED BY <1>1, OwnershipHolds, PTL

(***************************************************************************)
(* The money.  A handler gets past the status check when no other has set  *)
(* it before: the first, and one more for each race.  So many credit-backs *)
(* at most reach the counter, each by a claim's cost, and all but the      *)
(* first find their ledger key taken.                                      *)
(***************************************************************************)

\* Credit-backs given or on their way are one more than the races at most, and
\* none more while the status lets the next handler in.
CreditsPerRace ==
  credits + Cardinality(handling)
    <= races + (IF enrollment.status = "bounced" \/ handling # {} THEN 1 ELSE 0)

\* The credit-backs whose key was taken.
Repeated == IF credits = 0 THEN 0 ELSE credits - 1

MoneyInv ==
  /\ OwnershipInv
  /\ Sound(account)
  /\ \A t \in Types : <<"reveal", t>> \in account.keys => Claimed(t)
  /\ <<"credit_back">> \in account.keys <=> credits > 0
  /\ CreditsPerRace
  /\ 0 <= Refunded /\ Refunded <= credits * Charged
  /\ account.sum <= account.total
  /\ account.total - account.sum <= Repeated * Charged

\* More times more is no less.
LEMMA TimesMore ==
  ASSUME NEW k \in Nat, NEW m \in Nat, NEW a \in Nat, NEW b \in Nat, k <= m, a <= b
  PROVE  k * a \in Nat /\ m * b \in Nat /\ k * a <= m * b
  <1>1. k * a \in Nat /\ m * b \in Nat /\ k * (b - a) \in Nat /\ (m - k) * b \in Nat
    <2>1. b - a \in Nat /\ m - k \in Nat
      OBVIOUS
    <2>2. \A i, j \in Nat : i * j \in Nat
      OBVIOUS
    <2> QED BY <2>1, <2>2
  <1>2. k * (b - a) = k * b - k * a /\ (m - k) * b = m * b - k * b
    OBVIOUS
  <1> QED BY <1>1, <1>2

\* Every claim's cost is part of what was charged.
LEMMA CostsWithin ==
  ASSUME TypeOK
  PROVE  Charged \in Nat /\ \A t \in Types : claim[t].cost \in Nat /\ claim[t].cost <= Charged
  BY DEF TypeOK, Charged, Types, ClaimRows

\* So is what a bounce gives back.
LEMMA AmountWithin ==
  ASSUME TypeOK
  PROVE  CreditBackAmount \in Nat /\ CreditBackAmount <= Charged
  <1> DEFINE Earliest(t) == \A u \in EmailClaims : claim[t].at <= claim[u].at
  <1>1. CASE EmailClaims = {}
    BY <1>1, CostsWithin DEF CreditBackAmount
  <1>2. CASE EmailClaims # {}
    <2>1. \A t \in EmailClaims : t \in Types /\ claim[t].at \in Nat
      BY DEF EmailClaims, Types, TypeOK, ClaimRows
    <2>2. \E t \in EmailClaims : Earliest(t)
      BY <1>2, <2>1 DEF EmailClaims
    <2>3. (CHOOSE t \in EmailClaims : Earliest(t)) \in Types
      BY <2>1, <2>2
    <2> QED BY <1>2, <2>3, CostsWithin DEF CreditBackAmount
  <1> QED BY <1>1, <1>2

\* How many handlers there are after one more, and after one less.
LEMMA HandlersCounted ==
  ASSUME TypeOK, NEW h \in Webhooks
  PROVE  /\ Cardinality(handling) \in Nat
         /\ h \notin handling => Cardinality(handling \cup {h}) = Cardinality(handling) + 1
         /\ h \in handling => Cardinality(handling \ {h}) = Cardinality(handling) - 1
         /\ handling = {} => Cardinality(handling) = 0
  <1>1. IsFiniteSet(handling)
    BY FS_Subset, RevealsAssumption DEF TypeOK
  <1> QED BY <1>1, FS_CardinalityType, FS_AddElement, FS_RemoveElement, FS_EmptySet

LEMMA MoneyInit == Init => MoneyInv
  <1> SUFFICES ASSUME Init PROVE MoneyInv
    OBVIOUS
  <1>1. OwnershipInv
    BY InitOwnership
  <1>2. account = [total |-> Funds, sub |-> 0, sum |-> Funds, keys |-> {}] /\ Funds \in Nat
    BY RevealsAssumption DEF Init, EmptyAccount
  <1>3. Sound(account)
    BY <1>2 DEF Sound
  <1>4. Charged = 0
    BY DEF Init, Charged, Types, Unclaimed
  <1>5. credits = 0 /\ races = 0 /\ Cardinality(handling) = 0 /\ Repeated = 0
    BY FS_EmptySet DEF Init, Repeated
  <1>6. CreditsPerRace
    BY <1>5 DEF CreditsPerRace
  <1> QED BY <1>1, <1>2, <1>3, <1>4, <1>5, <1>6 DEF MoneyInv, Refunded

\* A step that moves no credits and claims nothing.
LEMMA MoneyStays ==
  ASSUME MoneyInv, OwnershipInv', CreditsPerRace', UNCHANGED <<account, claim, credits>>
  PROVE  MoneyInv'
  BY DEF MoneyInv, Claimed, Refunded, Charged, Repeated, Sound

\* A claim takes its cost from the counter and the ledger and adds it to what
\* was charged.
LEMMA ClaimMoney ==
  ASSUME MoneyInv, OwnershipInv', NEW q \in Requests, ClaimAndCharge(q)
  PROVE  MoneyInv'
  <1>0. PICK t \in Types : t = request[q].type
    BY AskedType DEF MoneyInv, OwnershipInv
  <1> DEFINE cost == Cost(New(q), request[q].usable)
             row == [at |-> request[q].at, cost |-> cost,
                     fields |-> request[q].found, new |-> New(q)]
  <1>1. t \in Types /\ ~Claimed(t) /\ <<"reveal", t>> \in Keys /\ cost \in Nat
    BY <1>0, CostInNat DEF ClaimAndCharge, Keys, MoneyInv, OwnershipInv
  <1>2. /\ claim' = [claim EXCEPT ![t] = row]
        /\ account' = IF cost = 0 THEN account
                      ELSE Spend(account, account, <<"reveal", t>>, cost)
        /\ CanCover(account, cost)
        /\ UNCHANGED outreach
    BY <1>0 DEF ClaimAndCharge, New
  <1>3. <<"reveal", t>> \notin account.keys
    BY <1>1 DEF MoneyInv
  <1>4. /\ account \in Accounts(Keys) /\ Sound(account)
        /\ account.total \in Int /\ account.sum \in Int /\ account.sub \in Int
        /\ claim \in [Types -> ClaimRows]
    BY DEF MoneyInv, OwnershipInv, TypeOK, Accounts
  <1>5. row.cost = cost
    OBVIOUS
  <1>6. cost # 0 => row # Unclaimed
    BY <1>5 DEF Unclaimed
  <1> HIDE DEF cost, row
  <1>7. /\ Sound(account')
        /\ account'.total = account.total - cost
        /\ account'.sum = account.sum - cost
        /\ account'.keys \subseteq account.keys \cup {<<"reveal", t>>}
        /\ account.keys \subseteq account'.keys
        /\ cost = 0 => account' = account
    <2>1. CASE cost = 0
      BY <1>2, <1>4, <2>1
    <2>2. CASE cost # 0
      <3> DEFINE bucket == account.sub - Least(cost, account.sub)
      <3>1. /\ -cost \in Int /\ bucket \in Int
            /\ 0 <= bucket /\ bucket <= account.total - cost
        BY <1>1, <1>2, <1>4 DEF CanCover, Least, Sound
      <3> HIDE DEF bucket
      <3>2. account' = Moved(account, <<"reveal", t>>, -cost, bucket)
        BY <1>2, <2>2 DEF Spend, bucket
      <3>3. /\ account'.total = account.total + (-cost)
            /\ account'.sub = bucket
            /\ account'.sum = account.sum + (-cost)
            /\ account'.keys = account.keys \cup {<<"reveal", t>>}
        BY <1>1, <1>3, <1>4, <3>1, <3>2, MovedColumns, MovedPosts
      <3> QED BY <1>1, <1>4, <2>2, <3>1, <3>3 DEF Sound
    <2> QED BY <2>1, <2>2
  <1>8. /\ claim'[t].cost = cost /\ claim[t].cost = 0
        /\ \A u \in Types : u # t => claim'[u] = claim[u]
        /\ cost # 0 => Claimed(t)'
    <2>1. claim[t].cost = 0
      BY <1>1 DEF Claimed, Unclaimed
    <2>2. claim'[t] = row /\ \A u \in Types : u # t => claim'[u] = claim[u]
      BY <1>1, <1>2, <1>4
    <2> QED BY <1>5, <1>6, <2>1, <2>2 DEF Claimed
  <1>9. Charged' = Charged + cost /\ Charged \in Nat /\ Charged' \in Nat
    <2>1. Charged \in Nat
      BY CostsWithin DEF MoneyInv, OwnershipInv
    <2>2. Charged' = Charged + cost
      BY <1>1, <1>4, <1>8 DEF Charged, Types, ClaimRows
    <2> QED BY <1>1, <2>1, <2>2
  <1>10. Refunded' = Refunded /\ Refunded \in Int
    BY <1>1, <1>4, <1>7, <1>9, RevealsAssumption DEF Refunded
  <1>11. \A u \in Types : <<"reveal", u>> \in account'.keys => Claimed(u)'
    BY <1>3, <1>7, <1>8 DEF MoneyInv, Claimed
  <1>12. /\ <<"credit_back">> \in account'.keys <=> <<"credit_back">> \in account.keys
         /\ credits' = credits /\ Repeated' = Repeated
         /\ credits \in Nat /\ Repeated \in Nat
    BY <1>2, <1>7 DEF outreach, Repeated, MoneyInv, OwnershipInv, TypeOK
  <1>13. CreditsPerRace'
    BY <1>2 DEF MoneyInv, CreditsPerRace, outreach
  <1>14. /\ credits * Charged <= credits * Charged' /\ credits * Charged \in Int
         /\ credits * Charged' \in Int
         /\ Repeated * Charged <= Repeated * Charged' /\ Repeated * Charged \in Int
         /\ Repeated * Charged' \in Int
    <2>1. Charged <= Charged'
      BY <1>1, <1>9
    <2>2. credits <= credits /\ Repeated <= Repeated
      BY <1>12
    <2> QED BY <1>9, <1>12, <2>1, <2>2, TimesMore
  <1>15. 0 <= Refunded' /\ Refunded' <= credits' * Charged'
    <2>1. 0 <= Refunded /\ Refunded <= credits * Charged
      BY DEF MoneyInv
    <2>2. credits' * Charged' = credits * Charged'
      BY <1>12
    <2> QED BY <1>10, <1>14, <2>1, <2>2
  <1>16. /\ account'.sum <= account'.total
         /\ account'.total - account'.sum <= Repeated' * Charged'
    <2>1. /\ account.sum <= account.total
          /\ account.total - account.sum <= Repeated * Charged
      BY DEF MoneyInv
    <2>2. account'.total - account'.sum = account.total - account.sum
      BY <1>1, <1>4, <1>7
    <2>3. Repeated' * Charged' = Repeated * Charged'
      BY <1>12
    <2>4. account.total - account.sum \in Int
      BY <1>4
    <2>5. account'.sum <= account'.total
      BY <1>1, <1>4, <1>7, <2>1
    <2> QED BY <1>14, <2>1, <2>2, <2>3, <2>4, <2>5
  <1> QED BY <1>7, <1>11, <1>12, <1>13, <1>15, <1>16 DEF MoneyInv

\* A bounce that is handled gives back a claim's cost, and posts it unless it is
\* not the first.
LEMMA BounceMoney ==
  ASSUME MoneyInv, OwnershipInv', NEW h \in Webhooks, HandleBounce(h)
  PROVE  MoneyInv'
  <1> DEFINE amount == CreditBackAmount
  <1>1. /\ handling' = handling \ {h} /\ h \in handling
        /\ enrollment'.status = "bounced"
        /\ UNCHANGED <<claim, races>>
        /\ credits' = IF amount = 0 THEN credits ELSE credits + 1
    BY DEF HandleBounce, MoneyInv, OwnershipInv, TypeOK
  <1>2. /\ amount \in Nat /\ amount <= Charged
        /\ Charged \in Nat /\ Charged' = Charged
        /\ account \in Accounts(Keys)
        /\ account.total \in Int /\ account.sub \in Int /\ account.sum \in Int
        /\ credits \in Nat /\ races \in Nat
    BY <1>1, AmountWithin, CostsWithin DEF MoneyInv, OwnershipInv, TypeOK, Accounts, Charged
  <1>3. account' = IF amount = 0 THEN account
                   ELSE Moved(account, <<"credit_back">>, amount, account.sub)
    BY DEF HandleBounce, CreditBack, Grant
  <1> HIDE DEF amount
  <1>4. CreditsPerRace'
    <2>1. /\ Cardinality(handling) \in Nat
          /\ Cardinality(handling') = Cardinality(handling) - 1
      BY <1>1, HandlersCounted DEF MoneyInv, OwnershipInv
    <2>2. credits + Cardinality(handling) <= races + 1
      BY <1>1, <1>2, <2>1 DEF MoneyInv, CreditsPerRace
    <2>3. credits' <= credits + 1 /\ credits' \in Nat
      BY <1>1, <1>2
    <2>4. credits' + Cardinality(handling') <= races' + 1
      BY <1>1, <1>2, <2>1, <2>2, <2>3
    <2> QED BY <1>1, <2>4 DEF CreditsPerRace
  <1>5. CASE amount = 0
    <2>1. UNCHANGED <<account, claim, credits>>
      BY <1>1, <1>3, <1>5
    <2> QED BY <1>4, <2>1, MoneyStays
  <1>6. CASE amount # 0
    <2>1. /\ account'.total = account.total + amount
          /\ account'.sub = account.sub
          /\ account'.sum = IF credits > 0 THEN account.sum ELSE account.sum + amount
          /\ account'.keys = account.keys \cup {<<"credit_back">>}
      <3>1. <<"credit_back">> \in Keys /\ amount \in Int
        BY <1>2 DEF Keys
      <3> QED BY <1>2, <1>3, <1>6, <3>1, MovedColumns, MovedPosts DEF MoneyInv
    <2>2. credits' = credits + 1 /\ Repeated' = credits
      BY <1>1, <1>2, <1>6 DEF Repeated
    <2>3. Refunded' = Refunded + amount /\ Refunded \in Int
      BY <1>2, <2>1, RevealsAssumption DEF Refunded
    <2>4. /\ credits * Charged \in Nat
          /\ credits' * Charged' = credits * Charged + Charged
          /\ Repeated' * Charged' = credits * Charged
      <3>1. credits * Charged \in Nat
        BY <1>2, TimesMore
      <3>2. (credits + 1) * Charged = credits * Charged + Charged
        BY <1>2
      <3> QED BY <1>2, <2>2, <3>1, <3>2
    <2>5. 0 <= Refunded' /\ Refunded' <= credits' * Charged'
      <3>1. 0 <= Refunded /\ Refunded <= credits * Charged
        BY DEF MoneyInv
      <3> QED BY <1>2, <2>3, <2>4, <3>1
    <2>6. /\ account'.sum <= account'.total
          /\ account'.total - account'.sum <= Repeated' * Charged'
      <3>1. /\ account.sum <= account.total
            /\ account.total - account.sum <= Repeated * Charged
        BY DEF MoneyInv
      <3>2. CASE credits = 0
        <4>1. account.total - account.sum <= 0
          BY <1>2, <3>1, <3>2 DEF Repeated
        <4> QED BY <1>2, <2>1, <2>4, <3>1, <3>2, <4>1
      <3>3. CASE credits > 0
        <4>1. Repeated * Charged + Charged = credits * Charged /\ Repeated * Charged \in Int
          <5>1. Repeated = credits - 1
            BY <1>2, <3>3 DEF Repeated
          <5>2. (credits - 1) * Charged + Charged = credits * Charged
            BY <1>2
          <5>3. (credits - 1) * Charged \in Int
            BY <1>2
          <5> QED BY <5>1, <5>2, <5>3
        <4>2. account.total - account.sum + amount <= credits * Charged
          BY <1>2, <2>4, <3>1, <4>1
        <4> QED BY <1>2, <2>1, <2>4, <3>1, <3>3, <4>2
      <3> QED BY <1>2, <3>2, <3>3
    <2>7. Sound(account')
      <3>1. 0 <= account.sub /\ account.sub <= account.total
        BY DEF MoneyInv, Sound
      <3> QED BY <1>2, <2>1, <3>1 DEF Sound
    <2>8. \A t \in Types : <<"reveal", t>> \in account'.keys => Claimed(t)'
      BY <1>1, <2>1 DEF MoneyInv, Claimed
    <2>9. <<"credit_back">> \in account'.keys <=> credits' > 0
      BY <1>2, <2>1, <2>2
    <2> QED BY <1>4, <2>5, <2>6, <2>7, <2>8, <2>9 DEF MoneyInv
  <1> QED BY <1>5, <1>6

LEMMA MoneyStep ==
  ASSUME MoneyInv, [Next]_vars
  PROVE  MoneyInv'
  <1>1. OwnershipInv'
    BY StepOwnership DEF MoneyInv
  <1>2. credits \in Nat /\ races \in Nat
    BY DEF MoneyInv, OwnershipInv, TypeOK
  <1>3. ASSUME NEW q \in Requests,
               Verify(q) \/ Begin(q) \/ LockContact(q) \/ AlreadyClaimed(q) \/ Abort(q)
        PROVE  MoneyInv'
    <2>1. UNCHANGED <<account, claim, outreach>>
      BY <1>3 DEF Verify, Begin, LockContact, AlreadyClaimed, Abort
    <2>2. CreditsPerRace'
      BY <2>1 DEF MoneyInv, CreditsPerRace, outreach
    <2> QED BY <1>1, <2>1, <2>2, MoneyStays DEF outreach
  <1>4. CASE Gain \/ Send \/ SendFails
    <2>1. UNCHANGED <<account, claim, enrollment, handling, races, credits>>
      BY <1>4 DEF Gain, Send, SendFails, outreach
    <2>2. CreditsPerRace'
      BY <2>1 DEF MoneyInv, CreditsPerRace
    <2> QED BY <1>1, <2>1, <2>2, MoneyStays
  <1>5. CASE Advance
    <2>1. /\ UNCHANGED <<account, claim, handling, credits>>
          /\ races' = IF enrollment.status = "bounced" THEN races + 1 ELSE races
      BY <1>5 DEF Advance
    <2>2. CreditsPerRace'
      <3>1. CASE enrollment.status = "bounced"
        <4>1. Cardinality(handling) \in Nat
          BY FS_CardinalityType, FS_Subset, RevealsAssumption DEF MoneyInv, OwnershipInv, TypeOK
        <4>2. credits + Cardinality(handling) <= races'
          BY <1>2, <2>1, <3>1, <4>1 DEF MoneyInv, CreditsPerRace
        <4>3. races' \in Nat
          BY <1>2, <2>1
        <4> QED BY <1>2, <2>1, <4>1, <4>2, <4>3 DEF CreditsPerRace
      <3>2. CASE enrollment.status # "bounced"
        <4>1. enrollment'.status # "bounced"
          BY <1>5 DEF Advance
        <4> QED BY <2>1, <3>2, <4>1 DEF MoneyInv, CreditsPerRace
      <3> QED BY <3>1, <3>2
    <2> QED BY <1>1, <2>1, <2>2, MoneyStays
  <1>6. ASSUME NEW h \in Webhooks, ReadBounce(h)
        PROVE  MoneyInv'
    <2>1. /\ UNCHANGED <<account, claim, enrollment, credits>>
          /\ h \notin handling /\ handling' = handling \cup {h}
          /\ enrollment.status # "bounced"
          /\ races' = IF handling # {} THEN races + 1 ELSE races
      BY <1>6 DEF ReadBounce
    <2>2. CreditsPerRace'
      <3>1. /\ Cardinality(handling) \in Nat
            /\ Cardinality(handling') = Cardinality(handling) + 1
        BY <2>1, HandlersCounted DEF MoneyInv, OwnershipInv
      <3>2. credits + Cardinality(handling) <= races'
        <4>1. CASE handling = {}
          BY <1>2, <2>1, <4>1 DEF MoneyInv, CreditsPerRace
        <4>2. CASE handling # {}
          BY <1>2, <2>1, <4>2 DEF MoneyInv, CreditsPerRace
        <4> QED BY <4>1, <4>2
      <3>3. races' \in Nat /\ handling' # {}
        BY <1>2, <2>1
      <3> QED BY <1>2, <2>1, <3>1, <3>2, <3>3 DEF CreditsPerRace
    <2> QED BY <1>1, <2>1, <2>2, MoneyStays
  <1>7. CASE UNCHANGED vars
    <2>1. UNCHANGED <<account, claim, credits>> /\ CreditsPerRace'
      BY <1>7 DEF vars, MoneyInv, CreditsPerRace
    <2> QED BY <1>1, <2>1, MoneyStays
  <1> QED BY <1>1, <1>3, <1>4, <1>5, <1>6, <1>7, ClaimMoney, BounceMoney DEF Next, Reveal

\* What was credited back, of the races.
LEMMA CreditsWithin ==
  ASSUME MoneyInv
  PROVE  /\ credits * Charged <= (1 + races) * Charged
         /\ Repeated * Charged <= races * Charged
         /\ credits * Charged \in Int /\ Repeated * Charged \in Int
         /\ (1 + races) * Charged \in Int /\ races * Charged \in Int
  <1>1. /\ credits \in Nat /\ races \in Nat /\ Charged \in Nat
        /\ Repeated \in Nat /\ 1 + races \in Nat
    BY CostsWithin DEF MoneyInv, OwnershipInv, TypeOK, Repeated
  <1>2. Cardinality(handling) \in Nat
    BY FS_CardinalityType, FS_Subset, RevealsAssumption DEF MoneyInv, OwnershipInv, TypeOK
  <1>3. credits <= 1 + races
    BY <1>1, <1>2 DEF MoneyInv, CreditsPerRace
  <1>4. Repeated <= races
    BY <1>1, <1>3 DEF Repeated
  <1>5. Charged <= Charged
    BY <1>1
  <1> QED BY <1>1, <1>3, <1>4, <1>5, TimesMore

\* Bounces give back no more than the reveals took, once and once more for each
\* race between their handlers, or with a send, whatever was revealed before and
\* after them.
THEOREM RefundWithinCharges == Spec => []NetWithinCharges
  <1>1. MoneyInv => NetWithinCharges
    <2> SUFFICES ASSUME MoneyInv PROVE NetWithinCharges
      OBVIOUS
    <2>1. 0 <= Refunded /\ Refunded <= credits * Charged
      BY DEF MoneyInv
    <2>2. Refunded \in Int
      BY CostsWithin, RevealsAssumption DEF MoneyInv, OwnershipInv, TypeOK, Accounts, Refunded
    <2> QED BY <2>1, <2>2, CreditsWithin DEF NetWithinCharges
  <1> QED BY <1>1, MoneyInit, MoneyStep, PTL DEF Spec

\* Through reveals and bounces the counter leaves the ledger by no more than a
\* charge for each race, and not at all where there was none.
THEOREM DriftIsBounded == Spec => []DriftPerRace
  <1>1. MoneyInv => DriftPerRace
    <2> SUFFICES ASSUME MoneyInv PROVE DriftPerRace
      OBVIOUS
    <2>1. /\ Sound(account)
          /\ account.sum <= account.total
          /\ account.total - account.sum <= Repeated * Charged
      BY DEF MoneyInv
    <2>2. account.total - account.sum \in Int
      BY DEF MoneyInv, OwnershipInv, TypeOK, Accounts
    <2> QED BY <2>1, <2>2, CreditsWithin DEF DriftPerRace
  <1> QED BY <1>1, MoneyInit, MoneyStep, PTL DEF Spec

-----------------------------------------------------------------------------
(***************************************************************************)
(* OutreachSend.                                                           *)
(***************************************************************************)

(***************************************************************************)
(* What the invariants need of the types.                                  *)
(***************************************************************************)
SendsTyped ==
  /\ SendTyped
  /\ DOMAIN mailed = Logs /\ DOMAIN claimed = Logs
  /\ \A l \in Logs : mailed[l] \in [1 .. Length[l] -> Nat]
  /\ \A w \in Workers : worker[w].pc \in {"mail", "advance"} =>
       worker[w].step \in 1 .. Length[LogOf(w)]

(***************************************************************************)
(* The quota.                                                              *)
(***************************************************************************)

\* A unit of the window is mailed, held by a send, lost, or was given back by
\* mistake; a send that is over holds none.
WindowInv ==
  /\ quota.used <= Quota
  /\ mails + InFlight <= quota.used + wrong
  /\ quota.used <= mails + InFlight + lost
  /\ \A w \in Workers :
       /\ worker[w].unit # "none" => worker[w].pc \in {"throttle", "refund", "mail", "advance"}
       /\ worker[w].pc = "advance" => worker[w].unit # "held"

(***************************************************************************)
(* The mails.                                                              *)
(***************************************************************************)

\* A worker that has read the next step of the enrollment and will write it.
Reader(w, l) == LogOf(w) = l /\ worker[w].pc \in {"mail", "advance"}

\* A tick may claim step k of the enrollment, now or once its readers have written.
InReach(l, k) ==
  /\ \/ k <= log[l].step + 1
     \/ k <= claimed[l]
     \/ \E w \in Workers : Reader(w, l) /\ k <= worker[w].step
  /\ \/ k > log[l].step
     \/ claimed[l] # 0 /\ k >= claimed[l]
     \/ \E w \in Workers : Reader(w, l) /\ k > worker[w].step

\* The jobs of the enrollment that wait, or that a tick may still add.
Chances(l) ==
  {i \in Ids : /\ i[1] = l
               /\ \/ queue[i].st = "waiting"
                  \/ queue[i].st = "absent" /\ i[2] <= Length[l] /\ InReach(l, i[2])}

\* The workers that have a send of it, but those that have mailed step s.
Senders(l, s) ==
  {w \in Workers : /\ LogOf(w) = l /\ worker[w].pc \notin {"idle", "done"}
                   /\ ~(worker[w].pc = "advance" /\ worker[w].step = s)}

\* The workers that hold a step up to s and have not mailed s.
Behind(l, s) ==
  {w \in Workers : /\ Reader(w, l)
                   /\ \/ worker[w].step < s
                      \/ worker[w].pc = "mail" /\ worker[w].step = s}

\* The workers that have mailed step s and will write it.
Mailers(l, s) ==
  {w \in Workers : LogOf(w) = l /\ worker[w].pc = "advance" /\ worker[w].step = s}

Open(l, s) == Cardinality(Chances(l)) + Cardinality(Senders(l, s))

\* A send more than one is under way for each fault.
OneSend(l) == Open(l, 0) <= 1 + disturbed[l]

OneMail(l, s) ==
  /\ mailed[l][s] + Cardinality(Behind(l, s)) <= 1 + disturbed[l]
  /\ log[l].step < s => /\ mailed[l][s] + Open(l, s) <= 1 + disturbed[l]
                        /\ mailed[l][s] <= disturbed[l] + Cardinality(Mailers(l, s))
  /\ (\E w \in Workers : Reader(w, l) /\ worker[w].step < s) =>
       mailed[l][s] + Open(l, s) <= 2 + disturbed[l]

MailsOf(l) == OneSend(l) /\ \A s \in 1 .. Length[l] : OneMail(l, s)

MailInv == \A l \in Logs : MailsOf(l)

\* No send of the enrollment is under way, and a claim that a tick has not enqueued
\* yet finds its job's record.
Resting(l) ==
  /\ Senders(l, 0) = {}
  /\ \A i \in Ids : i[1] = l => /\ queue[i].st # "waiting"
                                /\ i[2] = claimed[l] => queue[i].st # "absent"

\* An undisturbed enrollment rests while the delay of its step runs.
DelayInv == \A l \in Logs : clock[l] = "delay" /\ disturbed[l] = 0 => Resting(l)

SendInv == SendsTyped /\ WindowInv /\ MailInv /\ DelayInv

(***************************************************************************)
(* Cardinalities.                                                          *)
(***************************************************************************)
\* Two sets that differ in one member at most.
LEMMA OneMember ==
  ASSUME NEW S, NEW R, NEW a, IsFiniteSet(S), \A v : v # a => (v \in S <=> v \in R)
  PROVE  /\ IsFiniteSet(R) /\ Cardinality(S) \in Nat /\ Cardinality(R) \in Nat
         /\ a \in S /\ a \in R => Cardinality(R) = Cardinality(S)
         /\ a \notin S /\ a \notin R => Cardinality(R) = Cardinality(S)
         /\ a \notin S /\ a \in R => Cardinality(R) = Cardinality(S) + 1
         /\ a \in S /\ a \notin R => Cardinality(R) = Cardinality(S) - 1 /\ Cardinality(S) > 0
  <1>1. Cardinality(S) \in Nat
    BY FS_CardinalityType
  <1>2. CASE a \in S <=> a \in R
    <2>1. R = S
      BY <1>2
    <2> QED BY <1>1, <1>2, <2>1
  <1>3. CASE a \notin S /\ a \in R
    <2>1. R = S \cup {a}
      BY <1>3
    <2>2. IsFiniteSet(S \cup {a}) /\ Cardinality(S \cup {a}) = Cardinality(S) + 1
      BY <1>3, FS_AddElement
    <2> QED BY <1>1, <1>3, <2>1, <2>2
  <1>4. CASE a \in S /\ a \notin R
    <2>1. R = S \ {a}
      BY <1>4
    <2>2. IsFiniteSet(S \ {a}) /\ Cardinality(S \ {a}) = Cardinality(S) - 1
      BY <1>4, FS_RemoveElement
    <2>3. Cardinality(S \ {a}) \in Nat
      BY <2>2, FS_CardinalityType
    <2> QED BY <1>1, <1>4, <2>1, <2>2, <2>3
  <1> QED BY <1>2, <1>3, <1>4

\* A set that gains one member at most.
LEMMA AtMostOneMore ==
  ASSUME NEW S, NEW R, NEW a, IsFiniteSet(S)
  PROVE  /\ R \subseteq S => /\ IsFiniteSet(R) /\ Cardinality(R) \in Nat
                             /\ Cardinality(R) <= Cardinality(S)
         /\ R \subseteq S \cup {a} => /\ IsFiniteSet(R) /\ Cardinality(R) \in Nat
                                      /\ Cardinality(R) <= Cardinality(S) + 1
         /\ R \subseteq S /\ a \in S /\ a \notin R =>
              /\ IsFiniteSet(R) /\ Cardinality(R) \in Nat
              /\ Cardinality(R) <= Cardinality(S) - 1
  <1>1. Cardinality(S) \in Nat
    BY FS_CardinalityType
  <1>2. ASSUME R \subseteq S
        PROVE  IsFiniteSet(R) /\ Cardinality(R) \in Nat /\ Cardinality(R) <= Cardinality(S)
    BY <1>2, FS_Subset, FS_CardinalityType
  <1>3. ASSUME R \subseteq S \cup {a}
        PROVE  IsFiniteSet(R) /\ Cardinality(R) \in Nat /\ Cardinality(R) <= Cardinality(S) + 1
    <2>1. /\ IsFiniteSet(S \cup {a}) /\ Cardinality(S \cup {a}) \in Nat
          /\ Cardinality(S \cup {a}) <= Cardinality(S) + 1
      BY <1>1, FS_AddElement, FS_CardinalityType
    <2>2. R \in SUBSET (S \cup {a})
      BY <1>3
    <2>3. /\ IsFiniteSet(R) /\ Cardinality(R) <= Cardinality(S \cup {a})
      BY <2>1, <2>2, FS_Subset
    <2> QED BY <1>1, <2>1, <2>3, FS_CardinalityType
  <1>4. ASSUME R \subseteq S, a \in S, a \notin R
        PROVE  IsFiniteSet(R) /\ Cardinality(R) \in Nat /\ Cardinality(R) <= Cardinality(S) - 1
    <2>1. IsFiniteSet(S \ {a}) /\ Cardinality(S \ {a}) = Cardinality(S) - 1
      BY <1>4, FS_RemoveElement
    <2>2. R \in SUBSET (S \ {a})
      BY <1>4
    <2>3. IsFiniteSet(R) /\ Cardinality(R) <= Cardinality(S \ {a})
      BY <2>1, <2>2, FS_Subset
    <2> QED BY <1>1, <2>1, <2>3, FS_CardinalityType
  <1> QED BY <1>2, <1>3, <1>4

(***************************************************************************)
(* The ids of the jobs.                                                    *)
(***************************************************************************)
LEMMA IdsAre ==
  /\ \A i \in Ids : /\ i[1] \in Logs /\ i = <<i[1], i[2]>>
                    /\ i[2] \in 1 .. Length[i[1]] + MaxDefers
  /\ \A l \in Logs : \A k \in 1 .. Length[l] + MaxDefers : <<l, k>> \in Ids
  /\ \A l \in Logs : Length[l] \in Nat /\ Length[l] # 0
                     /\ \A k \in 1 .. Length[l] : <<l, k>> \in Ids
  /\ Someone \in Ids
  <1>1. /\ \A l \in Logs : Length[l] \in Nat /\ Length[l] # 0
        /\ MaxDefers \in Nat
    BY OutreachAssumption
  <1>2. \A i \in Ids : \E l \in Logs : i \in {l} \X (1 .. Length[l] + MaxDefers)
    BY DEF Ids
  <1>3. \A l \in Logs : \A k \in 1 .. Length[l] + MaxDefers : <<l, k>> \in Ids
    <2> SUFFICES ASSUME NEW l \in Logs, NEW k \in 1 .. Length[l] + MaxDefers
                 PROVE  <<l, k>> \in Ids
      OBVIOUS
    <2>1. <<l, k>> \in {l} \X (1 .. Length[l] + MaxDefers)
      OBVIOUS
    <2> QED BY <2>1 DEF Ids
  <1>4. \A i \in Ids : /\ i[1] \in Logs /\ i = <<i[1], i[2]>>
                       /\ i[2] \in 1 .. Length[i[1]] + MaxDefers
    BY <1>2
  <1>5. \A l \in Logs : \A k \in 1 .. Length[l] : k \in 1 .. Length[l] + MaxDefers
    BY <1>1
  <1>6. Someone \in Ids
    <2>1. PICK l \in Logs : TRUE
      BY OutreachAssumption
    <2>2. <<l, 1>> \in Ids
      BY <1>1, <1>3, <1>5, <2>1
    <2> QED BY <2>2 DEF Someone
  <1> QED BY <1>1, <1>3, <1>4, <1>5, <1>6

\* The ids of an enrollment are finitely many.
LEMMA FewIds ==
  ASSUME NEW l \in Logs
  PROVE  IsFiniteSet({i \in Ids : i[1] = l})
  <1> DEFINE K == 1 .. Length[l] + MaxDefers
  <1>1. Length[l] + MaxDefers \in Nat
    BY OutreachAssumption
  <1>2. IsFiniteSet({l}) /\ IsFiniteSet(K)
    <2>1. IsFiniteSet({l})
      BY FS_Singleton
    <2>2. \A n \in Nat : IsFiniteSet(1 .. n)
      BY FS_Interval
    <2> QED BY <1>1, <2>1, <2>2
  <1>3. IsFiniteSet({l} \X K)
    BY <1>2, FS_Product
  <1>4. {i \in Ids : i[1] = l} \in SUBSET ({l} \X K)
    BY IdsAre
  <1> QED BY <1>3, <1>4, FS_Subset

(***************************************************************************)
(* What a step does to the worker that takes it.                           *)
(***************************************************************************)
SendPhases == {"idle", "gate", "throttle", "refund", "defer", "mail", "advance", "done", "fail"}

Units == {"none", "held", "spent", "old"}

SenderRecords ==
  [pc : SendPhases, id : Ids, owned : BOOLEAN, step : Nat, deferred : BOOLEAN, unit : Units]

\* The worker goes on with its job.
Turns(w, pc, unit, step) ==
  /\ worker'[w].pc = pc /\ worker'[w].unit = unit /\ worker'[w].step = step
  /\ worker'[w].id = worker[w].id

\* Or it is free again.
Frees(w) == worker'[w] = Free

\* A worker without a job.
LEMMA FreeIs ==
  /\ Free \in SenderRecords
  /\ Free.pc = "idle" /\ Free.unit = "none" /\ Free.step = 0
  BY IdsAre DEF Free, SenderRecords, SendPhases, Units

\* What the type invariant says of a worker.
LEMMA SenderTypes ==
  ASSUME SendTyped
  PROVE  /\ worker \in [Workers -> SenderRecords]
         /\ \A w \in Workers : /\ worker[w] \in SenderRecords /\ LogOf(w) \in Logs
                               /\ worker[w].unit \in Units /\ worker[w].pc \in SendPhases
                               /\ worker[w].step \in Nat /\ worker[w].id \in Ids
  <1>1. worker \in [Workers -> SenderRecords]
    BY DEF SendTyped, SenderRecords, SendPhases, Units
  <1>2. \A w \in Workers : /\ worker[w] \in SenderRecords /\ worker[w].id \in Ids
                           /\ worker[w].unit \in Units /\ worker[w].pc \in SendPhases
                           /\ worker[w].step \in Nat
    BY <1>1 DEF SenderRecords
  <1> QED BY <1>1, <1>2, IdsAre DEF LogOf

\* Every step of a worker but the gate's leaves the other workers alone; the gate
\* ages the units they hold.
LEMMA OtherWorkers ==
  ASSUME SendTyped, NEW w \in Workers, Runs(w) \/ Breaks(w) \/ \E i \in Ids : Take(w, i)
  PROVE  /\ \A v \in Workers : v # w => /\ worker'[v].pc = worker[v].pc
                                        /\ worker'[v].id = worker[v].id
                                        /\ worker'[v].step = worker[v].step
         /\ ~Gate(w) => \A v \in Workers : v # w => worker'[v] = worker[v]
         /\ worker' \in [Workers -> SenderRecords]
  <1>1. /\ worker \in [Workers -> SenderRecords] /\ worker[w] \in SenderRecords
        /\ Free \in SenderRecords
    BY SenderTypes, FreeIs
  <1>2. \A l \in Logs : log[l].step \in Nat
    BY DEF SendTyped
  <1>3. ASSUME NEW r \in SenderRecords, worker' = [worker EXCEPT ![w] = r]
        PROVE  /\ \A v \in Workers : v # w => worker'[v] = worker[v]
               /\ worker' \in [Workers -> SenderRecords]
    BY <1>1, <1>3
  <1>4. CASE Gate(w)
    <2>1. \A v \in Workers : [worker[v] EXCEPT !.unit = Aged(@)] \in SenderRecords
      BY <1>1 DEF SenderRecords, Units, Aged
    <2>2. [worker[w] EXCEPT !.pc = "throttle", !.unit = "held"] \in SenderRecords
      BY <1>1 DEF SenderRecords, Units, SendPhases
    <2>3. worker' \in [Workers -> SenderRecords]
      BY <1>4, <2>1, <2>2 DEF Gate
    <2>4. \A v \in Workers : v # w => worker'[v] = [worker[v] EXCEPT !.unit = Aged(@)]
      BY <1>4 DEF Gate
    <2>5. \A v \in Workers : v # w => /\ worker'[v].pc = worker[v].pc
                                      /\ worker'[v].id = worker[v].id
                                      /\ worker'[v].step = worker[v].step
      BY <1>1, <2>4 DEF SenderRecords
    <2> QED BY <1>4, <2>3, <2>5
  <1>5. CASE GateRefuses(w) \/ Defer(w) \/ DeferFails(w) \/ NothingLeaves(w) \/ AdvanceFails(w)
    <2>1. PICK pc \in SendPhases : Goto(w, pc)
      BY <1>5 DEF GateRefuses, Defer, DeferFails, NothingLeaves, AdvanceFails, SendPhases
    <2>2. [worker[w] EXCEPT !.pc = pc] \in SenderRecords
      BY <1>1 DEF SenderRecords
    <2> QED BY <1>1, <2>1, <2>2 DEF Goto
  <1>6. CASE Finish(w) \/ Fail(w) \/ WorkerDies(w)
    BY <1>1, <1>3, <1>6 DEF Finish, Fail, WorkerDies, Ends
  <1>7. CASE Throttled(w)
    BY <1>1, <1>7 DEF Throttled, SenderRecords, SendPhases
  <1>8. CASE ThrottleFails(w)
    BY <1>1, <1>8 DEF ThrottleFails, SenderRecords, SendPhases, Units
  <1>9. CASE RefundUnit(w) \/ RefundFails(w)
    <2>1. AfterRefund(w) \in SendPhases
      BY DEF AfterRefund, SendPhases
    <2> QED BY <1>1, <1>9, <2>1 DEF RefundUnit, RefundFails, SenderRecords, Units
  <1>10. CASE ReadLog(w)
    <2>1. log[LogOf(w)].step + 1 \in Nat
      BY <1>2, SenderTypes
    <2> QED BY <1>1, <1>10, <2>1 DEF ReadLog, SenderRecords, SendPhases
  <1>11. CASE Mail(w) \/ MailUnheard(w)
    <2>1. PICK pc \in {"advance", "refund"} : Leaves(w, pc)
      BY <1>11 DEF Mail, MailUnheard
    <2> QED BY <1>1, <2>1 DEF Leaves, SenderRecords, SendPhases, Units
  <1>12. CASE AdvanceStep(w)
    BY <1>1, <1>12 DEF AdvanceStep, SenderRecords, SendPhases, Units
  <1>13. CASE DeadlinePasses(w) \/ LockExpires(w)
    BY <1>1, <1>13 DEF DeadlinePasses, LockExpires, Orphaned, SenderRecords
  <1>14. ASSUME NEW i \in Ids, Take(w, i)
         PROVE  /\ \A v \in Workers : v # w => worker'[v] = worker[v]
                /\ worker' \in [Workers -> SenderRecords]
    <2>1. [Free EXCEPT !.pc = "gate", !.id = i, !.owned = TRUE] \in SenderRecords
      BY <1>1 DEF SenderRecords, SendPhases
    <2> QED BY <1>3, <1>14, <2>1 DEF Take
  <1> QED BY <1>4, <1>5, <1>6, <1>7, <1>8, <1>9, <1>10, <1>11, <1>12, <1>13, <1>14
          DEF Runs, Breaks

\* And where each step leaves its own worker.
LEMMA Turning ==
  ASSUME SendTyped, NEW w \in Workers
  PROVE  /\ Gate(w) => Turns(w, "throttle", "held", worker[w].step)
         /\ GateRefuses(w) => Turns(w, "fail", worker[w].unit, worker[w].step)
         /\ Throttled(w) => Turns(w, "refund", worker[w].unit, worker[w].step)
         /\ ThrottleFails(w) => Turns(w, "fail", "none", worker[w].step)
         /\ RefundUnit(w) \/ RefundFails(w) =>
              Turns(w, "defer", "none", 0) \/ Turns(w, "fail", "none", 0)
         /\ Defer(w) => Turns(w, "done", worker[w].unit, worker[w].step)
         /\ DeferFails(w) => Turns(w, "fail", worker[w].unit, worker[w].step)
         /\ ReadLog(w) => /\ Turns(w, "mail", worker[w].unit, log[LogOf(w)].step + 1)
                             \/ Turns(w, "refund", worker[w].unit, log[LogOf(w)].step + 1)
                          /\ worker'[w].pc = "mail" => log[LogOf(w)].step < Length[LogOf(w)]
         /\ NothingLeaves(w) => Turns(w, "refund", worker[w].unit, worker[w].step)
         /\ Mail(w) => Turns(w, "advance", IF Holds(w) THEN "spent" ELSE worker[w].unit,
                             worker[w].step)
         /\ MailUnheard(w) => Turns(w, "refund", IF Holds(w) THEN "spent" ELSE worker[w].unit,
                                    worker[w].step)
         /\ AdvanceStep(w) => Turns(w, "done", "none", 0)
         /\ AdvanceFails(w) => Turns(w, "refund", worker[w].unit, worker[w].step)
         /\ DeadlinePasses(w) \/ LockExpires(w) =>
              Turns(w, worker[w].pc, worker[w].unit, worker[w].step)
         /\ Finish(w) \/ Fail(w) \/ WorkerDies(w) => Frees(w)
         /\ \A i \in Ids : Take(w, i) => /\ worker'[w].pc = "gate" /\ worker'[w].unit = "none"
                                         /\ worker'[w].step = 0 /\ worker'[w].id = i
  <1>1. worker \in [Workers -> SenderRecords] /\ worker[w] \in SenderRecords
    BY SenderTypes
  <1>2. /\ GateRefuses(w) => Turns(w, "fail", worker[w].unit, worker[w].step)
        /\ Defer(w) => Turns(w, "done", worker[w].unit, worker[w].step)
        /\ DeferFails(w) => Turns(w, "fail", worker[w].unit, worker[w].step)
        /\ NothingLeaves(w) => Turns(w, "refund", worker[w].unit, worker[w].step)
        /\ AdvanceFails(w) => Turns(w, "refund", worker[w].unit, worker[w].step)
    <2>1. \A pc : Goto(w, pc) => Turns(w, pc, worker[w].unit, worker[w].step)
      BY <1>1 DEF Goto, Turns, SenderRecords
    <2> QED BY <2>1 DEF GateRefuses, Defer, DeferFails, NothingLeaves, AdvanceFails
  <1>3. Gate(w) => Turns(w, "throttle", "held", worker[w].step)
    BY <1>1 DEF Gate, Turns, SenderRecords
  <1>4. Throttled(w) => Turns(w, "refund", worker[w].unit, worker[w].step)
    BY <1>1 DEF Throttled, Turns, SenderRecords
  <1>5. ThrottleFails(w) => Turns(w, "fail", "none", worker[w].step)
    BY <1>1 DEF ThrottleFails, Turns, SenderRecords
  <1>6. RefundUnit(w) \/ RefundFails(w) =>
          Turns(w, "defer", "none", 0) \/ Turns(w, "fail", "none", 0)
    <2>1. RefundUnit(w) \/ RefundFails(w) => Turns(w, AfterRefund(w), "none", 0)
      BY <1>1 DEF RefundUnit, RefundFails, Turns, SenderRecords
    <2> QED BY <2>1 DEF AfterRefund
  <1>7. ReadLog(w) => /\ Turns(w, "mail", worker[w].unit, log[LogOf(w)].step + 1)
                         \/ Turns(w, "refund", worker[w].unit, log[LogOf(w)].step + 1)
                      /\ worker'[w].pc = "mail" => log[LogOf(w)].step < Length[LogOf(w)]
    BY <1>1 DEF ReadLog, Turns, SenderRecords
  <1>8. ASSUME NEW pc, Leaves(w, pc)
        PROVE  Turns(w, pc, IF Holds(w) THEN "spent" ELSE worker[w].unit, worker[w].step)
    BY <1>1, <1>8 DEF Leaves, Turns, SenderRecords
  <1>9. AdvanceStep(w) => Turns(w, "done", "none", 0)
    BY <1>1 DEF AdvanceStep, Turns, SenderRecords
  <1>10. DeadlinePasses(w) \/ LockExpires(w) =>
           Turns(w, worker[w].pc, worker[w].unit, worker[w].step)
    BY <1>1 DEF DeadlinePasses, LockExpires, Orphaned, Turns, SenderRecords
  <1>11. Finish(w) \/ Fail(w) \/ WorkerDies(w) => Frees(w)
    BY <1>1 DEF Finish, Fail, WorkerDies, Ends, Frees
  <1>12. \A i \in Ids : Take(w, i) => /\ worker'[w].pc = "gate" /\ worker'[w].unit = "none"
                                      /\ worker'[w].step = 0 /\ worker'[w].id = i
    BY <1>1, FreeIs DEF Take, Free
  <1> QED BY <1>2, <1>3, <1>4, <1>5, <1>6, <1>7, <1>8, <1>9, <1>10, <1>11, <1>12
          DEF Mail, MailUnheard

(***************************************************************************)
(* What a step does to the queue.                                          *)
(***************************************************************************)
LEMMA RecordsStay ==
  /\ BullMQ!Absent \in BullMQ!Records /\ BullMQ!Absent.st = "absent"
  /\ [BullMQ!Absent EXCEPT !.st = "completed"] \in BullMQ!Records
  /\ [BullMQ!Absent EXCEPT !.st = "completed"].st = "completed"
  /\ \A r \in BullMQ!Records :
       /\ BullMQ!Retried(r) \in BullMQ!Records /\ BullMQ!Redelivered(r) \in BullMQ!Records
       /\ BullMQ!Retried(r).st \in {"waiting", "failed"}
       /\ BullMQ!Redelivered(r).st \in {"waiting", "failed"}
       /\ [r EXCEPT !.st = "active"] \in BullMQ!Records
       /\ [r EXCEPT !.st = "active"].st = "active"
  <1>1. /\ BullMQ!Absent \in BullMQ!Records /\ BullMQ!Absent.st = "absent"
        /\ [BullMQ!Absent EXCEPT !.st = "completed"] \in BullMQ!Records
        /\ [BullMQ!Absent EXCEPT !.st = "completed"].st = "completed"
    BY DEF BullMQ!Absent, BullMQ!Records
  <1>2. \A r \in BullMQ!Records :
          /\ BullMQ!Retried(r) \in BullMQ!Records
          /\ BullMQ!Retried(r).st \in {"waiting", "failed"}
    <2> SUFFICES ASSUME NEW r \in BullMQ!Records
                 PROVE  /\ BullMQ!Retried(r) \in BullMQ!Records
                        /\ BullMQ!Retried(r).st \in {"waiting", "failed"}
      OBVIOUS
    <2>1. CASE r.tries > 1
      <3>1. r.tries - 1 \in Nat
        BY <2>1 DEF BullMQ!Records
      <3> DEFINE n == r.tries - 1
      <3>2. BullMQ!Retried(r) = [r EXCEPT !.st = "waiting", !.tries = n]
        BY <2>1 DEF BullMQ!Retried
      <3> HIDE DEF n
      <3> QED BY <3>1, <3>2 DEF BullMQ!Records, n
    <2>2. CASE ~(r.tries > 1)
      BY <2>2 DEF BullMQ!Retried, BullMQ!Records
    <2> QED BY <2>1, <2>2
  <1>3. \A r \in BullMQ!Records :
          /\ BullMQ!Redelivered(r) \in BullMQ!Records
          /\ BullMQ!Redelivered(r).st \in {"waiting", "failed"}
    <2> SUFFICES ASSUME NEW r \in BullMQ!Records
                 PROVE  /\ BullMQ!Redelivered(r) \in BullMQ!Records
                        /\ BullMQ!Redelivered(r).st \in {"waiting", "failed"}
      OBVIOUS
    <2>1. CASE r.stalls < MaxStalled
      <3> DEFINE n == r.stalls + 1
      <3>1. n \in Nat
        BY DEF BullMQ!Records
      <3>2. BullMQ!Redelivered(r) = [r EXCEPT !.st = "waiting", !.stalls = n]
        BY <2>1 DEF BullMQ!Redelivered
      <3> HIDE DEF n
      <3> QED BY <3>1, <3>2 DEF BullMQ!Records
    <2>2. CASE ~(r.stalls < MaxStalled)
      BY <2>2 DEF BullMQ!Redelivered, BullMQ!Records
    <2> QED BY <2>1, <2>2
  <1>4. \A r \in BullMQ!Records : /\ [r EXCEPT !.st = "active"] \in BullMQ!Records
                                  /\ [r EXCEPT !.st = "active"].st = "active"
    BY DEF BullMQ!Records
  <1> QED BY <1>1, <1>2, <1>3, <1>4

\* One record is replaced.
Replaced(i, r) == queue' = [queue EXCEPT ![i] = r]

\* A job is added, unless its record is kept.
AddedOne(i) ==
  /\ queue' \in [Ids -> BullMQ!Records]
  /\ \A j \in Ids : j # i => queue'[j] = queue[j]
  /\ queue'[i].st = IF queue[i].st = "absent" THEN "waiting" ELSE queue[i].st

\* queue.add of one id.
LEMMA AddingOne ==
  ASSUME SendTyped, NEW i \in Ids, queue' = BullMQ!Added(queue, {i}, Attempts, FALSE)
  PROVE  AddedOne(i)
  <1>1. queue \in [Ids -> BullMQ!Records]
    BY DEF SendTyped
  <1>2. BullMQ!NewRecord(Attempts, FALSE) \in BullMQ!Records
        /\ BullMQ!NewRecord(Attempts, FALSE).st = "waiting"
    BY DEF BullMQ!NewRecord, BullMQ!Records, Attempts
  <1> QED BY <1>1, <1>2 DEF AddedOne, BullMQ!Added

\* The queue when a worker is done with its job, or is given up.
LEMMA Ending ==
  ASSUME SendTyped, NEW w \in Workers
  PROVE  /\ queue \in [Ids -> BullMQ!Records] /\ worker[w].id \in Ids
         /\ Finish(w) => \/ UNCHANGED queue
                         \/ /\ queue' = [queue EXCEPT ![worker[w].id] = queue'[worker[w].id]]
                            /\ queue'[worker[w].id] \in BullMQ!Records
                            /\ queue'[worker[w].id].st = "completed"
         /\ Fail(w) \/ WorkerDies(w) \/ DeadlinePasses(w) \/ LockExpires(w) =>
              \/ UNCHANGED queue
              \/ /\ queue' = [queue EXCEPT ![worker[w].id] = queue'[worker[w].id]]
                 /\ queue'[worker[w].id] \in BullMQ!Records
                 /\ queue'[worker[w].id].st \in {"waiting", "failed"}
  <1>1. queue \in [Ids -> BullMQ!Records] /\ worker[w].id \in Ids /\ Record(w) \in BullMQ!Records
    BY SenderTypes DEF SendTyped, Record
  <1>2. ASSUME NEW r, Replaced(worker[w].id, r)
        PROVE  /\ queue'[worker[w].id] = r
               /\ queue' = [queue EXCEPT ![worker[w].id] = queue'[worker[w].id]]
    BY <1>1, <1>2 DEF Replaced
  <1>3. ASSUME Finish(w)
        PROVE  UNCHANGED queue \/ Replaced(worker[w].id, [BullMQ!Absent EXCEPT !.st = "completed"])
    BY <1>3 DEF Finish, Ends, Replaced
  <1>4. ASSUME Fail(w) \/ WorkerDies(w) \/ DeadlinePasses(w) \/ LockExpires(w)
        PROVE  \/ UNCHANGED queue
               \/ Replaced(worker[w].id, BullMQ!Retried(Record(w)))
               \/ Replaced(worker[w].id, BullMQ!Redelivered(Record(w)))
    BY <1>4 DEF Fail, WorkerDies, DeadlinePasses, LockExpires, Ends, Orphaned, Replaced
  <1> QED BY <1>1, <1>2, <1>3, <1>4, RecordsStay

\* A throttled job is put back under an unused id beyond the steps.
LEMMA Deferring1 ==
  ASSUME SendTyped, NEW w \in Workers, Defer(w)
  PROVE  \E i \in Ids : /\ i[1] = LogOf(w) /\ i[2] > Length[LogOf(w)]
                        /\ queue[i].st = "absent" /\ AddedOne(i)
  <1>1. PICK i \in Unused(LogOf(w)) : queue' = BullMQ!Added(queue, {i}, Attempts, FALSE)
    BY DEF Defer
  <1>2. LogOf(w) \in Logs
    BY SenderTypes
  <1>3. Length[LogOf(w)] \in Nat /\ MaxDefers \in Nat
    BY <1>2, OutreachAssumption
  <1>4. PICK k \in Length[LogOf(w)] + 1 .. Length[LogOf(w)] + MaxDefers : i = <<LogOf(w), k>>
    BY DEF Unused, Deferrals
  <1>5. k \in 1 .. Length[LogOf(w)] + MaxDefers /\ k > Length[LogOf(w)]
    BY <1>3
  <1>6. i \in Ids /\ i[1] = LogOf(w) /\ i[2] > Length[LogOf(w)]
    BY <1>2, <1>4, <1>5, IdsAre
  <1> QED BY <1>1, <1>6, AddingOne DEF Unused

\* The tick adds the job of the step it has claimed.
LEMMA Enqueuing ==
  ASSUME SendTyped, NEW l \in Logs, EnqueueStep(l)
  PROVE  /\ <<l, claimed[l]>> \in Ids /\ AddedOne(<<l, claimed[l]>>)
         /\ claimed[l] # 0
  <1>1. claimed[l] \in 1 .. Length[l]
    <2>1. claimed[l] \in 0 .. Length[l] /\ claimed[l] # 0 /\ Length[l] \in Nat
      BY IdsAre DEF EnqueueStep, SendTyped
    <2> QED BY <2>1
  <1>2. <<l, claimed[l]>> \in Ids
    BY <1>1, IdsAre
  <1> QED BY <1>1, <1>2, AddingOne DEF EnqueueStep

(***************************************************************************)
(* Types.                                                                  *)
(***************************************************************************)
LEMMA SendsTypedInit == SendInit => SendsTyped
  <1> SUFFICES ASSUME SendInit
               PROVE  SendsTyped
    OBVIOUS
  <1>1. worker \in [Workers -> SenderRecords] /\ \A w \in Workers : worker[w].pc = "idle"
    BY FreeIs DEF SendInit
  <1>2. queue \in [Ids -> BullMQ!Records]
    BY RecordsStay DEF SendInit
  <1>3. \A l \in Logs : Length[l] \in Nat
    BY IdsAre
  <1>4. /\ log \in [Logs -> [status : {"enrolled", "active", "completed", "replied"}, step : Nat]]
        /\ \A l \in Logs : log[l].step <= Length[l] /\ claimed[l] \in 0 .. Length[l]
        /\ clock \in [Logs -> {"delay", "due", "leased"}]
        /\ quota \in [used : Nat, elapsed : BOOLEAN]
        /\ {mails, lost, wrong, faults} \subseteq Nat
        /\ disturbed \in [Logs -> Nat]
    BY <1>3 DEF SendInit
  <1>5. /\ DOMAIN mailed = Logs /\ DOMAIN claimed = Logs
        /\ \A l \in Logs : mailed[l] \in [1 .. Length[l] -> Nat]
    BY DEF SendInit
  <1>6. SendTyped
    BY <1>1, <1>2, <1>4 DEF SendTyped, SenderRecords, SendPhases, Units
  <1> QED BY <1>1, <1>5, <1>6 DEF SendsTyped

\* The records of the queue stay records.
LEMMA QueueTyped ==
  ASSUME SendTyped, SendNext
  PROVE  queue' \in [Ids -> BullMQ!Records]
  <1>1. queue \in [Ids -> BullMQ!Records]
    BY DEF SendTyped
  <1>2. ASSUME NEW l \in Logs, EnqueueStep(l) PROVE queue' \in [Ids -> BullMQ!Records]
    BY <1>2, Enqueuing DEF AddedOne
  <1>3. ASSUME NEW i \in Ids, Expire(i) \/ Evict(i) PROVE queue' \in [Ids -> BullMQ!Records]
    BY <1>1, <1>3, RecordsStay DEF Expire, Evict
  <1>4. ASSUME NEW i \in Ids, NEW w \in Workers, Take(w, i)
        PROVE  queue' \in [Ids -> BullMQ!Records]
    <2>1. queue' = [queue EXCEPT ![i] = [queue[i] EXCEPT !.st = "active"]]
      BY <1>4 DEF Take
    <2> QED BY <1>1, <2>1, RecordsStay
  <1>5. ASSUME NEW w \in Workers, Runs(w) \/ Breaks(w)
        PROVE  queue' \in [Ids -> BullMQ!Records]
    <2>1. CASE Finish(w) \/ Fail(w) \/ WorkerDies(w) \/ DeadlinePasses(w) \/ LockExpires(w)
      BY <2>1, Ending
    <2>2. CASE Defer(w)
      BY <2>2, Deferring1 DEF AddedOne
    <2>3. CASE UNCHANGED queue
      BY <1>1, <2>3
    <2> QED BY <1>5, <2>1, <2>2, <2>3 DEF Runs, Breaks, Gate, GateRefuses, Throttled,
            RefundUnit, ReadLog, Mail, Leaves, AdvanceStep, ThrottleFails, RefundFails,
            DeferFails, NothingLeaves, MailUnheard, AdvanceFails
  <1>6. CASE UNCHANGED queue
    BY <1>1, <1>6
  <1> QED BY <1>2, <1>3, <1>4, <1>5, <1>6 DEF SendNext, Tick, WindowElapses, BecomesDue,
          ClaimDue, EnqueueFails, Reply, SendInline

\* The counters and the fault that a step counts.
LEMMA FaultsTyped ==
  ASSUME SendTyped
  PROVE  /\ NoFault => faults' \in Nat /\ disturbed' \in [Logs -> Nat] /\ UNCHANGED disturbed
         /\ \A kind : BreakCleanly(kind) =>
              faults' \in Nat /\ disturbed' \in [Logs -> Nat] /\ UNCHANGED disturbed
         /\ \A kind : \A l \in Logs : BreakSend(kind, l) =>
              /\ faults' \in Nat /\ disturbed' \in [Logs -> Nat]
              /\ disturbed'[l] = disturbed[l] + 1
              /\ \A k \in Logs : k # l => disturbed'[k] = disturbed[k]
  <1>1. faults \in Nat /\ disturbed \in [Logs -> Nat]
    BY DEF SendTyped
  <1> QED BY <1>1 DEF NoFault, BreakCleanly, BreakSend, Break

\* What a mail counts.
LEMMA Mailing ==
  ASSUME SendsTyped, NEW w \in Workers, NEW pc, Leaves(w, pc)
  PROVE  /\ worker[w].step \in 1 .. Length[LogOf(w)]
         /\ DOMAIN mailed' = Logs
         /\ \A l \in Logs : mailed'[l] \in [1 .. Length[l] -> Nat]
         /\ \A l \in Logs : \A s \in 1 .. Length[l] :
              mailed'[l][s] = IF l = LogOf(w) /\ s = worker[w].step
                              THEN mailed[l][s] + 1 ELSE mailed[l][s]
         /\ \A l \in Logs : l # LogOf(w) => mailed'[l] = mailed[l]
  <1> DEFINE L == LogOf(w)
             p == worker[w].step
             row == [mailed[L] EXCEPT ![p] = @ + 1]
  <1>1. L \in Logs /\ p \in 1 .. Length[L] /\ mailed[L] \in [1 .. Length[L] -> Nat]
    BY SenderTypes DEF SendsTyped, Leaves, Running
  <1>2. row \in [1 .. Length[L] -> Nat]
    <2> DEFINE n == mailed[L][p] + 1
    <2>1. row = [mailed[L] EXCEPT ![p] = n]
      OBVIOUS
    <2>2. n \in Nat
      <3>1. mailed[L][p] \in Nat
        BY <1>1
      <3> QED BY <3>1
    <2> HIDE DEF n, row
    <2> QED BY <1>1, <2>1, <2>2
  <1>3. \A s \in 1 .. Length[L] : row[s] = IF s = p THEN mailed[L][s] + 1 ELSE mailed[L][s]
    BY <1>1
  <1>4. mailed' = [mailed EXCEPT ![L] = row] /\ DOMAIN mailed = Logs
    BY DEF Leaves, SendsTyped
  <1> HIDE DEF row
  <1>5. DOMAIN mailed' = Logs /\ mailed'[L] = row
        /\ \A l \in Logs : l # L => mailed'[l] = mailed[l]
    BY <1>1, <1>4
  <1>6. \A l \in Logs : mailed'[l] \in [1 .. Length[l] -> Nat]
    BY <1>2, <1>5 DEF SendsTyped
  <1> QED BY <1>1, <1>3, <1>5, <1>6

\* The step that a worker writes.
LEMMA Writing ==
  ASSUME SendsTyped, NEW w \in Workers, AdvanceStep(w)
  PROVE  /\ worker[w].step \in 1 .. Length[LogOf(w)] /\ LogOf(w) \in Logs
         /\ log' \in [Logs -> [status : {"enrolled", "active", "completed", "replied"}, step : Nat]]
         /\ log'[LogOf(w)].step = worker[w].step
         /\ \A l \in Logs : l # LogOf(w) => log'[l] = log[l] /\ clock'[l] = clock[l]
         /\ clock' \in [Logs -> {"delay", "due", "leased"}] /\ clock'[LogOf(w)] = "delay"
  <1> DEFINE L == LogOf(w)
             p == worker[w].step
             row == [status |-> IF p < Length[L] THEN "active" ELSE "completed", step |-> p]
  <1>1. L \in Logs /\ p \in 1 .. Length[L] /\ Length[L] \in Nat
    BY SenderTypes, IdsAre DEF SendsTyped, AdvanceStep, Running
  <1>2. row \in [status : {"enrolled", "active", "completed", "replied"}, step : Nat]
        /\ row.step = p
    BY <1>1
  <1>3. log' = [log EXCEPT ![L] = row] /\ clock' = [clock EXCEPT ![L] = "delay"]
    BY DEF AdvanceStep
  <1>4. /\ log \in [Logs -> [status : {"enrolled", "active", "completed", "replied"}, step : Nat]]
        /\ clock \in [Logs -> {"delay", "due", "leased"}]
        /\ DOMAIN claimed = Logs
    BY DEF SendsTyped, SendTyped
  <1> HIDE DEF row
  <1> QED BY <1>1, <1>2, <1>3, <1>4

\* The rows, the claims and the clock.
LEMMA RowsTyped ==
  ASSUME SendsTyped, SendNext
  PROVE  /\ log' \in [Logs -> [status : {"enrolled", "active", "completed", "replied"}, step : Nat]]
         /\ \A l \in Logs : log'[l].step <= Length[l] /\ claimed'[l] \in 0 .. Length[l]
         /\ clock' \in [Logs -> {"delay", "due", "leased"}]
         /\ DOMAIN claimed' = Logs
  <1> DEFINE Rows == [status : {"enrolled", "active", "completed", "replied"}, step : Nat]
             Kept == /\ log' \in [Logs -> Rows]
                     /\ \A l \in Logs : log'[l].step <= Length[l] /\ claimed'[l] \in 0 .. Length[l]
                     /\ clock' \in [Logs -> {"delay", "due", "leased"}]
                     /\ DOMAIN claimed' = Logs
  <1>1. /\ log \in [Logs -> Rows]
        /\ \A l \in Logs : log[l].step <= Length[l] /\ claimed[l] \in 0 .. Length[l]
        /\ clock \in [Logs -> {"delay", "due", "leased"}]
        /\ DOMAIN claimed = Logs
    BY DEF SendsTyped, SendTyped
  <1>2. \A l \in Logs : Length[l] \in Nat
    BY IdsAre
  <1>3. CASE UNCHANGED enrollmentVars
    BY <1>1, <1>3 DEF enrollmentVars
  <1>4. ASSUME NEW l \in Logs, BecomesDue(l) PROVE Kept
    BY <1>1, <1>4 DEF BecomesDue
  <1>5. ASSUME NEW l \in Logs, ClaimDue(l) PROVE Kept
    <2>1. log[l].step \in Nat /\ log[l].step < Length[l]
      BY <1>1, <1>5 DEF ClaimDue, Claimable
    <2>2. log[l].step + 1 \in 0 .. Length[l]
      BY <1>2, <2>1
    <2> DEFINE n == log[l].step + 1
    <2>3. claimed' = [claimed EXCEPT ![l] = n] /\ clock' = [clock EXCEPT ![l] = "leased"]
          /\ log' = log
      BY <1>5 DEF ClaimDue
    <2>4. n \in 0 .. Length[l]
      BY <2>2
    <2> HIDE DEF n
    <2>5. \A k \in Logs : claimed'[k] = claimed[k] \/ (k = l /\ claimed'[k] = n)
      <3>1. DOMAIN claimed = Logs
        BY <1>1
      <3> QED BY <2>3, <3>1
    <2>6. \A k \in Logs : claimed'[k] \in 0 .. Length[k]
      BY <1>1, <2>4, <2>5
    <2>7. clock' \in [Logs -> {"delay", "due", "leased"}]
      BY <1>1, <2>3
    <2> QED BY <1>1, <2>3, <2>6, <2>7
  <1>6. ASSUME NEW l \in Logs, EnqueueStep(l) \/ EnqueueFails(l) PROVE Kept
    <2>1. claimed' = [claimed EXCEPT ![l] = 0] /\ UNCHANGED <<log, clock>>
      BY <1>6 DEF EnqueueStep, EnqueueFails
    <2>2. \A k \in Logs : claimed'[k] = claimed[k] \/ claimed'[k] = 0
      BY <1>1, <2>1
    <2>3. \A k \in Logs : 0 \in 0 .. Length[k]
      BY <1>2
    <2>4. \A k \in Logs : claimed'[k] \in 0 .. Length[k]
      BY <1>1, <2>2, <2>3
    <2> QED BY <1>1, <2>1, <2>4
  <1>7. ASSUME NEW l \in Logs, Reply(l) PROVE Kept
    <2>1. log' = [log EXCEPT ![l] = [log[l] EXCEPT !.status = "replied"]]
          /\ UNCHANGED <<claimed, clock>>
      BY <1>7 DEF Reply
    <2>2. [log[l] EXCEPT !.status = "replied"] \in Rows
          /\ [log[l] EXCEPT !.status = "replied"].step = log[l].step
      BY <1>1
    <2>3. log' \in [Logs -> Rows] /\ \A k \in Logs : log'[k].step = log[k].step
      BY <1>1, <2>1, <2>2
    <2> QED BY <1>1, <2>1, <2>3
  <1>8. ASSUME NEW w \in Workers, AdvanceStep(w) PROVE Kept
    <2>1. UNCHANGED claimed
      BY <1>8 DEF AdvanceStep
    <2>2. \A l \in Logs : log'[l].step <= Length[l]
      BY <1>1, <1>2, <1>8, Writing
    <2> QED BY <1>1, <1>8, <2>1, <2>2, Writing
  <1> QED BY <1>3, <1>4, <1>5, <1>6, <1>7, <1>8 DEF SendNext, Tick, Runs, Breaks, WindowElapses,
          Expire, Evict, SendInline, Take, Gate, GateRefuses, Throttled, ThrottleFails, RefundUnit, RefundFails,
          Defer, DeferFails, ReadLog, NothingLeaves, Mail, MailUnheard, Leaves, AdvanceFails,
          Finish, Fail, WorkerDies, DeadlinePasses, LockExpires, Orphaned

\* The quota's counters, and what the faults count.
LEMMA CountersTyped ==
  ASSUME SendsTyped, SendNext
  PROVE  /\ quota' \in [used : Nat, elapsed : BOOLEAN]
         /\ {mails', lost', wrong', faults'} \subseteq Nat
         /\ disturbed' \in [Logs -> Nat]
  <1>1. /\ quota \in [used : Nat, elapsed : BOOLEAN] /\ quota.used \in Nat
        /\ mails \in Nat /\ lost \in Nat /\ wrong \in Nat /\ SendTyped
    BY DEF SendsTyped, SendTyped
  <1>2. faults' \in Nat /\ disturbed' \in [Logs -> Nat]
    <2>1. (\A w \in Workers : LogOf(w) \in Logs) /\ \A i \in Ids : i[1] \in Logs
      BY <1>1, SenderTypes, IdsAre
    <2> QED BY <1>1, <2>1, FaultsTyped DEF SendNext, Tick, Runs, Breaks, WindowElapses, BecomesDue,
            ClaimDue, EnqueueStep, EnqueueFails, Reply, Expire, Evict, SendInline, Take, Gate, GateRefuses,
            Throttled, ThrottleFails, RefundUnit, RefundFails, Defer, DeferFails, ReadLog,
            NothingLeaves, Mail, MailUnheard, AdvanceStep, AdvanceFails, Finish, Fail,
            WorkerDies, DeadlinePasses, LockExpires, Orphaned
  <1>3. quota' \in [used : Nat, elapsed : BOOLEAN]
    <2>1. Used + 1 \in Nat /\ Released \in Nat
      BY <1>1 DEF Used, Released
    <2>2. CASE UNCHANGED quota
      BY <1>1, <2>2
    <2>3. CASE WindowElapses
      BY <1>1, <2>3 DEF WindowElapses
    <2>4. ASSUME NEW w \in Workers, Gate(w) PROVE quota' \in [used : Nat, elapsed : BOOLEAN]
      BY <2>1, <2>4 DEF Gate
    <2>5. ASSUME NEW w \in Workers, RefundUnit(w) PROVE quota' \in [used : Nat, elapsed : BOOLEAN]
      BY <1>1, <2>1, <2>5 DEF RefundUnit
    <2> QED BY <2>2, <2>3, <2>4, <2>5 DEF SendNext, Tick, Runs, Breaks, counted, BecomesDue,
            ClaimDue, EnqueueStep, EnqueueFails, Reply, Expire, Evict, SendInline, Take, GateRefuses,
            Throttled, ThrottleFails, RefundFails, Defer, DeferFails, ReadLog,
            NothingLeaves, Mail, MailUnheard, Leaves, AdvanceStep, AdvanceFails, Finish, Fail,
            WorkerDies, DeadlinePasses, LockExpires, Orphaned
  <1>4. mails' \in {mails, mails + 1, 0} /\ lost' \in {lost, lost + 1, 0}
        /\ wrong' \in {wrong, wrong + 1, 0}
    BY DEF SendNext, Tick, Runs, Breaks, counted, WindowElapses, BecomesDue, Gate, RefundUnit,
       ClaimDue, EnqueueStep, EnqueueFails, Reply, Expire, Evict, SendInline, Take, GateRefuses,
       Throttled, ThrottleFails, RefundFails, Defer, DeferFails, ReadLog,
       NothingLeaves, Mail, MailUnheard, Leaves, AdvanceStep, AdvanceFails, Finish, Fail,
       WorkerDies, DeadlinePasses, LockExpires, Orphaned
  <1> QED BY <1>1, <1>2, <1>3, <1>4

\* The counts of the mails stay counts.
LEMMA MailedTyped ==
  ASSUME SendsTyped, SendNext
  PROVE  DOMAIN mailed' = Logs /\ \A l \in Logs : mailed'[l] \in [1 .. Length[l] -> Nat]
  <1>1. ASSUME NEW w \in Workers, NEW pc, Leaves(w, pc)
        PROVE  DOMAIN mailed' = Logs /\ \A l \in Logs : mailed'[l] \in [1 .. Length[l] -> Nat]
    BY <1>1, Mailing
  <1>2. CASE UNCHANGED mailed
    BY <1>2 DEF SendsTyped
  <1> QED BY <1>1, <1>2 DEF SendNext, Tick, Runs, Breaks, WindowElapses, BecomesDue, Gate,
          RefundUnit, ClaimDue, EnqueueStep, EnqueueFails, Reply, Expire, Evict, SendInline, Take, GateRefuses,
          Throttled, ThrottleFails, RefundFails, Defer, DeferFails, ReadLog, NothingLeaves,
          Mail, MailUnheard, AdvanceStep, AdvanceFails, Finish, Fail, WorkerDies,
          DeadlinePasses, LockExpires, Orphaned

\* A send by hand takes a free worker to the commit of the next step.
LEMMA ByHand ==
  ASSUME SendsTyped, NEW w \in Workers, NEW l \in Logs, SendInline(w, l)
  PROVE  /\ worker[w].pc = "idle"
         /\ worker'[w].pc = "advance" /\ worker'[w].unit = "none"
         /\ worker'[w].step = log[l].step + 1 /\ LogOf(w)' = l
         /\ log[l].step \in Nat /\ log[l].step + 1 \in 1 .. Length[l]
         /\ \A v \in Workers : v # w => worker'[v] = worker[v]
         /\ worker' \in [Workers -> SenderRecords]
         /\ disturbed'[l] = disturbed[l] + 1
         /\ \A k \in Logs : k # l => disturbed'[k] = disturbed[k]
         /\ UNCHANGED <<log, claimed, clock, queue, mailed, quota, mails, lost, wrong>>
  <1> DEFINE k == log[l].step + 1
             r == [Free EXCEPT !.pc = "advance", !.id = <<l, k>>, !.step = k]
  <1>1. SendTyped /\ worker \in [Workers -> SenderRecords]
    BY SenderTypes DEF SendsTyped
  <1>2. log[l].step \in Nat /\ k \in 1 .. Length[l] /\ <<l, k>> \in Ids
    <2>1. log[l].step \in Nat /\ Length[l] \in Nat
      BY <1>1, IdsAre DEF SendTyped
    <2>2. log[l].step < Length[l]
      BY DEF SendInline
    <2>3. k \in 1 .. Length[l]
      BY <2>1, <2>2
    <2> QED BY <2>1, <2>3, IdsAre
  <1>3. /\ r \in SenderRecords /\ r.pc = "advance" /\ r.unit = "none" /\ r.step = k
        /\ r.id = <<l, k>>
    <2>1. k \in Nat /\ "advance" \in SendPhases
      BY <1>2 DEF SendPhases
    <2>2. Free \in SenderRecords /\ Free.unit = "none"
      BY FreeIs
    <2> HIDE DEF k
    <2> QED BY <1>2, <2>1, <2>2 DEF SenderRecords
  <1>4. worker' = [worker EXCEPT ![w] = r]
    BY DEF SendInline
  <1>5. /\ worker'[w] = r /\ \A v \in Workers : v # w => worker'[v] = worker[v]
        /\ worker' \in [Workers -> SenderRecords]
    BY <1>1, <1>3, <1>4
  <1>6. LogOf(w)' = l
    BY <1>3, <1>5 DEF LogOf
  <1>7. /\ disturbed'[l] = disturbed[l] + 1
        /\ \A j \in Logs : j # l => disturbed'[j] = disturbed[j]
    BY <1>1, FaultsTyped DEF SendInline
  <1>8. /\ worker[w].pc = "idle"
        /\ UNCHANGED <<log, claimed, clock, queue, mailed, quota, mails, lost, wrong>>
    BY DEF SendInline, Running, enrollmentVars, counted
  <1> HIDE DEF r
  <1> QED BY <1>2, <1>3, <1>5, <1>6, <1>7, <1>8

\* A worker that mails or writes has a step of its enrollment's sequence.
LEMMA WorkersTyped ==
  ASSUME SendsTyped, SendNext
  PROVE  /\ worker' \in [Workers -> SenderRecords]
         /\ \A w \in Workers : worker'[w].pc \in {"mail", "advance"} =>
              worker'[w].step \in 1 .. Length[LogOf(w)']
  <1>1. SendTyped /\ worker \in [Workers -> SenderRecords]
    BY SenderTypes DEF SendsTyped
  <1>2. CASE UNCHANGED worker
    BY <1>1, <1>2 DEF SendsTyped, LogOf
  <1>3. ASSUME NEW w \in Workers, Runs(w) \/ Breaks(w) \/ \E i \in Ids : Take(w, i)
        PROVE  /\ worker' \in [Workers -> SenderRecords]
               /\ \A v \in Workers : worker'[v].pc \in {"mail", "advance"} =>
                    worker'[v].step \in 1 .. Length[LogOf(v)']
    <2>1. \A v \in Workers : v # w /\ worker'[v].pc \in {"mail", "advance"} =>
                               worker'[v].step \in 1 .. Length[LogOf(v)']
      BY <1>1, <1>3, OtherWorkers DEF SendsTyped, LogOf
    <2>2. ASSUME worker'[w].pc \in {"mail", "advance"}
          PROVE  worker'[w].step \in 1 .. Length[LogOf(w)']
      <3>1. \/ ReadLog(w) \/ Mail(w)
            \/ DeadlinePasses(w) \/ LockExpires(w)
        BY <1>1, <1>3, <2>2, Turning, FreeIs DEF Runs, Breaks, Turns, Frees
      <3>2. CASE ReadLog(w)
        <4>1. log[LogOf(w)].step \in Nat /\ Length[LogOf(w)] \in Nat
          BY <1>1, SenderTypes, IdsAre DEF SendTyped
        <4>2. worker'[w].step = log[LogOf(w)].step + 1 /\ log[LogOf(w)].step < Length[LogOf(w)]
              /\ LogOf(w)' = LogOf(w)
          BY <1>1, <2>2, <3>2, Turning DEF Turns, LogOf, ReadLog
        <4> QED BY <4>1, <4>2
      <3>3. CASE Mail(w)
        <4>1. worker'[w].step = worker[w].step /\ LogOf(w)' = LogOf(w) /\ worker[w].pc = "mail"
          BY <1>1, <3>3, Turning DEF Turns, LogOf, Mail, Leaves, Running
        <4> QED BY <4>1 DEF SendsTyped
      <3>4. CASE DeadlinePasses(w) \/ LockExpires(w)
        <4>1. worker'[w].step = worker[w].step /\ LogOf(w)' = LogOf(w)
              /\ worker[w].pc = worker'[w].pc
          BY <1>1, <3>4, Turning DEF Turns, LogOf
        <4> QED BY <2>2, <4>1 DEF SendsTyped
      <3> QED BY <3>1, <3>2, <3>3, <3>4
    <2> QED BY <1>1, <1>3, <2>1, <2>2, OtherWorkers
  <1>4. ASSUME NEW w \in Workers, NEW l \in Logs, SendInline(w, l)
        PROVE  /\ worker' \in [Workers -> SenderRecords]
               /\ \A v \in Workers : worker'[v].pc \in {"mail", "advance"} =>
                    worker'[v].step \in 1 .. Length[LogOf(v)']
    <2>1. /\ worker' \in [Workers -> SenderRecords]
          /\ worker'[w].step \in 1 .. Length[LogOf(w)']
          /\ \A v \in Workers : v # w => worker'[v] = worker[v]
      BY <1>4, ByHand
    <2> QED BY <2>1 DEF SendsTyped, LogOf
  <1> QED BY <1>2, <1>3, <1>4 DEF SendNext, Tick, WindowElapses, BecomesDue, ClaimDue, EnqueueStep,
          EnqueueFails, Reply, Expire, Evict

\* Types, after every step.
LEMMA SendsTypedStep ==
  ASSUME SendsTyped, [SendNext]_sendVars
  PROVE  SendsTyped'
  <1>1. CASE SendNext
    <2>1. SendTyped
      BY DEF SendsTyped
    <2>2. SendTyped'
      BY <1>1, <2>1, RowsTyped, CountersTyped, WorkersTyped, QueueTyped
         DEF SendTyped, SenderRecords, SendPhases, Units
    <2> QED BY <1>1, <2>2, RowsTyped, MailedTyped, WorkersTyped DEF SendsTyped
  <1>2. CASE UNCHANGED sendVars
    BY <1>2 DEF sendVars, enrollmentVars, counted, history, SendsTyped, SendTyped, LogOf
  <1> QED BY <1>1, <1>2

(***************************************************************************)
(* The quota.                                                              *)
(***************************************************************************)
Holding == {w \in Workers : Holds(w)}

\* What the counters need of a step of a worker: how many units are held after it.
LEMMA HeldAfter ==
  ASSUME NEW w \in Workers, \A v \in Workers : v # w => (Holds(v)' <=> Holds(v))
  PROVE  /\ InFlight \in Nat /\ InFlight' \in Nat
         /\ Holds(w) /\ Holds(w)' => InFlight' = InFlight
         /\ ~Holds(w) /\ ~Holds(w)' => InFlight' = InFlight
         /\ ~Holds(w) /\ Holds(w)' => InFlight' = InFlight + 1
         /\ Holds(w) /\ ~Holds(w)' => InFlight' = InFlight - 1 /\ InFlight > 0
  <1>1. IsFiniteSet(Holding)
    <2>1. Holding \in SUBSET Workers
      BY DEF Holding
    <2> QED BY <2>1, OutreachAssumption, FS_Subset
  <1>2. \A v : v # w => (v \in Holding <=> v \in Holding')
    BY DEF Holding
  <1>3. (w \in Holding <=> Holds(w)) /\ (w \in Holding' <=> Holds(w)')
    BY DEF Holding
  <1>4. InFlight = Cardinality(Holding) /\ InFlight' = Cardinality(Holding')
    BY DEF InFlight, Holding
  <1> HIDE DEF Holding
  <1> QED BY <1>1, <1>2, <1>3, <1>4, OneMember

\* The numbers of the window.
Budgeted(used, m, f, l, n) == used <= Quota /\ m + f <= used + n /\ used <= m + f + l

UnitsPlaced ==
  \A w \in Workers :
    /\ worker[w].unit # "none" => worker[w].pc \in {"throttle", "refund", "mail", "advance"}
    /\ worker[w].pc = "advance" => worker[w].unit # "held"

\* A unit is held only between the gate and the end of the send.
LEMMA UnitsPlacedStep ==
  ASSUME SendTyped, UnitsPlaced, NEW w \in Workers,
         Runs(w) \/ Breaks(w) \/ \E i \in Ids : Take(w, i)
  PROVE  UnitsPlaced'
  <1>1. \A v \in Workers : v # w =>
          /\ worker'[v].unit # "none" => worker[v].unit # "none"
          /\ worker'[v].unit = "held" => worker[v].unit = "held"
          /\ worker'[v].pc = worker[v].pc
    <2>1. CASE Gate(w)
      <3>1. \A v \in Workers : v # w => worker'[v] = [worker[v] EXCEPT !.unit = Aged(@)]
        BY <2>1 DEF Gate
      <3>2. \A v \in Workers : v # w => worker'[v].unit = Aged(worker[v].unit)
        BY <3>1, SenderTypes DEF SenderRecords
      <3> QED BY <2>1, <3>2, OtherWorkers DEF Aged
    <2> QED BY <2>1, OtherWorkers
  <1>2. /\ worker'[w].unit # "none" => worker'[w].pc \in {"throttle", "refund", "mail", "advance"}
        /\ worker'[w].pc = "advance" => worker'[w].unit # "held"
    <2>1. /\ worker[w].unit # "none" => worker[w].pc \in {"throttle", "refund", "mail", "advance"}
          /\ worker[w].pc = "advance" => worker[w].unit # "held"
      BY DEF UnitsPlaced
    <2>2. CASE Gate(w) \/ GateRefuses(w) \/ Throttled(w) \/ ThrottleFails(w) \/ Defer(w)
               \/ DeferFails(w) \/ NothingLeaves(w) \/ AdvanceFails(w) \/ AdvanceStep(w)
               \/ RefundUnit(w) \/ RefundFails(w)
      BY <2>1, <2>2, Turning DEF Turns, GateRefuses, Throttled, ThrottleFails, Defer, DeferFails,
         NothingLeaves, Running
    <2>3. CASE ReadLog(w)
      BY <2>1, <2>3, Turning DEF Turns
    <2>4. CASE Mail(w) \/ MailUnheard(w)
      BY <2>1, <2>4, Turning DEF Turns, Holds
    <2>5. CASE DeadlinePasses(w) \/ LockExpires(w)
      BY <2>1, <2>5, Turning DEF Turns
    <2>6. CASE Finish(w) \/ Fail(w) \/ WorkerDies(w)
      BY <2>6, Turning, FreeIs DEF Frees
    <2>7. CASE \E i \in Ids : Take(w, i)
      BY <2>7, Turning
    <2> QED BY <2>2, <2>3, <2>4, <2>5, <2>6, <2>7 DEF Runs, Breaks
  <1> QED BY <1>1, <1>2 DEF UnitsPlaced

\* The units held are a number, and the workers alone decide it.
LEMMA InFlightNat ==
  /\ InFlight \in Nat
  /\ UNCHANGED worker => InFlight' = InFlight
  <1>1. Holding \in SUBSET Workers /\ InFlight = Cardinality(Holding)
    BY DEF Holding, InFlight
  <1>2. InFlight \in Nat
    BY <1>1, OutreachAssumption, FS_Subset, FS_CardinalityType
  <1>3. UNCHANGED worker => InFlight' = InFlight
    BY DEF InFlight, Holds
  <1> QED BY <1>2, <1>3

\* WindowInv in the terms of the lemmas below.
LEMMA WindowIs ==
  WindowInv <=> Budgeted(quota.used, mails, InFlight, lost, wrong) /\ UnitsPlaced
  BY DEF WindowInv, Budgeted, UnitsPlaced

\* The gate: one unit more, or the first one of a new window.
LEMMA WindowGate ==
  ASSUME SendTyped, WindowInv, NEW w \in Workers, Gate(w)
  PROVE  Budgeted(quota'.used, mails', InFlight', lost', wrong')
  <1>1. /\ quota.used \in Nat /\ mails \in Nat /\ lost \in Nat /\ wrong \in Nat /\ Quota \in Nat
    BY OutreachAssumption DEF SendTyped
  <1>2. worker[w].unit = "none" /\ worker'[w].unit = "held"
    BY Turning, SenderTypes DEF WindowInv, Gate, Running, Turns, Units
  <1>3. \A v \in Workers : v # w => worker'[v].unit = Aged(worker[v].unit)
    <2>1. \A v \in Workers : v # w => worker'[v] = [worker[v] EXCEPT !.unit = Aged(@)]
      BY DEF Gate
    <2> QED BY <2>1, SenderTypes DEF SenderRecords
  <1>4. quota'.used = Used + 1 /\ Used + 1 <= Quota
    BY DEF Gate, WithinQuota
  <1>5. CASE quota.elapsed
    <2>1. \A v \in Workers : Holds(v)' <=> v = w
      BY <1>2, <1>3, <1>5 DEF Holds, Aged
    <2>2. InFlight' = Cardinality({w})
      <3>1. {v \in Workers : Holds(v)}' = {w}
        BY <2>1
      <3> QED BY <3>1 DEF InFlight
    <2>3. Cardinality({w}) = 1
      BY FS_Singleton
    <2>4. quota'.used = 1 /\ 1 <= Quota /\ mails' = 0 /\ lost' = 0 /\ wrong' = 0
      BY <1>4, <1>5 DEF Used, Gate
    <2> QED BY <2>2, <2>3, <2>4 DEF Budgeted
  <1>6. CASE ~quota.elapsed
    <2>1. \A v \in Workers : v # w => (Holds(v)' <=> Holds(v))
      BY <1>3, <1>6 DEF Holds, Aged
    <2>2. InFlight' = InFlight + 1 /\ InFlight \in Nat
      BY <1>2, <2>1, HeldAfter DEF Holds
    <2>3. quota'.used = quota.used + 1 /\ quota.used + 1 <= Quota
          /\ mails' = mails /\ lost' = lost /\ wrong' = wrong
      BY <1>4, <1>6 DEF Used, Gate
    <2> QED BY <1>1, <2>2, <2>3 DEF WindowInv, Budgeted
  <1> QED BY <1>5, <1>6

\* Every other step of a worker.
LEMMA WindowWork ==
  ASSUME SendTyped, WindowInv, NEW w \in Workers, ~Gate(w),
         Runs(w) \/ Breaks(w) \/ \E i \in Ids : Take(w, i)
  PROVE  Budgeted(quota'.used, mails', InFlight', lost', wrong')
  <1>1. /\ quota.used \in Nat /\ mails \in Nat /\ lost \in Nat /\ wrong \in Nat /\ Quota \in Nat
        /\ quota \in [used : Nat, elapsed : BOOLEAN]
    BY OutreachAssumption DEF SendTyped
  <1>2. \A v \in Workers : v # w => (Holds(v)' <=> Holds(v))
    BY OtherWorkers DEF Holds
  <1>3. /\ worker[w].unit # "none" => worker[w].pc \in {"throttle", "refund", "mail", "advance"}
        /\ worker[w].pc = "advance" => worker[w].unit # "held"
    BY DEF WindowInv
  <1>4. Budgeted(quota.used, mails, InFlight, lost, wrong)
    BY WindowIs
  <1>5. /\ InFlight \in Nat /\ InFlight' \in Nat
        /\ (Holds(w) <=> Holds(w)') => InFlight' = InFlight
        /\ ~Holds(w) /\ Holds(w)' => InFlight' = InFlight + 1
        /\ Holds(w) /\ ~Holds(w)' => InFlight' = InFlight - 1 /\ InFlight > 0
    BY <1>2, HeldAfter
  <1>6. CASE GateRefuses(w) \/ Throttled(w) \/ Defer(w) \/ DeferFails(w) \/ NothingLeaves(w)
             \/ AdvanceFails(w) \/ ReadLog(w) \/ DeadlinePasses(w) \/ LockExpires(w)
    <2>1. worker'[w].unit = worker[w].unit
      BY <1>6, Turning DEF Turns
    <2>2. UNCHANGED counted
      BY <1>6 DEF GateRefuses, Throttled, Defer, DeferFails, NothingLeaves, AdvanceFails, ReadLog,
         DeadlinePasses, LockExpires, Orphaned
    <2> QED BY <1>4, <1>5, <2>1, <2>2 DEF Holds, counted
  <1>7. CASE AdvanceStep(w) \/ Finish(w) \/ Fail(w) \/ \E i \in Ids : Take(w, i)
    <2>1. worker[w].unit # "held"
      BY <1>3, <1>7 DEF AdvanceStep, Finish, Fail, Take, Running
    <2>2. worker'[w].unit # "held"
      BY <1>7, Turning, FreeIs DEF Turns, Frees
    <2>3. UNCHANGED counted
      BY <1>7 DEF AdvanceStep, Finish, Fail, Take
    <2> QED BY <1>4, <1>5, <2>1, <2>2, <2>3 DEF Holds, counted
  <1>8. CASE ThrottleFails(w) \/ RefundFails(w) \/ WorkerDies(w)
    <2>1. worker'[w].unit # "held"
      BY <1>8, Turning, FreeIs DEF Turns, Frees
    <2>2. /\ lost' = IF Holds(w) THEN lost + 1 ELSE lost
          /\ UNCHANGED <<quota, mails, wrong>>
      BY <1>8 DEF ThrottleFails, RefundFails, WorkerDies
    <2>3. ~Holds(w)'
      BY <2>1 DEF Holds
    <2> QED BY <1>1, <1>4, <1>5, <2>2, <2>3 DEF Budgeted
  <1>9. CASE RefundUnit(w)
    <2>1. ~Holds(w)'
      BY <1>9, Turning DEF Turns, Holds
    <2>2. /\ quota'.used = Released /\ UNCHANGED <<mails, lost>>
          /\ wrong' = IF Holds(w) \/ quota.used = 0 THEN wrong ELSE wrong + 1
      BY <1>1, <1>9 DEF RefundUnit
    <2> QED BY <1>1, <1>4, <1>5, <2>1, <2>2 DEF Budgeted, Released
  <1>10. CASE Mail(w) \/ MailUnheard(w)
    <2>1. ~Holds(w)'
      BY <1>10, Turning DEF Turns, Holds
    <2>2. /\ mails' = IF Holds(w) THEN mails + 1 ELSE mails
          /\ UNCHANGED <<quota, lost, wrong>>
      BY <1>10 DEF Mail, MailUnheard, Leaves
    <2> QED BY <1>1, <1>4, <1>5, <2>1, <2>2 DEF Budgeted
  <1> QED BY <1>6, <1>7, <1>8, <1>9, <1>10 DEF Runs, Breaks

\* Every step keeps the window's account.
LEMMA WindowStep ==
  ASSUME SendsTyped, WindowInv, [SendNext]_sendVars
  PROVE  WindowInv'
  <1> USE DEF SendsTyped
  <1>1. ASSUME NEW w \in Workers, Runs(w) \/ Breaks(w) \/ \E i \in Ids : Take(w, i)
        PROVE  WindowInv'
    <2>1. Budgeted(quota'.used, mails', InFlight', lost', wrong')
      BY <1>1, WindowGate, WindowWork
    <2>2. UnitsPlaced'
      BY <1>1, WindowIs, UnitsPlacedStep
    <2> QED BY <2>1, <2>2 DEF WindowInv, Budgeted, UnitsPlaced
  <1>2. CASE quota'.used = quota.used /\ UNCHANGED <<worker, mails, lost, wrong>>
    <2>1. InFlight' = InFlight
      BY <1>2, InFlightNat
    <2> QED BY <1>2, <2>1 DEF WindowInv
  <1>3. CASE WindowElapses
    <2>1. quota'.used = quota.used
      BY <1>3 DEF WindowElapses, SendTyped
    <2> QED BY <1>2, <1>3, <2>1 DEF WindowElapses
  <1>4. ASSUME NEW w \in Workers, NEW l \in Logs, SendInline(w, l)
        PROVE  WindowInv'
    <2>1. /\ worker'[w].pc = "advance" /\ worker'[w].unit = "none"
          /\ worker[w].pc = "idle" /\ UNCHANGED <<quota, mails, lost, wrong>>
          /\ \A v \in Workers : v # w => worker'[v] = worker[v]
      BY <1>4, ByHand
    <2>2. {v \in Workers : worker'[v].unit = "held"} = {v \in Workers : worker[v].unit = "held"}
      BY <2>1 DEF WindowInv
    <2>3. InFlight' = InFlight
      BY <2>2 DEF InFlight, Holds
    <2> QED BY <2>1, <2>3 DEF WindowInv
  <1> QED BY <1>1, <1>2, <1>3, <1>4 DEF SendNext, Tick, BecomesDue, ClaimDue, EnqueueStep,
          EnqueueFails, Reply, Expire, Evict, counted, sendVars

\* The window's account at first.
LEMMA WindowInit == SendInit => WindowInv
  <1> SUFFICES ASSUME SendInit
               PROVE  WindowInv
    OBVIOUS
  <1>1. \A w \in Workers : ~Holds(w) /\ worker[w].unit = "none" /\ worker[w].pc = "idle"
    BY FreeIs DEF SendInit, Holds
  <1>2. {w \in Workers : Holds(w)} = {}
    BY <1>1
  <1>3. InFlight = 0
    BY <1>2, FS_EmptySet DEF InFlight
  <1>4. quota.used = 0 /\ mails = 0 /\ lost = 0 /\ wrong = 0 /\ Quota \in Nat
    BY OutreachAssumption DEF SendInit
  <1> QED BY <1>1, <1>3, <1>4 DEF WindowInv

(***************************************************************************)
(* The mails: how the counts of an enrollment move.                        *)
(***************************************************************************)
LEMMA SetsFinite ==
  ASSUME NEW l \in Logs, NEW s
  PROVE  /\ IsFiniteSet(Chances(l)) /\ IsFiniteSet(Senders(l, s))
         /\ IsFiniteSet(Behind(l, s)) /\ IsFiniteSet(Mailers(l, s))
         /\ IsFiniteSet(Chances(l)') /\ IsFiniteSet(Senders(l, s)')
         /\ IsFiniteSet(Behind(l, s)') /\ IsFiniteSet(Mailers(l, s)')
  <1>1. IsFiniteSet(Workers) /\ IsFiniteSet({i \in Ids : i[1] = l})
    BY OutreachAssumption, FewIds
  <1>2. /\ Chances(l) \in SUBSET {i \in Ids : i[1] = l}
        /\ Chances(l)' \in SUBSET {i \in Ids : i[1] = l}
    BY DEF Chances
  <1>3. /\ Senders(l, s) \in SUBSET Workers /\ Senders(l, s)' \in SUBSET Workers
        /\ Behind(l, s) \in SUBSET Workers /\ Behind(l, s)' \in SUBSET Workers
        /\ Mailers(l, s) \in SUBSET Workers /\ Mailers(l, s)' \in SUBSET Workers
    BY DEF Senders, Behind, Mailers
  <1> QED BY <1>1, <1>2, <1>3, FS_Subset

\* The counts of the sets are numbers.
LEMMA CountsNat ==
  ASSUME NEW l \in Logs, NEW s
  PROVE  /\ Cardinality(Chances(l)) \in Nat /\ Cardinality(Senders(l, s)) \in Nat
         /\ Cardinality(Behind(l, s)) \in Nat /\ Cardinality(Mailers(l, s)) \in Nat
         /\ Cardinality(Chances(l)') \in Nat /\ Cardinality(Senders(l, s)') \in Nat
         /\ Cardinality(Behind(l, s)') \in Nat /\ Cardinality(Mailers(l, s)') \in Nat
         /\ Open(l, s) = Cardinality(Chances(l)) + Cardinality(Senders(l, s))
         /\ Open(l, s)' = Cardinality(Chances(l)') + Cardinality(Senders(l, s)')
         /\ Open(l, s) \in Nat /\ Open(l, s)' \in Nat
  <1>1. /\ Cardinality(Chances(l)) \in Nat /\ Cardinality(Senders(l, s)) \in Nat
        /\ Cardinality(Behind(l, s)) \in Nat /\ Cardinality(Mailers(l, s)) \in Nat
        /\ Cardinality(Chances(l)') \in Nat /\ Cardinality(Senders(l, s)') \in Nat
        /\ Cardinality(Behind(l, s)') \in Nat /\ Cardinality(Mailers(l, s)') \in Nat
    BY SetsFinite, FS_CardinalityType
  <1> QED BY <1>1 DEF Open

\* No worker takes up the enrollment's next step.
ReadersKept(l) ==
  \A v \in Workers : Reader(v, l)' => Reader(v, l) /\ worker'[v].step = worker[v].step

\* The bounds are kept when the counts of each step grow by no more than its faults.
LEMMA Numbers ==
  ASSUME SendsTyped, SendsTyped', NEW l \in Logs, MailsOf(l), ReadersKept(l),
         log'[l].step = log[l].step,
         NEW d \in {0, 1}, disturbed'[l] = disturbed[l] + d,
         Open(l, 0)' <= Open(l, 0) + d,
         \A s \in 1 .. Length[l] :
           /\ mailed'[l][s] + Open(l, s)' <= mailed[l][s] + Open(l, s) + d
           /\ mailed'[l][s] + Cardinality(Behind(l, s)')
                <= mailed[l][s] + Cardinality(Behind(l, s)) + d
           /\ mailed'[l][s] + Cardinality(Mailers(l, s))
                <= mailed[l][s] + Cardinality(Mailers(l, s)') + d
  PROVE  MailsOf(l)'
  <1>1. disturbed[l] \in Nat /\ d \in Nat
    BY DEF SendsTyped, SendTyped
  <1>2. OneSend(l)'
    BY <1>1, CountsNat DEF MailsOf, OneSend
  <1>3. ASSUME NEW s \in 1 .. Length[l]
        PROVE  OneMail(l, s)'
    <2> DEFINE m == mailed[l][s]
               n == mailed'[l][s]
               b == Cardinality(Behind(l, s))
               c == Cardinality(Behind(l, s)')
               a == Cardinality(Mailers(l, s))
               e == Cardinality(Mailers(l, s)')
               o == Open(l, s)
               q == Open(l, s)'
               D == disturbed[l]
    <2>1. /\ m \in Nat /\ n \in Nat /\ b \in Nat /\ c \in Nat /\ a \in Nat /\ e \in Nat
          /\ o \in Nat /\ q \in Nat /\ D \in Nat /\ disturbed'[l] = D + d
      BY <1>1, CountsNat DEF SendsTyped
    <2>2. /\ m + b <= 1 + D
          /\ log[l].step < s => m + o <= 1 + D /\ m <= D + a
          /\ (\E w \in Workers : Reader(w, l) /\ worker[w].step < s) => m + o <= 2 + D
      BY DEF MailsOf, OneMail
    <2>3. n + q <= m + o + d /\ n + c <= m + b + d /\ n + a <= m + e + d
      OBVIOUS
    <2>4. (\E w \in Workers : Reader(w, l)' /\ worker'[w].step < s) =>
            \E w \in Workers : Reader(w, l) /\ worker[w].step < s
      BY DEF ReadersKept
    <2> HIDE DEF m, n, b, c, a, e, o, q, D
    <2>5. /\ n + c <= 1 + D + d
          /\ log[l].step < s => n + q <= 1 + D + d /\ n <= D + d + e
          /\ (\E w \in Workers : Reader(w, l)' /\ worker'[w].step < s) => n + q <= 2 + D + d
      BY <1>1, <2>1, <2>2, <2>3, <2>4
    <2>6. /\ n + c <= 1 + disturbed'[l]
          /\ log'[l].step < s => n + q <= 1 + disturbed'[l] /\ n <= disturbed'[l] + e
          /\ (\E w \in Workers : Reader(w, l)' /\ worker'[w].step < s) =>
               n + q <= 2 + disturbed'[l]
      BY <1>1, <2>1, <2>5
    <2> QED BY <2>6 DEF OneMail, n, c, q, e
  <1> QED BY <1>2, <1>3 DEF MailsOf

\* A step that opens nothing for the enrollment.
LEMMA Calm ==
  ASSUME SendsTyped, SendsTyped', NEW l \in Logs, MailsOf(l), ReadersKept(l),
         log'[l].step = log[l].step, disturbed'[l] = disturbed[l], mailed'[l] = mailed[l],
         Chances(l)' \subseteq Chances(l),
         \A s : /\ Senders(l, s)' \subseteq Senders(l, s)
                /\ Behind(l, s)' \subseteq Behind(l, s)
                /\ Mailers(l, s) \subseteq Mailers(l, s)'
  PROVE  MailsOf(l)'
  <1>1. ASSUME NEW s
        PROVE  /\ Open(l, s)' <= Open(l, s)
               /\ Cardinality(Behind(l, s)') <= Cardinality(Behind(l, s))
               /\ Cardinality(Mailers(l, s)) <= Cardinality(Mailers(l, s)')
    <2>1. /\ Cardinality(Chances(l)') <= Cardinality(Chances(l))
          /\ Cardinality(Senders(l, s)') <= Cardinality(Senders(l, s))
          /\ Cardinality(Behind(l, s)') <= Cardinality(Behind(l, s))
          /\ Cardinality(Mailers(l, s)) <= Cardinality(Mailers(l, s)')
      BY SetsFinite, AtMostOneMore
    <2> QED BY <2>1, CountsNat
  <1>2. disturbed[l] \in Nat /\ \A s \in 1 .. Length[l] : mailed[l][s] \in Nat
    BY DEF SendsTyped, SendTyped
  <1>3. \A s \in 1 .. Length[l] :
           /\ mailed'[l][s] + Open(l, s)' <= mailed[l][s] + Open(l, s) + 0
           /\ mailed'[l][s] + Cardinality(Behind(l, s)')
                <= mailed[l][s] + Cardinality(Behind(l, s)) + 0
           /\ mailed'[l][s] + Cardinality(Mailers(l, s))
                <= mailed[l][s] + Cardinality(Mailers(l, s)') + 0
    BY <1>1, <1>2, CountsNat
  <1>4. Open(l, 0)' <= Open(l, 0) + 0 /\ disturbed'[l] = disturbed[l] + 0
    BY <1>1, <1>2, CountsNat
  <1> QED BY <1>3, <1>4, Numbers

\* A step that opens one send more of the enrollment, by a fault.
LEMMA Disturbing ==
  ASSUME SendsTyped, SendsTyped', NEW l \in Logs, MailsOf(l), ReadersKept(l), NEW w,
         log'[l].step = log[l].step, disturbed'[l] = disturbed[l] + 1, mailed'[l] = mailed[l],
         \/ /\ \E i : Chances(l)' \subseteq Chances(l) \cup {i}
            /\ \A s : Senders(l, s)' \subseteq Senders(l, s)
         \/ /\ Chances(l)' \subseteq Chances(l)
            /\ \A s : Senders(l, s)' \subseteq Senders(l, s) \cup {w},
         \A s : /\ Behind(l, s)' \subseteq Behind(l, s)
                /\ Mailers(l, s) \subseteq Mailers(l, s)' \cup {w}
  PROVE  MailsOf(l)'
  <1>1. ASSUME NEW s
        PROVE  /\ Open(l, s)' <= Open(l, s) + 1
               /\ Cardinality(Behind(l, s)') <= Cardinality(Behind(l, s))
               /\ Cardinality(Mailers(l, s)) <= Cardinality(Mailers(l, s)') + 1
    <2>1. /\ Cardinality(Behind(l, s)') <= Cardinality(Behind(l, s))
          /\ Cardinality(Mailers(l, s)) <= Cardinality(Mailers(l, s)') + 1
      BY SetsFinite, AtMostOneMore
    <2>2. CASE /\ \E i : Chances(l)' \subseteq Chances(l) \cup {i}
               /\ Senders(l, s)' \subseteq Senders(l, s)
      <3>1. /\ Cardinality(Chances(l)') <= Cardinality(Chances(l)) + 1
            /\ Cardinality(Senders(l, s)') <= Cardinality(Senders(l, s))
        BY <2>2, SetsFinite, AtMostOneMore
      <3> QED BY <2>1, <3>1, CountsNat
    <2>3. CASE /\ Chances(l)' \subseteq Chances(l)
               /\ Senders(l, s)' \subseteq Senders(l, s) \cup {w}
      <3>1. /\ Cardinality(Chances(l)') <= Cardinality(Chances(l))
            /\ Cardinality(Senders(l, s)') <= Cardinality(Senders(l, s)) + 1
        BY <2>3, SetsFinite, AtMostOneMore
      <3> QED BY <2>1, <3>1, CountsNat
    <2> QED BY <2>2, <2>3
  <1>2. disturbed[l] \in Nat /\ \A s \in 1 .. Length[l] : mailed[l][s] \in Nat
    BY DEF SendsTyped, SendTyped
  <1>3. \A s \in 1 .. Length[l] :
           /\ mailed'[l][s] + Open(l, s)' <= mailed[l][s] + Open(l, s) + 1
           /\ mailed'[l][s] + Cardinality(Behind(l, s)')
                <= mailed[l][s] + Cardinality(Behind(l, s)) + 1
           /\ mailed'[l][s] + Cardinality(Mailers(l, s))
                <= mailed[l][s] + Cardinality(Mailers(l, s)') + 1
    BY <1>1, <1>2, CountsNat
  <1>4. Open(l, 0)' <= Open(l, 0) + 1
    BY <1>1
  <1> QED BY <1>3, <1>4, Numbers

\* A step that turns a waiting job into a send, or a send into a waiting job.
LEMMA Turnover ==
  ASSUME SendsTyped, SendsTyped', NEW l \in Logs, MailsOf(l), ReadersKept(l), NEW w, NEW i,
         log'[l].step = log[l].step, disturbed'[l] = disturbed[l], mailed'[l] = mailed[l],
         \/ /\ Chances(l)' \subseteq Chances(l) \cup {i}
            /\ \A s : /\ Senders(l, s)' \subseteq Senders(l, s)
                      /\ w \in Senders(l, s) /\ w \notin Senders(l, s)'
         \/ /\ Chances(l)' \subseteq Chances(l) /\ i \in Chances(l) /\ i \notin Chances(l)'
            /\ \A s : Senders(l, s)' \subseteq Senders(l, s) \cup {w},
         \A s : /\ Behind(l, s)' \subseteq Behind(l, s)
                /\ Mailers(l, s) \subseteq Mailers(l, s)'
  PROVE  MailsOf(l)'
  <1>1. ASSUME NEW s
        PROVE  /\ Open(l, s)' <= Open(l, s)
               /\ Cardinality(Behind(l, s)') <= Cardinality(Behind(l, s))
               /\ Cardinality(Mailers(l, s)) <= Cardinality(Mailers(l, s)')
    <2>1. /\ Cardinality(Behind(l, s)') <= Cardinality(Behind(l, s))
          /\ Cardinality(Mailers(l, s)) <= Cardinality(Mailers(l, s)')
      BY SetsFinite, AtMostOneMore
    <2>2. CASE /\ Chances(l)' \subseteq Chances(l) \cup {i}
               /\ Senders(l, s)' \subseteq Senders(l, s)
               /\ w \in Senders(l, s) /\ w \notin Senders(l, s)'
      <3>1. /\ Cardinality(Chances(l)') <= Cardinality(Chances(l)) + 1
            /\ Cardinality(Senders(l, s)') <= Cardinality(Senders(l, s)) - 1
        BY <2>2, SetsFinite, AtMostOneMore
      <3> QED BY <2>1, <3>1, CountsNat
    <2>3. CASE /\ Chances(l)' \subseteq Chances(l) /\ i \in Chances(l) /\ i \notin Chances(l)'
               /\ Senders(l, s)' \subseteq Senders(l, s) \cup {w}
      <3>1. /\ Cardinality(Chances(l)') <= Cardinality(Chances(l)) - 1
            /\ Cardinality(Senders(l, s)') <= Cardinality(Senders(l, s)) + 1
        BY <2>3, SetsFinite, AtMostOneMore
      <3> QED BY <2>1, <3>1, CountsNat
    <2> QED BY <2>2, <2>3
  <1>2. disturbed[l] \in Nat /\ \A s \in 1 .. Length[l] : mailed[l][s] \in Nat
    BY DEF SendsTyped, SendTyped
  <1>3. \A s \in 1 .. Length[l] :
           /\ mailed'[l][s] + Open(l, s)' <= mailed[l][s] + Open(l, s) + 0
           /\ mailed'[l][s] + Cardinality(Behind(l, s)')
                <= mailed[l][s] + Cardinality(Behind(l, s)) + 0
           /\ mailed'[l][s] + Cardinality(Mailers(l, s))
                <= mailed[l][s] + Cardinality(Mailers(l, s)') + 0
    BY <1>1, <1>2, CountsNat
  <1>4. Open(l, 0)' <= Open(l, 0) + 0 /\ disturbed'[l] = disturbed[l] + 0
    BY <1>1, <1>2, CountsNat
  <1> QED BY <1>3, <1>4, Numbers

(***************************************************************************)
(* The mails: what a step does to the sets of an enrollment.               *)
(***************************************************************************)
LEMMA FewerClaims ==
  ASSUME SendsTyped, NEW l \in Logs, log'[l].step = log[l].step,
         claimed'[l] \in {0, claimed[l], log[l].step + 1},
         \A v \in Workers : Reader(v, l)' =>
           \/ Reader(v, l) /\ worker'[v].step = worker[v].step
           \/ worker'[v].step = log[l].step + 1
  PROVE  \A k \in 1 .. Length[l] : InReach(l, k)' => InReach(l, k)
  <1>1. log[l].step \in Nat /\ claimed[l] \in Nat /\ Length[l] \in Nat
    BY IdsAre DEF SendsTyped, SendTyped
  <1> SUFFICES ASSUME NEW k \in 1 .. Length[l], InReach(l, k)'
               PROVE  InReach(l, k)
    OBVIOUS
  <1>2. k \in Nat /\ k # 0
    BY <1>1
  <1>3. \/ k <= log[l].step + 1
        \/ k <= claimed[l]
        \/ \E w \in Workers : Reader(w, l) /\ k <= worker[w].step
    <2>1. CASE k <= log'[l].step + 1 \/ k <= claimed'[l]
      BY <1>1, <1>2, <2>1
    <2>2. CASE \E w \in Workers : Reader(w, l)' /\ k <= worker'[w].step
      BY <1>1, <1>2, <2>2
    <2> QED BY <2>1, <2>2 DEF InReach
  <1>4. \/ k > log[l].step
        \/ claimed[l] # 0 /\ k >= claimed[l]
        \/ \E w \in Workers : Reader(w, l) /\ k > worker[w].step
    <2>1. CASE k > log'[l].step \/ (claimed'[l] # 0 /\ k >= claimed'[l])
      BY <1>1, <1>2, <2>1
    <2>2. CASE \E w \in Workers : Reader(w, l)' /\ k > worker'[w].step
      BY <1>1, <1>2, <2>2
    <2> QED BY <2>1, <2>2 DEF InReach
  <1> QED BY <1>3, <1>4 DEF InReach

\* A job that is still a chance and whose record did not change was one before.
LEMMA ChancesAfter ==
  ASSUME NEW l \in Logs, \A k \in 1 .. Length[l] : InReach(l, k)' => InReach(l, k),
         NEW i, i \in Chances(l)', queue'[i].st = queue[i].st
  PROVE  i \in Chances(l)
  <1>1. i \in Ids /\ i[1] = l /\ i[2] \in Nat /\ i[2] # 0
    <2>1. i \in Ids /\ i[1] = l
      BY DEF Chances
    <2>2. i[2] \in 1 .. Length[i[1]] + MaxDefers
      BY <2>1, IdsAre
    <2> QED BY <2>1, <2>2
  <1>2. i[2] <= Length[l] => i[2] \in 1 .. Length[l]
    BY <1>1, IdsAre
  <1> QED BY <1>1, <1>2 DEF Chances

\* A step that adds no record and widens no claim adds no chance.
LEMMA ChancesCalm ==
  ASSUME NEW l \in Logs, \A k \in 1 .. Length[l] : InReach(l, k)' => InReach(l, k),
         \A i \in Ids : i[1] = l => \/ queue'[i].st = queue[i].st
                                    \/ queue'[i].st \notin {"absent", "waiting"}
  PROVE  Chances(l)' \subseteq Chances(l)
  <1> SUFFICES ASSUME NEW i \in Chances(l)'
               PROVE  i \in Chances(l)
    OBVIOUS
  <1>1. i \in Ids /\ i[1] = l /\ queue'[i].st \in {"absent", "waiting"}
    BY DEF Chances
  <1> QED BY <1>1, ChancesAfter

\* A worker that changes nothing of the enrollment, or lets go of it.
LEMMA RolesKept ==
  ASSUME NEW w \in Workers, NEW l,
         \A v \in Workers : v # w => /\ worker'[v].pc = worker[v].pc
                                     /\ worker'[v].id = worker[v].id
                                     /\ worker'[v].step = worker[v].step,
         \/ /\ worker'[w].id = worker[w].id /\ worker'[w].step = worker[w].step
            /\ worker'[w].pc = worker[w].pc
         \/ /\ LogOf(w) # l
            /\ worker'[w].pc = "idle" \/ worker'[w].id[1] # l
         \/ /\ LogOf(w) = l /\ worker[w].pc \notin {"idle", "done", "advance"}
            /\ worker'[w].pc \notin {"mail", "advance"}
         \/ /\ worker[w].pc \in {"idle", "done"}
            /\ worker'[w].pc = "idle"
  PROVE  /\ ReadersKept(l)
         /\ \A s : /\ Senders(l, s)' \subseteq Senders(l, s)
                   /\ Behind(l, s)' \subseteq Behind(l, s)
                   /\ Mailers(l, s) \subseteq Mailers(l, s)'
  <1>1. \A v \in Workers : v # w => LogOf(v)' = LogOf(v)
    BY DEF LogOf
  <1>2. ReadersKept(l)
    BY <1>1 DEF ReadersKept, Reader, LogOf
  <1>3. ASSUME NEW s, NEW v \in Senders(l, s)'
        PROVE  v \in Senders(l, s)
    BY <1>1 DEF Senders, LogOf
  <1>4. ASSUME NEW s, NEW v \in Behind(l, s)'
        PROVE  v \in Behind(l, s)
    BY <1>1 DEF Behind, Reader, LogOf
  <1>5. ASSUME NEW s, NEW v \in Mailers(l, s)
        PROVE  v \in Mailers(l, s)'
    BY <1>1 DEF Mailers, LogOf
  <1> QED BY <1>2, <1>3, <1>4, <1>5

\* A step of the tick, of the clock or of the reply.
LEMMA MailsKept ==
  ASSUME SendsTyped, SendsTyped', NEW l \in Logs, MailsOf(l), UNCHANGED <<worker, disturbed, mailed>>,
         log'[l].step = log[l].step, claimed'[l] \in {0, claimed[l], log[l].step + 1},
         \A i \in Ids : i[1] = l =>
           \/ queue'[i] = queue[i]
           \/ /\ claimed[l] # 0 /\ i = <<l, claimed[l]>> /\ queue[i].st = "absent"
  PROVE  MailsOf(l)'
  <1>1. ReadersKept(l)
    BY DEF ReadersKept, Reader, LogOf
  <1>2. \A k \in 1 .. Length[l] : InReach(l, k)' => InReach(l, k)
    BY <1>1, FewerClaims DEF ReadersKept
  <1>3. Chances(l)' \subseteq Chances(l)
    <2> SUFFICES ASSUME NEW i \in Chances(l)'
                 PROVE  i \in Chances(l)
      OBVIOUS
    <2>1. i \in Ids /\ i[1] = l
      BY DEF Chances
    <2>2. CASE queue'[i] = queue[i]
      BY <1>2, <2>2, ChancesAfter
    <2>3. CASE claimed[l] # 0 /\ i = <<l, claimed[l]>> /\ queue[i].st = "absent"
      <3>1. /\ claimed[l] \in Nat /\ log[l].step \in Nat /\ Length[l] \in Nat
            /\ claimed[l] <= Length[l] /\ i[2] = claimed[l]
        <4>1. Length[l] \in Nat /\ log[l].step \in Nat /\ claimed[l] \in 0 .. Length[l]
          BY IdsAre DEF SendsTyped, SendTyped
        <4>2. i[2] = claimed[l]
          BY <2>3
        <4> QED BY <4>1, <4>2
      <3>2. InReach(l, claimed[l])
        BY <2>3, <3>1 DEF InReach
      <3> QED BY <2>1, <2>3, <3>1, <3>2 DEF Chances
    <2> QED BY <2>1, <2>2, <2>3
  <1>4. \A s : /\ Senders(l, s)' \subseteq Senders(l, s)
               /\ Behind(l, s)' \subseteq Behind(l, s)
               /\ Mailers(l, s) \subseteq Mailers(l, s)'
    BY DEF Senders, Behind, Reader, Mailers, LogOf
  <1> QED BY <1>1, <1>3, <1>4, Calm

\* Retention, when nothing of the enrollment is under way: its next step may have
\* to be sent anew.
LEMMA MailsExpire ==
  ASSUME SendsTyped, SendsTyped', NEW i \in Ids, NEW l \in Logs, l = i[1], MailsOf(l), Expire(i)
  PROVE  MailsOf(l)'
  <1> DEFINE next == <<l, log[l].step + 1>>
  <1>1. /\ UNCHANGED <<enrollmentVars, worker, disturbed, mailed>> /\ claimed[l] = 0
        /\ \A j \in Ids : j[1] = l => queue[j].st \notin {"waiting", "active"}
        /\ \A w \in Workers : LogOf(w) = l => worker[w].pc = "idle"
    BY DEF Expire, UnderWay, BullMQ!Live, Running, NoFault
  <1>2. \A j \in Ids : j[1] = l => queue'[j].st # "waiting"
    <2>1. queue \in [Ids -> BullMQ!Records] /\ queue' = [queue EXCEPT ![i] = BullMQ!Absent]
      BY DEF Expire, SendsTyped, SendTyped
    <2> QED BY <1>1, <2>1, RecordsStay
  <1>3. log[l].step \in Nat /\ disturbed[l] \in Nat /\ UNCHANGED <<log, claimed>>
    BY <1>1 DEF SendsTyped, SendTyped, enrollmentVars
  <1>4. \A w \in Workers : ~Reader(w, l) /\ ~Reader(w, l)'
    BY <1>1 DEF Reader, LogOf
  <1>5. \A j \in Chances(l)' : j = next
    <2> SUFFICES ASSUME NEW j \in Chances(l)'
                 PROVE  j = next
      OBVIOUS
    <2>1. /\ j \in Ids /\ j[1] = l /\ InReach(l, j[2])'
      BY <1>2 DEF Chances
    <2>2. j = <<j[1], j[2]>> /\ j[2] \in Nat /\ j[2] # 0
      BY <2>1, IdsAre
    <2>3. j[2] <= log[l].step + 1 /\ j[2] > log[l].step
      BY <1>1, <1>3, <1>4, <2>1, <2>2 DEF InReach
    <2>4. j[2] = log[l].step + 1
      BY <1>3, <2>2, <2>3
    <2> QED BY <2>1, <2>2, <2>4
  <1>6. Cardinality(Chances(l)') <= 1
    <2>1. Chances(l)' \in SUBSET {next}
      BY <1>5
    <2>2. IsFiniteSet({next}) /\ Cardinality({next}) = 1
      BY FS_Singleton
    <2> QED BY <2>1, <2>2, FS_Subset
  <1>7. ASSUME NEW s
        PROVE  /\ Cardinality(Senders(l, s)) = 0 /\ Cardinality(Senders(l, s)') = 0
               /\ Cardinality(Behind(l, s)) = 0 /\ Cardinality(Behind(l, s)') = 0
               /\ Cardinality(Mailers(l, s)) = 0 /\ Cardinality(Mailers(l, s)') = 0
    <2>1. /\ Senders(l, s) = {} /\ Senders(l, s)' = {} /\ Behind(l, s) = {}
          /\ Behind(l, s)' = {} /\ Mailers(l, s) = {} /\ Mailers(l, s)' = {}
      BY <1>1 DEF Senders, Behind, Reader, Mailers, LogOf
    <2> QED BY <2>1, FS_EmptySet
  <1>8. \A s : Open(l, s)' <= 1
    BY <1>6, <1>7, CountsNat
  <1>9. OneSend(l)'
    BY <1>1, <1>3, <1>8, CountsNat DEF OneSend
  <1>10. ASSUME NEW s \in 1 .. Length[l]
         PROVE  OneMail(l, s)'
    <2>1. mailed[l][s] \in Nat
      BY DEF SendsTyped
    <2>2. /\ mailed[l][s] <= 1 + disturbed[l]
          /\ log[l].step < s => mailed[l][s] <= disturbed[l]
      BY <1>3, <1>7, <2>1 DEF MailsOf, OneMail
    <2>3. Open(l, s)' \in Nat /\ Open(l, s)' <= 1
      BY <1>8, CountsNat
    <2>4. /\ mailed'[l][s] + Cardinality(Behind(l, s)') <= 1 + disturbed'[l]
          /\ log'[l].step < s => /\ mailed'[l][s] + Open(l, s)' <= 1 + disturbed'[l]
                                 /\ mailed'[l][s] <= disturbed'[l] + Cardinality(Mailers(l, s)')
      BY <1>1, <1>3, <1>7, <2>1, <2>2, <2>3
    <2> QED BY <1>4, <2>4 DEF OneMail
  <1> QED BY <1>9, <1>10 DEF MailsOf

\* A record evicted while the enrollment is under way: its step may be added again.
LEMMA MailsEvicted ==
  ASSUME SendsTyped, SendsTyped', NEW l \in Logs, MailsOf(l), NEW i \in Ids, Evict(i)
  PROVE  MailsOf(l)'
  <1>1. /\ UNCHANGED <<log, claimed, worker, mailed>>
        /\ queue' = [queue EXCEPT ![i] = BullMQ!Absent]
        /\ queue \in [Ids -> BullMQ!Records] /\ SendTyped /\ i[1] \in Logs
    BY IdsAre DEF Evict, SendsTyped, SendTyped, enrollmentVars
  <1>2. /\ disturbed'[i[1]] = disturbed[i[1]] + 1
        /\ \A k \in Logs : k # i[1] => disturbed'[k] = disturbed[k]
    BY <1>1, FaultsTyped DEF Evict
  <1>3. ReadersKept(l)
    BY <1>1 DEF ReadersKept, Reader, LogOf
  <1>4. \A s : /\ Senders(l, s)' = Senders(l, s) /\ Behind(l, s)' = Behind(l, s)
               /\ Mailers(l, s)' = Mailers(l, s)
    BY <1>1 DEF Senders, Behind, Reader, Mailers, LogOf
  <1>5. \A k \in 1 .. Length[l] : InReach(l, k)' => InReach(l, k)
    BY <1>1, <1>3, FewerClaims DEF ReadersKept
  <1>6. Chances(l)' \subseteq Chances(l) \cup {i}
    <2> SUFFICES ASSUME NEW j \in Chances(l)', j # i
                 PROVE  j \in Chances(l)
      OBVIOUS
    <2>1. queue'[j] = queue[j]
      BY <1>1 DEF Chances
    <2> QED BY <1>5, <2>1, ChancesAfter
  <1>7. CASE l = i[1]
    <2>1. \A s : /\ Senders(l, s)' \subseteq Senders(l, s)
                 /\ Behind(l, s)' \subseteq Behind(l, s)
                 /\ Mailers(l, s) \subseteq Mailers(l, s)' \cup {i}
      BY <1>4
    <2> QED BY <1>1, <1>2, <1>3, <1>6, <1>7, <2>1, Disturbing
  <1>8. CASE l # i[1]
    <2>1. \A j \in Ids : j[1] = l => queue'[j] = queue[j]
      BY <1>1, <1>8
    <2>2. Chances(l)' \subseteq Chances(l)
      BY <1>5, <2>1, ChancesCalm
    <2> QED BY <1>1, <1>2, <1>3, <1>4, <1>8, <2>2, Calm
  <1> QED BY <1>7, <1>8

\* A send by hand: it mails nothing, and writes the next step when others may be on it.
LEMMA MailsByHand ==
  ASSUME SendsTyped, SendsTyped', NEW l \in Logs, MailsOf(l), NEW w \in Workers, NEW k \in Logs,
         SendInline(w, k)
  PROVE  MailsOf(l)'
  <1>1. /\ worker[w].pc = "idle" /\ worker'[w].pc = "advance"
        /\ worker'[w].step = log[k].step + 1 /\ LogOf(w)' = k
        /\ \A v \in Workers : v # w => worker'[v] = worker[v] /\ LogOf(v)' = LogOf(v)
        /\ disturbed'[k] = disturbed[k] + 1
        /\ \A j \in Logs : j # k => disturbed'[j] = disturbed[j]
        /\ UNCHANGED <<log, claimed, queue, mailed>>
    BY ByHand DEF LogOf
  <1>2. \A s : /\ Mailers(l, s) \subseteq Mailers(l, s)'
               /\ Senders(l, s)' \subseteq Senders(l, s) \cup {w}
               /\ Behind(l, s)' \subseteq Behind(l, s) \cup {w}
    <2>1. ASSUME NEW s, NEW v \in Mailers(l, s)
          PROVE  v \in Mailers(l, s)'
      BY <1>1 DEF Mailers
    <2>2. ASSUME NEW s, NEW v \in Senders(l, s)', v # w
          PROVE  v \in Senders(l, s)
      BY <1>1, <2>2 DEF Senders
    <2>3. ASSUME NEW s, NEW v \in Behind(l, s)', v # w
          PROVE  v \in Behind(l, s)
      BY <1>1, <2>3 DEF Behind, Reader
    <2> QED BY <2>1, <2>2, <2>3
  <1>3. CASE l # k
    <2>1. ReadersKept(l)
      BY <1>1, <1>3 DEF ReadersKept, Reader
    <2>2. Chances(l)' \subseteq Chances(l)
      <3>1. \A j \in 1 .. Length[l] : InReach(l, j)' => InReach(l, j)
        BY <1>1, <2>1, FewerClaims DEF ReadersKept
      <3> QED BY <1>1, <3>1, ChancesCalm
    <2>3. \A s : w \notin Senders(l, s)' /\ w \notin Behind(l, s)'
      BY <1>1, <1>3 DEF Senders, Behind, Reader
    <2>4. \A s : /\ Senders(l, s)' \subseteq Senders(l, s)
                 /\ Behind(l, s)' \subseteq Behind(l, s)
                 /\ Mailers(l, s) \subseteq Mailers(l, s)'
      BY <1>2, <2>3
    <2> QED BY <1>1, <1>3, <2>1, <2>2, <2>4, Calm
  <1>4. CASE l = k
    <2>1. \A v \in Workers : Reader(v, l)' =>
            \/ Reader(v, l) /\ worker'[v].step = worker[v].step
            \/ worker'[v].step = log[l].step + 1
      BY <1>1, <1>4 DEF Reader
    <2>2. Chances(l)' \subseteq Chances(l)
      <3>1. \A j \in 1 .. Length[l] : InReach(l, j)' => InReach(l, j)
        BY <1>1, <2>1, FewerClaims
      <3> QED BY <1>1, <3>1, ChancesCalm
    <2>3. /\ log[l].step \in Nat /\ disturbed[l] \in Nat
          /\ disturbed'[l] = disturbed[l] + 1
      BY <1>1, <1>4 DEF SendsTyped, SendTyped
    <2>4. \A s : /\ Open(l, s)' <= Open(l, s) + 1
                 /\ Cardinality(Behind(l, s)') <= Cardinality(Behind(l, s)) + 1
                 /\ Cardinality(Mailers(l, s)) <= Cardinality(Mailers(l, s)')
      <3> SUFFICES ASSUME NEW s
                   PROVE  /\ Open(l, s)' <= Open(l, s) + 1
                          /\ Cardinality(Behind(l, s)') <= Cardinality(Behind(l, s)) + 1
                          /\ Cardinality(Mailers(l, s)) <= Cardinality(Mailers(l, s)')
        OBVIOUS
      <3>1. /\ Cardinality(Chances(l)') <= Cardinality(Chances(l))
            /\ Cardinality(Senders(l, s)') <= Cardinality(Senders(l, s)) + 1
            /\ Cardinality(Behind(l, s)') <= Cardinality(Behind(l, s)) + 1
            /\ Cardinality(Mailers(l, s)) <= Cardinality(Mailers(l, s)')
        BY <1>2, <2>2, SetsFinite, AtMostOneMore
      <3> QED BY <3>1, CountsNat
    <2>5. OneSend(l)'
      BY <2>3, <2>4, CountsNat DEF MailsOf, OneSend
    <2>6. ASSUME NEW s \in 1 .. Length[l]
          PROVE  OneMail(l, s)'
      <3>1. /\ mailed[l][s] \in Nat /\ s \in Nat
            /\ Open(l, s) \in Nat /\ Open(l, s)' \in Nat
        <4>1. Length[l] \in Nat
          BY IdsAre
        <4>2. mailed[l][s] \in Nat
          BY DEF SendsTyped
        <4> QED BY <4>1, <4>2, CountsNat
      <3>2. /\ mailed[l][s] + Cardinality(Behind(l, s)) <= 1 + disturbed[l]
            /\ log[l].step < s => /\ mailed[l][s] + Open(l, s) <= 1 + disturbed[l]
                                  /\ mailed[l][s] <= disturbed[l] + Cardinality(Mailers(l, s))
            /\ (\E v \in Workers : Reader(v, l) /\ worker[v].step < s) =>
                 mailed[l][s] + Open(l, s) <= 2 + disturbed[l]
        BY DEF MailsOf, OneMail
      <3>3. (\E v \in Workers : Reader(v, l)' /\ worker'[v].step < s) =>
              \/ \E v \in Workers : Reader(v, l) /\ worker[v].step < s
              \/ log[l].step < s
        BY <2>1, <2>3, <3>1
      <3>4. /\ mailed[l][s] + Cardinality(Behind(l, s)') <= 2 + disturbed[l]
            /\ log[l].step < s => /\ mailed[l][s] + Open(l, s)' <= 2 + disturbed[l]
                                  /\ mailed[l][s] <= 1 + disturbed[l] + Cardinality(Mailers(l, s)')
            /\ (\E v \in Workers : Reader(v, l)' /\ worker'[v].step < s) =>
                 mailed[l][s] + Open(l, s)' <= 3 + disturbed[l]
        BY <2>3, <2>4, <3>1, <3>2, <3>3, CountsNat
      <3>5. /\ mailed'[l][s] + Cardinality(Behind(l, s)') <= 1 + disturbed'[l]
            /\ log'[l].step < s => /\ mailed'[l][s] + Open(l, s)' <= 1 + disturbed'[l]
                                   /\ mailed'[l][s] <= disturbed'[l] + Cardinality(Mailers(l, s)')
            /\ (\E v \in Workers : Reader(v, l)' /\ worker'[v].step < s) =>
                 mailed'[l][s] + Open(l, s)' <= 2 + disturbed'[l]
        BY <1>1, <2>3, <3>1, <3>4, CountsNat
      <3> QED BY <3>5 DEF OneMail
    <2> QED BY <2>5, <2>6 DEF MailsOf
  <1> QED BY <1>3, <1>4

\* A step of a worker that sends nothing and ends nothing but a finished job.
LEMMA MailsCalm ==
  ASSUME SendsTyped, SendsTyped', NEW l \in Logs, MailsOf(l), NEW w \in Workers,
         \/ Gate(w) \/ GateRefuses(w) \/ Throttled(w) \/ ThrottleFails(w) \/ RefundUnit(w)
         \/ RefundFails(w) \/ DeferFails(w) \/ NothingLeaves(w) \/ Finish(w)
         \/ ReadLog(w) /\ worker'[w].pc = "refund"
  PROVE  MailsOf(l)'
  <1>1. /\ UNCHANGED <<log, claimed, mailed, disturbed>>
        /\ SendTyped
    BY DEF SendsTyped, Gate, GateRefuses, Throttled, ThrottleFails, RefundUnit, RefundFails,
       DeferFails, NothingLeaves, Finish, ReadLog, NoFault, BreakCleanly, enrollmentVars, counted
  <1>2. \A v \in Workers : v # w => /\ worker'[v].pc = worker[v].pc
                                    /\ worker'[v].id = worker[v].id
                                    /\ worker'[v].step = worker[v].step
    BY <1>1, OtherWorkers DEF Runs, Breaks
  <1>3. \/ /\ LogOf(w) # l
           /\ worker'[w].pc = "idle" \/ worker'[w].id[1] # l
        \/ /\ LogOf(w) = l /\ worker[w].pc \notin {"idle", "done", "advance"}
           /\ worker'[w].pc \notin {"mail", "advance"}
        \/ /\ worker[w].pc \in {"idle", "done"}
           /\ worker'[w].pc = "idle"
    <2>1. CASE Finish(w)
      BY <1>1, <2>1, Turning, FreeIs DEF Finish, Frees, Running
    <2>2. CASE ~Finish(w)
      <3>1. worker'[w].id = worker[w].id /\ worker'[w].pc \notin {"mail", "advance"}
        BY <1>1, <2>2, Turning DEF Turns
      <3>2. worker[w].pc \notin {"idle", "done", "advance"}
        BY <2>2 DEF Gate, GateRefuses, Throttled, ThrottleFails, RefundUnit, RefundFails,
           DeferFails, NothingLeaves, ReadLog, Running
      <3> QED BY <3>1, <3>2 DEF LogOf
    <2> QED BY <2>1, <2>2
  <1>4. /\ ReadersKept(l)
        /\ \A s : /\ Senders(l, s)' \subseteq Senders(l, s)
                  /\ Behind(l, s)' \subseteq Behind(l, s)
                  /\ Mailers(l, s) \subseteq Mailers(l, s)'
    BY <1>2, <1>3, RolesKept
  <1>5. \A k \in 1 .. Length[l] : InReach(l, k)' => InReach(l, k)
    BY <1>1, <1>4, FewerClaims DEF ReadersKept
  <1>6. \A i \in Ids : queue'[i].st = queue[i].st \/ queue'[i].st \notin {"absent", "waiting"}
    <2>1. CASE Finish(w)
      BY <1>1, <2>1, Ending
    <2>2. CASE ~Finish(w)
      BY <2>2 DEF Gate, GateRefuses, Throttled, ThrottleFails, RefundUnit, RefundFails,
         DeferFails, NothingLeaves, ReadLog
    <2> QED BY <2>1, <2>2
  <1>7. Chances(l)' \subseteq Chances(l)
    BY <1>5, <1>6, ChancesCalm
  <1> QED BY <1>1, <1>4, <1>7, Calm

\* A worker that dies, is given up, or cannot write the step it mailed.
LEMMA MailsDisturbed ==
  ASSUME SendsTyped, SendsTyped', NEW l \in Logs, MailsOf(l), NEW w \in Workers,
         WorkerDies(w) \/ DeadlinePasses(w) \/ LockExpires(w) \/ AdvanceFails(w)
  PROVE  MailsOf(l)'
  <1>1. UNCHANGED <<log, claimed, mailed>> /\ SendTyped /\ LogOf(w) \in Logs
    BY SenderTypes DEF SendsTyped, WorkerDies, DeadlinePasses, LockExpires, Orphaned,
       AdvanceFails, enrollmentVars
  <1>2. /\ disturbed'[LogOf(w)] = disturbed[LogOf(w)] + 1
        /\ \A k \in Logs : k # LogOf(w) => disturbed'[k] = disturbed[k]
    BY <1>1, FaultsTyped DEF WorkerDies, DeadlinePasses, LockExpires, Orphaned, AdvanceFails
  <1>3. \A v \in Workers : v # w => worker'[v] = worker[v]
    <2>1. ~Gate(w)
      <3>1. Gate(w) => UNCHANGED disturbed
        BY DEF Gate, NoFault
      <3>2. disturbed[LogOf(w)] \in Nat
        BY <1>1 DEF SendsTyped, SendTyped
      <3> QED BY <1>2, <3>1, <3>2
    <2> QED BY <1>1, <2>1, OtherWorkers DEF Runs, Breaks
  <1>4. /\ ~AdvanceFails(w) => \/ worker'[w].pc = "idle"
                               \/ /\ worker'[w].id = worker[w].id
                                  /\ worker'[w].step = worker[w].step
                                  /\ worker'[w].pc = worker[w].pc
        /\ AdvanceFails(w) => /\ worker[w].pc = "advance" /\ worker'[w].pc = "refund"
                              /\ worker'[w].id = worker[w].id
    BY <1>1, Turning, FreeIs DEF Turns, Frees, AdvanceFails, Running
  <1>5. ReadersKept(l)
    BY <1>3, <1>4 DEF ReadersKept, Reader, LogOf
  <1>6. \A k \in 1 .. Length[l] : InReach(l, k)' => InReach(l, k)
    BY <1>1, <1>5, FewerClaims DEF ReadersKept
  <1>7. /\ worker[w].id \in Ids
        /\ \A i \in Ids : i # worker[w].id => queue'[i] = queue[i]
        /\ AdvanceFails(w) => UNCHANGED queue
    BY <1>1, Ending DEF AdvanceFails
  <1>8. CASE l # LogOf(w)
    <2>1. \A i \in Ids : i[1] = l => queue'[i] = queue[i]
      BY <1>7, <1>8 DEF LogOf
    <2>2. Chances(l)' \subseteq Chances(l)
      BY <1>6, <2>1, ChancesCalm
    <2>3. worker'[w].pc = "idle" \/ worker'[w].id[1] # l
      BY <1>4, <1>8 DEF LogOf
    <2>4. \A s : /\ Senders(l, s)' \subseteq Senders(l, s)
                 /\ Behind(l, s)' \subseteq Behind(l, s)
                 /\ Mailers(l, s) \subseteq Mailers(l, s)'
      BY <1>3, <1>8, <2>3, RolesKept
    <2> QED BY <1>1, <1>2, <1>5, <1>8, <2>2, <2>4, Calm
  <1>9. CASE l = LogOf(w)
    <2>1. ASSUME ~AdvanceFails(w)
          PROVE  \A s : Senders(l, s)' \subseteq Senders(l, s)
      <3> SUFFICES ASSUME NEW s, NEW v \in Senders(l, s)'
                   PROVE  v \in Senders(l, s)
        OBVIOUS
      <3> QED BY <1>3, <1>4, <2>1 DEF Senders, LogOf
    <2>2. \A s : /\ Senders(l, s)' \subseteq Senders(l, s) \cup {w}
                 /\ Behind(l, s)' \subseteq Behind(l, s)
                 /\ Mailers(l, s) \subseteq Mailers(l, s)' \cup {w}
      <3>1. ASSUME NEW s, NEW v \in Senders(l, s)', v # w
            PROVE  v \in Senders(l, s)
        BY <1>3, <3>1 DEF Senders, LogOf
      <3>2. ASSUME NEW s, NEW v \in Behind(l, s)'
            PROVE  v \in Behind(l, s)
        BY <1>3, <1>4 DEF Behind, Reader, LogOf
      <3>3. ASSUME NEW s, NEW v \in Mailers(l, s), v # w
            PROVE  v \in Mailers(l, s)'
        BY <1>3, <3>3 DEF Mailers, LogOf
      <3> QED BY <3>1, <3>2, <3>3
    <2>3. CASE AdvanceFails(w)
      <3>1. Chances(l)' \subseteq Chances(l)
        BY <1>6, <1>7, <2>3, ChancesCalm
      <3> QED BY <1>1, <1>2, <1>5, <1>9, <2>2, <3>1, Disturbing
    <2>4. CASE ~AdvanceFails(w)
      <3>1. Chances(l)' \subseteq Chances(l) \cup {worker[w].id}
        <4> SUFFICES ASSUME NEW i \in Chances(l)', i # worker[w].id
                     PROVE  i \in Chances(l)
          OBVIOUS
        <4>1. queue'[i] = queue[i]
          BY <1>7 DEF Chances
        <4> QED BY <1>6, <4>1, ChancesAfter
      <3> QED BY <1>1, <1>2, <1>5, <1>9, <2>1, <2>2, <2>4, <3>1, Disturbing
    <2> QED BY <2>3, <2>4
  <1> QED BY <1>8, <1>9

\* A worker takes a job.
LEMMA MailsTaken ==
  ASSUME SendsTyped, SendsTyped', NEW l \in Logs, MailsOf(l), NEW w \in Workers, NEW i \in Ids,
         Take(w, i)
  PROVE  MailsOf(l)'
  <1>1. /\ UNCHANGED <<log, claimed, mailed, disturbed>> /\ SendTyped
        /\ worker[w].pc = "idle" /\ queue[i].st = "waiting"
    BY DEF SendsTyped, Take, NoFault, enrollmentVars, Running
  <1>2. \A v \in Workers : v # w => /\ worker'[v].pc = worker[v].pc
                                    /\ worker'[v].id = worker[v].id
                                    /\ worker'[v].step = worker[v].step
    BY <1>1, OtherWorkers
  <1>3. worker'[w].pc = "gate" /\ worker'[w].id = i
    BY <1>1, Turning
  <1>4. /\ \A j \in Ids : j # i => queue'[j] = queue[j]
        /\ queue'[i].st = "active"
    <2>1. queue \in [Ids -> BullMQ!Records] /\ queue' = [queue EXCEPT ![i] = [queue[i] EXCEPT !.st = "active"]]
      BY DEF Take, SendsTyped, SendTyped
    <2> QED BY <2>1, RecordsStay
  <1>5. ReadersKept(l)
    BY <1>1, <1>2, <1>3 DEF ReadersKept, Reader, LogOf
  <1>6. \A k \in 1 .. Length[l] : InReach(l, k)' => InReach(l, k)
    BY <1>1, <1>5, FewerClaims DEF ReadersKept
  <1>7. Chances(l)' \subseteq Chances(l)
    BY <1>4, <1>6, ChancesCalm
  <1>8. \A s : /\ Behind(l, s)' \subseteq Behind(l, s)
               /\ Mailers(l, s) \subseteq Mailers(l, s)'
               /\ Senders(l, s)' \subseteq Senders(l, s) \cup {w}
               /\ i[1] # l => Senders(l, s)' \subseteq Senders(l, s)
    <2>1. ASSUME NEW s, NEW v \in Behind(l, s)'
          PROVE  v \in Behind(l, s)
      BY <1>2, <1>3 DEF Behind, Reader, LogOf
    <2>2. ASSUME NEW s, NEW v \in Mailers(l, s)
          PROVE  v \in Mailers(l, s)'
      BY <1>1, <1>2 DEF Mailers, LogOf
    <2>3. ASSUME NEW s, NEW v \in Senders(l, s)', v # w \/ i[1] # l
          PROVE  v \in Senders(l, s)
      BY <1>2, <1>3, <2>3 DEF Senders, LogOf
    <2> QED BY <2>1, <2>2, <2>3
  <1>9. CASE i[1] # l
    BY <1>1, <1>5, <1>7, <1>8, <1>9, Calm
  <1>10. CASE i[1] = l
    <2>1. i \in Chances(l) /\ i \notin Chances(l)'
      BY <1>1, <1>4, <1>10 DEF Chances
    <2> QED BY <1>1, <1>5, <1>7, <1>8, <2>1, Turnover
  <1> QED BY <1>9, <1>10

\* A failed job is put back, or a throttled one as a new job.
LEMMA MailsPutBack ==
  ASSUME SendsTyped, SendsTyped', NEW l \in Logs, MailsOf(l), NEW w \in Workers,
         Fail(w) \/ Defer(w)
  PROVE  MailsOf(l)'
  <1>1. /\ UNCHANGED <<log, claimed, mailed, disturbed>> /\ SendTyped /\ LogOf(w) \in Logs
        /\ worker[w].pc \in {"fail", "defer"}
    BY SenderTypes DEF SendsTyped, Fail, Defer, NoFault, enrollmentVars, Running
  <1>2. \A v \in Workers : v # w => /\ worker'[v].pc = worker[v].pc
                                    /\ worker'[v].id = worker[v].id
                                    /\ worker'[v].step = worker[v].step
    BY <1>1, OtherWorkers DEF Runs
  <1>3. \/ worker'[w].pc = "idle"
        \/ worker'[w].pc = "done" /\ worker'[w].id = worker[w].id
    BY <1>1, Turning, FreeIs DEF Turns, Frees
  <1>4. /\ ReadersKept(l)
        /\ \A s : /\ Senders(l, s)' \subseteq Senders(l, s)
                  /\ Behind(l, s)' \subseteq Behind(l, s)
                  /\ Mailers(l, s) \subseteq Mailers(l, s)'
    BY <1>1, <1>2, <1>3, RolesKept DEF LogOf
  <1>5. \A k \in 1 .. Length[l] : InReach(l, k)' => InReach(l, k)
    BY <1>1, <1>4, FewerClaims DEF ReadersKept
  <1>6. PICK i \in Ids : /\ i[1] = LogOf(w)
                         /\ \A j \in Ids : j # i => queue'[j] = queue[j]
    <2>1. CASE Fail(w)
      <3>1. worker[w].id \in Ids /\ \A j \in Ids : j # worker[w].id => queue'[j] = queue[j]
        BY <1>1, <2>1, Ending
      <3> QED BY <3>1 DEF LogOf
    <2>2. CASE Defer(w)
      BY <1>1, <2>2, Deferring1 DEF AddedOne
    <2> QED BY <2>1, <2>2
  <1>7. Chances(l)' \subseteq Chances(l) \cup {i}
    <2> SUFFICES ASSUME NEW j \in Chances(l)', j # i
                 PROVE  j \in Chances(l)
      OBVIOUS
    <2>1. queue'[j] = queue[j]
      BY <1>6 DEF Chances
    <2> QED BY <1>5, <2>1, ChancesAfter
  <1>8. CASE l # LogOf(w)
    <2>1. Chances(l)' \subseteq Chances(l)
      BY <1>5, <1>6, <1>8, ChancesCalm
    <2> QED BY <1>1, <1>4, <2>1, Calm
  <1>9. CASE l = LogOf(w)
    <2>1. \A s : w \in Senders(l, s) /\ w \notin Senders(l, s)'
      BY <1>1, <1>3, <1>9 DEF Senders
    <2> QED BY <1>1, <1>4, <1>7, <2>1, Turnover
  <1> QED BY <1>8, <1>9

\* A worker reads the next step: it may be behind steps that are still to be mailed.
LEMMA MailsRead ==
  ASSUME SendsTyped, SendsTyped', NEW l \in Logs, MailsOf(l), NEW w \in Workers,
         ReadLog(w), worker'[w].pc = "mail"
  PROVE  MailsOf(l)'
  <1>1. /\ UNCHANGED <<log, claimed, mailed, disturbed, queue>> /\ SendTyped
        /\ worker[w].pc = "throttle"
    BY DEF SendsTyped, ReadLog, NoFault, enrollmentVars, Running
  <1>2. \A v \in Workers : v # w => /\ worker'[v].pc = worker[v].pc
                                    /\ worker'[v].id = worker[v].id
                                    /\ worker'[v].step = worker[v].step
    BY <1>1, OtherWorkers DEF Runs
  <1>3. worker'[w].id = worker[w].id /\ worker'[w].step = log[LogOf(w)].step + 1
    BY <1>1, Turning DEF Turns
  <1>4. \A s : /\ Senders(l, s)' \subseteq Senders(l, s)
               /\ Mailers(l, s) \subseteq Mailers(l, s)'
               /\ Behind(l, s)' \subseteq Behind(l, s) \cup {w}
    <2>1. ASSUME NEW s, NEW v \in Senders(l, s)'
          PROVE  v \in Senders(l, s)
      BY <1>1, <1>2, <1>3 DEF Senders, LogOf
    <2>2. ASSUME NEW s, NEW v \in Mailers(l, s)
          PROVE  v \in Mailers(l, s)'
      BY <1>1, <1>2 DEF Mailers, LogOf
    <2>3. ASSUME NEW s, NEW v \in Behind(l, s)', v # w
          PROVE  v \in Behind(l, s)
      BY <1>2, <2>3 DEF Behind, Reader, LogOf
    <2> QED BY <2>1, <2>2, <2>3
  <1>5. CASE l # LogOf(w)
    <2>1. \/ LogOf(w) # l /\ worker'[w].id[1] # l
      BY <1>3, <1>5 DEF LogOf
    <2>2. /\ ReadersKept(l)
          /\ \A s : Behind(l, s)' \subseteq Behind(l, s)
      BY <1>2, <2>1, RolesKept
    <2>3. \A k \in 1 .. Length[l] : InReach(l, k)' => InReach(l, k)
      BY <1>1, <2>2, FewerClaims DEF ReadersKept
    <2>4. Chances(l)' \subseteq Chances(l)
      BY <1>1, <2>3, ChancesCalm
    <2> QED BY <1>1, <1>4, <2>2, <2>4, Calm
  <1>6. CASE l = LogOf(w)
    <2>1. \A v \in Workers : Reader(v, l)' =>
            \/ Reader(v, l) /\ worker'[v].step = worker[v].step
            \/ worker'[v].step = log[l].step + 1
      BY <1>2, <1>3, <1>6 DEF Reader, LogOf
    <2>2. \A k \in 1 .. Length[l] : InReach(l, k)' => InReach(l, k)
      BY <1>1, <2>1, FewerClaims
    <2>3. Chances(l)' \subseteq Chances(l)
      BY <1>1, <2>2, ChancesCalm
    <2>4. log[l].step \in Nat /\ disturbed[l] \in Nat
      BY DEF SendsTyped, SendTyped
    <2>5. \A s : Open(l, s)' <= Open(l, s)
      <3> SUFFICES ASSUME NEW s
                   PROVE  Open(l, s)' <= Open(l, s)
        OBVIOUS
      <3>1. /\ Cardinality(Chances(l)') <= Cardinality(Chances(l))
            /\ Cardinality(Senders(l, s)') <= Cardinality(Senders(l, s))
        BY <1>4, <2>3, SetsFinite, AtMostOneMore
      <3> QED BY <3>1, CountsNat
    <2>6. OneSend(l)'
      BY <1>1, <2>4, <2>5, CountsNat DEF MailsOf, OneSend
    <2>7. ASSUME NEW s \in 1 .. Length[l]
          PROVE  OneMail(l, s)'
      <3>1. /\ mailed[l][s] \in Nat /\ s \in Nat
            /\ Open(l, s) \in Nat /\ Open(l, s)' \in Nat /\ Open(l, s)' <= Open(l, s)
        <4>1. Length[l] \in Nat
          BY IdsAre
        <4>2. mailed[l][s] \in Nat
          BY DEF SendsTyped
        <4> QED BY <2>5, <4>1, <4>2, CountsNat
      <3>2. /\ mailed[l][s] + Cardinality(Behind(l, s)) <= 1 + disturbed[l]
            /\ log[l].step < s => /\ mailed[l][s] + Open(l, s) <= 1 + disturbed[l]
                                  /\ mailed[l][s] <= disturbed[l] + Cardinality(Mailers(l, s))
            /\ (\E v \in Workers : Reader(v, l) /\ worker[v].step < s) =>
                 mailed[l][s] + Open(l, s) <= 2 + disturbed[l]
        BY DEF MailsOf, OneMail
      <3>3. Cardinality(Mailers(l, s)) <= Cardinality(Mailers(l, s)')
        BY <1>4, SetsFinite, AtMostOneMore
      <3>4. CASE log[l].step < s
        <4>1. Behind(l, s)' \subseteq Senders(l, s)'
          BY DEF Behind, Reader, Senders
        <4>2. Cardinality(Behind(l, s)') <= Cardinality(Senders(l, s)')
          BY <4>1, SetsFinite, AtMostOneMore
        <4>3. Cardinality(Behind(l, s)') <= Open(l, s)'
          BY <4>2, CountsNat
        <4>4. /\ mailed[l][s] + Cardinality(Behind(l, s)') <= 1 + disturbed[l]
              /\ mailed[l][s] + Open(l, s)' <= 1 + disturbed[l]
              /\ mailed[l][s] + Open(l, s)' <= 2 + disturbed[l]
              /\ mailed[l][s] <= disturbed[l] + Cardinality(Mailers(l, s)')
          BY <2>4, <3>1, <3>2, <3>3, <3>4, <4>3, CountsNat
        <4> QED BY <1>1, <4>4 DEF OneMail
      <3>5. CASE ~(log[l].step < s)
        <4>1. log[l].step + 1 > s
          BY <2>4, <3>1, <3>5
        <4>2. ~(worker'[w].step < s) /\ worker'[w].step # s
          BY <1>3, <1>6, <2>4, <3>1, <4>1
        <4>3. Behind(l, s)' \subseteq Behind(l, s)
          BY <1>4, <4>2 DEF Behind, Reader
        <4>4. Cardinality(Behind(l, s)') <= Cardinality(Behind(l, s))
          BY <4>3, SetsFinite, AtMostOneMore
        <4>5. (\E v \in Workers : Reader(v, l)' /\ worker'[v].step < s) =>
                \E v \in Workers : Reader(v, l) /\ worker[v].step < s
          BY <1>2, <4>2 DEF Reader, LogOf
        <4>6. /\ mailed[l][s] + Cardinality(Behind(l, s)') <= 1 + disturbed[l]
              /\ (\E v \in Workers : Reader(v, l)' /\ worker'[v].step < s) =>
                   mailed[l][s] + Open(l, s)' <= 2 + disturbed[l]
          BY <2>4, <3>1, <3>2, <4>4, <4>5, CountsNat
        <4> QED BY <1>1, <3>5, <4>6 DEF OneMail
      <3> QED BY <3>4, <3>5
    <2> QED BY <2>6, <2>7 DEF MailsOf
  <1> QED BY <1>5, <1>6

\* The mail itself, heard of or not.
LEMMA MailsSent ==
  ASSUME SendsTyped, SendsTyped', NEW l \in Logs, MailsOf(l), NEW w \in Workers,
         Mail(w) \/ MailUnheard(w)
  PROVE  MailsOf(l)'
  <1> DEFINE L == LogOf(w)
             p == worker[w].step
  <1>1. /\ UNCHANGED <<log, claimed, queue>> /\ SendTyped /\ L \in Logs
        /\ worker[w].pc = "mail" /\ (Leaves(w, "advance") \/ Leaves(w, "refund"))
    BY SenderTypes DEF SendsTyped, Mail, MailUnheard, Leaves, enrollmentVars, Running
  <1>2. \A v \in Workers : v # w => /\ worker'[v].pc = worker[v].pc
                                    /\ worker'[v].id = worker[v].id
                                    /\ worker'[v].step = worker[v].step
    BY <1>1, OtherWorkers DEF Runs, Breaks
  <1>3. worker'[w].id = worker[w].id /\ worker'[w].step = p
    BY <1>1, Turning DEF Turns
  <1>4. ReadersKept(l)
    BY <1>1, <1>2, <1>3 DEF ReadersKept, Reader, LogOf
  <1>5. \A k \in 1 .. Length[l] : InReach(l, k)' => InReach(l, k)
    BY <1>1, <1>4, FewerClaims DEF ReadersKept
  <1>6. Chances(l)' \subseteq Chances(l)
    BY <1>1, <1>5, ChancesCalm
  <1>7. \A s : /\ Senders(l, s)' \subseteq Senders(l, s)
               /\ Behind(l, s)' \subseteq Behind(l, s)
               /\ Mailers(l, s) \subseteq Mailers(l, s)'
    <2>1. ASSUME NEW s, NEW v \in Senders(l, s)'
          PROVE  v \in Senders(l, s)
      BY <1>1, <1>2, <1>3 DEF Senders, LogOf
    <2>2. ASSUME NEW s, NEW v \in Behind(l, s)'
          PROVE  v \in Behind(l, s)
      <3>1. worker[w].step \in Nat
        BY <1>1, SenderTypes
      <3>2. CASE v = w
        <4>1. \/ worker'[w].pc = "advance" /\ p < s
              \/ worker'[w].pc = "mail"
          BY <1>3, <2>2, <3>2 DEF Behind, Reader
        <4>2. worker'[w].pc # "mail"
          BY <1>1, Turning DEF Turns
        <4> QED BY <1>1, <1>3, <2>2, <3>2, <4>1, <4>2 DEF Behind, Reader, LogOf
      <3>3. CASE v # w
        BY <1>2, <2>2, <3>3 DEF Behind, Reader, LogOf
      <3> QED BY <3>2, <3>3
    <2>3. ASSUME NEW s, NEW v \in Mailers(l, s)
          PROVE  v \in Mailers(l, s)'
      BY <1>1, <1>2 DEF Mailers, LogOf
    <2> QED BY <2>1, <2>2, <2>3
  <1>8. CASE l # L
    <2>1. mailed'[l] = mailed[l]
      BY <1>1, <1>8, Mailing
    <2>2. disturbed'[l] = disturbed[l]
      BY <1>1, <1>8, FaultsTyped DEF Mail, MailUnheard
    <2> QED BY <1>1, <1>4, <1>6, <1>7, <2>1, <2>2, Calm
  <1>9. CASE l = L
    <2>1. /\ p \in 1 .. Length[l]
          /\ \A s \in 1 .. Length[l] :
               mailed'[l][s] = IF s = p THEN mailed[l][s] + 1 ELSE mailed[l][s]
      BY <1>1, <1>9, Mailing
    <2>2. disturbed[l] \in Nat /\ \A s \in 1 .. Length[l] : mailed[l][s] \in Nat
      BY DEF SendsTyped, SendTyped
    <2>3. ASSUME NEW s
          PROVE  /\ Open(l, s)' <= Open(l, s)
                 /\ Cardinality(Behind(l, s)') <= Cardinality(Behind(l, s))
                 /\ Cardinality(Mailers(l, s)) <= Cardinality(Mailers(l, s)')
      <3>1. /\ Cardinality(Chances(l)') <= Cardinality(Chances(l))
            /\ Cardinality(Senders(l, s)') <= Cardinality(Senders(l, s))
            /\ Cardinality(Behind(l, s)') <= Cardinality(Behind(l, s))
            /\ Cardinality(Mailers(l, s)) <= Cardinality(Mailers(l, s)')
        BY <1>6, <1>7, SetsFinite, AtMostOneMore
      <3> QED BY <3>1, CountsNat
    <2>4. CASE MailUnheard(w)
      <3>1. disturbed'[l] = disturbed[l] + 1
        BY <1>1, <1>9, <2>4, FaultsTyped DEF MailUnheard
      <3>2. Open(l, 0)' <= Open(l, 0) + 1
        BY <2>3, CountsNat
      <3>3. \A s \in 1 .. Length[l] :
              /\ mailed'[l][s] + Open(l, s)' <= mailed[l][s] + Open(l, s) + 1
              /\ mailed'[l][s] + Cardinality(Behind(l, s)')
                   <= mailed[l][s] + Cardinality(Behind(l, s)) + 1
              /\ mailed'[l][s] + Cardinality(Mailers(l, s))
                   <= mailed[l][s] + Cardinality(Mailers(l, s)') + 1
        BY <2>1, <2>2, <2>3, CountsNat
      <3> QED BY <1>1, <1>4, <3>1, <3>2, <3>3, Numbers
    <2>5. CASE Mail(w)
      <3>1. disturbed'[l] = disturbed[l] + 0
        BY <1>1, <2>2, <2>5, FaultsTyped DEF Mail
      <3>2. Open(l, 0)' <= Open(l, 0) + 0
        BY <2>3, CountsNat
      <3>3. worker'[w].pc = "advance"
        BY <1>1, <2>5, Turning DEF Turns
      <3>4. PICK n \in 1 .. Length[l] : n = worker[w].step /\ n = worker'[w].step
        BY <1>3, <2>1
      <3>5. LogOf(w)' = l /\ n \in Nat
        <4>1. Length[l] \in Nat
          BY IdsAre
        <4> QED BY <1>3, <1>9, <4>1 DEF LogOf
      <3>6. /\ w \in Senders(l, n) /\ w \notin Senders(l, n)'
            /\ w \in Behind(l, n) /\ w \notin Behind(l, n)'
            /\ w \notin Mailers(l, n) /\ w \in Mailers(l, n)'
        BY <1>1, <1>3, <1>9, <3>3, <3>4, <3>5 DEF Senders, Behind, Reader, Mailers
      <3>7. ASSUME NEW s \in 1 .. Length[l]
            PROVE  /\ mailed'[l][s] + Open(l, s)' <= mailed[l][s] + Open(l, s) + 0
                   /\ mailed'[l][s] + Cardinality(Behind(l, s)')
                        <= mailed[l][s] + Cardinality(Behind(l, s)) + 0
                   /\ mailed'[l][s] + Cardinality(Mailers(l, s))
                        <= mailed[l][s] + Cardinality(Mailers(l, s)') + 0
        <4>1. CASE s = n
          <5>1. mailed'[l][s] = mailed[l][s] + 1 /\ mailed[l][s] \in Nat
            BY <2>1, <2>2, <3>4, <4>1
          <5>2. Cardinality(Chances(l)') <= Cardinality(Chances(l))
            BY <1>6, SetsFinite, AtMostOneMore
          <5>3. Cardinality(Senders(l, s)') <= Cardinality(Senders(l, s)) - 1
            BY <1>7, <3>6, <4>1, SetsFinite, AtMostOneMore
          <5>4. Cardinality(Behind(l, s)') <= Cardinality(Behind(l, s)) - 1
            BY <1>7, <3>6, <4>1, SetsFinite, AtMostOneMore
          <5>5. Cardinality(Mailers(l, s)) <= Cardinality(Mailers(l, s)') - 1
            BY <1>7, <3>6, <4>1, SetsFinite, AtMostOneMore
          <5> QED BY <5>1, <5>2, <5>3, <5>4, <5>5, CountsNat
        <4>2. CASE s # n
          BY <2>1, <2>2, <2>3, <3>4, <4>2, CountsNat
        <4> QED BY <4>1, <4>2
      <3> QED BY <1>1, <1>4, <3>1, <3>2, <3>7, Numbers
    <2> QED BY <2>4, <2>5
  <1> QED BY <1>8, <1>9

\* A worker writes the step it has mailed: the next one may be claimed, and the
\* steps between the two may be, if it writes a step back.
LEMMA ClaimsAdvanced ==
  ASSUME SendsTyped, NEW w \in Workers, AdvanceStep(w), NEW l \in Logs, l = LogOf(w),
         \A v \in Workers : Reader(v, l)' => Reader(v, l) /\ worker'[v].step = worker[v].step
  PROVE  \A k \in 1 .. Length[l] :
           InReach(l, k)' => \/ InReach(l, k)
                             \/ k = worker[w].step + 1 /\ worker[w].step > log[l].step
  <1> DEFINE p == worker[w].step
  <1>1. /\ Reader(w, l) /\ p \in Nat /\ log[l].step \in Nat /\ claimed[l] \in Nat
        /\ Length[l] \in Nat /\ log'[l].step = p /\ claimed'[l] = claimed[l]
    <2>1. worker[w].pc = "advance" /\ UNCHANGED claimed /\ SendTyped
      BY DEF AdvanceStep, Running, SendsTyped
    <2>2. p \in Nat /\ log'[l].step = p
      BY <2>1, SenderTypes, Writing
    <2> QED BY <2>1, <2>2, IdsAre DEF Reader, SendTyped
  <1> SUFFICES ASSUME NEW k \in 1 .. Length[l], InReach(l, k)',
                      ~(k = p + 1 /\ p > log[l].step)
               PROVE  InReach(l, k)
    OBVIOUS
  <1>2. k \in Nat
    BY <1>1
  <1> HIDE DEF p
  <1>3. \/ k <= log[l].step + 1
        \/ k <= claimed[l]
        \/ \E v \in Workers : Reader(v, l) /\ k <= worker[v].step
    <2>1. CASE \E v \in Workers : Reader(v, l)' /\ k <= worker'[v].step
      BY <2>1
    <2>2. CASE k <= p + 1
      <3>1. k <= p \/ k <= log[l].step + 1
        BY <1>1, <1>2, <2>2
      <3> QED BY <1>1, <3>1 DEF p
    <2>3. CASE k <= claimed[l]
      BY <2>3
    <2> QED BY <1>1, <2>1, <2>2, <2>3 DEF InReach
  <1>4. \/ k > log[l].step
        \/ claimed[l] # 0 /\ k >= claimed[l]
        \/ \E v \in Workers : Reader(v, l) /\ k > worker[v].step
    <2>1. CASE \E v \in Workers : Reader(v, l)' /\ k > worker'[v].step
      BY <2>1
    <2>2. CASE k > p
      BY <1>1, <2>2 DEF p
    <2> QED BY <1>1, <2>1, <2>2 DEF InReach
  <1> QED BY <1>3, <1>4 DEF InReach

\* The write of the step takes its worker out of the sends: that pays for the next
\* step, and for the steps that a write backwards opens again.
LEMMA MailsAdvanced ==
  ASSUME SendsTyped, SendsTyped', NEW l \in Logs, MailsOf(l), NEW w \in Workers,
         AdvanceStep(w)
  PROVE  MailsOf(l)'
  <1> DEFINE p == worker[w].step
  <1>1. /\ UNCHANGED <<claimed, mailed, disturbed, queue>> /\ SendTyped
        /\ worker[w].pc = "advance"
    BY DEF SendsTyped, AdvanceStep, NoFault, counted, Running
  <1>2. \A v \in Workers : v # w => /\ worker'[v].pc = worker[v].pc
                                    /\ worker'[v].id = worker[v].id
                                    /\ worker'[v].step = worker[v].step
    BY <1>1, OtherWorkers DEF Runs
  <1>3. worker'[w].id = worker[w].id /\ worker'[w].pc = "done"
    BY <1>1, Turning DEF Turns
  <1>4. ReadersKept(l)
    BY <1>1, <1>2, <1>3 DEF ReadersKept, Reader, LogOf
  <1>5. CASE l # LogOf(w)
    <2>1. log'[l].step = log[l].step
      BY <1>5, Writing
    <2>2. \A k \in 1 .. Length[l] : InReach(l, k)' => InReach(l, k)
      BY <1>1, <1>4, <2>1, FewerClaims DEF ReadersKept
    <2>3. Chances(l)' \subseteq Chances(l)
      BY <1>1, <2>2, ChancesCalm
    <2>4. worker'[w].id[1] # l
      BY <1>3, <1>5 DEF LogOf
    <2>5. \A s : /\ Senders(l, s)' \subseteq Senders(l, s)
                 /\ Behind(l, s)' \subseteq Behind(l, s)
                 /\ Mailers(l, s) \subseteq Mailers(l, s)'
      BY <1>2, <1>5, <2>4, RolesKept
    <2> QED BY <1>1, <1>4, <2>1, <2>3, <2>5, Calm
  <1>6. CASE l = LogOf(w)
    <2>1. /\ p \in Nat /\ p # 0 /\ p \in 1 .. Length[l] /\ log[l].step \in Nat
          /\ disturbed[l] \in Nat /\ Length[l] \in Nat /\ log'[l].step = p
      <3>1. p \in 1 .. Length[l] /\ log'[l].step = p
        BY <1>6, Writing
      <3>2. Length[l] \in Nat /\ log[l].step \in Nat /\ disturbed[l] \in Nat
        BY <1>1, IdsAre DEF SendTyped
      <3> QED BY <3>1, <3>2
    <2>2. \A k \in 1 .. Length[l] :
            InReach(l, k)' => InReach(l, k) \/ (k = p + 1 /\ p > log[l].step)
      BY <1>4, <1>6, ClaimsAdvanced DEF ReadersKept
    <2> DEFINE next == <<l, p + 1>>
    <2>3. /\ Chances(l)' \subseteq Chances(l) \cup {next}
          /\ p <= log[l].step => Chances(l)' \subseteq Chances(l)
      <3>1. ASSUME NEW i \in Chances(l)'
            PROVE  i \in Chances(l) \/ (i = next /\ p > log[l].step)
        <4>1. /\ i \in Ids /\ i[1] = l /\ queue'[i] = queue[i]
              /\ \/ queue[i].st = "waiting"
                 \/ queue[i].st = "absent" /\ i[2] <= Length[l] /\ InReach(l, i[2])'
          BY <1>1, <3>1 DEF Chances
        <4>2. i = <<i[1], i[2]>> /\ i[2] \in 1 .. Length[i[1]] + MaxDefers
          BY <4>1, IdsAre
        <4>3. i[2] <= Length[l] => i[2] \in 1 .. Length[l]
          BY <2>1, <4>2
        <4> QED BY <2>2, <4>1, <4>2, <4>3 DEF Chances
      <3> QED BY <2>1, <3>1
    <2>4. /\ LogOf(w)' = l /\ Reader(w, l)
          /\ \A v \in Workers : Reader(v, l)' => v # w /\ Reader(v, l) /\ worker'[v].step = worker[v].step
      BY <1>1, <1>3, <1>4, <1>6 DEF Reader, LogOf, ReadersKept
    <2>5. \A s : /\ Senders(l, s)' \subseteq Senders(l, s)
                 /\ w \notin Senders(l, s)'
                 /\ s # p => w \in Senders(l, s) /\ Mailers(l, s) \subseteq Mailers(l, s)'
                 /\ Behind(l, s)' \subseteq Behind(l, s)
                 /\ p < s => w \in Behind(l, s)
      <3>1. ASSUME NEW s, NEW v \in Senders(l, s)'
            PROVE  v \in Senders(l, s) /\ v # w
        BY <1>2, <1>3, <3>1 DEF Senders, LogOf
      <3>2. ASSUME NEW s, NEW v \in Behind(l, s)'
            PROVE  v \in Behind(l, s)
        BY <1>2, <1>3, <3>2 DEF Behind, Reader, LogOf
      <3>3. ASSUME NEW s, s # p, NEW v \in Mailers(l, s)
            PROVE  v \in Mailers(l, s)'
        BY <1>2, <3>3 DEF Mailers, LogOf
      <3>4. ASSUME NEW s
            PROVE  /\ s # p => w \in Senders(l, s)
                   /\ p < s => w \in Behind(l, s)
        BY <1>1, <1>6, <2>4 DEF Senders, Behind
      <3> QED BY <3>1, <3>2, <3>3, <3>4
    <2> HIDE DEF p, next
    <2>6. ASSUME NEW s
          PROVE  /\ s # p => Open(l, s)' <= Open(l, s)
                 /\ s # p /\ p <= log[l].step => Open(l, s)' <= Open(l, s) - 1
                 /\ Open(l, s)' <= Open(l, s) + 1
                 /\ p <= log[l].step => Open(l, s)' <= Open(l, s)
                 /\ Cardinality(Behind(l, s)') <= Cardinality(Behind(l, s))
                 /\ p < s => Cardinality(Behind(l, s)) > 0
                 /\ s # p => Cardinality(Mailers(l, s)) <= Cardinality(Mailers(l, s)')
      <3>1. /\ Cardinality(Chances(l)') <= Cardinality(Chances(l)) + 1
            /\ p <= log[l].step => Cardinality(Chances(l)') <= Cardinality(Chances(l))
        BY <2>3, SetsFinite, AtMostOneMore
      <3>2. /\ Cardinality(Senders(l, s)') <= Cardinality(Senders(l, s))
            /\ s # p => Cardinality(Senders(l, s)') <= Cardinality(Senders(l, s)) - 1
        BY <2>5, SetsFinite, AtMostOneMore
      <3>3. /\ Cardinality(Behind(l, s)') <= Cardinality(Behind(l, s))
            /\ s # p => Cardinality(Mailers(l, s)) <= Cardinality(Mailers(l, s)')
        BY <2>5, SetsFinite, AtMostOneMore
      <3>4. p < s => Cardinality(Behind(l, s)) > 0
        <4> SUFFICES ASSUME p < s
                     PROVE  Cardinality(Behind(l, s)) > 0
          OBVIOUS
        <4>1. Behind(l, s) # {}
          BY <2>5
        <4>2. Cardinality(Behind(l, s)) # 0
          BY <4>1, SetsFinite, FS_EmptySet
        <4> QED BY <4>2, CountsNat
      <3> QED BY <3>1, <3>2, <3>3, <3>4, CountsNat
    <2>7. OneSend(l)'
      <3>1. Open(l, 0)' <= Open(l, 0)
        BY <2>1, <2>6
      <3> QED BY <1>1, <2>1, <3>1, CountsNat DEF MailsOf, OneSend
    <2>8. ASSUME NEW s \in 1 .. Length[l]
          PROVE  OneMail(l, s)'
      <3>1. mailed[l][s] \in Nat /\ s \in Nat
        BY <2>1 DEF SendsTyped
      <3>2. /\ mailed[l][s] + Cardinality(Behind(l, s)) <= 1 + disturbed[l]
            /\ log[l].step < s => /\ mailed[l][s] + Open(l, s) <= 1 + disturbed[l]
                                  /\ mailed[l][s] <= disturbed[l] + Cardinality(Mailers(l, s))
            /\ (\E v \in Workers : Reader(v, l) /\ worker[v].step < s) =>
                 mailed[l][s] + Open(l, s) <= 2 + disturbed[l]
        BY DEF MailsOf, OneMail
      <3>3. p < s => mailed[l][s] + Open(l, s) <= 2 + disturbed[l]
        BY <2>4, <3>2 DEF p
      <3>4. mailed[l][s] + Cardinality(Behind(l, s)') <= 1 + disturbed[l]
        BY <2>1, <2>6, <3>1, <3>2, CountsNat
      <3>5. ASSUME p < s
            PROVE  /\ mailed[l][s] + Open(l, s)' <= 1 + disturbed[l]
                   /\ mailed[l][s] <= disturbed[l] + Cardinality(Mailers(l, s)')
        <4>1. s # p
          BY <2>1, <3>1, <3>5
        <4>2. CASE log[l].step < s
          BY <2>1, <2>6, <3>1, <3>2, <4>1, <4>2, CountsNat
        <4>3. CASE ~(log[l].step < s)
          <5>1. p <= log[l].step
            BY <2>1, <3>1, <3>5, <4>3
          <5>2. Open(l, s)' <= Open(l, s) - 1 /\ Cardinality(Behind(l, s)) > 0
            BY <2>6, <3>5, <4>1, <5>1
          <5> QED BY <2>1, <3>1, <3>2, <3>3, <3>5, <5>2, CountsNat
        <4> QED BY <4>2, <4>3
      <3>6. ASSUME \E v \in Workers : Reader(v, l)' /\ worker'[v].step < s
            PROVE  mailed[l][s] + Open(l, s)' <= 2 + disturbed[l]
        <4>1. mailed[l][s] + Open(l, s) <= 2 + disturbed[l]
          BY <2>4, <3>2, <3>6
        <4>2. CASE s # p \/ p <= log[l].step
          <5>1. Open(l, s)' <= Open(l, s)
            BY <2>6, <4>2
          <5> QED BY <2>1, <3>1, <4>1, <5>1, CountsNat
        <4>3. CASE s = p /\ log[l].step < p
          <5>1. mailed[l][s] + Open(l, s) <= 1 + disturbed[l] /\ Open(l, s)' <= Open(l, s) + 1
            BY <2>6, <3>2, <4>3
          <5> QED BY <2>1, <3>1, <5>1, CountsNat
        <4> QED BY <2>1, <4>2, <4>3
      <3> QED BY <1>1, <2>1, <3>4, <3>5, <3>6 DEF OneMail
    <2> QED BY <2>7, <2>8 DEF MailsOf
  <1> QED BY <1>5, <1>6

(***************************************************************************)
(* The mails: every step.                                                  *)
(***************************************************************************)

\* The window, the clock, the tick, the reply and retention.
LEMMA MailsScheduled ==
  ASSUME SendsTyped, SendsTyped', NEW l \in Logs, MailsOf(l),
         \/ WindowElapses
         \/ \E k \in Logs : BecomesDue(k) \/ Tick(k) \/ EnqueueFails(k) \/ Reply(k)
         \/ \E i \in Ids : Expire(i) /\ i[1] # l
  PROVE  MailsOf(l)'
  <1>1. SendTyped /\ UNCHANGED <<worker, disturbed, mailed>>
    BY DEF SendsTyped, WindowElapses, BecomesDue, Tick, ClaimDue, EnqueueStep, EnqueueFails, Reply,
       Expire, NoFault, BreakCleanly
  <1>2. /\ DOMAIN claimed = Logs /\ queue \in [Ids -> BullMQ!Records]
        /\ log \in [Logs -> [status : {"enrolled", "active", "completed", "replied"}, step : Nat]]
    BY DEF SendsTyped, SendTyped
  <1>3. CASE \/ WindowElapses
             \/ \E k \in Logs : BecomesDue(k) \/ ClaimDue(k) \/ EnqueueFails(k)
    <2>1. UNCHANGED <<log, queue>>
      BY <1>3 DEF WindowElapses, BecomesDue, ClaimDue, EnqueueFails, enrollmentVars
    <2>2. claimed'[l] \in {0, claimed[l], log[l].step + 1}
      BY <1>2, <1>3 DEF WindowElapses, BecomesDue, ClaimDue, EnqueueFails, enrollmentVars
    <2> QED BY <1>1, <2>1, <2>2, MailsKept
  <1>4. ASSUME NEW k \in Logs, Reply(k)
        PROVE  MailsOf(l)'
    <2>1. log'[l].step = log[l].step
      BY <1>2, <1>4 DEF Reply
    <2> QED BY <1>1, <1>4, <2>1, MailsKept DEF Reply
  <1>5. ASSUME NEW k \in Logs, EnqueueStep(k)
        PROVE  MailsOf(l)'
    <2>1. UNCHANGED log /\ claimed'[l] \in {0, claimed[l]}
      BY <1>2, <1>5 DEF EnqueueStep
    <2> DEFINE job == <<k, claimed[k]>>
    <2>2. job \in Ids /\ AddedOne(job) /\ claimed[k] # 0
      BY <1>1, <1>5, Enqueuing
    <2>3. queue[job].st # "absent" => queue' = queue
      BY <1>2, <1>5 DEF EnqueueStep, BullMQ!Added
    <2>4. \A i \in Ids : i[1] = l =>
            \/ queue'[i] = queue[i]
            \/ /\ claimed[l] # 0 /\ i = <<l, claimed[l]>> /\ queue[i].st = "absent"
      BY <2>2, <2>3 DEF AddedOne
    <2> QED BY <1>1, <2>1, <2>4, MailsKept
  <1>6. ASSUME NEW i \in Ids, Expire(i), i[1] # l
        PROVE  MailsOf(l)'
    <2>1. UNCHANGED <<log, claimed>> /\ \A j \in Ids : j # i => queue'[j] = queue[j]
      BY <1>2, <1>6 DEF Expire, enrollmentVars
    <2> QED BY <1>1, <1>6, <2>1, MailsKept
  <1> QED BY <1>3, <1>4, <1>5, <1>6 DEF Tick

\* Every step keeps the bounds of the mails.
LEMMA MailStep ==
  ASSUME SendsTyped, SendsTyped', MailInv, [SendNext]_sendVars
  PROVE  MailInv'
  <1> SUFFICES ASSUME NEW l \in Logs
               PROVE  MailsOf(l)'
    BY DEF MailInv
  <1>1. MailsOf(l)
    BY DEF MailInv
  <1>2. CASE \/ WindowElapses
             \/ \E k \in Logs : BecomesDue(k) \/ Tick(k) \/ EnqueueFails(k) \/ Reply(k)
    BY <1>1, <1>2, MailsScheduled
  <1>3. ASSUME NEW i \in Ids, Expire(i)
        PROVE  MailsOf(l)'
    BY <1>1, <1>3, MailsScheduled, MailsExpire
  <1>4. ASSUME NEW i \in Ids, NEW w \in Workers, Take(w, i)
        PROVE  MailsOf(l)'
    BY <1>1, <1>4, MailsTaken
  <1>5. ASSUME NEW w \in Workers, Runs(w)
        PROVE  MailsOf(l)'
    <2>1. CASE ReadLog(w)
      <3>1. worker'[w].pc \in {"mail", "refund"}
        BY <2>1, Turning DEF SendsTyped, Turns
      <3> QED BY <1>1, <2>1, <3>1, MailsRead, MailsCalm
    <2>2. CASE ~ReadLog(w)
      BY <1>1, <1>5, <2>2, MailsCalm, MailsPutBack, MailsSent, MailsAdvanced DEF Runs
    <2> QED BY <2>1, <2>2
  <1>6. ASSUME NEW w \in Workers, Breaks(w)
        PROVE  MailsOf(l)'
    BY <1>1, <1>6, MailsCalm, MailsSent, MailsDisturbed DEF Breaks
  <1>7. CASE UNCHANGED sendVars
    <2>1. UNCHANGED <<log, claimed, queue, worker, mailed, disturbed>>
      BY <1>7 DEF sendVars, enrollmentVars, counted, history
    <2> QED BY <1>1, <2>1, MailsKept
  <1>8. ASSUME NEW i \in Ids, Evict(i)
        PROVE  MailsOf(l)'
    BY <1>1, <1>8, MailsEvicted
  <1>9. ASSUME NEW w \in Workers, NEW k \in Logs, SendInline(w, k)
        PROVE  MailsOf(l)'
    BY <1>1, <1>9, MailsByHand
  <1> QED BY <1>2, <1>3, <1>4, <1>5, <1>6, <1>7, <1>8, <1>9 DEF SendNext

\* Nothing is under way at first: the only job a tick may add is the first step's.
LEMMA MailInit ==
  ASSUME SendInit, SendsTyped
  PROVE  MailInv
  <1> SUFFICES ASSUME NEW l \in Logs
               PROVE  MailsOf(l)
    BY DEF MailInv
  <1> DEFINE first == <<l, 1>>
  <1>1. /\ log[l].step = 0 /\ claimed[l] = 0 /\ disturbed[l] = 0
        /\ \A s \in 1 .. Length[l] : mailed[l][s] = 0
        /\ \A i \in Ids : queue[i].st = "absent"
        /\ \A w \in Workers : worker[w].pc = "idle"
    BY FreeIs, RecordsStay DEF SendInit
  <1>2. \A w \in Workers : ~Reader(w, l)
    BY <1>1 DEF Reader
  <1>3. Chances(l) \subseteq {first}
    <2> SUFFICES ASSUME NEW i \in Chances(l)
                 PROVE  i = first
      OBVIOUS
    <2>1. i \in Ids /\ i[1] = l /\ InReach(l, i[2])
      BY <1>1 DEF Chances
    <2>2. i = <<i[1], i[2]>> /\ i[2] \in Nat /\ i[2] # 0
      BY <2>1, IdsAre
    <2>3. i[2] <= 0 + 1
      BY <1>1, <1>2, <2>1, <2>2 DEF InReach
    <2>4. i[2] = 1
      BY <2>2, <2>3
    <2> QED BY <2>1, <2>2, <2>4
  <1> HIDE DEF first
  <1>4. \A s : Senders(l, s) = {} /\ Behind(l, s) = {} /\ Mailers(l, s) = {}
    BY <1>1, <1>2 DEF Senders, Behind, Mailers
  <1>5. ASSUME NEW s
        PROVE  Open(l, s) \in Nat /\ Open(l, s) <= 1 /\ Cardinality(Behind(l, s)) = 0
               /\ Cardinality(Mailers(l, s)) = 0
    <2>1. Cardinality(Chances(l)) <= 1
      <3>1. IsFiniteSet({first}) /\ Cardinality({first}) = 1
        BY FS_Singleton
      <3>2. Chances(l) \in SUBSET {first}
        BY <1>3
      <3> QED BY <3>1, <3>2, FS_Subset
    <2>2. Cardinality({}) = 0
      BY FS_EmptySet
    <2> QED BY <1>4, <2>1, <2>2, CountsNat
  <1>6. OneSend(l)
    BY <1>1, <1>5 DEF OneSend
  <1>7. ASSUME NEW s \in 1 .. Length[l]
        PROVE  OneMail(l, s)
    BY <1>1, <1>2, <1>5 DEF OneMail
  <1> QED BY <1>6, <1>7 DEF MailsOf

(***************************************************************************)
(* The delay of a step.                                                    *)
(***************************************************************************)

\* An enrollment keeps resting when its rows, jobs and workers stay as they are.
LEMMA StillResting ==
  ASSUME SendsTyped, NEW l \in Logs, Resting(l), claimed'[l] \in {0, claimed[l]},
         \A i \in Ids : i[1] = l => \/ queue'[i].st = queue[i].st
                                    \/ queue'[i].st \notin {"absent", "waiting"}
                                    \/ queue'[i].st = "absent" /\ claimed'[l] = 0,
         Senders(l, 0)' \subseteq Senders(l, 0)
  PROVE  Resting(l)'
  <1>1. \A i \in Ids : i[1] = l => i[2] \in Nat /\ i[2] # 0
    <2> SUFFICES ASSUME NEW i \in Ids
                 PROVE  i[2] \in Nat /\ i[2] # 0
      OBVIOUS
    <2>1. i[2] \in 1 .. Length[i[1]] + MaxDefers
      BY IdsAre
    <2> QED BY <2>1
  <1>2. \A i \in Ids : i[1] = l =>
          queue[i].st # "waiting" /\ (i[2] = claimed[l] => queue[i].st # "absent")
    BY DEF Resting
  <1>3. ASSUME NEW i \in Ids, i[1] = l
        PROVE  queue'[i].st # "waiting" /\ (i[2] = claimed'[l] => queue'[i].st # "absent")
    BY <1>1, <1>2, <1>3
  <1>4. Senders(l, 0)' = {}
    BY DEF Resting
  <1> QED BY <1>3, <1>4 DEF Resting

\* Who writes a step of an undisturbed enrollment is its only send.
LEMMA RestsAfterWriting ==
  ASSUME SendsTyped, NEW l \in Logs, MailsOf(l), disturbed[l] = 0,
         NEW w \in Workers, AdvanceStep(w), LogOf(w) = l
  PROVE  Resting(l)'
  <1>1. /\ worker[w].pc = "advance" /\ UNCHANGED <<claimed, queue>> /\ SendTyped
    BY DEF AdvanceStep, Running, SendsTyped, counted
  <1>2. worker[w].step # 0
    BY Writing
  <1>3. w \in Senders(l, 0)
    BY <1>1, <1>2 DEF Senders
  <1>4. /\ Cardinality(Chances(l)) \in Nat /\ Cardinality(Senders(l, 0)) \in Nat
        /\ Cardinality(Chances(l)) + Cardinality(Senders(l, 0)) <= 1
    BY CountsNat DEF MailsOf, OneSend
  <1>5. /\ Cardinality({}) = 0
        /\ Cardinality(Senders(l, 0)) = 0 => Senders(l, 0) = {}
        /\ Cardinality(Chances(l)) = 0 => Chances(l) = {}
    BY SetsFinite, FS_EmptySet
  <1>6. Chances(l) = {} /\ Cardinality(Senders(l, 0)) = 1
    <2>1. Cardinality(Senders(l, 0)) # 0
      BY <1>3, <1>5
    <2> QED BY <1>4, <1>5, <2>1
  <1>7. Senders(l, 0) = {w}
    <2>1. PICK v : Senders(l, 0) = {v}
      BY <1>6, SetsFinite, FS_Singleton
    <2> QED BY <1>3, <2>1
  <1>8. Senders(l, 0)' = {}
    <2> SUFFICES ASSUME NEW v \in Senders(l, 0)'
                 PROVE  FALSE
      OBVIOUS
    <2>1. worker'[w].pc = "done"
      BY <1>1, Turning DEF Turns
    <2>2. v # w /\ v \in Workers
      BY <2>1 DEF Senders
    <2>3. worker'[v].pc = worker[v].pc /\ worker'[v].id = worker[v].id /\ worker'[v].step = worker[v].step
      BY <1>1, <2>2, OtherWorkers DEF Runs
    <2>4. v \in Senders(l, 0)
      BY <2>3 DEF Senders, LogOf
    <2> QED BY <1>7, <2>2, <2>4
  <1>9. ASSUME NEW i \in Ids, i[1] = l
        PROVE  queue[i].st # "waiting" /\ (i[2] = claimed[l] => queue[i].st # "absent")
    <2>1. queue[i].st # "waiting"
      BY <1>6, <1>9 DEF Chances
    <2>2. ASSUME i[2] = claimed[l], queue[i].st = "absent"
          PROVE  FALSE
      <3>1. i[2] \in 1 .. Length[i[1]] + MaxDefers
        BY IdsAre
      <3>2. claimed[l] \in 0 .. Length[l] /\ Length[l] \in Nat
        BY <1>1, IdsAre DEF SendTyped
      <3>3. claimed[l] \in Nat /\ claimed[l] # 0 /\ claimed[l] <= Length[l]
        BY <2>2, <3>1, <3>2
      <3>4. InReach(l, claimed[l])
        BY <3>3 DEF InReach
      <3>5. i \in Chances(l)
        BY <1>9, <2>2, <3>3, <3>4 DEF Chances
      <3> QED BY <1>6, <3>5
    <2> QED BY <2>1, <2>2
  <1> QED BY <1>1, <1>8, <1>9 DEF Resting

\* A step of a worker that writes nothing.
LEMMA RestsWorking ==
  ASSUME SendsTyped, NEW l \in Logs, Resting(l), disturbed[l] = 0, disturbed'[l] = 0,
         NEW w \in Workers, ~AdvanceStep(w) \/ LogOf(w) # l,
         Runs(w) \/ Breaks(w) \/ \E i \in Ids : Take(w, i)
  PROVE  Resting(l)'
  <1>1. SendTyped /\ LogOf(w) \in Logs /\ UNCHANGED claimed
    BY SenderTypes DEF SendsTyped, Runs, Breaks, Gate, GateRefuses, Throttled, RefundUnit, Defer,
       ReadLog, Mail, AdvanceStep, Finish, Fail, ThrottleFails, RefundFails, DeferFails,
       NothingLeaves, MailUnheard, Leaves, AdvanceFails, WorkerDies, DeadlinePasses, LockExpires,
       Orphaned, Take, enrollmentVars
  <1>2. \A v \in Workers : v # w => /\ worker'[v].pc = worker[v].pc
                                    /\ worker'[v].id = worker[v].id
                                    /\ worker'[v].step = worker[v].step
    BY <1>1, OtherWorkers
  <1>3. \A i \in Ids : i[1] = l => queue[i].st # "waiting"
    BY DEF Resting
  <1>4. LogOf(w) = l => worker[w].pc \in {"idle", "done"}
    <2> SUFFICES ASSUME LogOf(w) = l, worker[w].pc \notin {"idle", "done"}
                 PROVE  FALSE
      OBVIOUS
    <2>1. worker[w].pc = "advance" => worker[w].step \in 1 .. Length[LogOf(w)]
      BY DEF SendsTyped
    <2>2. worker[w].pc = "advance" => worker[w].step # 0
      BY <1>1, <2>1, IdsAre
    <2>3. w \in Senders(l, 0)
      BY <2>2 DEF Senders
    <2> QED BY <2>3 DEF Resting
  <1>5. CASE LogOf(w) = l /\ ~\E i \in Ids : Take(w, i)
    <2>1. ~(WorkerDies(w) \/ DeadlinePasses(w) \/ LockExpires(w))
      BY <1>1, <1>5, FaultsTyped DEF WorkerDies, DeadlinePasses, LockExpires, Orphaned
    <2>2. Finish(w)
      BY <1>4, <1>5, <2>1 DEF Runs, Breaks, Gate, GateRefuses, Throttled, RefundUnit, Defer,
         ReadLog, Mail, AdvanceStep, Fail, ThrottleFails, RefundFails, DeferFails,
         NothingLeaves, MailUnheard, Leaves, AdvanceFails, Running
    <2>3. worker'[w].pc = "idle"
      BY <1>1, <2>2, Turning, FreeIs DEF Frees
    <2>4. Senders(l, 0)' \subseteq Senders(l, 0)
      BY <1>2, <2>3 DEF Senders, LogOf
    <2>5. \A i \in Ids : queue'[i].st = queue[i].st \/ queue'[i].st \notin {"absent", "waiting"}
      BY <1>1, <2>2, Ending
    <2> QED BY <1>1, <2>4, <2>5, StillResting
  <1>6. ASSUME NEW j \in Ids, Take(w, j)
        PROVE  Resting(l)'
    <2>1. queue[j].st = "waiting"
      BY <1>6 DEF Take
    <2>2. j[1] # l
      BY <1>3, <2>1
    <2>3. worker'[w].id = j
      BY <1>1, <1>6, Turning
    <2>4. Senders(l, 0)' \subseteq Senders(l, 0)
      BY <1>2, <2>2, <2>3 DEF Senders, LogOf
    <2>5. \A i \in Ids : i[1] = l => queue'[i] = queue[i]
      BY <1>1, <1>6, <2>2 DEF Take, SendTyped
    <2> QED BY <1>1, <2>4, <2>5, StillResting
  <1>7. CASE LogOf(w) # l /\ ~\E i \in Ids : Take(w, i)
    <2>1. \A i \in Ids : i[1] = l => queue'[i] = queue[i]
      <3>1. CASE Finish(w) \/ Fail(w) \/ WorkerDies(w) \/ DeadlinePasses(w) \/ LockExpires(w)
        BY <1>1, <1>7, <3>1, Ending DEF LogOf
      <3>2. CASE Defer(w)
        BY <1>1, <1>7, <3>2, Deferring1 DEF AddedOne
      <3>3. CASE ~(Finish(w) \/ Fail(w) \/ WorkerDies(w) \/ DeadlinePasses(w) \/ LockExpires(w)
                   \/ Defer(w))
        BY <1>7, <3>3 DEF Runs, Breaks, Gate, GateRefuses, Throttled, RefundUnit,
           ReadLog, Mail, AdvanceStep, ThrottleFails, RefundFails, DeferFails,
           NothingLeaves, MailUnheard, Leaves, AdvanceFails
      <3> QED BY <3>1, <3>2, <3>3
    <2>2. worker'[w].pc = "idle" \/ worker'[w].id = worker[w].id
      BY <1>1, <1>7, Turning, FreeIs DEF Turns, Frees, Runs, Breaks
    <2>3. Senders(l, 0)' \subseteq Senders(l, 0)
      BY <1>2, <1>7, <2>2 DEF Senders, LogOf
    <2> QED BY <1>1, <2>1, <2>3, StillResting
  <1> QED BY <1>5, <1>6, <1>7

\* The clock, the tick, the reply and retention.
LEMMA RestsScheduled ==
  ASSUME SendsTyped, NEW l \in Logs, Resting(l), clock'[l] = "delay",
         \/ WindowElapses
         \/ \E k \in Logs : BecomesDue(k) \/ Tick(k) \/ EnqueueFails(k) \/ Reply(k)
         \/ \E i \in Ids : Expire(i)
         \/ UNCHANGED sendVars
  PROVE  Resting(l)'
  <1>1. SendTyped /\ UNCHANGED worker
    BY DEF SendsTyped, WindowElapses, BecomesDue, Tick, ClaimDue, EnqueueStep, EnqueueFails, Reply,
       Expire, sendVars
  <1>2. /\ DOMAIN claimed = Logs /\ queue \in [Ids -> BullMQ!Records]
        /\ clock \in [Logs -> {"delay", "due", "leased"}]
    BY DEF SendsTyped, SendTyped
  <1>3. Senders(l, 0)' = Senders(l, 0)
    BY <1>1 DEF Senders, LogOf
  <1>4. CASE \/ WindowElapses
             \/ \E k \in Logs : BecomesDue(k) \/ ClaimDue(k) \/ EnqueueFails(k) \/ Reply(k)
             \/ UNCHANGED sendVars
    <2>1. UNCHANGED queue
      BY <1>4 DEF WindowElapses, BecomesDue, ClaimDue, EnqueueFails, Reply, sendVars
    <2>2. claimed'[l] \in {0, claimed[l]}
      <3>1. ASSUME NEW k \in Logs, ClaimDue(k)
            PROVE  claimed'[l] = claimed[l]
        BY <1>2, <3>1 DEF ClaimDue
      <3> QED BY <1>2, <1>4, <3>1 DEF WindowElapses, BecomesDue, EnqueueFails, Reply, sendVars,
              enrollmentVars
    <2> QED BY <1>3, <2>1, <2>2, StillResting
  <1>5. ASSUME NEW k \in Logs, EnqueueStep(k)
        PROVE  Resting(l)'
    <2> DEFINE job == <<k, claimed[k]>>
    <2>1. claimed'[l] \in {0, claimed[l]}
      BY <1>2, <1>5 DEF EnqueueStep
    <2>2. job \in Ids /\ AddedOne(job)
      BY <1>1, <1>5, Enqueuing
    <2>3. k = l => queue[job].st # "absent"
      BY <2>2 DEF Resting
    <2>4. \A i \in Ids : i[1] = l => queue'[i].st = queue[i].st
      BY <2>2, <2>3 DEF AddedOne
    <2> QED BY <1>3, <2>1, <2>4, StillResting
  <1>6. ASSUME NEW j \in Ids, Expire(j)
        PROVE  Resting(l)'
    <2>1. /\ claimed'[l] = claimed[l]
          /\ j[1] = l => claimed[l] = 0
          /\ \A i \in Ids : i # j => queue'[i] = queue[i]
          /\ queue'[j].st = "absent"
      BY <1>2, <1>6, RecordsStay DEF Expire, enrollmentVars, UnderWay
    <2>2. \A i \in Ids : i[1] = l =>
            queue'[i].st = queue[i].st \/ (queue'[i].st = "absent" /\ claimed'[l] = 0)
      BY <2>1
    <2> QED BY <1>3, <2>1, <2>2, StillResting
  <1> QED BY <1>4, <1>5, <1>6 DEF Tick

\* An eviction or a send by hand, of another enrollment.
LEMMA RestsElsewhere ==
  ASSUME SendsTyped, NEW l \in Logs, Resting(l), disturbed'[l] = disturbed[l],
         \/ \E i \in Ids : Evict(i)
         \/ \E w \in Workers : \E k \in Logs : SendInline(w, k)
  PROVE  Resting(l)'
  <1>1. SendTyped /\ disturbed[l] \in Nat
    BY DEF SendsTyped, SendTyped
  <1>2. ASSUME NEW j \in Ids, Evict(j)
        PROVE  Resting(l)'
    <2>1. j[1] # l
      <3>1. j[1] \in Logs
        BY IdsAre
      <3>2. disturbed'[j[1]] = disturbed[j[1]] + 1
        BY <1>1, <1>2, <3>1, FaultsTyped DEF Evict
      <3> QED BY <1>1, <3>2
    <2>2. /\ UNCHANGED <<claimed, worker>>
          /\ \A i \in Ids : i[1] = l => queue'[i] = queue[i]
      BY <1>1, <1>2, <2>1 DEF Evict, SendTyped, enrollmentVars
    <2>3. Senders(l, 0)' = Senders(l, 0)
      BY <2>2 DEF Senders, LogOf
    <2> QED BY <2>2, <2>3, StillResting
  <1>3. ASSUME NEW w \in Workers, NEW k \in Logs, SendInline(w, k)
        PROVE  Resting(l)'
    <2>1. /\ UNCHANGED <<claimed, queue>> /\ LogOf(w)' = k
          /\ \A v \in Workers : v # w => worker'[v] = worker[v]
          /\ disturbed'[k] = disturbed[k] + 1
      BY <1>3, ByHand
    <2>2. k # l
      BY <1>1, <2>1
    <2>3. Senders(l, 0)' \subseteq Senders(l, 0)
      BY <2>1, <2>2 DEF Senders, LogOf
    <2> QED BY <2>1, <2>3, StillResting
  <1> QED BY <1>2, <1>3

\* Only a worker that writes a step starts the delay; and a fault never wears off.
LEMMA DelayStarts ==
  ASSUME SendsTyped, [SendNext]_sendVars, NEW l \in Logs, disturbed'[l] = 0
  PROVE  /\ disturbed[l] = 0
         /\ clock'[l] = "delay" => \/ clock[l] = "delay"
                                   \/ \E w \in Workers : AdvanceStep(w) /\ LogOf(w) = l
  <1>1. SendTyped /\ disturbed \in [Logs -> Nat] /\ clock \in [Logs -> {"delay", "due", "leased"}]
    BY DEF SendsTyped, SendTyped
  <1>2. disturbed[l] = 0
    <2>1. \/ UNCHANGED disturbed
          \/ \E w \in Workers : disturbed' = [disturbed EXCEPT ![LogOf(w)] = @ + 1]
          \/ \E i \in Ids : disturbed' = [disturbed EXCEPT ![i[1]] = @ + 1]
          \/ \E k \in Logs : disturbed' = [disturbed EXCEPT ![k] = @ + 1]
      BY DEF SendNext, Tick, Runs, Breaks, WindowElapses, BecomesDue, Gate,
         RefundUnit, ClaimDue, EnqueueStep, EnqueueFails, Reply, Expire, Evict, SendInline, Take, GateRefuses,
         Throttled, ThrottleFails, RefundFails, Defer, DeferFails, ReadLog, NothingLeaves,
         Mail, MailUnheard, Leaves, AdvanceStep, AdvanceFails, Finish, Fail, WorkerDies,
         DeadlinePasses, LockExpires, Orphaned, NoFault, BreakCleanly, BreakSend,
         sendVars, history
    <2>2. CASE UNCHANGED disturbed
      BY <2>2
    <2>3. ASSUME NEW k, disturbed' = [disturbed EXCEPT ![k] = @ + 1]
          PROVE  disturbed[l] = 0
      BY <1>1, <2>3
    <2> QED BY <2>1, <2>2, <2>3
  <1>3. CASE \E w \in Workers : AdvanceStep(w)
    BY <1>2, <1>3, Writing
  <1>4. CASE \E k \in Logs : BecomesDue(k) \/ ClaimDue(k)
    BY <1>1, <1>2, <1>4 DEF BecomesDue, ClaimDue
  <1>5. CASE UNCHANGED clock
    BY <1>2, <1>5
  <1>6. \/ UNCHANGED clock
        \/ \E w \in Workers : AdvanceStep(w)
        \/ \E k \in Logs : BecomesDue(k) \/ ClaimDue(k)
    BY DEF SendNext, Tick, Runs, Breaks, WindowElapses, Gate,
         RefundUnit, EnqueueStep, EnqueueFails, Reply, Expire, Evict, SendInline, Take, GateRefuses,
         Throttled, ThrottleFails, RefundFails, Defer, DeferFails, ReadLog, NothingLeaves,
         Mail, MailUnheard, Leaves, AdvanceFails, Finish, Fail, WorkerDies,
         DeadlinePasses, LockExpires, Orphaned, enrollmentVars, sendVars
  <1> QED BY <1>2, <1>3, <1>4, <1>5, <1>6

\* Every step keeps an undisturbed enrollment at rest while its delay runs.
LEMMA DelayStep ==
  ASSUME SendsTyped, MailInv, DelayInv, [SendNext]_sendVars
  PROVE  DelayInv'
  <1> SUFFICES ASSUME NEW l \in Logs, clock'[l] = "delay", disturbed'[l] = 0
               PROVE  Resting(l)'
    BY DEF DelayInv
  <1>1. disturbed[l] = 0
    BY DelayStarts
  <1>2. ASSUME NEW w \in Workers, AdvanceStep(w), LogOf(w) = l
        PROVE  Resting(l)'
    BY <1>1, <1>2, RestsAfterWriting DEF MailInv
  <1>3. CASE ~\E w \in Workers : AdvanceStep(w) /\ LogOf(w) = l
    <2>1. Resting(l)
      BY <1>1, <1>3, DelayStarts DEF DelayInv
    <2>2. ASSUME NEW w \in Workers, Runs(w) \/ Breaks(w) \/ \E i \in Ids : Take(w, i)
          PROVE  Resting(l)'
      BY <1>1, <1>3, <2>1, <2>2, RestsWorking
    <2>3. CASE \/ \E i \in Ids : Evict(i)
               \/ \E w \in Workers : \E k \in Logs : SendInline(w, k)
      BY <1>1, <2>1, <2>3, RestsElsewhere
    <2>4. CASE /\ ~\E w \in Workers : Runs(w) \/ Breaks(w) \/ \E i \in Ids : Take(w, i)
               /\ ~\E i \in Ids : Evict(i)
               /\ ~\E w \in Workers : \E k \in Logs : SendInline(w, k)
      BY <2>1, <2>4, RestsScheduled DEF SendNext
    <2> QED BY <2>2, <2>3, <2>4
  <1> QED BY <1>2, <1>3

\* Nothing is under way at first.
LEMMA DelayInit ==
  ASSUME SendInit, SendsTyped
  PROVE  DelayInv
  <1> SUFFICES ASSUME NEW l \in Logs
               PROVE  Resting(l)
    BY DEF DelayInv
  <1>1. /\ claimed[l] = 0
        /\ \A i \in Ids : queue[i].st = "absent"
        /\ \A w \in Workers : worker[w].pc = "idle"
    BY FreeIs, RecordsStay DEF SendInit
  <1>2. \A i \in Ids : i[2] # 0
    BY IdsAre
  <1> QED BY <1>1, <1>2 DEF Resting, Senders

(***************************************************************************)
(* The theorems.                                                           *)
(***************************************************************************)

\* No step mails while the delay runs, or goes on with a paused enrollment.
LEMMA ScheduleStep ==
  ASSUME SendInv, SendNext, NEW l \in Logs
  PROVE  ~MailedEarly(l) /\ (Paused(l) => UNCHANGED <<log[l], claimed[l], mailed[l]>>)
  <1>1. /\ SendsTyped /\ SendTyped /\ DOMAIN claimed = Logs
        /\ log \in [Logs -> [status : {"enrolled", "active", "completed", "replied"}, step : Nat]]
    BY DEF SendInv, SendsTyped, SendTyped
  <1>2. mailed'[l] # mailed[l] => \E w \in Workers : LogOf(w) = l /\ worker[w].pc = "mail"
    <2>1. ASSUME NEW w \in Workers, NEW pc, Leaves(w, pc)
          PROVE  worker[w].pc = "mail" /\ (mailed'[l] # mailed[l] => LogOf(w) = l)
      BY <1>1, <2>1, Mailing DEF Leaves, Running
    <2>2. \/ UNCHANGED mailed
          \/ \E w \in Workers : Leaves(w, "advance") \/ Leaves(w, "refund")
      BY DEF SendNext, Tick, Runs, Breaks, WindowElapses, BecomesDue, Gate,
         RefundUnit, ClaimDue, EnqueueStep, EnqueueFails, Reply, Expire, Evict, SendInline, Take, GateRefuses,
         Throttled, ThrottleFails, RefundFails, Defer, DeferFails, ReadLog, NothingLeaves,
         Mail, MailUnheard, AdvanceStep, AdvanceFails, Finish, Fail, WorkerDies,
         DeadlinePasses, LockExpires, Orphaned
    <2> QED BY <2>1, <2>2
  <1>3. ~MailedEarly(l)
    <2> SUFFICES ASSUME MailedEarly(l)
                 PROVE  FALSE
      OBVIOUS
    <2>1. PICK w \in Workers : LogOf(w) = l /\ worker[w].pc = "mail"
      BY <1>2 DEF MailedEarly
    <2>2. w \in Senders(l, 0)
      BY <2>1 DEF Senders
    <2>3. Senders(l, 0) = {}
      BY DEF SendInv, DelayInv, MailedEarly, Resting
    <2> QED BY <2>2, <2>3
  <1>4. ASSUME Paused(l)
        PROVE  UNCHANGED <<log[l], claimed[l], mailed[l]>>
    <2>1. /\ log[l].status = "replied" /\ claimed[l] = 0
          /\ \A w \in Workers : LogOf(w) = l => worker[w].pc = "idle"
      BY <1>4 DEF Paused, UnderWay, Running
    <2>2. mailed'[l] = mailed[l]
      BY <1>2, <2>1
    <2>3. claimed'[l] = claimed[l]
      <3>1. ASSUME NEW k \in Logs, ClaimDue(k) \/ EnqueueStep(k) \/ EnqueueFails(k)
            PROVE  claimed'[l] = claimed[l]
        <4>1. k # l
          BY <2>1, <3>1 DEF ClaimDue, Claimable, EnqueueStep, EnqueueFails
        <4> QED BY <1>1, <3>1, <4>1 DEF ClaimDue, EnqueueStep, EnqueueFails
      <3>2. \/ UNCHANGED claimed
            \/ \E k \in Logs : ClaimDue(k) \/ EnqueueStep(k) \/ EnqueueFails(k)
        BY DEF SendNext, Tick, Runs, Breaks, WindowElapses, BecomesDue, Gate, enrollmentVars,
           RefundUnit, Reply, Expire, Evict, SendInline, Take, GateRefuses,
           Throttled, ThrottleFails, RefundFails, Defer, DeferFails, ReadLog, NothingLeaves,
           Mail, MailUnheard, Leaves, AdvanceStep, AdvanceFails, Finish, Fail, WorkerDies,
           DeadlinePasses, LockExpires, Orphaned
      <3> QED BY <3>1, <3>2
    <2>4. log'[l] = log[l]
      <3>1. ASSUME NEW w \in Workers, AdvanceStep(w)
            PROVE  log'[l] = log[l]
        <4>1. LogOf(w) # l
          BY <2>1, <3>1 DEF AdvanceStep, Running
        <4> QED BY <1>1, <3>1, <4>1, Writing
      <3>2. ASSUME NEW k \in Logs, Reply(k)
            PROVE  log'[l] = log[l]
        <4>1. k # l
          BY <2>1, <3>2 DEF Reply
        <4> QED BY <1>1, <3>2, <4>1 DEF Reply
      <3>3. \/ UNCHANGED log
            \/ \E w \in Workers : AdvanceStep(w)
            \/ \E k \in Logs : Reply(k)
        BY DEF SendNext, Tick, Runs, Breaks, WindowElapses, BecomesDue, Gate, enrollmentVars,
           RefundUnit, ClaimDue, EnqueueStep, EnqueueFails, Expire, Evict, SendInline, Take, GateRefuses,
           Throttled, ThrottleFails, RefundFails, Defer, DeferFails, ReadLog, NothingLeaves,
           Mail, MailUnheard, Leaves, AdvanceFails, Finish, Fail, WorkerDies,
           DeadlinePasses, LockExpires, Orphaned
      <3> QED BY <3>1, <3>2, <3>3
    <2> QED BY <2>2, <2>3, <2>4
  <1> QED BY <1>3, <1>4

\* The three parts hold together: what a worker may send is bounded by what the tick
\* may claim and what the faults have cut off.
THEOREM SendsAlways == SendSpec => []SendInv
  <1>1. SendInit => SendInv
    <2> SUFFICES ASSUME SendInit
                 PROVE  SendInv
      OBVIOUS
    <2>1. SendsTyped
      BY SendsTypedInit
    <2> QED BY <2>1, WindowInit, MailInit, DelayInit DEF SendInv
  <1>2. SendInv /\ [SendNext]_sendVars => SendInv'
    <2> SUFFICES ASSUME SendInv, [SendNext]_sendVars
                 PROVE  SendInv'
      OBVIOUS
    <2>1. SendsTyped /\ SendTyped /\ WindowInv /\ MailInv /\ DelayInv
      BY DEF SendInv, SendsTyped
    <2>2. SendsTyped'
      BY <2>1, SendsTypedStep
    <2>3. WindowInv'
      BY <2>1, WindowStep
    <2>4. MailInv'
      BY <2>1, <2>2, MailStep
    <2>5. DelayInv'
      BY <2>1, DelayStep
    <2> QED BY <2>2, <2>3, <2>4, <2>5 DEF SendInv
  <1> QED BY <1>1, <1>2, PTL DEF SendSpec

\* sendQuotaRepository.ts: a window never mails more than its quota and the units
\* given back by mistake, and burns none but those lost with a worker or a refund.
THEOREM QuotaIsKept == SendSpec => []QuotaAccounts
  <1>1. SendInv => QuotaAccounts
    <2> SUFFICES ASSUME SendInv
                 PROVE  QuotaAccounts
      OBVIOUS
    <2>1. /\ SendTyped /\ quota.used <= Quota
          /\ mails + InFlight <= quota.used + wrong
          /\ quota.used <= mails + InFlight + lost
      BY DEF SendInv, SendsTyped, WindowInv
    <2>2. InFlight \in Nat
      BY InFlightNat
    <2>3. quota.used \in Nat /\ mails \in Nat /\ wrong \in Nat /\ lost \in Nat /\ Quota \in Nat
      BY <2>1, OutreachAssumption DEF SendTyped
    <2>4. mails <= Quota + wrong
      BY <2>1, <2>2, <2>3
    <2> QED BY <2>1, <2>4 DEF QuotaAccounts
  <1> QED BY <1>1, SendsAlways, PTL

\* retryPolicies.ts: a step is mailed once, and once more for each fault that cut off
\* a send of its enrollment.
THEOREM MailedOnce == SendSpec => []MailedOncePerDisturbance
  <1>1. SendInv => MailedOncePerDisturbance
    <2> SUFFICES ASSUME SendInv, NEW l \in Logs, NEW s \in 1 .. Length[l]
                 PROVE  mailed[l][s] <= 1 + disturbed[l]
      BY DEF MailedOncePerDisturbance
    <2>1. mailed[l][s] + Cardinality(Behind(l, s)) <= 1 + disturbed[l]
      BY DEF SendInv, MailInv, MailsOf, OneMail
    <2>2. mailed[l][s] \in Nat /\ disturbed[l] \in Nat
      BY DEF SendInv, SendsTyped, SendTyped
    <2> QED BY <2>1, <2>2, CountsNat
  <1> QED BY <1>1, SendsAlways, PTL

\* schedulerRepository.ts: the delay of a step is preserved unless a send was cut off,
\* and a reply pauses the enrollment once nothing of it is left.
THEOREM ScheduleIsKept == SendSpec => ScheduleKept
  <1> DEFINE Kept == \A l \in Logs : /\ ~MailedEarly(l)
                                     /\ Paused(l) => UNCHANGED <<log[l], claimed[l], mailed[l]>>
  <1>1. SendInv /\ [SendNext]_sendVars => [Kept]_sendVars
    BY ScheduleStep
  <1>2. SendSpec => []SendInv
    BY SendsAlways
  <1> QED BY <1>1, <1>2, PTL DEF SendSpec, ScheduleKept

=============================================================================
