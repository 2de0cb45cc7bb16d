---------------------------- MODULE WorkerOutbox ----------------------------
(***************************************************************************)
(* The transactional outbox (outboxRepository.ts) and the relay that every *)
(* worker process runs over it (outboxRelay.ts).  A row is inserted by the *)
(* transaction that needs the message.  A relay claims the pending rows,   *)
(* publishes them one after the other and settles each.  The claim's row   *)
(* locks end with its transaction, while the row stays `pending`: a second *)
(* relay can claim the row the first is publishing.                        *)
(*                                                                         *)
(* The publishers belong to the modules that compose this one: they conjoin *)
(* Publish with what the message does.                                     *)
(***************************************************************************)
EXTENDS Naturals

CONSTANTS
  Rows,        \* the messages that may be put in the outbox
  Unrouted,    \* those of a topic no publisher is registered for
  Relays,      \* the worker processes' relays
  MaxAttempts  \* MAX_PUBLISH_ATTEMPTS: claims before a row is poison

VARIABLES
  row,       \* the worker_outbox rows
  relay,     \* per relay: the claimed rows still to publish, and the one to settle
  accepted   \* history: the rows a publisher has accepted

outboxVars == <<row, relay, accepted>>

Resting == [todo |-> {}, sent |-> {}]

Init ==
  /\ row = [m \in Rows |-> [status |-> "none", attempts |-> 0]]
  /\ relay = [r \in Relays |-> Resting]
  /\ accepted = {}

\* enqueueInTx, inside the caller's transaction.
Enqueue(m) ==
  /\ row[m].status = "none"
  /\ row' = [row EXCEPT ![m].status = "pending"]
  /\ UNCHANGED <<relay, accepted>>

\* Broken variant: claiming settles the row, so a lost relay loses the message.
ClaimedAtMostOnce(r) == [status |-> "published", attempts |-> r.attempts + 1]

\* What claiming does to a pending row: an attempt, or poison.
Claimed(r) ==
  IF r.attempts < MaxAttempts THEN [r EXCEPT !.attempts = @ + 1]
  ELSE [r EXCEPT !.status = "failed"]

Due == {m \in Rows : row[m].status = "pending"}

Claim(r) ==
  /\ relay[r] = Resting
  /\ Due # {}
  /\ row' = [m \in Rows |-> IF m \in Due THEN Claimed(row[m]) ELSE row[m]]
  /\ relay' = [relay EXCEPT ![r].todo =
                 {m \in Due : row[m].attempts < MaxAttempts}]
  /\ UNCHANGED accepted

\* The rows of a batch, in any order.
Next1(r, m) == m \in relay[r].todo /\ relay[r].sent = {}

Publish(r, m) ==
  /\ Next1(r, m)
  /\ m \notin Unrouted
  /\ accepted' = accepted \cup {m}
  /\ relay' = [relay EXCEPT ![r] = [todo |-> @.todo \ {m}, sent |-> {m}]]
  /\ UNCHANGED row

\* The row stays pending; a later tick claims it again.
PublishFails(r, m) ==
  /\ Next1(r, m)
  /\ m \notin Unrouted
  /\ relay' = [relay EXCEPT ![r].todo = @ \ {m}]
  /\ UNCHANGED <<row, accepted>>

Unroutable(r, m) ==
  /\ Next1(r, m)
  /\ m \in Unrouted
  /\ row' = [row EXCEPT ![m].status = "failed"]
  /\ relay' = [relay EXCEPT ![r].todo = @ \ {m}]
  /\ UNCHANGED accepted

\* markPublished whatever the row says by now, `failed` included.
Settle(r, m) ==
  /\ m \in relay[r].sent
  /\ row' = [row EXCEPT ![m].status = "published"]
  /\ relay' = [relay EXCEPT ![r].sent = {}]
  /\ UNCHANGED accepted

\* The settling update fails: the row will be published again.
SettleFails(r, m) ==
  /\ m \in relay[r].sent
  /\ relay' = [relay EXCEPT ![r].sent = {}]
  /\ UNCHANGED <<row, accepted>>

Dies(r) ==
  /\ relay[r] # Resting
  /\ relay' = [relay EXCEPT ![r] = Resting]
  /\ UNCHANGED <<row, accepted>>

RelayStep(r) ==
  \/ Claim(r) \/ Dies(r)
  \/ \E m \in Rows : \/ Publish(r, m) \/ PublishFails(r, m) \/ Unroutable(r, m)
                     \/ Settle(r, m) \/ SettleFails(r, m)

Next == \/ \E m \in Rows : Enqueue(m)
        \/ \E r \in Relays : RelayStep(r)

Spec == Init /\ [][Next]_outboxVars

OutboxTypeOK ==
  /\ row \in [Rows -> [status : {"none", "pending", "published", "failed"},
                       attempts : 0 .. MaxAttempts]]
  /\ relay \in [Relays -> [todo : SUBSET Rows, sent : SUBSET Rows]]
  /\ accepted \in SUBSET Rows

\* At least once, or poison: no row is marked published that no publisher
\* accepted, and a row gives up unpublished only after its last attempt or
\* for want of a publisher.
OutboxSound ==
  \A m \in Rows :
    /\ row[m].status = "published" => m \in accepted
    /\ row[m].status = "failed" /\ m \notin accepted \cup Unrouted
       => row[m].attempts = MaxAttempts

=============================================================================
