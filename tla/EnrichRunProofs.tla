-------------------------- MODULE EnrichRunProofs --------------------------
(***************************************************************************)
(* Proofs about one bulk re-enrichment run, for every number of contacts,  *)
(* workers, relays and faults, and every pair of brakes: its relays are    *)
(* those of WorkerOutbox, RunInv holds, the vendors' bills stay below the  *)
(* confirmed ceiling, and a completed run's books agree.                   *)
(***************************************************************************)
EXTENDS EnrichRun, MoneyLemmas, TLAPS

(***************************************************************************)
(* The outbox of WorkerOutbox, for any set R of messages of which those in *)
(* U have no publisher, with the relays of the run and their attempts.     *)
(***************************************************************************)
Any(R, U) == INSTANCE WorkerOutbox WITH Rows <- R, Unrouted <- U

\* A relay settles only what a publisher accepted.
SentAccepted == \A r \in Relays : relay[r].sent \subseteq accepted

\* What was never put in the outbox is not under way.
NothingOfNone(R) ==
  \A m \in R : row[m].status = "none" =>
    m \notin accepted /\ \A r \in Relays : m \notin relay[r].todo

OutboxInv(R, U) ==
  /\ Any(R, U)!OutboxTypeOK /\ Any(R, U)!OutboxSound
  /\ SentAccepted /\ NothingOfNone(R)

LEMMA OutboxInit ==
  ASSUME NEW R, NEW U, MaxAttempts \in Nat, Any(R, U)!Init
  PROVE  OutboxInv(R, U)
  BY DEF Any!Init, Any!Resting, OutboxInv, Any!OutboxTypeOK, Any!OutboxSound, SentAccepted,
         NothingOfNone

\* Claiming a pending row leaves it due, or fails it at its last attempt.
LEMMA ClaimedRow ==
  ASSUME NEW R, NEW U, MaxAttempts \in Nat,
         NEW r \in [status : {"none", "pending", "published", "failed"},
                    attempts : 0 .. MaxAttempts],
         r.status = "pending"
  PROVE  LET c == Any(R, U)!Claimed(r)
         IN  /\ c \in [status : {"pending", "failed"}, attempts : 0 .. MaxAttempts]
             /\ c.status = "failed" => c.attempts = MaxAttempts
  BY DEF Any!Claimed

LEMMA ClaimKeeps ==
  ASSUME NEW R, NEW U, MaxAttempts \in Nat, OutboxInv(R, U), NEW r \in Relays, Any(R, U)!Claim(r)
  PROVE  OutboxInv(R, U)'
  <1>1. \A m \in R :
          IF row[m].status = "pending"
          THEN /\ row'[m] \in [status : {"pending", "failed"}, attempts : 0 .. MaxAttempts]
               /\ row'[m].status = "failed" => row'[m].attempts = MaxAttempts
          ELSE row'[m] = row[m]
    <2> TAKE m \in R
    <2>1. row[m] \in [status : {"none", "pending", "published", "failed"},
                      attempts : 0 .. MaxAttempts]
      BY DEF OutboxInv, Any!OutboxTypeOK
    <2>2. row'[m] = IF row[m].status = "pending" THEN Any(R, U)!Claimed(row[m]) ELSE row[m]
      BY DEF Any!Claim, Any!Due
    <2> QED BY <2>1, <2>2, ClaimedRow
  <1>2. /\ accepted' = accepted
        /\ \A s \in Relays : relay'[s].sent = relay[s].sent
        /\ \A s \in Relays : relay'[s].todo \subseteq relay[s].todo \cup Any(R, U)!Due
        /\ relay' \in [Relays -> [todo : SUBSET R, sent : SUBSET R]]
    BY DEF Any!Claim, Any!Due, OutboxInv, Any!OutboxTypeOK
  <1>3. Any(R, U)!OutboxTypeOK'
    <2>1. row' \in [R -> [status : {"none", "pending", "published", "failed"},
                             attempts : 0 .. MaxAttempts]]
      <3>1. row' = [m \in R |-> row'[m]]
        BY DEF Any!Claim
      <3>2. \A m \in R : row'[m] \in [status : {"none", "pending", "published", "failed"},
                                         attempts : 0 .. MaxAttempts]
        BY <1>1 DEF OutboxInv, Any!OutboxTypeOK
      <3> QED BY <3>1, <3>2
    <2> QED BY <1>2, <2>1 DEF OutboxInv, Any!OutboxTypeOK
  <1>4. Any(R, U)!OutboxSound'
    BY <1>1, <1>2 DEF OutboxInv, Any!OutboxSound
  <1>5. SentAccepted'
    BY <1>2 DEF OutboxInv, SentAccepted
  <1>6. NothingOfNone(R)'
    <2> SUFFICES ASSUME NEW m \in R, row'[m].status = "none"
                 PROVE  m \notin accepted' /\ \A s \in Relays : m \notin relay'[s].todo
      BY DEF NothingOfNone
    <2>1. row[m].status = "none"
      BY <1>1
    <2> QED BY <1>2, <2>1 DEF OutboxInv, NothingOfNone, Any!Due
  <1> QED BY <1>3, <1>4, <1>5, <1>6 DEF OutboxInv

LEMMA OutboxStep ==
  ASSUME NEW R, NEW U, MaxAttempts \in Nat, OutboxInv(R, U),
         [Any(R, U)!Next]_(Any(R, U)!outboxVars)
  PROVE  OutboxInv(R, U)'
  <1> USE DEF OutboxInv, Any!OutboxTypeOK, Any!OutboxSound, SentAccepted, NothingOfNone
  <1>1. ASSUME NEW m \in R, Any(R, U)!Enqueue(m) PROVE OutboxInv(R, U)'
    BY <1>1 DEF Any!Enqueue
  <1>2. ASSUME NEW r \in Relays, Any(R, U)!Claim(r) PROVE OutboxInv(R, U)'
    BY <1>2, ClaimKeeps
  <1>3. ASSUME NEW r \in Relays, Any(R, U)!Dies(r) PROVE OutboxInv(R, U)'
    BY <1>3 DEF Any!Dies, Any!Resting
  <1>4. ASSUME NEW r \in Relays, NEW m \in R, Any(R, U)!Publish(r, m) PROVE OutboxInv(R, U)'
    BY <1>4 DEF Any!Publish, Any!Next1
  <1>5. ASSUME NEW r \in Relays, NEW m \in R, Any(R, U)!PublishFails(r, m) PROVE OutboxInv(R, U)'
    BY <1>5 DEF Any!PublishFails, Any!Next1
  <1>6. ASSUME NEW r \in Relays, NEW m \in R, Any(R, U)!Unroutable(r, m) PROVE OutboxInv(R, U)'
    BY <1>6 DEF Any!Unroutable, Any!Next1
  <1>7. ASSUME NEW r \in Relays, NEW m \in R, Any(R, U)!Settle(r, m) PROVE OutboxInv(R, U)'
    BY <1>7 DEF Any!Settle
  <1>8. ASSUME NEW r \in Relays, NEW m \in R, Any(R, U)!SettleFails(r, m) PROVE OutboxInv(R, U)'
    BY <1>8 DEF Any!SettleFails
  <1>9. CASE UNCHANGED Any(R, U)!outboxVars
    BY <1>9 DEF Any!outboxVars
  <1> QED BY <1>1, <1>2, <1>3, <1>4, <1>5, <1>6, <1>7, <1>8, <1>9 DEF Any!Next, Any!RelayStep

(***************************************************************************)
(* Nothing is marked published that no publisher accepted, and a row that  *)
(* could be routed gives up only after its last attempt, whatever relays   *)
(* die, overlap or settle late.                                            *)
(***************************************************************************)
THEOREM AtLeastOnceOrPoison ==
  ASSUME NEW R, NEW U, MaxAttempts \in Nat
  PROVE  Any(R, U)!Spec => []Any(R, U)!OutboxSound
  <1>1. Any(R, U)!Init => OutboxInv(R, U)
    BY OutboxInit
  <1>2. OutboxInv(R, U) /\ [Any(R, U)!Next]_(Any(R, U)!outboxVars) => OutboxInv(R, U)'
    BY OutboxStep
  <1>3. OutboxInv(R, U) => Any(R, U)!OutboxSound
    BY DEF OutboxInv
  <1> QED BY <1>1, <1>2, <1>3, PTL DEF Any!Spec

(***************************************************************************)
(* Arithmetic, and what the assumptions say of the constants.              *)
(***************************************************************************)
LEMMA Division ==
  ASSUME NEW a \in Nat, NEW b \in Nat \ {0}, a >= b
  PROVE  a \div b \in Nat \ {0}
  OBVIOUS

LEMMA Product ==
  ASSUME NEW a \in Nat, NEW b \in Nat
  PROVE  a * b \in Nat
  OBVIOUS

LEMMA Constants ==
  /\ MaxFaults \in Nat /\ MaxStalled \in Nat /\ Total \in Nat \ {0}
  /\ BandRows \in Nat \ {0} /\ MaxAttempts \in Nat \ {0}
  /\ Limits \subseteq [cap : Nat, daily : Nat]
  /\ Drive \in Ids /\ Drive \notin Chunks /\ Ids = {Drive} \cup Chunks
  /\ Chunks # {}
  /\ \A k \in Chunks : First(k) \in Nat
  /\ IsFiniteSet(Contacts)
  <1>1. /\ MaxFaults \in Nat /\ MaxStalled \in Nat /\ Total \in Nat \ {0}
        /\ BandRows \in Nat \ {0} /\ MaxAttempts \in Nat \ {0}
        /\ Limits \subseteq [cap : Nat, daily : Nat]
    BY RunAssumption
  <1>2. (Total + BandRows - 1) \div BandRows \in Nat \ {0}
    <2>1. Total + BandRows - 1 \in Nat /\ Total + BandRows - 1 >= BandRows
      BY <1>1
    <2> QED BY <1>1, <2>1, Division
  <1>3. /\ Drive \in Ids /\ Drive \notin Chunks /\ Ids = {Drive} \cup Chunks
        /\ Chunks # {} /\ \A k \in Chunks : k - 1 \in Nat
    BY <1>2 DEF Ids, Chunks, Drive
  <1>4. \A k \in Chunks : First(k) \in Nat
    <2> TAKE k \in Chunks
    <2>1. (k - 1) * BandRows \in Nat
      BY <1>1, <1>3, Product
    <2> QED BY <2>1 DEF First
  <1>5. IsFiniteSet(Contacts)
    BY <1>1, FS_Interval DEF Contacts
  <1> QED BY <1>1, <1>3, <1>4, <1>5

(***************************************************************************)
(* The relays.                                                             *)
(***************************************************************************)

\* Each step of the run is, to the outbox, one of its own steps or none.
LEMMA OutboxSteps ==
  ASSUME [Next]_vars
  PROVE  [Outbox!Next]_(Outbox!outboxVars)
  <1> USE DEF outbox, records, NoFault, Outbox!outboxVars
  <1>1. ASSUME Confirm PROVE Outbox!Next
    BY <1>1 DEF Confirm, Outbox!Next
  <1>2. ASSUME NEW r \in Relays, RelayStep(r) \/ RelayBreaks(r) PROVE Outbox!Next
    BY <1>2 DEF RelayStep, RelayBreaks, Claim, Publish, Settle, Outbox!Next, Outbox!RelayStep
  <1>3. ASSUME NEW w \in Workers, Step(w)
        PROVE  UNCHANGED outbox
    <2>1. CASE DriveStep(w)
      BY <2>1 DEF DriveStep, SkipDrive, Resume, Plan, Create, FanOut
    <2>2. CASE ChunkStep(w)
      BY <2>2 DEF ChunkStep, ReadJob, ReadChunk, EndBand, Brake, Look, DailyBreak, Halt,
         Call, Record, AddSpend, WriteLedger, Progress, Mark, Pause, List, Reread, Complete
    <2> QED BY <1>3, <2>1, <2>2 DEF Step
  <1>4. ASSUME NEW w \in Workers,
               ContactFails(w) \/ Throws(w) \/ WorkerDies(w) \/ LockExpires(w)
        PROVE  UNCHANGED outbox
    BY <1>4 DEF ContactFails, Throws, WorkerDies, EndsWith, LockExpires
  <1>5. ASSUME \/ Arm
               \/ \E w \in Workers, i \in Ids : Take(w, i)
               \/ \E i \in Ids : Expire(i)
        PROVE  UNCHANGED outbox
    BY <1>5 DEF Arm, Take, Expire
  <1>6. CASE UNCHANGED vars
    BY <1>6 DEF vars
  <1> QED BY <1>1, <1>2, <1>3, <1>4, <1>5, <1>6 DEF Next

(***************************************************************************)
(* What the relays do in a run is what they do for any topic.              *)
(***************************************************************************)
THEOREM RelaysImplementOutbox == Spec => ImplementsOutbox
  <1>1. Init => Outbox!Init
    BY DEF Init
  <1> QED BY <1>1, OutboxSteps, PTL DEF Spec, ImplementsOutbox, Outbox!Spec

\* The run's outbox is the one of its single message.
LEMMA SameOutbox ==
  /\ Outbox!Init => Any({DriveRow}, {})!Init
  /\ [Outbox!Next]_(Outbox!outboxVars)
       => [Any({DriveRow}, {})!Next]_(Any({DriveRow}, {})!outboxVars)
  /\ Any({DriveRow}, {})!OutboxSound <=> Outbox!OutboxSound
  /\ Any({DriveRow}, {})!OutboxTypeOK <=> Outbox!OutboxTypeOK
  <1>1. Outbox!Init => Any({DriveRow}, {})!Init
    BY DEF Outbox!Init, Any!Init, Outbox!Resting, Any!Resting
  <1>2. [Outbox!Next]_(Outbox!outboxVars)
          => [Any({DriveRow}, {})!Next]_(Any({DriveRow}, {})!outboxVars)
    BY DEF Outbox!Next, Outbox!outboxVars, Outbox!RelayStep, Outbox!Enqueue, Outbox!Claim,
       Outbox!Claimed, Outbox!Due, Outbox!Resting, Outbox!Next1, Outbox!Publish,
       Outbox!PublishFails, Outbox!Unroutable, Outbox!Settle, Outbox!SettleFails, Outbox!Dies,
       Any!Next, Any!outboxVars, Any!RelayStep, Any!Enqueue, Any!Claim, Any!Claimed, Any!Due,
       Any!Resting, Any!Next1, Any!Publish, Any!PublishFails, Any!Unroutable, Any!Settle,
       Any!SettleFails, Any!Dies
  <1>3. Any({DriveRow}, {})!OutboxSound <=> Outbox!OutboxSound
    BY DEF Outbox!OutboxSound, Any!OutboxSound
  <1>4. Any({DriveRow}, {})!OutboxTypeOK <=> Outbox!OutboxTypeOK
    BY DEF Outbox!OutboxTypeOK, Any!OutboxTypeOK
  <1> QED BY <1>1, <1>2, <1>3, <1>4

\* The outbox's invariant, of the run's one message.
RelayInv == OutboxInv({DriveRow}, {})

LEMMA RelayInvKept ==
  /\ Init => RelayInv
  /\ RelayInv /\ [Next]_vars => RelayInv'
  <1>1. MaxAttempts \in Nat
    BY Constants
  <1>2. Init => RelayInv
    BY <1>1, SameOutbox, OutboxInit DEF Init, RelayInv
  <1>3. RelayInv /\ [Next]_vars => RelayInv'
    BY <1>1, SameOutbox, OutboxSteps, OutboxStep DEF RelayInv
  <1> QED BY <1>2, <1>3

(***************************************************************************)
(* Types.                                                                  *)
(***************************************************************************)
Jobs == [status : {"estimating", "awaiting_confirmation", "running", "paused", "completed"},
         spent : Nat, processed : Nat, charged : Nat]

Queues == [Ids -> BullMQ!Records]

DrivePcs == {"drive", "create", "fanOut"}
BandPcs  == {"next", "lock", "call", "add", "ledger", "progress"}
ChunkPcs == BandPcs \cup {"job", "chunk", "mark", "pause", "list", "reread", "complete"}

\* A drive is worked on as a drive and a chunk as a chunk, from its first contact.
Tasks == {t \in [pc : {"idle"} \cup DrivePcs \cup ChunkPcs, id : Ids, locked : BOOLEAN,
                 seen : Nat, next : Nat, paid : Nat, braked : BOOLEAN] :
            /\ t.pc = "idle" => ~t.locked
            /\ t.pc \in DrivePcs => t.id = Drive
            /\ t.pc \in ChunkPcs => t.id \in Chunks
            /\ t.pc \in BandPcs => t.next >= First(t.id)}

Typed == /\ limits \in Limits
         /\ job \in Jobs
         /\ chunk \in [Chunks -> {"none", "queued", "completed"}]
         /\ queue \in Queues
         /\ worker \in [Workers -> Tasks]
         /\ calls \in [Contacts -> {"none", "miss", "cached"}]
         /\ bills \in [Contacts -> Nat]
         /\ ledger \in [Contacts -> Nat]
         /\ faults \in 0 .. MaxFaults

LEMMA TypedIsTypeOK == Typed /\ RelayInv => TypeOK
  <1>1. RelayInv => Outbox!OutboxTypeOK
    BY SameOutbox DEF RelayInv, OutboxInv
  <1>2. Tasks \subseteq
          [pc : {"idle", "drive", "create", "fanOut", "job", "chunk", "next", "lock", "call",
                 "add", "ledger", "progress", "mark", "pause", "list", "reread", "complete"},
           id : Ids, locked : BOOLEAN, seen : Nat, next : Nat, paid : Nat, braked : BOOLEAN]
    BY DEF Tasks, DrivePcs, ChunkPcs, BandPcs
  <1> QED BY <1>1, <1>2 DEF Typed, TypeOK, Jobs, Queues

LEMMA TypedInit == Init => Typed
  <1> SUFFICES ASSUME Init PROVE Typed
    OBVIOUS
  <1>1. Free \in Tasks
    BY Constants DEF Free, Tasks, DrivePcs, ChunkPcs, BandPcs
  <1>2. BullMQ!Absent \in BullMQ!Records
    BY DEF BullMQ!Absent, BullMQ!Records
  <1> QED BY <1>1, <1>2, Constants DEF Init, Typed, Jobs, Queues

\* What an add, a retry, a redelivery and a return do to the queue.
LEMMA QueueOps ==
  ASSUME NEW q \in Queues
  PROVE  /\ \A S : \A t \in Nat, k \in BOOLEAN :
              /\ BullMQ!Added(q, S, t, k) \in Queues
              /\ \A i \in Ids \ S : BullMQ!Added(q, S, t, k)[i] = q[i]
              /\ \A i \in Ids : BullMQ!Live(q[i]) => BullMQ!Added(q, S, t, k)[i] = q[i]
              /\ \A i \in Ids \cap S : q[i].st = "absent"
                                       => BullMQ!Live(BullMQ!Added(q, S, t, k)[i])
         /\ \A i \in Ids : /\ BullMQ!Retried(q[i]) \in BullMQ!Records
                           /\ BullMQ!Retried(q[i]).st \in {"waiting", "failed"}
         /\ \A i \in Ids : /\ BullMQ!Redelivered(q[i]) \in BullMQ!Records
                           /\ BullMQ!Redelivered(q[i]).st \in {"waiting", "failed"}
  <1>1. ASSUME NEW S, NEW t \in Nat, NEW k \in BOOLEAN
        PROVE  /\ BullMQ!Added(q, S, t, k) \in Queues
               /\ \A i \in Ids \ S : BullMQ!Added(q, S, t, k)[i] = q[i]
               /\ \A i \in Ids : BullMQ!Live(q[i]) => BullMQ!Added(q, S, t, k)[i] = q[i]
               /\ \A i \in Ids \cap S : q[i].st = "absent"
                                        => BullMQ!Live(BullMQ!Added(q, S, t, k)[i])
    BY <1>1 DEF BullMQ!Added, BullMQ!NewRecord, BullMQ!Records, BullMQ!Live, Queues
  <1>2. ASSUME NEW r \in BullMQ!Records
        PROVE  /\ BullMQ!Retried(r) \in BullMQ!Records
               /\ BullMQ!Retried(r).st \in {"waiting", "failed"}
    <2>1. /\ [r EXCEPT !.st = "failed"] \in BullMQ!Records
          /\ [r EXCEPT !.st = "failed"].st = "failed"
          /\ \A n \in Nat : /\ [r EXCEPT !.st = "waiting", !.tries = n] \in BullMQ!Records
                            /\ [r EXCEPT !.st = "waiting", !.tries = n].st = "waiting"
      BY DEF BullMQ!Records
    <2>2. CASE r.tries > 1
      <3>1. r.tries - 1 \in Nat
        BY <2>2 DEF BullMQ!Records
      <3> QED BY <2>1, <2>2, <3>1 DEF BullMQ!Retried
    <2> QED BY <2>1, <2>2 DEF BullMQ!Retried
  <1>3. ASSUME NEW r \in BullMQ!Records
        PROVE  /\ BullMQ!Redelivered(r) \in BullMQ!Records
               /\ BullMQ!Redelivered(r).st \in {"waiting", "failed"}
    <2>1. /\ [r EXCEPT !.st = "failed"] \in BullMQ!Records
          /\ [r EXCEPT !.st = "failed"].st = "failed"
          /\ \A n \in Nat : /\ [r EXCEPT !.st = "waiting", !.stalls = n] \in BullMQ!Records
                            /\ [r EXCEPT !.st = "waiting", !.stalls = n].st = "waiting"
      BY DEF BullMQ!Records
    <2>2. CASE r.stalls < MaxStalled
      <3>1. r.stalls + 1 \in Nat
        BY <2>2 DEF BullMQ!Records
      <3> QED BY <2>1, <2>2, <3>1 DEF BullMQ!Redelivered
    <2> QED BY <2>1, <2>2 DEF BullMQ!Redelivered
  <1>4. \A i \in Ids : q[i] \in BullMQ!Records
    BY DEF Queues
  <1> QED BY <1>1, <1>2, <1>3, <1>4

\* Returning settles the record of a job whose lock is held.
LEMMA SettledQueue ==
  ASSUME NEW w \in Workers, NEW q \in Queues
  PROVE  /\ Settled(w, q) \in Queues
         /\ \A i \in Ids \ {At(w)} : Settled(w, q)[i] = q[i]
  BY DEF Settled, Queues, BullMQ!Records

\* What a worker leaves behind: an idle task.
LEMMA Leaving ==
  ASSUME worker \in [Workers -> Tasks], NEW w \in Workers, Leave(w)
  PROVE  worker' \in [Workers -> Tasks]
  <1>1. Free \in Tasks
    BY Constants DEF Free, Tasks, DrivePcs, ChunkPcs, BandPcs
  <1> QED BY <1>1 DEF Leave

LEMMA Going ==
  ASSUME worker \in [Workers -> Tasks], NEW w \in Workers, NEW pc, Goto(w, pc),
         \/ pc \in DrivePcs /\ worker[w].pc \in DrivePcs
         \/ pc \in BandPcs /\ worker[w].pc \in BandPcs
         \/ pc \in ChunkPcs \ BandPcs /\ worker[w].pc \in ChunkPcs
  PROVE  worker' \in [Workers -> Tasks]
  <1>1. worker[w] \in Tasks
    OBVIOUS
  <1>2. [worker[w] EXCEPT !.pc = pc] \in Tasks
    BY <1>1 DEF Tasks, DrivePcs, ChunkPcs, BandPcs
  <1> QED BY <1>2 DEF Goto

LEMMA BreakBounds ==
  ASSUME faults \in 0 .. MaxFaults, NEW kind, NEW where, Break(kind, where)
  PROVE  faults' \in 0 .. MaxFaults /\ limits' = limits
  BY Constants DEF Break

\* A job that ends early leaves its record retried, redelivered or failed.
LEMMA EndingTypes ==
  ASSUME Typed, NEW w \in Workers, NEW kind, NEW r \in BullMQ!Records, EndsWith(w, kind, r)
  PROVE  Typed'
  <1>1. worker' \in [Workers -> Tasks]
    BY Leaving DEF EndsWith, Typed
  <1>2. queue' \in Queues
    BY DEF EndsWith, Typed, Queues
  <1> QED BY <1>1, <1>2, BreakBounds DEF EndsWith, Typed, records

LEMMA RestTypes ==
  ASSUME Typed,
         \/ Arm \/ Confirm \/ \E r \in Relays : RelayStep(r) \/ RelayBreaks(r)
         \/ \E w \in Workers : Throws(w) \/ WorkerDies(w) \/ LockExpires(w)
         \/ \E w \in Workers, i \in Ids : Take(w, i)
         \/ \E i \in Ids : Expire(i)
         \/ UNCHANGED vars
  PROVE  Typed'
  <1> USE DEF records, NoFault
  <1>t. /\ queue \in Queues /\ worker \in [Workers -> Tasks]
        /\ \A w \in Workers : At(w) \in Ids /\ worker[w] \in Tasks
    BY DEF Typed, Tasks, At
  <1>1. CASE Arm \/ Confirm
    BY <1>1 DEF Typed, Arm, Confirm, Jobs
  <1>2. ASSUME NEW r \in Relays, RelayStep(r) PROVE Typed'
    <2>1. BullMQ!Added(queue, {Drive}, 3, FALSE) \in Queues
      BY <1>t, QueueOps
    <2> QED BY <1>2, <2>1 DEF RelayStep, Claim, Publish, Settle, Typed
  <1>3. ASSUME NEW r \in Relays, RelayBreaks(r) PROVE Typed'
    BY <1>3, BreakBounds DEF RelayBreaks, Typed
  <1>4. ASSUME NEW w \in Workers, Throws(w) \/ WorkerDies(w) PROVE Typed'
    <2>1. /\ BullMQ!Retried(queue[At(w)]) \in BullMQ!Records
          /\ BullMQ!Redelivered(queue[At(w)]) \in BullMQ!Records
      BY <1>t, QueueOps
    <2> QED BY <1>4, <2>1, EndingTypes DEF Throws, WorkerDies
  <1>5. ASSUME NEW w \in Workers, LockExpires(w) PROVE Typed'
    <2>1. worker' \in [Workers -> Tasks]
      <3>1. [worker[w] EXCEPT !.locked = FALSE] \in Tasks
        BY <1>t DEF Tasks
      <3> QED BY <1>5, <1>t, <3>1 DEF LockExpires
    <2>2. queue' \in Queues
      <3>1. BullMQ!Redelivered(queue[At(w)]) \in BullMQ!Records
        BY <1>t, QueueOps
      <3> QED BY <1>5, <1>t, <3>1 DEF LockExpires, Queues
    <2> QED BY <1>5, <2>1, <2>2, BreakBounds DEF LockExpires, Typed
  <1>6. ASSUME NEW w \in Workers, NEW i \in Ids, Take(w, i) PROVE Typed'
    <2>1. [Free EXCEPT !.pc = IF i = Drive THEN "drive" ELSE "job", !.id = i,
                       !.locked = TRUE] \in Tasks
      BY Constants DEF Free, Tasks, DrivePcs, ChunkPcs, BandPcs
    <2>2. worker' \in [Workers -> Tasks]
      BY <1>6, <1>t, <2>1 DEF Take
    <2>3. queue' \in Queues
      BY <1>6, <1>t DEF Take, Queues, BullMQ!Records
    <2> QED BY <1>6, <2>2, <2>3 DEF Take, Typed
  <1>7. ASSUME NEW i \in Ids, Expire(i) PROVE Typed'
    <2>1. queue' \in Queues
      BY <1>7, <1>t DEF Expire, Queues, BullMQ!Absent, BullMQ!Records
    <2> QED BY <1>7, <2>1 DEF Expire, Typed
  <1>8. CASE UNCHANGED vars
    BY <1>8 DEF vars, Typed
  <1> QED BY <1>1, <1>2, <1>3, <1>4, <1>5, <1>6, <1>7, <1>8

\* The drive's steps.
LEMMA DriveTypes ==
  ASSUME Typed, NEW w \in Workers, DriveStep(w)
  PROVE  Typed'
  <1> USE DEF records, NoFault, Running, DrivePcs
  <1>t. /\ queue \in Queues /\ worker \in [Workers -> Tasks]
        /\ At(w) \in Ids /\ worker[w] \in Tasks
    BY DEF Typed, Tasks, At
  <1>a. \A S : Settled(w, BullMQ!Added(queue, S, 1, FALSE)) \in Queues
    <2> TAKE S
    <2>1. BullMQ!Added(queue, S, 1, FALSE) \in Queues
      BY <1>t, QueueOps
    <2> QED BY <2>1, SettledQueue
  <1>s. Settled(w, queue) \in Queues
    BY <1>t, SettledQueue
  <1>1. CASE SkipDrive(w)
    BY <1>1, <1>t, <1>s, Leaving DEF SkipDrive, Finish, Typed
  <1>2. CASE Resume(w) \/ FanOut(w)
    BY <1>2, <1>t, <1>a, Leaving DEF Resume, FanOut, Typed
  <1>3. CASE Plan(w)
    BY <1>3, <1>t, Going DEF Plan, Typed
  <1>4. CASE Create(w)
    <2>1. worker' \in [Workers -> Tasks]
      BY <1>4, <1>t, Leaving, Going DEF Create
    <2>2. queue' \in Queues
      <3>1. BullMQ!Retried(queue[At(w)]) \in BullMQ!Records
        BY <1>t, QueueOps
      <3> QED BY <1>4, <1>t, <3>1 DEF Create, Queues
    <2>3. chunk' \in [Chunks -> {"none", "queued", "completed"}]
      BY <1>4 DEF Create, Typed
    <2> QED BY <1>4, <2>1, <2>2, <2>3 DEF Create, Typed
  <1> QED BY <1>1, <1>2, <1>3, <1>4 DEF DriveStep

\* The chunk's steps that touch no counter.
LEMMA ReadingTypes ==
  ASSUME Typed, NEW w \in Workers,
         \/ ReadJob(w) \/ ReadChunk(w) \/ EndBand(w) \/ Brake(w) \/ Look(w)
         \/ DailyBreak(w) \/ List(w) \/ Reread(w) \/ ContactFails(w)
  PROVE  Typed'
  <1> USE DEF records, NoFault, Running, ChunkPcs, BandPcs
  <1>t. /\ queue \in Queues /\ worker \in [Workers -> Tasks] /\ worker[w] \in Tasks
        /\ job.spent \in Nat
    BY DEF Typed, Jobs
  <1>s. Settled(w, queue) \in Queues
    BY <1>t, SettledQueue
  <1>n. worker[w].pc \in BandPcs
        => /\ [worker[w] EXCEPT !.next = @ + 1] \in Tasks
           /\ [worker[w] EXCEPT !.pc = "next", !.next = @ + 1] \in Tasks
           /\ [worker[w] EXCEPT !.pc = "ledger", !.braked = TRUE] \in Tasks
    <2> SUFFICES ASSUME worker[w].pc \in BandPcs
                 PROVE  /\ [worker[w] EXCEPT !.next = @ + 1] \in Tasks
                        /\ [worker[w] EXCEPT !.pc = "next", !.next = @ + 1] \in Tasks
                        /\ [worker[w] EXCEPT !.pc = "ledger", !.braked = TRUE] \in Tasks
      OBVIOUS
    <2>1. /\ worker[w].next \in Nat /\ worker[w].id \in Chunks
          /\ worker[w].next >= First(worker[w].id)
          /\ First(worker[w].id) \in Nat
      BY <1>t, Constants DEF Tasks
    <2>2. worker[w].next + 1 \in Nat /\ worker[w].next + 1 >= First(worker[w].id)
      BY <2>1
    <2> QED BY <1>t, <2>1, <2>2 DEF Tasks, DrivePcs
  <1>1. CASE ReadJob(w)
    <2>1. CASE Finish(w)
      BY <1>1, <1>s, <1>t, <2>1, Leaving DEF ReadJob, Finish, Typed
    <2>2. CASE ~Finish(w)
      <3>1. [worker[w] EXCEPT !.pc = "chunk", !.seen = job.spent] \in Tasks
        BY <1>1, <1>t DEF ReadJob, Tasks, DrivePcs
      <3> QED BY <1>1, <1>t, <2>2, <3>1 DEF ReadJob, Typed
    <2> QED BY <2>1, <2>2
  <1>2. CASE ReadChunk(w)
    <2>1. CASE Finish(w)
      BY <1>2, <1>s, <1>t, <2>1, Leaving DEF ReadChunk, Finish, Typed
    <2>2. CASE ~Finish(w)
      <3>1. At(w) \in Chunks /\ First(At(w)) \in Nat
        BY <1>2, <1>t, Constants DEF ReadChunk, Tasks, At
      <3>2. [worker[w] EXCEPT !.pc = "next", !.next = First(At(w))] \in Tasks
        <4>1. worker[w].pc = "chunk" /\ worker[w].id = At(w) /\ First(At(w)) >= First(At(w))
          BY <1>2, <3>1 DEF ReadChunk, At
        <4>2. ASSUME NEW n \in Nat, n >= First(worker[w].id)
              PROVE  [worker[w] EXCEPT !.pc = "next", !.next = n] \in Tasks
          BY <1>t, <3>1, <4>1, <4>2 DEF Tasks, DrivePcs
        <4> QED BY <3>1, <4>1, <4>2
      <3> QED BY <1>2, <1>t, <2>2, <3>2 DEF ReadChunk, Typed
    <2> QED BY <2>1, <2>2
  <1>3. CASE EndBand(w)
    BY <1>3, <1>t, Going DEF EndBand, Typed
  <1>4. CASE Brake(w) \/ DailyBreak(w)
    BY <1>4, <1>t, <1>n DEF Brake, DailyBreak, Halt, Typed
  <1>5. CASE Look(w)
    <2>1. [worker[w] EXCEPT !.pc = "lock"] \in Tasks
      BY <1>5, <1>t DEF Look, Tasks, DrivePcs
    <2> QED BY <1>5, <1>t, <1>n, <2>1 DEF Look, Typed
  <1>6. CASE List(w) \/ Reread(w)
    <2>1. CASE Finish(w)
      BY <1>6, <1>s, <1>t, <2>1, Leaving DEF List, Reread, Finish, Typed
    <2>2. CASE ~Finish(w)
      BY <1>6, <1>t, <2>2, Going DEF List, Reread, Typed
    <2> QED BY <2>1, <2>2
  <1>7. CASE ContactFails(w)
    BY <1>7, <1>t, <1>n, BreakBounds DEF ContactFails, Typed
  <1> QED BY <1>1, <1>2, <1>3, <1>4, <1>5, <1>6, <1>7

\* The chunk's steps that write.
LEMMA WritingTypes ==
  ASSUME Typed, NEW w \in Workers,
         \/ Call(w) \/ Record(w) \/ AddSpend(w) \/ WriteLedger(w) \/ Progress(w)
         \/ Mark(w) \/ Pause(w) \/ Complete(w)
  PROVE  Typed'
  <1> USE DEF records, NoFault, Running, ChunkPcs, BandPcs
  <1>t. /\ queue \in Queues /\ worker \in [Workers -> Tasks] /\ worker[w] \in Tasks
        /\ job \in Jobs
    BY DEF Typed
  <1>s. Settled(w, queue) \in Queues
    BY <1>t, SettledQueue
  <1>1. CASE Call(w)
    <2>1. bills' \in [Contacts -> Nat]
      <3>1. bills \in [Contacts -> Nat] /\ bills' = [bills EXCEPT ![worker[w].next] = @ + 1]
        BY <1>1 DEF Call, Typed
      <3>2. \A c \in Contacts : bills[c] + 1 \in Nat
        BY <3>1
      <3> QED BY <3>1, <3>2
    <2> QED BY <1>1, <1>t, <2>1, Going DEF Call, Typed
  <1>2. CASE Record(w)
    <2>1. calls' \in [Contacts -> {"none", "miss", "cached"}]
      BY <1>2 DEF Record, Typed
    <2> QED BY <1>2, <1>t, <2>1, Going DEF Record, Typed
  <1>3. CASE AddSpend(w)
    <2>1. /\ worker[w].next \in Nat /\ worker[w].id \in Chunks /\ worker[w].paid \in Nat
          /\ worker[w].next >= First(worker[w].id) /\ First(worker[w].id) \in Nat
          /\ job.spent + 1 \in Nat
      BY <1>3, <1>t, Constants DEF AddSpend, Tasks, Jobs
    <2>2. worker[w].next + 1 \in Nat /\ worker[w].next + 1 >= First(worker[w].id)
      BY <2>1
    <2>3. [worker[w] EXCEPT !.pc = "next", !.next = @ + 1, !.paid = @ + 1,
                            !.seen = job.spent + 1] \in Tasks
      BY <1>3, <1>t, <2>1, <2>2 DEF AddSpend, Tasks, DrivePcs
    <2>4. job' \in Jobs
      BY <1>3, <1>t, <2>1 DEF AddSpend, Jobs
    <2> QED BY <1>3, <1>t, <2>3, <2>4 DEF AddSpend, Typed
  <1>4. CASE WriteLedger(w)
    <2>1. ledger' \in [Contacts -> Nat]
      BY <1>4 DEF WriteLedger, Typed
    <2> QED BY <1>4, <1>t, <2>1, Going DEF WriteLedger, Typed
  <1>5. CASE Progress(w)
    <2>1. /\ worker[w].next \in Nat /\ worker[w].paid \in Nat
          /\ At(w) \in Chunks /\ First(At(w)) \in Nat
          /\ worker[w].next >= First(At(w))
      BY <1>5, <1>t, Constants DEF Progress, Tasks, At
    <2>2. /\ job.processed + worker[w].next - First(At(w)) \in Nat
          /\ job.charged + worker[w].paid \in Nat
      BY <1>t, <2>1 DEF Jobs
    <2>3. job' \in Jobs
      BY <1>5, <1>t, <2>2 DEF Progress, Jobs
    <2> QED BY <1>5, <1>t, <2>3, Going DEF Progress, Typed
  <1>6. CASE Mark(w)
    <2>1. chunk' \in [Chunks -> {"none", "queued", "completed"}]
      BY <1>6 DEF Mark, Typed
    <2> QED BY <1>6, <1>t, <2>1, Going DEF Mark, Typed
  <1>7. CASE Pause(w) \/ Complete(w)
    <2>1. job' \in Jobs
      BY <1>7, <1>t DEF Pause, Complete, Jobs
    <2> QED BY <1>7, <1>s, <1>t, <2>1, Leaving DEF Pause, Complete, Finish, Typed
  <1> QED BY <1>1, <1>2, <1>3, <1>4, <1>5, <1>6, <1>7

LEMMA TypedStep ==
  ASSUME Typed, [Next]_vars
  PROVE  Typed'
  BY RestTypes, DriveTypes, ReadingTypes, WritingTypes DEF Next, Step, ChunkStep

(***************************************************************************)
(* The drive.                                                              *)
(***************************************************************************)

\* Whoever works without its lock has seen it expire.
LockLostByStall ==
  \A w \in Workers : worker[w].pc # "idle" /\ ~worker[w].locked => "stall" \in hit

\* From the confirm on there is a row; before a publish there is no drive; after
\* it, the drive is live until it has created the chunks, or died for good.
DriveKept ==
  /\ job.status = "running" => row[DriveRow].status # "none"
  /\ DriveRow \notin accepted
       => queue[Drive].st = "absent" /\ \A w \in Workers : worker[w].pc \notin DrivePcs
  /\ DriveRow \in accepted /\ job.status = "running" /\ Created = {}
       => \/ BullMQ!Live(queue[Drive])
          \/ \E w \in Workers : worker[w].pc \in {"drive", "create"}
          \/ hit \cap {"dead", "stall"} # {}
  /\ \A w \in Workers : worker[w].pc = "fanOut" => Created # {}

DriveInv == LockLostByStall /\ DriveKept

\* The steps the drive does not notice.
Unnoticed ==
  /\ accepted' = accepted
  /\ row[DriveRow].status # "none" => row'[DriveRow].status # "none"
  /\ queue'[Drive] = queue[Drive]
  /\ \A v \in Workers : worker[v].pc \in DrivePcs \/ worker'[v].pc \in DrivePcs
                        => worker'[v].pc = worker[v].pc
  /\ \A v \in Workers : worker'[v].pc # "idle" /\ ~worker'[v].locked
                        => worker[v].pc # "idle" /\ ~worker[v].locked
  /\ hit \subseteq hit'
  /\ Created # {} => Created' # {}
  /\ job'.status = "running" => job.status = "running"

LEMMA UnnoticedKeeps ==
  ASSUME DriveInv, Unnoticed
  PROVE  DriveInv'
  <1>1. LockLostByStall'
    BY DEF DriveInv, LockLostByStall, Unnoticed
  <1>2. DriveKept'
    <2>1. (Created = {})' => Created = {}
      BY DEF Unnoticed
    <2>2. hit \cap {"dead", "stall"} # {} => (hit \cap {"dead", "stall"} # {})'
      BY DEF Unnoticed
    <2>3. BullMQ!Live(queue[Drive]) => BullMQ!Live(queue[Drive])'
      BY DEF Unnoticed, BullMQ!Live
    <2>4. (\E w \in Workers : worker[w].pc \in {"drive", "create"})
            => (\E w \in Workers : worker[w].pc \in {"drive", "create"})'
      BY DEF Unnoticed, DrivePcs
    <2>5. (job.status = "running" => row[DriveRow].status # "none")'
      BY DEF DriveInv, DriveKept, Unnoticed
    <2>6. (DriveRow \notin accepted
             => queue[Drive].st = "absent" /\ \A w \in Workers : worker[w].pc \notin DrivePcs)'
      BY DEF DriveInv, DriveKept, Unnoticed
    <2>7. (\A w \in Workers : worker[w].pc = "fanOut" => Created # {})'
      BY <2>1 DEF DriveInv, DriveKept, Unnoticed, DrivePcs
    <2> QED BY <2>1, <2>2, <2>3, <2>4, <2>5, <2>6, <2>7 DEF DriveInv, DriveKept, Unnoticed
  <1> QED BY <1>1, <1>2 DEF DriveInv

\* A step of a worker on a chunk touches the record of that chunk only.
LEMMA ChunkUnnoticed ==
  ASSUME Typed, NEW w \in Workers, ChunkStep(w) \/ ContactFails(w)
  PROVE  Unnoticed
  <1> USE DEF records, outbox, NoFault, Running, ChunkPcs, BandPcs, DrivePcs
  <1>t. /\ queue \in Queues /\ worker \in [Workers -> Tasks] /\ worker[w] \in Tasks
        /\ worker[w].pc \in ChunkPcs
    BY DEF Typed, ChunkStep, ContactFails, ReadJob, ReadChunk, EndBand, Brake, Look,
       DailyBreak, Call, Record, AddSpend, WriteLedger, Progress, Mark, Pause, List,
       Reread, Complete
  <1>a. At(w) \in Chunks /\ At(w) # Drive
    BY <1>t, Constants DEF Tasks, At
  <1>s. Settled(w, queue)[Drive] = queue[Drive]
    BY <1>t, <1>a, SettledQueue, Constants
  <1>1. /\ row' = row /\ accepted' = accepted /\ hit \subseteq hit'
        /\ queue' \in {queue, Settled(w, queue)}
    <2>1. CASE ContactFails(w)
      BY <2>1 DEF ContactFails, Break
    <2>2. CASE ChunkStep(w)
      BY <2>2 DEF ChunkStep, ReadJob, ReadChunk, EndBand, Brake, Look, Finish, DailyBreak, Halt,
         Call, Record, AddSpend, WriteLedger, Progress, Mark, Pause, List, Reread, Complete
    <2> QED BY <2>1, <2>2
  <1>2. queue'[Drive] = queue[Drive]
    BY <1>1, <1>s
  <1>3. Created # {} => Created' # {}
    <2>1. CASE Mark(w)
      BY <2>1, <1>a DEF Mark, Created, Typed
    <2>2. CASE ~Mark(w)
      <3>1. chunk' = chunk
        BY <2>2 DEF ContactFails, ChunkStep, ReadJob, ReadChunk, EndBand, Brake, Look, Finish,
           DailyBreak, Halt, Call, Record, AddSpend, WriteLedger, Progress, Pause, List, Reread,
           Complete
      <3> QED BY <3>1 DEF Created
    <2> QED BY <2>1, <2>2
  <1>4. job'.status = "running" => job.status = "running"
    BY DEF Typed, Jobs, ContactFails, ChunkStep, ReadJob, ReadChunk, EndBand, Brake, Look, Finish,
       DailyBreak, Halt, Call, Record, AddSpend, WriteLedger, Progress, Mark, Pause, List, Reread,
       Complete
  <1>5. /\ \A v \in Workers \ {w} : worker'[v] = worker[v]
        /\ \/ worker'[w] = Free
           \/ worker'[w].pc \in ChunkPcs /\ worker'[w].locked = worker[w].locked
    <2>1. CASE Leave(w)
      BY <2>1, <1>t DEF Leave
    <2>2. ASSUME NEW pc \in ChunkPcs, Goto(w, pc)
          PROVE  /\ \A v \in Workers \ {w} : worker'[v] = worker[v]
                 /\ worker'[w].pc \in ChunkPcs /\ worker'[w].locked = worker[w].locked
      BY <2>2, <1>t DEF Goto, Tasks
    <2>3. CASE Brake(w) \/ DailyBreak(w) \/ Look(w) \/ ContactFails(w) \/ AddSpend(w)
      BY <2>3, <1>t DEF Brake, DailyBreak, Halt, Look, ContactFails, AddSpend, Tasks
    <2>4. CASE ReadJob(w) \/ ReadChunk(w)
      BY <2>1, <2>4, <1>t DEF ReadJob, ReadChunk, Finish, Tasks
    <2>5. CASE \/ EndBand(w) \/ Call(w) \/ Record(w) \/ WriteLedger(w) \/ Progress(w)
               \/ Mark(w)
      BY <2>2, <2>5 DEF EndBand, Call, Record, WriteLedger, Progress, Mark
    <2>6. CASE Pause(w) \/ List(w) \/ Reread(w) \/ Complete(w)
      BY <2>1, <2>2, <2>6 DEF Pause, List, Reread, Complete, Finish
    <2> QED BY <2>3, <2>4, <2>5, <2>6 DEF ChunkStep
  <1>6. /\ \A v \in Workers : worker[v].pc \in DrivePcs \/ worker'[v].pc \in DrivePcs
                              => worker'[v].pc = worker[v].pc
        /\ \A v \in Workers : worker'[v].pc # "idle" /\ ~worker'[v].locked
                              => worker[v].pc # "idle" /\ ~worker[v].locked
    <2> SUFFICES ASSUME NEW v \in Workers
                 PROVE  /\ worker[v].pc \in DrivePcs \/ worker'[v].pc \in DrivePcs
                           => worker'[v].pc = worker[v].pc
                        /\ worker'[v].pc # "idle" /\ ~worker'[v].locked
                           => worker[v].pc # "idle" /\ ~worker[v].locked
      OBVIOUS
    <2>1. CASE v # w
      BY <2>1, <1>5
    <2>2. CASE v = w /\ worker'[w] = Free
      BY <2>2, <1>t DEF Free
    <2>3. CASE v = w /\ worker'[w] # Free
      BY <2>3, <1>5, <1>t
    <2> QED BY <2>1, <2>2, <2>3
  <1> QED BY <1>1, <1>2, <1>3, <1>4, <1>6 DEF Unnoticed

\* A drive that ends early is retried, redelivered, or marked dead.
LEMMA EndingKeepsDrive ==
  ASSUME Typed, DriveInv, NEW w \in Workers, worker[w].pc # "idle",
         NEW kind, NEW r, r.st \in {"waiting", "failed"}, EndsWith(w, kind, r)
  PROVE  DriveInv'
  <1> USE DEF records, outbox
  <1>t. /\ queue \in Queues /\ worker \in [Workers -> Tasks] /\ worker[w] \in Tasks
        /\ At(w) = worker[w].id
    BY DEF Typed, At
  <1>1. /\ UNCHANGED <<row, accepted, job, chunk>> /\ hit \subseteq hit'
        /\ worker' = [worker EXCEPT ![w] = Free]
        /\ queue' = IF worker[w].locked THEN [queue EXCEPT ![At(w)] = r] ELSE queue
        /\ worker[w].locked /\ r.st = "failed" => "dead" \in hit'
    BY DEF EndsWith, Break, Leave
  <1>2. CASE worker[w].pc \in ChunkPcs
    <2>1. At(w) # Drive
      BY <1>t, <1>2, Constants DEF Tasks
    <2>2. worker[w].pc \notin DrivePcs
      BY <1>2 DEF DrivePcs, ChunkPcs, BandPcs
    <2>3. Unnoticed
      BY <1>1, <1>t, <2>1, <2>2 DEF Unnoticed, Free, Created, Queues, DrivePcs
    <2> QED BY <2>3, UnnoticedKeeps
  <1>3. CASE worker[w].pc \in DrivePcs
    <2>1. At(w) = Drive /\ DriveRow \in accepted
      BY <1>t, <1>3 DEF Tasks, DriveInv, DriveKept
    <2>2. LockLostByStall'
      BY <1>1, <1>t DEF Free, DriveInv, LockLostByStall
    <2>3. worker[w].locked => queue'[Drive] = r
      BY <1>1, <1>t, <2>1, Constants DEF Queues
    <2>4. BullMQ!Live(queue[Drive])' \/ (hit \cap {"dead", "stall"} # {})'
      BY <1>1, <1>3, <2>3 DEF BullMQ!Live, DriveInv, LockLostByStall, DrivePcs
    <2>5. \A v \in Workers : worker'[v].pc = "fanOut" => worker[v].pc = "fanOut"
      BY <1>1, <1>t DEF Free
    <2>6. DriveKept'
      BY <1>1, <2>1, <2>4, <2>5 DEF DriveInv, DriveKept, Created
    <2> QED BY <2>2, <2>6 DEF DriveInv
  <1> QED BY <1>t, <1>2, <1>3 DEF Tasks

LEMMA DriveStepKeepsDrive ==
  ASSUME Typed, DriveInv, NEW w \in Workers, DriveStep(w)
  PROVE  DriveInv'
  <1> USE DEF records, outbox, NoFault, Running
  <1>t. /\ queue \in Queues /\ worker \in [Workers -> Tasks] /\ worker[w] \in Tasks
    BY DEF Typed
  <1>1. UNCHANGED <<row, accepted, job, hit>> /\ worker[w].pc \in DrivePcs
    BY DEF DriveStep, SkipDrive, Resume, Plan, Create, FanOut, DrivePcs
  <1>2. DriveRow \in accepted
    BY <1>1 DEF DriveInv, DriveKept
  <1>3. /\ \A v \in Workers \ {w} : worker'[v] = worker[v]
        /\ worker'[w] = Free \/ worker'[w].locked = worker[w].locked
        /\ \/ worker'[w].pc = "create" /\ chunk' = chunk
           \/ Created' # {}
           \/ worker'[w].pc = "idle" /\ chunk' = chunk /\ job.status # "running"
    <2>1. Leave(w) => worker'[w] = Free /\ \A v \in Workers \ {w} : worker'[v] = worker[v]
      BY <1>t DEF Leave
    <2>2. ASSUME NEW pc, Goto(w, pc)
          PROVE  /\ worker'[w].pc = pc /\ worker'[w].locked = worker[w].locked
                 /\ \A v \in Workers \ {w} : worker'[v] = worker[v]
      BY <2>2, <1>t DEF Goto, Tasks
    <2>3. CASE SkipDrive(w)
      BY <2>1, <2>3 DEF SkipDrive, Finish, Free
    <2>4. CASE Resume(w)
      BY <2>1, <2>4 DEF Resume, Created
    <2>5. CASE Plan(w)
      BY <2>2, <2>5 DEF Plan
    <2>6. CASE Create(w)
      <3>1. CASE Created = {}
        <4>1. chunk' = [k \in Chunks |-> "queued"] /\ Goto(w, "fanOut")
          BY <2>6, <3>1 DEF Create
        <4>2. Created' # {}
          BY <4>1, Constants DEF Created
        <4> QED BY <2>2, <4>1, <4>2
      <3>2. CASE Created # {}
        BY <2>1, <2>6, <3>2 DEF Create, Created
      <3> QED BY <3>1, <3>2
    <2>7. CASE FanOut(w)
      BY <2>1, <2>7 DEF FanOut, Created, DriveInv, DriveKept
    <2> QED BY <2>3, <2>4, <2>5, <2>6, <2>7 DEF DriveStep
  <1>4. LockLostByStall'
    BY <1>1, <1>3 DEF Free, DriveInv, LockLostByStall, DrivePcs
  <1>5. (\A v \in Workers : worker[v].pc = "fanOut" => Created # {})'
    BY <1>3 DEF Created, DriveInv, DriveKept
  <1>6. (job.status = "running" /\ Created = {}
           => \E v \in Workers : worker[v].pc \in {"drive", "create"})'
    BY <1>1, <1>3
  <1>7. DriveKept'
    BY <1>1, <1>2, <1>5, <1>6 DEF DriveInv, DriveKept
  <1> QED BY <1>4, <1>7 DEF DriveInv

\* The API and the relays: the drive is added with the row's first acceptance.
LEMMA RelaysKeepDrive ==
  ASSUME Typed, DriveInv, RelayInv,
         Arm \/ Confirm \/ \E r \in Relays : RelayStep(r) \/ RelayBreaks(r)
  PROVE  DriveInv'
  <1> USE DEF records, outbox, NoFault
  <1>r. /\ row[DriveRow].status \in {"none", "pending", "published", "failed"}
        /\ row[DriveRow].status = "none" => DriveRow \notin accepted
        /\ row \in [{DriveRow} -> [status : {"none", "pending", "published", "failed"},
                                   attempts : 0 .. MaxAttempts]]
    BY DEF RelayInv, OutboxInv, Any!OutboxTypeOK, NothingOfNone
  <1>1. CASE Arm
    BY <1>1, UnnoticedKeeps DEF Arm, Unnoticed, Typed, Jobs, Created
  <1>2. CASE Confirm
    <2>1. /\ row[DriveRow].status = "none" /\ row'[DriveRow].status = "pending"
          /\ UNCHANGED <<accepted, chunk, queue, worker, hit>>
      BY <1>2, <1>r DEF Confirm, Outbox!Enqueue
    <2>2. LockLostByStall'
      BY <2>1 DEF DriveInv, LockLostByStall
    <2>3. DriveKept'
      BY <1>r, <2>1 DEF DriveInv, DriveKept, Created
    <2> QED BY <2>2, <2>3 DEF DriveInv
  <1>3. ASSUME NEW r \in Relays, Publish(r) PROVE DriveInv'
    <2>1. /\ accepted' = accepted \cup {DriveRow} /\ UNCHANGED <<row, job, chunk, worker, hit>>
          /\ queue' = BullMQ!Added(queue, {Drive}, 3, FALSE)
      BY <1>3 DEF Publish, Outbox!Publish
    <2>2. LockLostByStall'
      BY <2>1 DEF DriveInv, LockLostByStall
    <2>3. /\ queue[Drive].st = "absent" => BullMQ!Live(queue'[Drive])
          /\ BullMQ!Live(queue[Drive]) => queue'[Drive] = queue[Drive]
      <3>t. queue \in Queues /\ 3 \in Nat /\ FALSE \in BOOLEAN
        BY DEF Typed
      <3>1. /\ \A i \in Ids : BullMQ!Live(queue[i])
                             => BullMQ!Added(queue, {Drive}, 3, FALSE)[i] = queue[i]
            /\ \A i \in Ids \cap {Drive} : queue[i].st = "absent"
                 => BullMQ!Live(BullMQ!Added(queue, {Drive}, 3, FALSE)[i])
        BY <3>t, QueueOps
      <3> QED BY <2>1, <3>1, Constants
    <2>4. DriveKept'
      BY <2>1, <2>3 DEF DriveInv, DriveKept, Created
    <2> QED BY <2>2, <2>4 DEF DriveInv
  <1>4. ASSUME NEW r \in Relays, Claim(r) \/ Settle(r) \/ RelayBreaks(r) PROVE DriveInv'
    <2>1. /\ UNCHANGED <<accepted, job, chunk, queue, worker>> /\ hit \subseteq hit'
      BY <1>4 DEF Claim, Settle, RelayBreaks, Break, Outbox!Claim, Outbox!Settle,
         Outbox!PublishFails, Outbox!SettleFails, Outbox!Dies
    <2>2. row[DriveRow].status # "none" => row'[DriveRow].status # "none"
      <3>1. CASE Claim(r)
        BY <3>1, <1>r DEF Claim, Outbox!Claim, Outbox!Claimed, Outbox!Due
      <3>2. CASE Settle(r)
        BY <3>2, <1>r DEF Settle, Outbox!Settle
      <3>3. CASE RelayBreaks(r)
        BY <3>3 DEF RelayBreaks, Outbox!PublishFails, Outbox!SettleFails, Outbox!Dies
      <3> QED BY <1>4, <3>1, <3>2, <3>3
    <2>3. Unnoticed
      BY <2>1, <2>2 DEF Unnoticed, Created
    <2> QED BY <2>3, UnnoticedKeeps
  <1> QED BY <1>1, <1>2, <1>3, <1>4 DEF RelayStep

\* The queue's side.
LEMMA QueueKeepsDrive ==
  ASSUME Typed, DriveInv,
         \/ \E w \in Workers : Throws(w) \/ WorkerDies(w) \/ LockExpires(w)
         \/ \E w \in Workers, i \in Ids : Take(w, i)
         \/ \E i \in Ids : Expire(i)
         \/ UNCHANGED vars
  PROVE  DriveInv'
  <1> USE DEF records, outbox, NoFault, Running
  <1>t. /\ queue \in Queues /\ worker \in [Workers -> Tasks]
        /\ \A w \in Workers : At(w) \in Ids /\ worker[w] \in Tasks
    BY DEF Typed, Tasks, At
  <1>1. ASSUME NEW w \in Workers, Throws(w) \/ WorkerDies(w) PROVE DriveInv'
    <2>1. /\ worker[w].pc # "idle"
          /\ \/ EndsWith(w, "throw", BullMQ!Retried(queue[At(w)]))
             \/ EndsWith(w, "crash", BullMQ!Redelivered(queue[At(w)]))
      BY <1>1 DEF Throws, WorkerDies
    <2>2. /\ BullMQ!Retried(queue[At(w)]).st \in {"waiting", "failed"}
          /\ BullMQ!Redelivered(queue[At(w)]).st \in {"waiting", "failed"}
      BY <1>t, QueueOps
    <2> QED BY <2>1, <2>2, EndingKeepsDrive
  <1>2. ASSUME NEW w \in Workers, LockExpires(w) PROVE DriveInv'
    <2>1. /\ UNCHANGED <<row, accepted, job, chunk>> /\ "stall" \in hit'
          /\ \A v \in Workers : worker'[v].pc = worker[v].pc
      BY <1>2, <1>t DEF LockExpires, Break, Tasks
    <2>2. DriveRow \notin accepted => queue'[Drive] = queue[Drive]
      <3> SUFFICES ASSUME DriveRow \notin accepted PROVE queue'[Drive] = queue[Drive]
        OBVIOUS
      <3>1. worker[w].pc \notin DrivePcs /\ worker[w].locked
        BY <1>2 DEF DriveInv, DriveKept, LockExpires
      <3>2. At(w) # Drive
        BY <1>t, <3>1, Constants DEF Tasks, At
      <3> QED BY <1>2, <1>t, <3>2 DEF LockExpires, Queues
    <2>3. LockLostByStall'
      BY <2>1 DEF LockLostByStall
    <2>4. DriveKept'
      BY <2>1, <2>2 DEF DriveInv, DriveKept, Created
    <2> QED BY <2>3, <2>4 DEF DriveInv
  <1>3. ASSUME NEW w \in Workers, NEW i \in Ids, Take(w, i) PROVE DriveInv'
    <2>1. /\ UNCHANGED <<row, accepted, job, chunk, hit>>
          /\ \A v \in Workers \ {w} : worker'[v] = worker[v]
          /\ worker[w].pc = "idle" /\ worker'[w].locked
          /\ worker'[w].pc = IF i = Drive THEN "drive" ELSE "job"
          /\ queue[i].st = "waiting"
          /\ \A k \in Ids \ {i} : queue'[k] = queue[k]
      BY <1>3, <1>t DEF Take, Free, Queues
    <2>2. CASE i = Drive
      <3>1. DriveRow \in accepted
        BY <2>1, <2>2 DEF DriveInv, DriveKept
      <3>2. LockLostByStall'
        BY <2>1 DEF DriveInv, LockLostByStall
      <3>3. DriveKept'
        BY <2>1, <2>2, <3>1 DEF DriveInv, DriveKept, Created
      <3> QED BY <3>2, <3>3 DEF DriveInv
    <2>3. CASE i # Drive
      <3>1. Unnoticed
        BY <2>1, <2>3, Constants DEF Unnoticed, Created, DrivePcs
      <3> QED BY <3>1, UnnoticedKeeps
    <2> QED BY <2>2, <2>3
  <1>4. ASSUME NEW i \in Ids, Expire(i) PROVE DriveInv'
    <2>1. /\ UNCHANGED <<row, accepted, job, chunk, hit, worker>>
          /\ BullMQ!Expires(queue[i])
          /\ queue' = [queue EXCEPT ![i] = BullMQ!Absent]
      BY <1>4 DEF Expire
    <2>2. CASE i = Drive
      <3>1. ~BullMQ!Live(queue[Drive]) /\ queue'[Drive].st = "absent"
        BY <1>t, <2>1, <2>2 DEF BullMQ!Expires, BullMQ!Live, BullMQ!Absent, Queues
      <3>2. LockLostByStall'
        BY <2>1 DEF DriveInv, LockLostByStall
      <3>3. DriveKept'
        BY <2>1, <3>1 DEF DriveInv, DriveKept, Created
      <3> QED BY <3>2, <3>3 DEF DriveInv
    <2>3. CASE i # Drive
      <3>1. Unnoticed
        BY <1>t, <2>1, <2>3, Constants DEF Unnoticed, Created, Queues
      <3> QED BY <3>1, UnnoticedKeeps
    <2> QED BY <2>2, <2>3
  <1>5. CASE UNCHANGED vars
    <2>1. Unnoticed
      BY <1>5 DEF vars, Unnoticed, Created
    <2> QED BY <2>1, UnnoticedKeeps
  <1> QED BY <1>1, <1>2, <1>3, <1>4, <1>5

LEMMA DriveInit == Init => DriveInv
  BY Constants DEF Init, DriveInv, LockLostByStall, DriveKept, Free, DrivePcs, BullMQ!Absent,
     Outbox!Init

LEMMA DriveInvStep ==
  ASSUME Typed, DriveInv, RelayInv, [Next]_vars
  PROVE  DriveInv'
  BY ChunkUnnoticed, UnnoticedKeeps, DriveStepKeepsDrive, RelaysKeepDrive, QueueKeepsDrive
     DEF Next, Step

(***************************************************************************)
(* The day's budget.                                                       *)
(***************************************************************************)
Spending == {c \in Contacts \ Fresh : calls[c] # "none"}

\* Whoever is at a vendor is there alone, and had budget left when it asked.
BudgetInv ==
  /\ DailySpend <= DailyBudget
  /\ \A v, w \in Workers : Running(v, "call") /\ Running(w, "call") => v = w
  /\ (\E w \in Workers : Running(w, "call")) => DailySpend < DailyBudget

LEMMA SpendType ==
  /\ IsFiniteSet(Spending)
  /\ DailySpend = Cardinality(Spending) /\ DailySpend \in Nat
  <1>1. IsFiniteSet(Spending)
    BY Constants, FS_Subset DEF Spending
  <1>2. DailySpend = Cardinality(Spending)
    BY DEF DailySpend, Spending
  <1> QED BY <1>1, <1>2, FS_CardinalityType

LEMMA BudgetInit == Typed /\ Init => BudgetInv
  <1> SUFFICES ASSUME Typed, Init PROVE BudgetInv
    OBVIOUS
  <1>1. Spending = {}
    BY DEF Init, Spending
  <1>2. DailySpend = 0 /\ DailyBudget \in Nat
    BY <1>1, SpendType, FS_EmptySet, Constants DEF Typed, DailyBudget
  <1> QED BY <1>2 DEF Init, BudgetInv, Running, Free

\* Steps that record no call and begin none.
LEMMA BudgetFrame ==
  ASSUME BudgetInv, calls' = calls, limits' = limits,
         \A v \in Workers : worker'[v].pc = "call" => worker[v].pc = "call"
  PROVE  BudgetInv'
  BY DEF BudgetInv, DailySpend, DailyBudget, Running

LEMMA CallKeepsBudget ==
  ASSUME Typed, BudgetInv, NEW w \in Workers, Call(w)
  PROVE  BudgetInv'
  <1>1. /\ calls' = calls /\ limits' = limits /\ DailySpend < DailyBudget
        /\ \A v \in Workers : worker[v].pc # "call"
        /\ worker' = [worker EXCEPT ![w].pc = "call"]
    BY DEF Call, NoFault, BudgetFree, Goto, Running
  <1>2. \A v \in Workers \ {w} : worker'[v].pc # "call"
    BY <1>1 DEF Typed
  <1> QED BY <1>1, <1>2 DEF BudgetInv, DailySpend, DailyBudget, Running

LEMMA RecordKeepsBudget ==
  ASSUME Typed, BudgetInv, NEW w \in Workers, Record(w)
  PROVE  BudgetInv'
  <1> DEFINE c == worker[w].next
  <1>1. /\ limits' = limits /\ worker[w].pc = "call"
        /\ worker' = [worker EXCEPT ![w].pc = "add"]
        /\ \A d \in Contacts \ {c} : calls'[d] = calls[d]
    BY DEF Record, NoFault, Running, Goto, Typed
  <1>2. \A v \in Workers : worker'[v].pc # "call"
    <2> SUFFICES ASSUME NEW v \in Workers PROVE worker'[v].pc # "call"
      OBVIOUS
    <2>1. v # w => worker[v].pc # "call" /\ worker'[v] = worker[v]
      BY <1>1 DEF BudgetInv, Running, Typed
    <2>2. worker'[w].pc = "add"
      BY <1>1 DEF Typed, Tasks
    <2> QED BY <2>1, <2>2
  <1>3. DailySpend' <= DailySpend + 1
    <2>1. Spending' \in SUBSET (Spending \cup {c})
      BY <1>1 DEF Spending
    <2>2. /\ IsFiniteSet(Spending \cup {c})
          /\ Cardinality(Spending \cup {c}) \in Nat
          /\ Cardinality(Spending \cup {c}) <= Cardinality(Spending) + 1
      <3>1. /\ IsFiniteSet(Spending \cup {c})
            /\ \/ Cardinality(Spending \cup {c}) = Cardinality(Spending)
               \/ Cardinality(Spending \cup {c}) = Cardinality(Spending) + 1
        BY SpendType, FS_AddElement
      <3>2. Cardinality(Spending) \in Nat
        BY SpendType
      <3> QED BY <3>1, <3>2
    <2>3. Cardinality(Spending') \in Nat /\ Cardinality(Spending') <= Cardinality(Spending \cup {c})
      BY <2>1, <2>2, FS_Subset, FS_CardinalityType
    <2>4. DailySpend' = Cardinality(Spending')
      BY DEF DailySpend, Spending
    <2> QED BY <2>2, <2>3, <2>4, SpendType
  <1>4. DailySpend < DailyBudget /\ DailyBudget \in Nat
    BY <1>1, Constants DEF BudgetInv, Running, Typed, DailyBudget
  <1>5. DailySpend' \in Nat
    <2>1. IsFiniteSet(Spending')
      BY Constants, FS_Subset DEF Spending
    <2> QED BY <2>1, FS_CardinalityType DEF DailySpend, Spending
  <1>6. DailySpend' <= DailyBudget'
    BY <1>1, <1>3, <1>4, <1>5, SpendType DEF DailyBudget
  <1> QED BY <1>2, <1>6 DEF BudgetInv, Running

LEMMA BudgetStep ==
  ASSUME Typed, BudgetInv, [Next]_vars
  PROVE  BudgetInv'
  <1> USE DEF records, NoFault
  <1>t. worker \in [Workers -> Tasks] /\ \A w \in Workers : worker[w] \in Tasks
    BY DEF Typed
  <1>l. ASSUME NEW w \in Workers, Leave(w)
        PROVE  \A v \in Workers : worker'[v].pc = "call" => worker[v].pc = "call"
    BY <1>l, <1>t DEF Leave, Free
  <1>g. ASSUME NEW w \in Workers, NEW pc, pc # "call", Goto(w, pc)
        PROVE  \A v \in Workers : worker'[v].pc = "call" => worker[v].pc = "call"
    BY <1>g, <1>t DEF Goto, Tasks
  <1>1. ASSUME NEW w \in Workers, DriveStep(w) PROVE BudgetInv'
    <2>1. /\ calls' = calls /\ limits' = limits
          /\ Leave(w) \/ Goto(w, "create") \/ Goto(w, "fanOut")
      BY <1>1 DEF DriveStep, SkipDrive, Resume, Plan, Create, FanOut, Finish
    <2> QED BY <2>1, <1>l, <1>g, BudgetFrame
  <1>2. ASSUME NEW w \in Workers,
               \/ EndBand(w) \/ AddSpend(w) \/ WriteLedger(w) \/ Progress(w) \/ Mark(w)
               \/ Pause(w) \/ List(w) \/ Reread(w) \/ Complete(w)
        PROVE  BudgetInv'
    <2>1. CASE AddSpend(w)
      <3>1. \A v \in Workers : worker'[v].pc = "call" => worker[v].pc = "call"
        BY <1>t, <2>1 DEF AddSpend, Tasks
      <3> QED BY <2>1, <3>1, BudgetFrame DEF AddSpend
    <2>2. CASE ~AddSpend(w)
      <3>1. /\ calls' = calls /\ limits' = limits
            /\ Leave(w) \/ \E pc : pc # "call" /\ Goto(w, pc)
        BY <1>2, <2>2 DEF EndBand, WriteLedger, Progress, Mark, Pause, List, Reread,
           Complete, Finish
      <3> QED BY <3>1, <1>l, <1>g, BudgetFrame
    <2> QED BY <2>1, <2>2
  <1>3. ASSUME NEW w \in Workers,
               ReadJob(w) \/ ReadChunk(w) \/ Brake(w) \/ Look(w) \/ DailyBreak(w) \/ ContactFails(w)
        PROVE  BudgetInv'
    <2>1. calls' = calls /\ limits' = limits
      BY <1>3 DEF ReadJob, ReadChunk, Brake, Look, DailyBreak, Halt, ContactFails, Break
    <2>2. CASE Leave(w)
      BY <2>1, <2>2, <1>l, BudgetFrame
    <2>3. CASE ~Leave(w)
      <3>1. \A v \in Workers : worker'[v].pc = "call" => worker[v].pc = "call"
        BY <1>3, <1>t, <2>3
           DEF ReadJob, ReadChunk, Brake, Look, DailyBreak, Halt, ContactFails, Finish, Tasks
      <3> QED BY <2>1, <3>1, BudgetFrame
    <2> QED BY <2>2, <2>3
  <1>4. ASSUME NEW w \in Workers, Throws(w) \/ WorkerDies(w) PROVE BudgetInv'
    <2>1. calls' = calls /\ limits' = limits /\ Leave(w)
      BY <1>4 DEF Throws, WorkerDies, EndsWith, Break
    <2> QED BY <2>1, <1>l, BudgetFrame
  <1>5. ASSUME NEW w \in Workers, LockExpires(w) PROVE BudgetInv'
    <2>1. \A v \in Workers : worker'[v].pc = "call" => worker[v].pc = "call"
      BY <1>5, <1>t DEF LockExpires, Tasks
    <2> QED BY <1>5, <2>1, BudgetFrame DEF LockExpires, Break
  <1>6. ASSUME NEW w \in Workers, NEW i \in Ids, Take(w, i) PROVE BudgetInv'
    <2>1. \A v \in Workers : worker'[v].pc = "call" => worker[v].pc = "call"
      BY <1>6, <1>t DEF Take, Free
    <2> QED BY <1>6, <2>1, BudgetFrame DEF Take
  <1>7. ASSUME \/ Arm \/ Confirm \/ \E r \in Relays : RelayStep(r) \/ RelayBreaks(r)
               \/ \E i \in Ids : Expire(i)
               \/ UNCHANGED vars
        PROVE  BudgetInv'
    <2>1. calls' = calls /\ limits' = limits /\ worker' = worker
      BY <1>7 DEF Arm, Confirm, RelayStep, RelayBreaks, Claim, Publish, Settle, Break, Expire, vars
    <2> QED BY <2>1, BudgetFrame
  <1> QED BY <1>1, <1>2, <1>3, <1>4, <1>5, <1>6, <1>7, CallKeepsBudget, RecordKeepsBudget
          DEF Next, Step, ChunkStep

(***************************************************************************)
(* The invariant.                                                          *)
(***************************************************************************)
IInv == Typed /\ RelayInv /\ DriveInv /\ BudgetInv

\* A confirmed run without chunks: its row is due, or was given up after its
\* last attempt, or was accepted and the drive is kept.
LEMMA DriveKeptSuffices ==
  ASSUME RelayInv, DriveInv
  PROVE  DriveNeverStranded
  <1> SUFFICES ASSUME job.status = "running", Created = {},
                      row[DriveRow].status # "pending",
                      row[DriveRow].attempts # MaxAttempts
               PROVE  \/ BullMQ!Live(queue[Drive])
                      \/ \E w \in Workers : worker[w].pc \in {"drive", "create"}
                      \/ hit \cap {"dead", "stall"} # {}
    BY DEF DriveNeverStranded
  <1>1. row[DriveRow].status \in {"published", "failed"}
    BY DEF RelayInv, OutboxInv, Any!OutboxTypeOK, DriveInv, DriveKept
  <1>2. DriveRow \in accepted
    BY <1>1 DEF RelayInv, OutboxInv, Any!OutboxSound
  <1> QED BY <1>2 DEF DriveInv, DriveKept

LEMMA IInvSuffices == IInv => RunInv
  <1> SUFFICES ASSUME IInv PROVE RunInv
    OBVIOUS
  <1>1. TypeOK
    BY TypedIsTypeOK DEF IInv
  <1>2. Outbox!OutboxSound
    BY SameOutbox DEF IInv, RelayInv, OutboxInv
  <1>3. DailyBudgetHolds
    BY DEF IInv, BudgetInv, DailyBudgetHolds
  <1>4. DriveNeverStranded
    BY DriveKeptSuffices DEF IInv
  <1> QED BY <1>1, <1>2, <1>3, <1>4 DEF RunInv

(***************************************************************************)
(* Under every fault: the outbox is sound, concurrent chunks never         *)
(* overshoot the day's budget on record, and a confirmed run is never left *)
(* without its drive.                                                      *)
(***************************************************************************)
THEOREM RunIsSafe == Spec => []RunInv
  <1>1. Init => IInv
    BY TypedInit, RelayInvKept, DriveInit, BudgetInit DEF IInv
  <1>2. IInv /\ [Next]_vars => IInv'
    BY TypedStep, RelayInvKept, DriveInvStep, BudgetStep DEF IInv
  <1> QED BY <1>1, <1>2, IInvSuffices, PTL DEF Spec

(***************************************************************************)
(* The ceiling.                                                            *)
(***************************************************************************)

\* A call that the run's spend does not count yet.
Calling(t) == t.pc \in {"call", "add"}

\* A band that goes on, because the ceiling was not reached when it last looked.
Unaware(t) == t.pc \in {"chunk", "next", "lock", "call", "add"} /\ t.seen < Cap

InFlight == {w \in Workers : Calling(worker[w])}
Blind    == {w \in Workers : Unaware(worker[w])}
Asked    == SumOver(bills, Contacts)

\* Below the ceiling a vendor was asked once per credit spent, call in flight
\* and fault; from the ceiling on, each worker that has not noticed adds at
\* most one, and the worker that reached it has.
CapInv ==
  /\ Asked <= job.spent + Cardinality(InFlight) + faults
  /\ Cap > 0 /\ job.spent >= Cap
       => job.spent + Cardinality(Blind) <= Cap + Cardinality(Workers) - 1
  /\ \A w \in Workers : worker[w].pc \in {"lock", "call", "add"} => worker[w].seen < Cap
  /\ Cap = 0 => \A c \in Contacts : bills[c] = 0

LEMMA Counts ==
  /\ InFlight \in SUBSET Workers /\ Blind \in SUBSET Workers
  /\ InFlight' \in SUBSET Workers /\ Blind' \in SUBSET Workers
  /\ \A S \in SUBSET Workers :
       /\ IsFiniteSet(S) /\ Cardinality(S) \in Nat
       /\ Cardinality(S) <= Cardinality(Workers)
       /\ \A w \in Workers :
            /\ Cardinality(S \cup {w}) \in Nat
            /\ Cardinality(S \cup {w}) = IF w \in S THEN Cardinality(S) ELSE Cardinality(S) + 1
            /\ Cardinality(S \ {w}) \in Nat
            /\ Cardinality(S \ {w}) = IF w \in S THEN Cardinality(S) - 1 ELSE Cardinality(S)
       /\ \A T \in SUBSET S : Cardinality(T) \in Nat /\ Cardinality(T) <= Cardinality(S)
  <1>1. /\ InFlight \in SUBSET Workers /\ Blind \in SUBSET Workers
        /\ InFlight' \in SUBSET Workers /\ Blind' \in SUBSET Workers
    BY DEF InFlight, Blind
  <1>2. ASSUME NEW S \in SUBSET Workers
        PROVE  IsFiniteSet(S) /\ Cardinality(S) \in Nat /\ Cardinality(S) <= Cardinality(Workers)
    BY RunAssumption, FS_Subset, FS_CardinalityType
  <1>3. ASSUME NEW S \in SUBSET Workers, NEW w \in Workers
        PROVE  /\ Cardinality(S \cup {w}) \in Nat
               /\ Cardinality(S \cup {w}) = IF w \in S THEN Cardinality(S) ELSE Cardinality(S) + 1
    BY <1>2, FS_AddElement
  <1>4. ASSUME NEW S \in SUBSET Workers, NEW w \in Workers
        PROVE  /\ Cardinality(S \ {w}) \in Nat
               /\ Cardinality(S \ {w}) = IF w \in S THEN Cardinality(S) - 1 ELSE Cardinality(S)
    <2>1. Cardinality(S \ {w}) \in Nat
      BY <1>2
    <2> QED BY <2>1, <1>2, FS_RemoveElement
  <1>5. ASSUME NEW S \in SUBSET Workers, NEW T \in SUBSET S
        PROVE  Cardinality(T) \in Nat /\ Cardinality(T) <= Cardinality(S)
    BY <1>2, FS_Subset
  <1> QED BY <1>1, <1>2, <1>3, <1>4, <1>5

LEMMA CapTypes ==
  ASSUME Typed
  PROVE  /\ Asked \in Nat /\ job.spent \in Nat /\ faults \in Nat /\ Cap \in Nat
         /\ \A w \in Workers : worker[w].seen \in Nat
  <1>1. Asked \in Nat
    BY Constants, SumBelow DEF Typed, Asked
  <1>2. job.spent \in Nat /\ faults \in Nat /\ Cap \in Nat
    BY Constants DEF Typed, Jobs, Cap
  <1>3. \A w \in Workers : worker[w].seen \in Nat
    BY DEF Typed, Tasks
  <1> QED BY <1>1, <1>2, <1>3

\* Steps that ask no vendor and book nothing: a call leaves the flight only with
\* a fault, and a worker becomes unaware only below the ceiling.
Unspent ==
  /\ job'.spent = job.spent /\ bills' = bills /\ limits' = limits
  /\ faults' \in {faults, faults + 1}
  /\ \A v \in Workers :
       /\ Calling(worker'[v]) => Calling(worker[v])
       /\ Calling(worker[v]) /\ faults' = faults => Calling(worker'[v])
       /\ worker'[v].pc \in {"lock", "call", "add"} => worker'[v].seen < Cap
       /\ Unaware(worker'[v]) => Unaware(worker[v]) \/ job.spent < Cap
  /\ \/ worker' = worker
     \/ \E w \in Workers : \A v \in Workers \ {w} : worker'[v] = worker[v]

LEMMA UnspentKeeps ==
  ASSUME Typed, CapInv, Unspent
  PROVE  CapInv'
  <1>t. /\ Asked \in Nat /\ job.spent \in Nat /\ faults \in Nat /\ Cap \in Nat
        /\ Cap' = Cap /\ Asked' = Asked
    BY CapTypes DEF Unspent, Cap, Asked
  <1>1. Asked' <= job'.spent + Cardinality(InFlight') + faults'
    <2>1. Cardinality(InFlight') \in Nat /\ Cardinality(InFlight) \in Nat
      BY Counts
    <2>2. CASE faults' = faults
      <3>1. InFlight' = InFlight
        BY <2>2 DEF Unspent, InFlight
      <3> QED BY <1>t, <2>1, <2>2, <3>1 DEF Unspent, CapInv
    <2>3. CASE faults' = faults + 1
      <3>1. CASE worker' = worker
        <4>1. InFlight' = InFlight
          BY <3>1 DEF InFlight
        <4> QED BY <1>t, <2>1, <2>3, <4>1 DEF Unspent, CapInv
      <3>2. ASSUME NEW w \in Workers, \A v \in Workers \ {w} : worker'[v] = worker[v]
            PROVE  Asked' <= job'.spent + Cardinality(InFlight') + faults'
        <4>1. InFlight \ {w} \in SUBSET InFlight'
          BY <3>2 DEF InFlight
        <4>2. Cardinality(InFlight \ {w}) >= Cardinality(InFlight) - 1
              /\ Cardinality(InFlight \ {w}) <= Cardinality(InFlight')
          BY <2>1, <4>1, Counts
        <4>3. Cardinality(InFlight \ {w}) \in Nat
          BY Counts
        <4> QED BY <1>t, <2>1, <2>3, <4>2, <4>3 DEF Unspent, CapInv
      <3> QED BY <3>1, <3>2 DEF Unspent
    <2> QED BY <2>2, <2>3 DEF Unspent
  <1>2. ASSUME Cap > 0, job.spent >= Cap
        PROVE  job.spent + Cardinality(Blind') <= Cap + Cardinality(Workers) - 1
    <2>1. Blind' \in SUBSET Blind
      <3> SUFFICES ASSUME NEW v \in Workers, Unaware(worker[v])' PROVE Unaware(worker[v])
        BY DEF Blind
      <3>1. Unaware(worker'[v])
        BY <1>t DEF Unaware
      <3> QED BY <1>2, <1>t, <3>1 DEF Unspent
    <2>2. Cardinality(Blind') <= Cardinality(Blind) /\ Cardinality(Blind) \in Nat
          /\ Cardinality(Blind') \in Nat
      BY <2>1, Counts
    <2>3. Cardinality(Workers) \in Nat
      BY Counts
    <2> QED BY <1>2, <1>t, <2>2, <2>3 DEF CapInv
  <1> QED BY <1>1, <1>2, <1>t DEF Unspent, CapInv

\* The vendor is asked once more, and a call is in flight.
LEMMA CallKeepsCap ==
  ASSUME Typed, CapInv, NEW w \in Workers, Call(w)
  PROVE  CapInv'
  <1> DEFINE c == worker[w].next
  <1>t. /\ Asked \in Nat /\ job.spent \in Nat /\ faults \in Nat /\ Cap \in Nat
        /\ worker[w] \in Tasks /\ DOMAIN worker = Workers
    BY CapTypes DEF Typed
  <1>1. /\ job' = job /\ limits' = limits /\ faults' = faults /\ worker[w].pc = "lock"
        /\ bills' = [bills EXCEPT ![c] = @ + 1]
        /\ worker' = [worker EXCEPT ![w].pc = "call"]
    BY DEF Call, NoFault, Running, Goto
  <1>2. /\ \A v \in Workers \ {w} : worker'[v] = worker[v]
        /\ worker'[w].pc = "call" /\ worker'[w].seen = worker[w].seen
        /\ worker[w].seen < Cap
    BY <1>1, <1>t DEF Tasks, CapInv
  <1>3. Asked' <= Asked + 1
    <2>1. CASE c \in Contacts
      <3>1. /\ \A d \in Contacts : bills[d] \in Int /\ bills'[d] \in Int
            /\ bills'[c] = bills[c] + 1
            /\ \A d \in Contacts \ {c} : bills'[d] = bills[d]
        BY <1>1, <2>1 DEF Typed
      <3>2. SumOver(bills', Contacts) = SumOver(bills, Contacts) + bills'[c] - bills[c]
        <4>1. IsFiniteSet(Contacts)
          BY Constants
        <4> HIDE DEF c
        <4> QED BY <2>1, <3>1, <4>1, SumChange
      <3> QED BY <1>t, <2>1, <3>1, <3>2 DEF Asked
    <2>2. CASE c \notin Contacts
      <3>1. \A d \in Contacts : bills'[d] = bills[d]
        BY <1>1, <2>2 DEF Typed
      <3>2. SumOver(bills', Contacts) = SumOver(bills, Contacts)
        BY <3>1, Constants, SumSame
      <3> QED BY <1>t, <3>2 DEF Asked
    <2> QED BY <2>1, <2>2
  <1>4. InFlight' = InFlight \cup {w} /\ w \notin InFlight /\ Blind' = Blind
    BY <1>1, <1>2 DEF InFlight, Blind, Calling, Unaware, Cap
  <1>5. Cardinality(InFlight') = Cardinality(InFlight) + 1 /\ Cardinality(InFlight) \in Nat
    BY <1>4, Counts
  <1>6. Asked' \in Int
    <2>1. \A d \in Contacts : bills'[d] \in Int
      BY <1>1 DEF Typed
    <2> QED BY <2>1, Constants, SumInt DEF Asked
  <1>7. Asked' <= job'.spent + Cardinality(InFlight') + faults'
    BY <1>1, <1>3, <1>5, <1>6, <1>t DEF CapInv
  <1>8. Cap' = Cap /\ Cap > 0
    BY <1>1, <1>2, <1>t, CapTypes DEF Cap
  <1>9. \A v \in Workers : worker'[v].pc \in {"lock", "call", "add"} => worker'[v].seen < Cap
    BY <1>2 DEF CapInv
  <1> QED BY <1>1, <1>4, <1>7, <1>8, <1>9, <1>t DEF CapInv

\* The credit is booked, and the worker sees the run's total.
LEMMA AddKeepsCap ==
  ASSUME Typed, CapInv, NEW w \in Workers, AddSpend(w)
  PROVE  CapInv'
  <1>t. /\ Asked \in Nat /\ job.spent \in Nat /\ faults \in Nat /\ Cap \in Nat
        /\ worker[w] \in Tasks /\ DOMAIN worker = Workers
        /\ Cardinality(Workers) \in Nat
    BY CapTypes, Counts DEF Typed
  <1>1. /\ job'.spent = job.spent + 1 /\ bills' = bills /\ limits' = limits /\ faults' = faults
        /\ worker[w].pc = "add" /\ worker'[w].pc = "next" /\ worker'[w].seen = job.spent + 1
        /\ \A v \in Workers \ {w} : worker'[v] = worker[v]
    BY <1>t DEF AddSpend, NoFault, Running, Typed, Jobs, Tasks
  <1>2. Cap' = Cap /\ Asked' = Asked /\ worker[w].seen < Cap
    BY <1>1 DEF Cap, Asked, CapInv
  <1>3. InFlight' = InFlight \ {w} /\ w \in InFlight /\ w \in Blind
    BY <1>1, <1>2 DEF InFlight, Blind, Calling, Unaware
  <1>4. Cardinality(InFlight') = Cardinality(InFlight) - 1 /\ Cardinality(InFlight) \in Nat
    BY <1>3, Counts
  <1>5. Asked' <= job'.spent + Cardinality(InFlight') + faults'
    BY <1>1, <1>2, <1>4, <1>t DEF CapInv
  <1>6. ASSUME Cap > 0, job'.spent >= Cap
        PROVE  job'.spent + Cardinality(Blind') <= Cap + Cardinality(Workers) - 1
    <2>1. Blind' = Blind \ {w}
      BY <1>1, <1>2, <1>6, <1>t DEF Blind, Unaware
    <2>2. Cardinality(Blind') = Cardinality(Blind) - 1 /\ Cardinality(Blind) \in Nat
          /\ Cardinality(Blind) <= Cardinality(Workers)
      BY <1>3, <2>1, Counts
    <2>3. CASE job.spent >= Cap
      BY <1>1, <1>6, <1>t, <2>2, <2>3 DEF CapInv
    <2>4. CASE ~ job.spent >= Cap
      BY <1>1, <1>6, <1>t, <2>2, <2>4
    <2> QED BY <2>3, <2>4
  <1>7. \A v \in Workers : worker'[v].pc \in {"lock", "call", "add"} => worker'[v].seen < Cap
    BY <1>1 DEF CapInv
  <1> QED BY <1>1, <1>2, <1>5, <1>6, <1>7 DEF CapInv

\* A worker that leaves, or goes where no vendor is called.
LEMMA LeavingUnspent ==
  ASSUME Typed, CapInv, NEW w \in Workers, Leave(w),
         job'.spent = job.spent, bills' = bills, limits' = limits,
         \/ faults' = faults /\ ~Calling(worker[w])
         \/ faults' = faults + 1
  PROVE  Unspent
  BY DEF Typed, Leave, Free, Unspent, Calling, Unaware, CapInv

LEMMA GoingUnspent ==
  ASSUME Typed, CapInv, NEW w \in Workers, NEW pc, Goto(w, pc),
         job'.spent = job.spent, bills' = bills, limits' = limits, faults' = faults,
         \/ pc \notin {"chunk", "next", "lock", "call", "add"} /\ ~Calling(worker[w])
         \/ pc = "add" /\ worker[w].pc = "call"
  PROVE  Unspent
  <1>1. worker[w] \in Tasks /\ DOMAIN worker = Workers
    BY DEF Typed
  <1>2. /\ \A v \in Workers \ {w} : worker'[v] = worker[v]
        /\ worker'[w].pc = pc /\ worker'[w].seen = worker[w].seen
    BY <1>1 DEF Goto, Tasks
  <1> QED BY <1>2 DEF Unspent, Calling, Unaware, CapInv

LEMMA UnspentSteps ==
  ASSUME Typed, CapInv, [Next]_vars,
         ~(\E w \in Workers : Call(w)), ~(\E w \in Workers : AddSpend(w))
  PROVE  Unspent
  <1> USE DEF records, NoFault, Running
  <1>t. /\ worker \in [Workers -> Tasks] /\ \A w \in Workers : worker[w] \in Tasks
        /\ DOMAIN worker = Workers /\ job \in Jobs
    BY DEF Typed
  <1>1. ASSUME NEW w \in Workers, DriveStep(w) PROVE Unspent
    <2>1. /\ job'.spent = job.spent /\ bills' = bills /\ limits' = limits /\ faults' = faults
          /\ ~Calling(worker[w])
          /\ Leave(w) \/ Goto(w, "create") \/ Goto(w, "fanOut")
      BY <1>1 DEF DriveStep, SkipDrive, Resume, Plan, Create, FanOut, Finish, Calling
    <2> QED BY <2>1, LeavingUnspent, GoingUnspent
  <1>2. ASSUME NEW w \in Workers,
               \/ EndBand(w) \/ WriteLedger(w) \/ Progress(w) \/ Mark(w)
               \/ Pause(w) \/ List(w) \/ Reread(w) \/ Complete(w) \/ Record(w)
        PROVE  Unspent
    <2>1. /\ job'.spent = job.spent /\ bills' = bills /\ limits' = limits /\ faults' = faults
      BY <1>2, <1>t DEF EndBand, WriteLedger, Progress, Mark, Pause, List, Reread, Complete, Record,
         Finish, Jobs
    <2>2. \/ /\ ~Calling(worker[w])
             /\ \/ Leave(w)
                \/ \E pc : pc \notin {"chunk", "next", "lock", "call", "add"} /\ Goto(w, pc)
          \/ worker[w].pc = "call" /\ Goto(w, "add")
      BY <1>2 DEF EndBand, WriteLedger, Progress, Mark, Pause, List, Reread, Complete, Record,
         Finish, Calling
    <2> QED BY <2>1, <2>2, LeavingUnspent, GoingUnspent
  <1>3. ASSUME NEW w \in Workers,
               ReadJob(w) \/ ReadChunk(w) \/ Brake(w) \/ Look(w) \/ DailyBreak(w)
        PROVE  Unspent
    <2>1. job' = job /\ bills' = bills /\ limits' = limits /\ faults' = faults
          /\ ~Calling(worker[w])
      BY <1>3 DEF ReadJob, ReadChunk, Brake, Look, DailyBreak, Halt, Calling
    <2>2. CASE Leave(w)
      BY <2>1, <2>2, LeavingUnspent
    <2>3. CASE ~Leave(w)
      <3>1. \A v \in Workers \ {w} : worker'[v] = worker[v]
        BY <1>3, <1>t, <2>3 DEF ReadJob, ReadChunk, Brake, Look, DailyBreak, Halt, Finish
      <3>2. CASE ReadJob(w)
        <4>1. worker'[w].pc = "chunk" /\ worker'[w].seen = job.spent
          BY <1>t, <2>3, <3>2 DEF ReadJob, Finish, Tasks
        <4> QED BY <2>1, <3>1, <4>1 DEF Unspent, Calling, Unaware, CapInv
      <3>3. CASE ReadChunk(w)
        <4>1. /\ worker[w].pc = "chunk" /\ worker'[w].pc = "next"
              /\ worker'[w].seen = worker[w].seen
          BY <1>t, <2>3, <3>3 DEF ReadChunk, Finish, Tasks
        <4> QED BY <2>1, <3>1, <4>1 DEF Unspent, Calling, Unaware, CapInv
      <3>4. CASE Look(w)
        <4>1. /\ worker[w].pc = "next" /\ worker'[w].pc \in {"next", "lock"}
              /\ worker'[w].seen = worker[w].seen /\ ~ worker[w].seen >= Cap
          BY <1>t, <3>4 DEF Look, CapReached, Tasks
        <4>2. worker[w].seen < Cap
          BY <4>1, CapTypes
        <4> QED BY <2>1, <3>1, <4>1, <4>2 DEF Unspent, Calling, Unaware, CapInv
      <3>5. CASE Brake(w) \/ DailyBreak(w)
        <4>1. worker'[w].pc = "ledger"
          BY <1>t, <3>5 DEF Brake, DailyBreak, Halt, Tasks
        <4> QED BY <2>1, <3>1, <4>1 DEF Unspent, Calling, Unaware, CapInv
      <3> QED BY <1>3, <3>2, <3>3, <3>4, <3>5
    <2> QED BY <2>2, <2>3
  <1>4. ASSUME NEW w \in Workers, Throws(w) \/ WorkerDies(w) PROVE Unspent
    <2>1. job' = job /\ bills' = bills /\ limits' = limits /\ Leave(w) /\ faults' = faults + 1
      BY <1>4 DEF Throws, WorkerDies, EndsWith, Break
    <2> QED BY <2>1, LeavingUnspent
  <1>5. ASSUME NEW w \in Workers, ContactFails(w) \/ LockExpires(w) PROVE Unspent
    <2>1. job' = job /\ bills' = bills /\ limits' = limits /\ faults' = faults + 1
          /\ \A v \in Workers \ {w} : worker'[v] = worker[v]
      BY <1>5, <1>t DEF ContactFails, LockExpires, Break
    <2>2. \/ worker[w].pc = "call" /\ worker'[w].pc = "next" /\ worker'[w].seen = worker[w].seen
          \/ worker'[w].pc = worker[w].pc /\ worker'[w].seen = worker[w].seen
      BY <1>5, <1>t DEF ContactFails, LockExpires, Tasks
    <2> QED BY <2>1, <2>2 DEF Unspent, Calling, Unaware, CapInv
  <1>6. ASSUME NEW w \in Workers, NEW i \in Ids, Take(w, i) PROVE Unspent
    <2>1. /\ job' = job /\ bills' = bills /\ limits' = limits /\ faults' = faults
          /\ \A v \in Workers \ {w} : worker'[v] = worker[v]
          /\ worker[w].pc = "idle" /\ worker'[w].pc \in {"drive", "job"}
      BY <1>6, <1>t DEF Take, Free
    <2> QED BY <2>1 DEF Unspent, Calling, Unaware, CapInv
  <1>7. ASSUME \/ Arm \/ Confirm \/ \E r \in Relays : RelayStep(r) \/ RelayBreaks(r)
               \/ \E i \in Ids : Expire(i)
               \/ UNCHANGED vars
        PROVE  Unspent
    <2>1. job'.spent = job.spent /\ bills' = bills /\ limits' = limits /\ worker' = worker
          /\ faults' \in {faults, faults + 1}
      BY <1>7, <1>t DEF Arm, Confirm, RelayStep, RelayBreaks, Claim, Publish, Settle, Break, Expire,
         vars, Jobs
    <2> QED BY <2>1 DEF Unspent, Calling, Unaware, CapInv
  <1> QED BY <1>1, <1>2, <1>3, <1>4, <1>5, <1>6, <1>7 DEF Next, Step, ChunkStep

LEMMA CapStep ==
  ASSUME Typed, CapInv, [Next]_vars
  PROVE  CapInv'
  BY UnspentSteps, UnspentKeeps, CallKeepsCap, AddKeepsCap

LEMMA CapInit == Typed /\ Init => CapInv
  <1> SUFFICES ASSUME Typed, Init PROVE CapInv
    OBVIOUS
  <1>1. /\ \A c \in Contacts : bills[c] = 0
        /\ \A w \in Workers : worker[w].pc = "idle"
        /\ job.spent = 0 /\ faults = 0
    BY DEF Init, Free
  <1>2. Asked = 0
    <2>1. SumOver(bills, Contacts) = SumOver(bills, {})
      <3>1. /\ \A c \in Contacts : bills[c] \in Int
            /\ {} \in SUBSET Contacts /\ \A c \in Contacts \ {} : bills[c] = 0
        BY <1>1
      <3> QED BY <3>1, Constants, SumSupport
    <2> QED BY <2>1, SumEmpty DEF Asked
  <1>3. InFlight = {} /\ Cap \in Nat
    BY <1>1, CapTypes DEF InFlight, Calling
  <1> QED BY <1>1, <1>2, <1>3, FS_EmptySet DEF CapInv

(***************************************************************************)
(* "A hard stop": whatever breaks, vendors are asked at most for the       *)
(* confirmed ceiling, plus one contact in flight at every other worker,    *)
(* plus one call lost with each fault.                                     *)
(***************************************************************************)
THEOREM CeilingHolds == Spec => []CapHolds
  <1>1. Init => Typed /\ CapInv
    BY TypedInit, CapInit
  <1>2. Typed /\ CapInv /\ [Next]_vars => Typed' /\ CapInv'
    BY TypedStep, CapStep
  <1>3. Typed /\ CapInv => CapHolds
    <2> SUFFICES ASSUME Typed, CapInv PROVE CapHolds
      OBVIOUS
    <2>1. MapThenSumSet(LAMBDA c : bills[c], Contacts) = Asked
      BY DEF Asked, SumOver
    <2>t. /\ Asked \in Nat /\ job.spent \in Nat /\ faults \in Nat /\ Cap \in Nat
          /\ Cardinality(Workers) \in Nat
      BY CapTypes, Counts
    <2>2. CASE Cap = 0
      <3>1. /\ \A c \in Contacts : bills[c] \in Int /\ bills[c] = 0
            /\ {} \in SUBSET Contacts /\ \A c \in Contacts \ {} : bills[c] = 0
        BY <2>2 DEF CapInv
      <3>2. SumOver(bills, Contacts) = SumOver(bills, {})
        BY <3>1, Constants, SumSupport
      <3> QED BY <2>1, <2>2, <3>2, SumEmpty DEF CapHolds, Asked
    <2>3. CASE Cap # 0
      <3>1. InFlight \in SUBSET Blind
        BY DEF InFlight, Blind, Calling, Unaware, CapInv
      <3>2. /\ Cardinality(InFlight) <= Cardinality(Blind)
            /\ Cardinality(Blind) <= Cardinality(Workers)
            /\ Cardinality(InFlight) \in Nat /\ Cardinality(Blind) \in Nat
        BY <3>1, Counts
      <3>3. Asked <= Cap + Cardinality(Workers) - 1 + faults
        BY <2>3, <2>t, <3>2 DEF CapInv
      <3> QED BY <2>1, <2>3, <3>3 DEF CapHolds
    <2> QED BY <2>2, <2>3
  <1> QED BY <1>1, <1>2, <1>3, PTL DEF Spec

(***************************************************************************)
(* The bands.                                                              *)
(***************************************************************************)
Band(k) == First(k) .. Last(k)

LEMMA Multiples ==
  ASSUME NEW b \in Nat \ {0}
  PROVE  /\ \A m, n \in Nat : m <= n => m * b <= n * b
         /\ \A m, n \in Nat : m * b < n * b => m < n
         /\ \A m \in Nat : m * b \in Nat /\ (m + 1) * b = m * b + b
         /\ \A a \in Nat : /\ a \div b \in Nat
                           /\ (a \div b) * b <= a /\ a < (a \div b) * b + b
  <1>1. \A m, n \in Nat : m <= n => m * b <= n * b
    OBVIOUS
  <1>2. \A m, n \in Nat : m * b < n * b => m < n
    OBVIOUS
  <1>3. \A m \in Nat : m * b \in Nat /\ (m + 1) * b = m * b + b
    OBVIOUS
  <1>4. \A a \in Nat : /\ a \div b \in Nat
                       /\ (a \div b) * b <= a /\ a < (a \div b) * b + b
    OBVIOUS
  <1> QED BY <1>1, <1>2, <1>3, <1>4

\* The bands split the contacts.
LEMMA Bands ==
  /\ \A k \in Chunks : /\ First(k) \in Nat /\ Last(k) \in Nat
                       /\ First(k) <= Last(k)
                       /\ Band(k) \in SUBSET Contacts
                       /\ IsFiniteSet(Band(k))
                       /\ Cardinality(Band(k)) = Last(k) + 1 - First(k)
  /\ \A j, k \in Chunks : j # k => Band(j) \cap Band(k) = {}
  /\ \A c \in Contacts : \E k \in Chunks : c \in Band(k)
  <1> DEFINE top == (Total + BandRows - 1) \div BandRows
  <1>a. Total \in Nat \ {0} /\ BandRows \in Nat \ {0} /\ Total + BandRows - 1 \in Nat
    BY Constants
  <1>b. /\ top \in Nat /\ top * BandRows <= Total + BandRows - 1
        /\ Total + BandRows - 1 < top * BandRows + BandRows
        /\ Chunks = 1 .. top
    BY <1>a, Multiples DEF Chunks
  <1>m. \A j, k \in Nat : j <= k => j * BandRows <= k * BandRows
    BY <1>a, Multiples
  <1> HIDE DEF top
  <1>1. ASSUME NEW k \in Chunks
        PROVE  /\ k - 1 \in Nat /\ k \in Nat
               /\ (k - 1) * BandRows \in Nat /\ k * BandRows = (k - 1) * BandRows + BandRows
               /\ (k - 1) * BandRows < Total
    <2>1. k \in Nat /\ k - 1 \in Nat /\ k <= top
      BY <1>b
    <2>2. (k - 1) * BandRows \in Nat /\ ((k - 1) + 1) * BandRows = (k - 1) * BandRows + BandRows
      BY <1>a, <2>1, Multiples
    <2>3. k * BandRows <= top * BandRows
      BY <1>b, <1>m, <2>1
    <2>4. k = (k - 1) + 1
      BY <2>1
    <2>5. k * BandRows = (k - 1) * BandRows + BandRows
      BY <2>2, <2>4
    <2> DEFINE p == (k - 1) * BandRows
               q == k * BandRows
               t == top * BandRows
    <2>6. p \in Nat /\ q = p + BandRows /\ q <= t /\ t <= Total + BandRows - 1
      BY <1>b, <2>2, <2>3, <2>5
    <2>7. t \in Nat
      BY <1>a, <1>b, Multiples
    <2> HIDE DEF p, q, t
    <2>8. p < Total
      BY <1>a, <2>6, <2>7
    <2> QED BY <2>1, <2>2, <2>5, <2>8 DEF p
  <1>2. ASSUME NEW k \in Chunks
        PROVE  /\ First(k) = (k - 1) * BandRows + 1
               /\ Last(k) <= (k - 1) * BandRows + BandRows /\ Last(k) <= Total
               /\ First(k) \in Nat /\ Last(k) \in Nat /\ First(k) >= 1
               /\ First(k) <= Last(k)
               /\ \A c \in Contacts : c <= (k - 1) * BandRows + BandRows => c <= Last(k)
    <2> DEFINE p == (k - 1) * BandRows
               q == k * BandRows
    <2>1. p \in Nat /\ q = p + BandRows /\ p < Total
      BY <1>1
    <2>2. First(k) = p + 1 /\ Last(k) = IF q < Total THEN q ELSE Total
      BY DEF First, Last
    <2> HIDE DEF p, q
    <2>3. /\ First(k) = p + 1
          /\ Last(k) <= p + BandRows /\ Last(k) <= Total
          /\ First(k) \in Nat /\ Last(k) \in Nat /\ First(k) >= 1
          /\ First(k) <= Last(k)
          /\ \A c \in Contacts : c <= p + BandRows => c <= Last(k)
      BY <1>a, <2>1, <2>2 DEF Contacts
    <2> QED BY <2>3 DEF p
  <1>3. ASSUME NEW k \in Chunks
        PROVE  /\ Band(k) \in SUBSET Contacts /\ IsFiniteSet(Band(k))
               /\ Cardinality(Band(k)) = Last(k) + 1 - First(k)
    <2>1. Band(k) \in SUBSET Contacts
      BY <1>2, <1>a DEF Band, Contacts
    <2>2. First(k) \in Int /\ Last(k) \in Int /\ First(k) <= Last(k)
      BY <1>2
    <2>3. /\ IsFiniteSet(First(k) .. Last(k))
          /\ Cardinality(First(k) .. Last(k))
               = IF First(k) > Last(k) THEN 0 ELSE Last(k) - First(k) + 1
      BY <2>2, FS_Interval
    <2> QED BY <2>1, <2>2, <2>3 DEF Band
  <1>4. ASSUME NEW j \in Chunks, NEW k \in Chunks, j < k
        PROVE  Band(j) \cap Band(k) = {}
    <2>1. j \in Nat /\ k - 1 \in Nat /\ j <= k - 1
      BY <1>1, <1>4
    <2>2. j * BandRows <= (k - 1) * BandRows
      BY <1>m, <2>1
    <2>3. (j - 1) * BandRows + BandRows <= (k - 1) * BandRows
      BY <1>1, <2>2
    <2> DEFINE p == (j - 1) * BandRows
               q == (k - 1) * BandRows
    <2>4. p + BandRows <= q /\ Last(j) <= p + BandRows /\ First(k) = q + 1
          /\ First(j) \in Nat /\ Last(j) \in Nat /\ First(k) \in Nat /\ Last(k) \in Nat
          /\ p \in Nat /\ q \in Nat /\ BandRows \in Nat
      BY <1>1, <1>2, <1>a, <2>3
    <2> HIDE DEF p, q
    <2> QED BY <2>4 DEF Band
  <1>5. \A j, k \in Chunks : j # k => Band(j) \cap Band(k) = {}
    <2> SUFFICES ASSUME NEW j \in Chunks, NEW k \in Chunks, j # k
                 PROVE  Band(j) \cap Band(k) = {}
      OBVIOUS
    <2>1. j \in Nat /\ k \in Nat
      BY <1>1
    <2>2. j < k \/ k < j
      BY <2>1
    <2> QED BY <1>4, <2>2
  <1>6. ASSUME NEW c \in Contacts
        PROVE  \E k \in Chunks : c \in Band(k)
    <2> DEFINE k == (c - 1) \div BandRows + 1
               m == (c - 1) \div BandRows
    <2>1. c \in Nat /\ c - 1 \in Nat /\ c <= Total
      BY <1>a DEF Contacts
    <2>2. m \in Nat /\ m * BandRows <= c - 1 /\ c - 1 < m * BandRows + BandRows
      BY <1>a, <2>1, Multiples
    <2>3. m < top
      <3>1. m * BandRows \in Nat /\ (m + 1) * BandRows = m * BandRows + BandRows
            /\ top * BandRows \in Nat /\ (top + 1) * BandRows = top * BandRows + BandRows
        BY <1>a, <1>b, <2>2, Multiples
      <3> DEFINE p == m * BandRows
                 q == top * BandRows
      <3>2. p \in Nat /\ q \in Nat /\ p <= c - 1 /\ Total + BandRows - 1 < q + BandRows
        BY <1>b, <2>2, <3>1
      <3> HIDE DEF p, q, m
      <3>3. p < q
        BY <1>a, <2>1, <3>2
      <3>4. m * BandRows < top * BandRows
        BY <3>3 DEF p, q
      <3> QED BY <1>a, <1>b, <2>2, <3>4, Multiples
    <2> HIDE DEF m
    <2>4. m + 1 \in Chunks /\ (m + 1) - 1 = m
      BY <1>b, <2>2, <2>3
    <2> DEFINE p == m * BandRows
    <2>5. p \in Nat /\ p <= c - 1 /\ c - 1 < p + BandRows
      BY <1>a, <2>2, Multiples
    <2>6. First(m + 1) = p + 1 /\ Last(m + 1) \in Nat
          /\ (c <= p + BandRows => c <= Last(m + 1))
      BY <1>2, <2>4
    <2> HIDE DEF p
    <2>7. c \in First(m + 1) .. Last(m + 1)
      BY <1>a, <2>1, <2>5, <2>6
    <2> QED BY <2>4, <2>7 DEF Band
  <1> QED BY <1>2, <1>3, <1>5, <1>6

(***************************************************************************)
(* A run that no brake stopped and where no chunk was interrupted.         *)
(***************************************************************************)
Clean == hit \subseteq {"contact", "relay"}

\* A job is active while somebody works on it, and nobody else does.
Exclusive ==
  /\ \A w \in Workers : worker[w].pc # "idle" => queue[At(w)].st = "active"
  /\ \A v, w \in Workers :
       v # w /\ worker[v].pc # "idle" /\ worker[w].pc # "idle" => At(v) # At(w)

WrittenPcs == {"progress", "mark"}   \* its rows are in the ledger
OwingPcs   == BandPcs                \* what it paid is not charged yet

\* How far a worker is with its chunk.
Fits(t) ==
  /\ t.pc \in BandPcs \cup {"mark"} => t.id \notin Completed
  /\ t.pc \in {"job", "chunk"} => t.paid = 0
  /\ t.pc = "next" => t.next <= Last(t.id) + 1
  /\ t.pc \in {"lock", "call", "add"} => t.next <= Last(t.id)
  /\ t.pc \in {"ledger", "progress"} => t.next = Last(t.id) + 1
  /\ t.pc \in {"reread", "complete"} => Completed = Chunks

On(k, pcs) == \E w \in Workers : At(w) = k /\ worker[w].pc \in pcs

Logged  == {k \in Chunks : k \in Completed \/ On(k, WrittenPcs)}
Booked  == {k \in Chunks : k \in Completed \/ On(k, {"mark"})}
Counted == {c \in Contacts : \E k \in Booked : c \in Band(k)}
Dues(t) == IF t.pc \in OwingPcs THEN t.paid ELSE 0
Due     == [w \in Workers |-> Dues(worker[w])]
Owing   == SumOver(Due, Workers)

\* The ledger, the progress and the charges, by what is written, booked and owed.
Books ==
  /\ \A k \in Chunks : \A c \in Band(k) : ledger[c] = IF k \in Logged THEN 1 ELSE 0
  /\ job.processed = Cardinality(Counted)
  /\ job.spent = job.charged + Owing

Steady == /\ Exclusive
          /\ \A w \in Workers : Fits(worker[w])
          /\ job.status = "completed" => Completed = Chunks
          /\ Books

CleanInv == Clean => Steady

LEMMA Workings ==
  ASSUME Typed
  PROVE  /\ worker \in [Workers -> Tasks] /\ DOMAIN worker = Workers
         /\ \A w \in Workers : /\ worker[w] \in Tasks /\ At(w) \in Ids
                               /\ worker[w].paid \in Nat /\ worker[w].next \in Nat
                               /\ worker[w].pc \in ChunkPcs => At(w) \in Chunks
                               /\ worker[w].pc \in BandPcs
                                    => worker[w].next >= First(At(w))
         /\ queue \in Queues /\ chunk \in [Chunks -> {"none", "queued", "completed"}]
         /\ Completed \in SUBSET Chunks
         /\ job \in Jobs
  <1>1. worker \in [Workers -> Tasks] /\ queue \in Queues /\ job \in Jobs
        /\ chunk \in [Chunks -> {"none", "queued", "completed"}]
    BY DEF Typed
  <1>2. \A t \in Tasks : /\ t.id \in Ids /\ t.paid \in Nat /\ t.next \in Nat
                         /\ t.pc \in ChunkPcs => t.id \in Chunks
                         /\ t.pc \in BandPcs => t.next >= First(t.id)
    BY DEF Tasks
  <1> QED BY <1>1, <1>2 DEF At, Completed

\* Steps that write, book and charge nothing.
SameBooks ==
  /\ Completed' = Completed /\ ledger' = ledger
  /\ job'.spent = job.spent /\ job'.processed = job.processed /\ job'.charged = job.charged
  /\ \A v \in Workers :
       /\ worker[v].pc \in WrittenPcs \/ worker'[v].pc \in WrittenPcs
            => worker'[v].pc = worker[v].pc /\ worker'[v].id = worker[v].id
       /\ Dues(worker'[v]) = Dues(worker[v])

LEMMA SameBooksKeep ==
  ASSUME Books, SameBooks
  PROVE  Books'
  <1>1. Logged' = Logged /\ Booked' = Booked
    BY DEF Logged, Booked, On, At, SameBooks, WrittenPcs
  <1>2. Counted' = Counted
    BY <1>1 DEF Counted
  <1>3. Due' = Due
    BY DEF Due, SameBooks
  <1>4. Owing' = Owing
    BY <1>3 DEF Owing
  <1> QED BY <1>1, <1>2, <1>4 DEF Books, SameBooks

\* A clean state has no dead job, no brake and no lost lock behind it.
LEMMA CleanBefore ==
  ASSUME Typed, [Next]_vars, Clean'
  PROVE  /\ Clean
         /\ \A w \in Workers : /\ ~Throws(w) /\ ~WorkerDies(w) /\ ~LockExpires(w)
                               /\ ~Brake(w) /\ ~DailyBreak(w)
  <1>t. \A w \in Workers : worker[w].pc \notin {"contact", "relay", "dead", "stall"}
    BY Workings DEF Tasks, DrivePcs, ChunkPcs, BandPcs
  <1>1. ASSUME NEW w \in Workers PROVE ~Throws(w) /\ ~WorkerDies(w)
    <2>1. ASSUME NEW kind, NEW r, EndsWith(w, kind, r) PROVE FALSE
      BY <2>1, <1>t DEF EndsWith, Break, Clean
    <2> QED BY <2>1 DEF Throws, WorkerDies
  <1>2. ASSUME NEW w \in Workers PROVE ~LockExpires(w) /\ ~Brake(w) /\ ~DailyBreak(w)
    BY DEF LockExpires, Break, Brake, DailyBreak, Halt, Clean
  <1>3. hit \subseteq hit'
    <2> USE DEF NoFault
    <2>1. ASSUME NEW w \in Workers, Step(w) PROVE hit \subseteq hit'
      <3>1. CASE DriveStep(w)
        BY <3>1 DEF DriveStep, SkipDrive, Resume, Plan, Create, FanOut
      <3>2. CASE ChunkStep(w)
        BY <3>2 DEF ChunkStep, ReadJob, ReadChunk, EndBand, Brake, Look, DailyBreak, Halt,
           Call, Record, AddSpend, WriteLedger, Progress, Mark, Pause, List, Reread, Complete
      <3> QED BY <2>1, <3>1, <3>2 DEF Step
    <2>2. ASSUME NEW w \in Workers, ContactFails(w) PROVE hit \subseteq hit'
      BY <2>2 DEF ContactFails, Break
    <2>3. ASSUME \/ Arm \/ Confirm \/ \E r \in Relays : RelayStep(r) \/ RelayBreaks(r)
                 \/ \E w \in Workers, i \in Ids : Take(w, i)
                 \/ \E i \in Ids : Expire(i)
                 \/ UNCHANGED vars
          PROVE hit \subseteq hit'
      BY <2>3 DEF Arm, Confirm, RelayStep, RelayBreaks, Claim, Publish, Settle, Break, Take,
             Expire, vars
    <2> QED BY <1>1, <1>2, <2>1, <2>2, <2>3 DEF Next
  <1> QED BY <1>1, <1>2, <1>3 DEF Clean

\* Active records stay active, but perhaps that of job i.
KeepsActive(i) == \A j \in Ids : j # i /\ queue[j].st = "active" => queue'[j].st = "active"

OthersStay(w) == \A v \in Workers \ {w} : worker'[v] = worker[v]

\* A worker leaves that owes nothing and has nothing written but not marked.
LEMMA SteadyLeave ==
  ASSUME Typed, Steady, NEW w \in Workers, Leave(w), KeepsActive(At(w)),
         worker[w].pc \notin BandPcs \cup {"mark", "idle"},
         Completed' = Completed, ledger' = ledger,
         job'.spent = job.spent, job'.processed = job.processed, job'.charged = job.charged,
         job'.status = "completed" => job.status = "completed" \/ Completed = Chunks
  PROVE  Steady'
  <1>1. OthersStay(w) /\ worker'[w] = Free
    BY Workings DEF Leave, OthersStay
  <1>2. Exclusive'
    <2>1. \A v \in Workers : worker'[v].pc # "idle" => v # w /\ worker'[v] = worker[v]
      BY <1>1 DEF OthersStay, Free
    <2>2. \A v \in Workers :
            v # w /\ worker[v].pc # "idle" /\ worker[w].pc # "idle" => At(v) # At(w)
      BY DEF Steady, Exclusive
    <2> QED BY <2>1, <2>2, Workings DEF Steady, Exclusive, KeepsActive, At
  <1>3. \A v \in Workers : Fits(worker[v])'
    BY <1>1 DEF Steady, Fits, Free, OthersStay, BandPcs
  <1>4. SameBooks
    BY <1>1 DEF SameBooks, OthersStay, Free, WrittenPcs, OwingPcs, BandPcs, Dues
  <1> QED BY <1>2, <1>3, <1>4, SameBooksKeep DEF Steady

\* A worker goes on with its job, and writes, books and owes as much as before.
LEMMA SteadyMove ==
  ASSUME Typed, Steady, NEW w \in Workers, OthersStay(w), worker'[w].id = worker[w].id,
         worker[w].pc # "idle", queue' = queue, Fits(worker'[w]),
         Dues(worker'[w]) = Dues(worker[w]),
         worker[w].pc \notin WrittenPcs, worker'[w].pc \notin WrittenPcs,
         Completed' = Completed, ledger' = ledger, job' = job
  PROVE  Steady'
  <1>2. Exclusive'
    BY DEF Steady, Exclusive, OthersStay, At
  <1>3. \A v \in Workers : Fits(worker[v])'
    BY DEF Steady, Fits, OthersStay
  <1>4. SameBooks
    BY DEF SameBooks, OthersStay
  <1> QED BY <1>2, <1>3, <1>4, SameBooksKeep DEF Steady

LEMMA SteadyTake ==
  ASSUME Typed, Steady, NEW w \in Workers, NEW i \in Ids, Take(w, i)
  PROVE  Steady'
  <1>1. /\ OthersStay(w) /\ worker'[w].id = i /\ worker'[w].pc \in {"drive", "job"}
        /\ worker'[w].paid = 0 /\ worker[w].pc = "idle" /\ queue[i].st = "waiting"
        /\ queue'[i].st = "active" /\ \A j \in Ids \ {i} : queue'[j] = queue[j]
    BY Workings DEF Take, Running, OthersStay, Free, Queues, BullMQ!Records
  <1>2. job' = job /\ chunk' = chunk /\ ledger' = ledger
    BY DEF Take, records
  <1>3. Exclusive'
    BY <1>1, Workings DEF Steady, Exclusive, OthersStay, At
  <1>4. \A v \in Workers : Fits(worker[v])'
    BY <1>1, <1>2 DEF Steady, Fits, OthersStay, BandPcs, Completed
  <1>5. SameBooks
    BY <1>1, <1>2 DEF SameBooks, OthersStay, WrittenPcs, OwingPcs, BandPcs, Dues, Completed
  <1> QED BY <1>2, <1>3, <1>4, <1>5, SameBooksKeep DEF Steady, Completed

\* What leaves the workers alone.
LEMMA SteadyRest ==
  ASSUME Typed, Steady,
         \/ Arm \/ Confirm \/ \E r \in Relays : RelayStep(r) \/ RelayBreaks(r)
         \/ \E i \in Ids : Expire(i)
         \/ UNCHANGED vars
  PROVE  Steady'
  <1>1. /\ worker' = worker /\ chunk' = chunk /\ ledger' = ledger
        /\ job'.spent = job.spent /\ job'.processed = job.processed
        /\ job'.charged = job.charged
        /\ job'.status = "completed" => job.status = "completed"
    BY Workings DEF Arm, Confirm, RelayStep, RelayBreaks, Claim, Publish, Settle, Expire, records,
       vars, Jobs
  <1>2. \A j \in Ids : queue[j].st = "active" => queue'[j].st = "active"
    <2>1. ASSUME NEW i \in Ids, Expire(i)
          PROVE  \A j \in Ids : queue[j].st = "active" => queue'[j].st = "active"
      BY <2>1, Workings DEF Expire, Queues, BullMQ!Expires
    <2>2. ASSUME NEW r \in Relays, Publish(r)
          PROVE  \A j \in Ids : queue[j].st = "active" => queue'[j].st = "active"
      BY <2>2 DEF Publish, BullMQ!Added
    <2> QED BY <2>1, <2>2 DEF Arm, Confirm, RelayStep, RelayBreaks, Claim, Settle, vars
  <1>3. Exclusive'
    BY <1>1, <1>2, Workings DEF Steady, Exclusive, At
  <1>4. \A v \in Workers : Fits(worker[v])'
    BY <1>1 DEF Steady, Fits, Completed
  <1>5. SameBooks
    BY <1>1 DEF SameBooks, Completed
  <1> QED BY <1>1, <1>3, <1>4, <1>5, SameBooksKeep DEF Steady, Completed

LEMMA SumZero ==
  ASSUME NEW f, \A w \in Workers : f[w] = 0
  PROVE  SumOver(f, Workers) = 0
  <1>1. /\ IsFiniteSet(Workers) /\ \A w \in Workers : f[w] \in Int
        /\ {} \in SUBSET Workers /\ \A w \in Workers \ {} : f[w] = 0
    BY RunAssumption
  <1>2. SumOver(f, Workers) = SumOver(f, {})
    BY <1>1, SumSupport
  <1> QED BY <1>2, SumEmpty

\* The ends of jobs.
LEMMA FinishKeeps ==
  ASSUME Typed, NEW w \in Workers
  PROVE  /\ Finish(w) => KeepsActive(At(w))
         /\ \A S : queue' = Settled(w, BullMQ!Added(queue, S, 1, FALSE))
                       => KeepsActive(At(w))
  <1>1. Finish(w) => KeepsActive(At(w))
    BY Workings, SettledQueue DEF Finish, KeepsActive
  <1>2. ASSUME NEW S, queue' = Settled(w, BullMQ!Added(queue, S, 1, FALSE))
        PROVE  KeepsActive(At(w))
    <2>1. BullMQ!Added(queue, S, 1, FALSE) \in Queues
      BY Workings, QueueOps
    <2>2. \A i \in Ids : queue[i].st = "active" => BullMQ!Added(queue, S, 1, FALSE)[i] = queue[i]
      BY DEF BullMQ!Added
    <2> QED BY <1>2, <2>1, <2>2, SettledQueue DEF KeepsActive
  <1> QED BY <1>1, <1>2

LEMMA SteadyDrive ==
  ASSUME Typed, Steady, NEW w \in Workers, DriveStep(w)
  PROVE  Steady'
  <1>1. /\ job' = job /\ ledger' = ledger /\ worker[w].pc \in DrivePcs
        /\ Completed' = Completed
    <2>1. job' = job /\ ledger' = ledger /\ worker[w].pc \in DrivePcs
      BY DEF DriveStep, SkipDrive, Resume, Plan, Create, FanOut, records, Running, DrivePcs
    <2>2. CASE chunk' = chunk
      BY <2>1, <2>2 DEF Completed
    <2>3. CASE Created = {} /\ chunk' = [k \in Chunks |-> "queued"]
      BY <2>1, <2>3 DEF Completed, Created
    <2> QED BY <2>1, <2>2, <2>3
            DEF DriveStep, SkipDrive, Resume, Plan, Create, FanOut, records
  <1>2. CASE Leave(w)
    <2>1. KeepsActive(At(w))
      <3>1. CASE SkipDrive(w)
        BY <3>1, FinishKeeps DEF SkipDrive
      <3>2. CASE Resume(w) \/ FanOut(w)
        BY <3>2, FinishKeeps DEF Resume, FanOut
      <3>3. CASE Plan(w) \/ Create(w)
        BY <3>3, Workings DEF Plan, Create, KeepsActive, Queues
      <3> QED BY <3>1, <3>2, <3>3 DEF DriveStep
    <2> QED BY <1>1, <1>2, <2>1, SteadyLeave DEF DrivePcs, BandPcs, Steady
  <1>3. CASE ~Leave(w)
    <2>1. queue' = queue /\ \E pc \in {"create", "fanOut"} : Goto(w, pc)
      BY <1>3 DEF DriveStep, SkipDrive, Resume, Plan, Create, FanOut, Finish
    <2>2. /\ OthersStay(w) /\ worker'[w].id = worker[w].id
          /\ worker'[w].pc \in {"create", "fanOut"}
      BY <2>1, Workings DEF Goto, Tasks, OthersStay
    <2> QED BY <1>1, <2>1, <2>2, SteadyMove DEF DrivePcs, BandPcs, WrittenPcs, OwingPcs, Dues, Fits
  <1> QED BY <1>2, <1>3

\* The steps of a chunk that write, book and mark nothing.
LEMMA SteadyBand ==
  ASSUME Typed, Steady, NEW w \in Workers,
         \/ ReadJob(w) \/ ReadChunk(w) \/ EndBand(w) \/ Look(w) \/ Call(w) \/ Record(w)
         \/ ContactFails(w) \/ Pause(w) \/ List(w) \/ Reread(w) \/ Complete(w)
  PROVE  Steady'
  <1> USE DEF records, Running
  <1>t. /\ worker[w] \in Tasks /\ DOMAIN worker = Workers /\ At(w) = worker[w].id
        /\ worker[w].next \in Nat
        /\ worker[w].pc \in ChunkPcs => /\ At(w) \in Chunks /\ Last(At(w)) \in Nat
                                        /\ First(At(w)) \in Nat /\ First(At(w)) <= Last(At(w))
    BY Workings, Bands DEF At
  <1>f. Fits(worker[w])
    BY DEF Steady
  <1>1. ASSUME Finish(w), worker[w].pc \notin BandPcs \cup {"mark", "idle"},
               chunk' = chunk, ledger' = ledger,
               job'.spent = job.spent, job'.processed = job.processed,
               job'.charged = job.charged,
               job'.status = "completed" => job.status = "completed" \/ Completed = Chunks
        PROVE  Steady'
    <2>1. Leave(w) /\ KeepsActive(At(w)) /\ Completed' = Completed
      BY <1>1, FinishKeeps DEF Finish, Completed
    <2> QED BY <1>1, <2>1, SteadyLeave
  <1>2. ASSUME OthersStay(w), worker'[w].id = worker[w].id, worker[w].pc # "idle",
               queue' = queue, Fits(worker'[w]), Dues(worker'[w]) = Dues(worker[w]),
               worker[w].pc \notin WrittenPcs, worker'[w].pc \notin WrittenPcs,
               chunk' = chunk, ledger' = ledger, job' = job
        PROVE  Steady'
    <2>1. Completed' = Completed
      BY <1>2 DEF Completed
    <2> QED BY <1>2, <2>1, SteadyMove
  <1>3. CASE Pause(w) \/ Complete(w)
    BY <1>3, <1>1, <1>f, Workings DEF Pause, Complete, BandPcs, Jobs, Fits
  <1>4. CASE (ReadJob(w) \/ ReadChunk(w) \/ List(w) \/ Reread(w)) /\ Finish(w)
    BY <1>4, <1>1 DEF ReadJob, ReadChunk, List, Reread, BandPcs, Steady
  <1>5. CASE ReadJob(w) /\ ~Finish(w)
    <2>1. /\ OthersStay(w) /\ worker'[w].id = worker[w].id /\ worker'[w].pc = "chunk"
          /\ worker'[w].paid = worker[w].paid
      BY <1>5, <1>t DEF ReadJob, OthersStay, Tasks
    <2>2. /\ queue' = queue /\ job' = job /\ chunk' = chunk /\ ledger' = ledger
          /\ worker[w].pc = "job"
      BY <1>5 DEF ReadJob
    <2> QED BY <1>2, <1>f, <2>1, <2>2 DEF Fits, Dues, BandPcs, OwingPcs, WrittenPcs
  <1>6. CASE ReadChunk(w) /\ ~Finish(w)
    <2>1. /\ OthersStay(w) /\ worker'[w].id = worker[w].id /\ worker'[w].pc = "next"
          /\ worker'[w].paid = worker[w].paid /\ worker'[w].next = First(At(w))
      BY <1>6, <1>t DEF ReadChunk, OthersStay, Tasks
    <2>2. /\ queue' = queue /\ job' = job /\ chunk' = chunk /\ ledger' = ledger
          /\ worker[w].pc = "chunk" /\ At(w) \notin Completed
      BY <1>6 DEF ReadChunk, Completed
    <2>3. worker[w].paid = 0
      BY <1>f, <2>2 DEF Fits
    <2>4. First(At(w)) <= Last(At(w)) + 1
      BY <1>t, <2>2 DEF ChunkPcs
    <2>5. Fits(worker'[w])
      BY <1>t, <2>1, <2>2, <2>4 DEF Fits
    <2> QED BY <1>2, <2>1, <2>2, <2>3, <2>5 DEF Dues, BandPcs, OwingPcs, WrittenPcs
  <1>7. CASE EndBand(w) \/ Call(w) \/ Record(w)
    <2>1. /\ OthersStay(w) /\ worker'[w].id = worker[w].id
          /\ worker'[w].paid = worker[w].paid /\ worker'[w].next = worker[w].next
          /\ worker'[w].pc \in {"ledger", "call", "add"}
          /\ worker'[w].pc = "ledger" => EndBand(w)
      BY <1>7, <1>t DEF EndBand, Call, Record, Goto, OthersStay, Tasks
    <2>2. /\ queue' = queue /\ job' = job /\ chunk' = chunk /\ ledger' = ledger
          /\ worker[w].pc \in {"next", "lock", "call"}
          /\ worker[w].pc = "next" => EndBand(w)
      BY <1>7 DEF EndBand, Call, Record
    <2>3. At(w) \notin Completed /\ Last(At(w)) \in Nat
      BY <1>f, <1>t, <2>2 DEF Fits, BandPcs, ChunkPcs
    <2>4. CASE EndBand(w)
      <3>1. worker[w].next <= Last(At(w)) + 1 /\ ~ worker[w].next <= Last(At(w))
        BY <1>f, <1>t, <2>4 DEF EndBand, Ahead, Fits
      <3>2. worker[w].next = Last(At(w)) + 1
        BY <1>t, <2>3, <3>1
      <3>3. worker'[w].pc = "ledger"
        BY <1>t, <2>4 DEF EndBand, Goto, Tasks
      <3>4. Fits(worker'[w])
        BY <1>t, <2>1, <2>3, <3>2, <3>3 DEF Fits
      <3> QED BY <1>2, <2>1, <2>2, <3>4 DEF Dues, BandPcs, OwingPcs, WrittenPcs
    <2>5. CASE Call(w) \/ Record(w)
      <3>1. worker[w].next <= Last(At(w))
        BY <1>f, <1>t, <2>5 DEF Call, Record, Fits
      <3>2. worker'[w].pc \in {"call", "add"}
        BY <1>t, <2>5 DEF Call, Record, Goto, Tasks
      <3>3. Fits(worker'[w])
        BY <1>t, <2>1, <2>3, <3>1, <3>2 DEF Fits
      <3> QED BY <1>2, <2>1, <2>2, <3>3 DEF Dues, BandPcs, OwingPcs, WrittenPcs
    <2> QED BY <1>7, <2>4, <2>5
  <1>8. CASE Look(w) \/ ContactFails(w)
    <2>1. /\ OthersStay(w) /\ worker'[w].id = worker[w].id
          /\ worker'[w].paid = worker[w].paid
          /\ \/ worker'[w].pc = "next" /\ worker'[w].next = worker[w].next + 1
             \/ worker'[w].pc = "lock" /\ worker'[w].next = worker[w].next
      BY <1>8, <1>t DEF Look, ContactFails, OthersStay, Tasks
    <2>2. /\ queue' = queue /\ job' = job /\ chunk' = chunk /\ ledger' = ledger
          /\ worker[w].pc \in {"next", "call"} /\ worker[w].next <= Last(At(w))
      BY <1>8, <1>f, <1>t DEF Look, ContactFails, Ahead, Fits
    <2>3. Fits(worker'[w])
      BY <1>f, <1>t, <2>1, <2>2 DEF Fits, BandPcs, ChunkPcs
    <2> QED BY <1>2, <2>1, <2>2, <2>3 DEF Dues, BandPcs, OwingPcs, WrittenPcs
  <1>9. CASE (List(w) \/ Reread(w)) /\ ~Finish(w)
    <2>1. /\ OthersStay(w) /\ worker'[w].id = worker[w].id
          /\ worker'[w].pc \in {"reread", "complete"}
      BY <1>9, <1>t DEF List, Reread, Goto, OthersStay, Tasks
    <2>2. /\ queue' = queue /\ job' = job /\ chunk' = chunk /\ ledger' = ledger
          /\ worker[w].pc \in {"list", "reread"} /\ Completed = Chunks
      BY <1>9, <1>f DEF List, Reread, AllDone, Fits
    <2> QED BY <1>2, <2>1, <2>2 DEF Fits, Dues, BandPcs, OwingPcs, WrittenPcs
  <1> QED BY <1>3, <1>4, <1>5, <1>6, <1>7, <1>8, <1>9

\* What a worker of a chunk shares with nobody.
LEMMA Alone ==
  ASSUME Typed, Steady, NEW w \in Workers, worker[w].pc \in BandPcs \cup {"mark"}
  PROVE  /\ At(w) \in Chunks /\ At(w) \notin Completed
         /\ \A v \in Workers : worker[v].pc # "idle" /\ At(v) = At(w) => v = w
         /\ worker[w].pc \notin WrittenPcs => At(w) \notin Logged
         /\ worker[w].pc # "mark" => At(w) \notin Booked
         /\ Booked \subseteq Logged
  <1>1. At(w) \in Chunks
    BY Workings DEF ChunkPcs
  <1>2. At(w) \notin Completed
    BY DEF Steady, Fits, At
  <1>3. \A v \in Workers : worker[v].pc # "idle" /\ At(v) = At(w) => v = w
    BY DEF Steady, Exclusive, BandPcs
  <1> QED BY <1>1, <1>2, <1>3 DEF Logged, Booked, On, WrittenPcs

LEMMA SteadyLedger ==
  ASSUME Typed, Steady, NEW w \in Workers, WriteLedger(w)
  PROVE  Steady'
  <1> DEFINE k == At(w)
  <1>t. /\ worker[w] \in Tasks /\ DOMAIN worker = Workers
        /\ \A v \in Workers : At(v) = worker[v].id
    BY Workings DEF At
  <1>1. /\ worker[w].pc = "ledger" /\ worker'[w].pc = "progress"
        /\ worker'[w].id = worker[w].id /\ worker'[w].paid = worker[w].paid
        /\ worker'[w].next = worker[w].next /\ OthersStay(w)
        /\ queue' = queue /\ job' = job /\ chunk' = chunk
    BY <1>t DEF WriteLedger, Running, Goto, OthersStay, Tasks
  <1>2. /\ k \in Chunks /\ k \notin Completed /\ k \notin Logged
        /\ worker[w].next = Last(k) + 1 /\ Completed' = Completed
    BY <1>1, Alone DEF Steady, Fits, At, Completed, BandPcs, WrittenPcs
  <1>3. Exclusive'
    BY <1>1 DEF Steady, Exclusive, OthersStay, At
  <1>4. \A v \in Workers : Fits(worker[v])'
    <2>1. Fits(worker'[w])
      BY <1>1, <1>2, <1>t DEF Fits
    <2>2. \A v \in Workers \ {w} : Fits(worker[v])'
      BY <1>1, <1>2 DEF Steady, Fits, OthersStay
    <2>3. Fits(worker[w])'
      BY <2>1, <1>2 DEF Fits
    <2> QED BY <2>2, <2>3
  <1>5. Logged' = Logged \cup {k} /\ Booked' = Booked
    BY <1>1, <1>2 DEF Logged, Booked, On, At, OthersStay, WrittenPcs
  <1>6. Counted' = Counted /\ Due' = Due
    BY <1>1, <1>5 DEF Counted, Due, Dues, OthersStay, OwingPcs, BandPcs
  <1>7. ASSUME NEW j \in Chunks, NEW c \in Band(j)
        PROVE  ledger'[c] = IF j \in Logged' THEN 1 ELSE 0
    <2>1. c \in Contacts /\ ledger[c] = IF j \in Logged THEN 1 ELSE 0
      BY Bands DEF Steady, Books
    <2>2. First(k) \in Nat /\ Last(k) \in Nat /\ c \in Nat
      BY <1>2, <2>1, Bands, Constants DEF Contacts
    <2>3. (First(k) <= c /\ c < worker[w].next) <=> c \in Band(k)
      BY <1>2, <2>2 DEF Band
    <2>4. ledger'[c] = IF c \in Band(k) THEN ledger[c] + 1 ELSE ledger[c]
      BY <2>1, <2>3 DEF WriteLedger
    <2>5. c \in Band(k) <=> j = k
      BY <1>2, Bands
    <2> QED BY <1>2, <1>5, <2>1, <2>4, <2>5
  <1>8. Books'
    BY <1>1, <1>6, <1>7 DEF Steady, Books, Owing
  <1> QED BY <1>1, <1>2, <1>3, <1>4, <1>8 DEF Steady

LEMMA DueTypes ==
  ASSUME Typed
  PROVE  \A w \in Workers : Due[w] \in Int /\ Due[w] = Dues(worker[w])
  BY Workings DEF Due, Dues

LEMMA SteadyProgress ==
  ASSUME Typed, Typed', Steady, NEW w \in Workers, Progress(w)
  PROVE  Steady'
  <1> DEFINE k == At(w)
  <1>t. /\ worker[w] \in Tasks /\ DOMAIN worker = Workers /\ job \in Jobs
        /\ \A v \in Workers : At(v) = worker[v].id
    BY Workings DEF At
  <1>1. /\ worker[w].pc = "progress" /\ worker'[w].pc = "mark"
        /\ worker'[w].id = worker[w].id /\ OthersStay(w)
        /\ queue' = queue /\ chunk' = chunk /\ ledger' = ledger
        /\ job'.processed = job.processed + worker[w].next - First(k)
        /\ job'.charged = job.charged + worker[w].paid
        /\ job'.spent = job.spent /\ job'.status = job.status
    BY <1>t DEF Progress, Running, Goto, OthersStay, Tasks, Jobs
  <1>2. /\ k \in Chunks /\ k \notin Completed /\ k \notin Booked
        /\ worker[w].next = Last(k) + 1 /\ Completed' = Completed
    BY <1>1, Alone DEF Steady, Fits, At, Completed, BandPcs
  <1>3. Exclusive'
    BY <1>1 DEF Steady, Exclusive, OthersStay, At
  <1>4. \A v \in Workers : Fits(worker[v])'
    <2>1. Fits(worker[w])'
      BY <1>1, <1>2, <1>t DEF Fits
    <2>2. \A v \in Workers \ {w} : Fits(worker[v])'
      BY <1>1, <1>2 DEF Steady, Fits, OthersStay
    <2> QED BY <2>1, <2>2
  <1>5. Logged' = Logged /\ Booked' = Booked \cup {k}
    BY <1>1, <1>2 DEF Logged, Booked, On, At, OthersStay, WrittenPcs
  <1>6. Cardinality(Counted') = Cardinality(Counted) + worker[w].next - First(k)
    <2>1. Counted' = Counted \cup Band(k)
      BY <1>2, <1>5, Bands DEF Counted
    <2>2. Counted \cap Band(k) = {}
      BY <1>2, Bands DEF Counted, Booked
    <2>3. IsFiniteSet(Counted) /\ IsFiniteSet(Band(k))
      <3>1. Counted \subseteq Contacts
        BY DEF Counted
      <3> QED BY <3>1, <1>2, Bands, Constants, FS_Subset
    <2>4. Cardinality(Counted \cup Band(k))
            = Cardinality(Counted) + Cardinality(Band(k)) - Cardinality(Counted \cap Band(k))
      BY <2>3, FS_Union
    <2>5. Cardinality(Counted \cap Band(k)) = 0 /\ Cardinality(Counted) \in Nat
      BY <2>2, <2>3, FS_EmptySet, FS_CardinalityType
    <2>6. /\ Cardinality(Band(k)) = Last(k) + 1 - First(k)
          /\ First(k) \in Nat /\ Last(k) \in Nat
      BY <1>2, Bands
    <2> QED BY <1>2, <2>1, <2>4, <2>5, <2>6
  <1>7. Owing' = Owing - worker[w].paid /\ Owing \in Int
    <2>1. /\ \A v \in Workers : Due[v] \in Int /\ Due'[v] \in Int
      <3>1. \A v \in Workers : worker'[v].paid \in Int
        BY DEF Typed, Tasks
      <3>2. \A v \in Workers : Due'[v] \in Int
        BY <3>1 DEF Due, Dues
      <3> QED BY <3>2, DueTypes
    <2>2. \A v \in Workers \ {w} : Due'[v] = Due[v]
      BY <1>1 DEF Due, OthersStay
    <2>3. Due[w] = worker[w].paid /\ Due'[w] = 0
      BY <1>1 DEF Due, Dues, OwingPcs, BandPcs
    <2>4. IsFiniteSet(Workers)
      BY RunAssumption
    <2>5. SumOver(Due', Workers) = SumOver(Due, Workers) + Due'[w] - Due[w]
      BY <2>1, <2>2, <2>4, SumChange
    <2>6. SumOver(Due, Workers) \in Int /\ worker[w].paid \in Int
      BY <2>1, <2>4, SumInt, Workings
    <2> QED BY <2>3, <2>5, <2>6 DEF Owing
  <1>8. Books'
    <2>1. /\ job.processed = Cardinality(Counted) /\ job.spent = job.charged + Owing
          /\ job.charged \in Int /\ worker[w].paid \in Int
      BY <1>t, Workings DEF Steady, Books, Jobs
    <2>2. job'.processed = Cardinality(Counted')
      BY <1>1, <1>6, <2>1
    <2>3. job'.spent = job'.charged + Owing'
      BY <1>1, <1>7, <2>1
    <2>4. \A j \in Chunks : \A c \in Band(j) : ledger'[c] = IF j \in Logged' THEN 1 ELSE 0
      BY <1>1, <1>5 DEF Steady, Books
    <2> QED BY <2>2, <2>3, <2>4 DEF Books
  <1> QED BY <1>1, <1>2, <1>3, <1>4, <1>8 DEF Steady

LEMMA SteadyMark ==
  ASSUME Typed, Steady, NEW w \in Workers, Mark(w)
  PROVE  Steady'
  <1> DEFINE k == At(w)
  <1>t. /\ worker[w] \in Tasks /\ DOMAIN worker = Workers
        /\ \A v \in Workers : At(v) = worker[v].id
        /\ chunk \in [Chunks -> {"none", "queued", "completed"}]
    BY Workings DEF At
  <1>1. /\ worker[w].pc = "mark" /\ worker'[w].pc \in {"pause", "list"}
        /\ worker'[w].id = worker[w].id /\ OthersStay(w)
        /\ queue' = queue /\ job' = job /\ ledger' = ledger
        /\ chunk' = [chunk EXCEPT ![k] = "completed"]
    BY <1>t DEF Mark, Running, Goto, OthersStay, Tasks
  <1>2. /\ k \in Chunks /\ k \notin Completed
        /\ \A v \in Workers : worker[v].pc # "idle" /\ At(v) = k => v = w
    BY <1>1, Alone
  <1>3. Completed' = Completed \cup {k}
    BY <1>1, <1>2, <1>t DEF Completed
  <1>4. Exclusive'
    BY <1>1 DEF Steady, Exclusive, OthersStay, At
  <1>5. \A v \in Workers : Fits(worker[v])'
    <2>1. Fits(worker[w])'
      BY <1>1 DEF Fits, BandPcs
    <2>2. ASSUME NEW v \in Workers \ {w} PROVE Fits(worker[v])'
      <3>1. worker'[v] = worker[v] /\ Fits(worker[v])
        BY <1>1 DEF OthersStay, Steady
      <3>2. worker[v].pc \in BandPcs \cup {"mark"} => worker[v].id \notin Completed'
        BY <1>2, <1>3, <1>t, <3>1 DEF Fits, BandPcs
      <3>3. Completed = Chunks => Completed' = Chunks
        BY <1>2, <1>3
      <3> QED BY <3>1, <3>2, <3>3 DEF Fits
    <2> QED BY <2>1, <2>2
  <1>6. Logged' = Logged /\ Booked' = Booked
    BY <1>1, <1>2, <1>3 DEF Logged, Booked, On, At, OthersStay, WrittenPcs
  <1>7. Counted' = Counted /\ Due' = Due
    BY <1>1, <1>6 DEF Counted, Due, Dues, OthersStay, OwingPcs, BandPcs
  <1>8. Books'
    BY <1>1, <1>6, <1>7 DEF Steady, Books, Owing
  <1>9. Completed = Chunks => Completed' = Chunks
    BY <1>2, <1>3
  <1> QED BY <1>1, <1>4, <1>5, <1>8, <1>9 DEF Steady

LEMMA SteadyAdd ==
  ASSUME Typed, Typed', Steady, NEW w \in Workers, AddSpend(w)
  PROVE  Steady'
  <1>t. /\ worker[w] \in Tasks /\ DOMAIN worker = Workers /\ job \in Jobs
    BY Workings
  <1>1. /\ worker[w].pc = "add" /\ worker'[w].pc = "next"
        /\ worker'[w].id = worker[w].id /\ worker'[w].paid = worker[w].paid + 1
        /\ worker'[w].next = worker[w].next + 1 /\ OthersStay(w)
        /\ queue' = queue /\ chunk' = chunk /\ ledger' = ledger
        /\ job'.processed = job.processed /\ job'.charged = job.charged
        /\ job'.spent = job.spent + 1 /\ job'.status = job.status
    BY <1>t DEF AddSpend, Running, OthersStay, Tasks, Jobs
  <1>2. Completed' = Completed
    BY <1>1 DEF Completed
  <1>3. Exclusive'
    BY <1>1 DEF Steady, Exclusive, OthersStay, At
  <1>4. \A v \in Workers : Fits(worker[v])'
    <2>1. Fits(worker[w])'
      <3>1. /\ worker[w].id \notin Completed /\ worker[w].next <= Last(worker[w].id)
            /\ worker[w].next \in Nat
        BY <1>1, Workings DEF Steady, Fits, BandPcs
      <3>2. Last(worker[w].id) \in Nat
        BY <1>1, Alone, Bands DEF At, BandPcs
      <3>3. worker'[w].next <= Last(worker'[w].id) + 1
        BY <1>1, <3>1, <3>2
      <3> QED BY <1>1, <1>2, <3>1, <3>3 DEF Fits
    <2>2. \A v \in Workers \ {w} : Fits(worker[v])'
      BY <1>1, <1>2 DEF Steady, Fits, OthersStay
    <2> QED BY <2>1, <2>2
  <1>5. Logged' = Logged /\ Booked' = Booked
    BY <1>1, <1>2 DEF Logged, Booked, On, At, OthersStay, WrittenPcs
  <1>6. Counted' = Counted
    BY <1>5 DEF Counted
  <1>7. Owing' = Owing + 1 /\ Owing \in Int
    <2>1. /\ \A v \in Workers : Due[v] \in Int /\ Due'[v] \in Int
      <3>1. \A v \in Workers : worker'[v].paid \in Int
        BY DEF Typed, Tasks
      <3>2. \A v \in Workers : Due'[v] \in Int
        BY <3>1 DEF Due, Dues
      <3> QED BY <3>2, DueTypes
    <2>2. \A v \in Workers \ {w} : Due'[v] = Due[v]
      BY <1>1 DEF Due, OthersStay
    <2>3. Due[w] = worker[w].paid /\ Due'[w] = worker[w].paid + 1
      BY <1>1 DEF Due, Dues, OwingPcs, BandPcs
    <2>4. IsFiniteSet(Workers)
      BY RunAssumption
    <2>5. SumOver(Due', Workers) = SumOver(Due, Workers) + Due'[w] - Due[w]
      BY <2>1, <2>2, <2>4, SumChange
    <2>6. SumOver(Due, Workers) \in Int /\ worker[w].paid \in Int
      BY <2>1, <2>4, SumInt, Workings
    <2> QED BY <2>3, <2>5, <2>6 DEF Owing
  <1>8. Books'
    <2>1. job.spent = job.charged + Owing /\ job.charged \in Int
      BY <1>t DEF Steady, Books, Jobs
    <2>2. job'.spent = job'.charged + Owing'
      BY <1>1, <1>7, <2>1
    <2> QED BY <1>1, <1>5, <1>6, <2>2 DEF Steady, Books
  <1> QED BY <1>1, <1>2, <1>3, <1>4, <1>8 DEF Steady

LEMMA CleanStep ==
  ASSUME Typed, Typed', CleanInv, [Next]_vars
  PROVE  CleanInv'
  <1> SUFFICES ASSUME Clean' PROVE Steady'
    BY DEF CleanInv
  <1>1. Steady
    BY CleanBefore DEF CleanInv
  <1>2. ASSUME NEW w \in Workers, Step(w) \/ ContactFails(w) PROVE Steady'
    <2>1. ~Brake(w) /\ ~DailyBreak(w)
      BY CleanBefore
    <2> QED BY <1>1, <1>2, <2>1, SteadyDrive, SteadyBand, SteadyLedger, SteadyProgress,
               SteadyMark, SteadyAdd DEF Step, ChunkStep
  <1>3. ASSUME NEW w \in Workers, NEW i \in Ids, Take(w, i) PROVE Steady'
    BY <1>1, <1>3, SteadyTake
  <1>4. ASSUME \/ Arm \/ Confirm \/ \E r \in Relays : RelayStep(r) \/ RelayBreaks(r)
               \/ \E i \in Ids : Expire(i)
               \/ UNCHANGED vars
        PROVE  Steady'
    BY <1>1, <1>4, SteadyRest
  <1>5. \A w \in Workers : ~Throws(w) /\ ~WorkerDies(w) /\ ~LockExpires(w)
    BY CleanBefore
  <1> QED BY <1>2, <1>3, <1>4, <1>5 DEF Next

LEMMA CleanInit == Typed /\ Init => CleanInv
  <1> SUFFICES ASSUME Typed, Init PROVE Steady
    BY DEF CleanInv
  <1>1. /\ \A w \in Workers : worker[w].pc = "idle"
        /\ \A c \in Contacts : ledger[c] = 0
        /\ job.status = "estimating" /\ job.spent = 0 /\ job.processed = 0 /\ job.charged = 0
        /\ Completed = {}
    BY DEF Init, Free, Completed
  <1>2. Exclusive
    BY <1>1 DEF Exclusive
  <1>3. \A w \in Workers : Fits(worker[w])
    BY <1>1 DEF Fits, BandPcs
  <1>4. Logged = {} /\ Booked = {}
    BY <1>1 DEF Logged, Booked, On, WrittenPcs
  <1>5. Counted = {} /\ \A w \in Workers : Due[w] = 0
    BY <1>1, <1>4 DEF Counted, Due, Dues, OwingPcs, BandPcs
  <1>6. Owing = 0
    BY <1>5, SumZero DEF Owing
  <1>7. Books
    BY <1>1, <1>4, <1>5, <1>6, Bands, FS_EmptySet DEF Books
  <1> QED BY <1>1, <1>2, <1>3, <1>7 DEF Steady

(***************************************************************************)
(* A completed run that no brake stopped and where no chunk was            *)
(* interrupted has one ledger row per contact, counts every contact and    *)
(* has charged what it spent, whatever its relays and contacts did.        *)
(***************************************************************************)
THEOREM RunIsReconciled == Spec => []RunReconciles
  <1>1. Init => Typed /\ CleanInv
    BY TypedInit, CleanInit
  <1>2. Typed /\ CleanInv /\ [Next]_vars => Typed' /\ CleanInv'
    BY TypedStep, CleanStep
  <1>3. Typed /\ CleanInv => RunReconciles
    <2> SUFFICES ASSUME Typed, CleanInv, job.status = "completed", Clean
                 PROVE  /\ \A c \in Contacts : ledger[c] = 1
                        /\ job.processed = Total
                        /\ job.spent = job.charged
      BY DEF RunReconciles, Clean
    <2>1. Steady /\ Completed = Chunks
      BY DEF CleanInv, Steady
    <2>2. Logged = Chunks /\ Booked = Chunks
      BY <2>1 DEF Logged, Booked
    <2>3. Counted = Contacts
      BY <2>2, Bands DEF Counted
    <2>4. \A c \in Contacts : ledger[c] = 1
      BY <2>1, <2>2, Bands DEF Steady, Books
    <2>5. job.processed = Total
      <3>1. Cardinality(1 .. Total) = Total
        <4>1. Total \in Nat \ {0}
          BY Constants
        <4> QED BY <4>1, FS_Interval
      <3> QED BY <2>1, <2>3, <3>1 DEF Steady, Books, Contacts
    <2>6. \A w \in Workers : Due[w] = 0
      <3>1. \A w \in Workers : worker[w].pc \notin BandPcs
        BY <2>1, Workings DEF Steady, Fits, ChunkPcs, At
      <3> QED BY <3>1 DEF Due, Dues, OwingPcs
    <2>7. Owing = 0
      BY <2>6, SumZero DEF Owing
    <2>8. job.spent = job.charged
      <3>1. job.charged \in Int
        BY Workings DEF Jobs
      <3> QED BY <2>1, <2>7, <3>1 DEF Steady, Books
    <2> QED BY <2>4, <2>5, <2>8
  <1> QED BY <1>1, <1>2, <1>3, PTL DEF Spec

=============================================================================
