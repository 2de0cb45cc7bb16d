-------------------------- MODULE BulkImportProofs --------------------------
(***************************************************************************)
(* Proofs about one COPY import, for every file, window, number of workers *)
(* and number of faults: what its counters and bands say is true           *)
(* (ImportInv), its window holds (WindowHolds), and a job that is finished *)
(* has merged every band and adds up (FinishedJobReconciles).              *)
(***************************************************************************)
EXTENDS BulkImport, FiniteSetTheorems, TLAPS

(***************************************************************************)
(* The lowest k members of a set of numbers.                               *)
(***************************************************************************)
Below(S, b) == {a \in S : a < b}

\* There are at most k of them: counting the members below is an injection
\* into 0 .. k-1.
LEMMA LowestBound ==
  ASSUME NEW S, IsFiniteSet(S), S \subseteq Nat, NEW k \in Nat
  PROVE  IsFiniteSet(Lowest(S, k)) /\ Cardinality(Lowest(S, k)) <= k
  <1> DEFINE L     == Lowest(S, k)
             Index == [b \in L |-> Cardinality(Below(S, b))]
  <1>1. \A b \in S : IsFiniteSet(Below(S, b)) /\ Cardinality(Below(S, b)) \in Nat
    <2> SUFFICES ASSUME NEW b \in S
                 PROVE  IsFiniteSet(Below(S, b)) /\ Cardinality(Below(S, b)) \in Nat
      OBVIOUS
    <2>1. Below(S, b) \in SUBSET S
      BY DEF Below
    <2>2. IsFiniteSet(Below(S, b))
      BY <2>1, FS_Subset
    <2> QED BY <2>2, FS_CardinalityType
  <1>2. ASSUME NEW a \in S, NEW b \in S, a < b
        PROVE  Cardinality(Below(S, a)) < Cardinality(Below(S, b))
    <2>1. Below(S, a) \in SUBSET Below(S, b)
      <3> SUFFICES ASSUME NEW c \in S, c < a
                   PROVE  c < b
        BY DEF Below
      <3> QED BY <1>2
    <2>2. Below(S, a) # Below(S, b)
      <3>1. a \in Below(S, b) /\ a \notin Below(S, a)
        BY <1>2 DEF Below
      <3> QED BY <3>1
    <2>3. /\ Cardinality(Below(S, a)) <= Cardinality(Below(S, b))
          /\ Cardinality(Below(S, a)) # Cardinality(Below(S, b))
      BY <1>1, <2>1, <2>2, FS_Subset
    <2> QED BY <1>1, <2>3
  <1>3. Index \in Injection(L, 0 .. (k - 1))
    <2>1. \A b \in L : Cardinality(Below(S, b)) \in 0 .. (k - 1)
      <3> SUFFICES ASSUME NEW b \in L
                   PROVE  Cardinality(Below(S, b)) \in 0 .. (k - 1)
        OBVIOUS
      <3>1. b \in S /\ Cardinality(Below(S, b)) < k
        BY DEF Lowest, Below
      <3>2. Cardinality(Below(S, b)) \in Nat
        BY <1>1, <3>1
      <3> QED BY <3>1, <3>2
    <2>2. ASSUME NEW a \in L, NEW b \in L, a # b PROVE Index[a] # Index[b]
      <3>1. a \in S /\ b \in S
        BY DEF Lowest
      <3>2. a < b \/ b < a
        BY <2>2, <3>1
      <3> QED BY <1>1, <1>2, <3>1, <3>2
    <2> QED BY <2>1, <2>2 DEF Injection, IsInjective
  <1>4. IsFiniteSet(0 .. (k - 1)) /\ Cardinality(0 .. (k - 1)) = k
    BY FS_Interval
  <1> QED BY <1>3, <1>4, FS_Injection

\* A lowest member of a set is one of its lowest in every part of the set.
LEMMA LowestInPart ==
  ASSUME NEW S, NEW T, IsFiniteSet(T), S \subseteq T, NEW k \in Nat,
         NEW b \in S, b \in Lowest(T, k)
  PROVE  b \in Lowest(S, k)
  <1>1. {a \in S : a < b} \in SUBSET {a \in T : a < b}
    OBVIOUS
  <1>2. IsFiniteSet({a \in T : a < b})
    BY FS_Subset
  <1>3. /\ IsFiniteSet({a \in S : a < b})
        /\ Cardinality({a \in S : a < b}) <= Cardinality({a \in T : a < b})
    BY <1>1, <1>2, FS_Subset
  <1>4. /\ Cardinality({a \in S : a < b}) \in Nat
        /\ Cardinality({a \in T : a < b}) \in Nat
    BY <1>2, <1>3, FS_CardinalityType
  <1> QED BY <1>3, <1>4 DEF Lowest

(***************************************************************************)
(* The queue.                                                              *)
(***************************************************************************)
LEMMA Constants ==
  /\ Window \in Nat /\ DriveAttempts \in Nat /\ MaxStalled \in Nat /\ MaxFaults \in Nat
  /\ MaxBands \in Nat /\ IsFiniteSet(Bands) /\ Bands \subseteq Nat /\ 0 \notin Bands
  /\ Drive \in Ids /\ Bands \subseteq Ids
  <1>1. /\ Window \in Nat /\ DriveAttempts \in Nat /\ MaxStalled \in Nat /\ MaxFaults \in Nat
        /\ MaxBands \in Nat
    BY LimitsAssumption, FilesAssumption
  <1>2. IsFiniteSet(Bands)
    BY <1>1, FS_Interval DEF Bands
  <1>3. Bands \subseteq Nat /\ 0 \notin Bands /\ Drive \in Ids /\ Bands \subseteq Ids
    BY <1>1 DEF Bands, Ids, Drive
  <1> QED BY <1>1, <1>2, <1>3

Queues == [Ids -> BullMQ!Records]

\* What an add, a retry, a redelivery and a return do to the queue.
LEMMA QueueOps ==
  ASSUME NEW q \in Queues
  PROVE  /\ \A S : \A t \in Nat, k \in BOOLEAN :
              /\ BullMQ!Added(q, S, t, k) \in Queues
              /\ \A i \in Ids \ S : BullMQ!Added(q, S, t, k)[i] = q[i]
              /\ \A i \in Ids : q[i].st # "absent" => BullMQ!Added(q, S, t, k)[i] = q[i]
         /\ \A i \in Ids : BullMQ!Retried(q[i]) \in BullMQ!Records
         /\ \A i \in Ids : BullMQ!Redelivered(q[i]) \in BullMQ!Records
         /\ BullMQ!Absent \in BullMQ!Records
  <1>1. ASSUME NEW S, NEW t \in Nat, NEW k \in BOOLEAN
        PROVE  /\ BullMQ!Added(q, S, t, k) \in Queues
               /\ \A i \in Ids \ S : BullMQ!Added(q, S, t, k)[i] = q[i]
               /\ \A i \in Ids : q[i].st # "absent" => BullMQ!Added(q, S, t, k)[i] = q[i]
    BY <1>1 DEF BullMQ!Added, BullMQ!NewRecord, BullMQ!Records, Queues
  <1>r. \A i \in Ids : q[i] \in BullMQ!Records
    BY DEF Queues
  <1>2. ASSUME NEW r \in BullMQ!Records PROVE BullMQ!Retried(r) \in BullMQ!Records
    <2>1. r.tries \in Nat
      BY DEF BullMQ!Records
    <2>2. /\ [r EXCEPT !.st = "failed"] \in BullMQ!Records
          /\ \A n \in Nat : [r EXCEPT !.st = "waiting", !.tries = n] \in BullMQ!Records
      BY DEF BullMQ!Records
    <2>3. CASE r.tries > 1
      <3>1. r.tries - 1 \in Nat
        BY <2>1, <2>3
      <3> QED BY <2>2, <2>3, <3>1 DEF BullMQ!Retried
    <2> QED BY <2>2, <2>3 DEF BullMQ!Retried
  <1>3. ASSUME NEW r \in BullMQ!Records PROVE BullMQ!Redelivered(r) \in BullMQ!Records
    <2>1. r.stalls \in Nat
      BY DEF BullMQ!Records
    <2>2. /\ [r EXCEPT !.st = "failed"] \in BullMQ!Records
          /\ \A n \in Nat : [r EXCEPT !.st = "waiting", !.stalls = n] \in BullMQ!Records
      BY DEF BullMQ!Records
    <2>3. CASE r.stalls < MaxStalled
      <3>1. r.stalls + 1 \in Nat
        BY <2>1, <2>3
      <3> QED BY <2>2, <2>3, <3>1 DEF BullMQ!Redelivered
    <2> QED BY <2>2, <2>3 DEF BullMQ!Redelivered
  <1>4. BullMQ!Absent \in BullMQ!Records
    BY DEF BullMQ!Absent, BullMQ!Records
  <1> QED BY <1>r, <1>1, <1>2, <1>3, <1>4

LEMMA SettledQueue ==
  ASSUME NEW w \in Workers, NEW q \in Queues
  PROVE  Settled(w, q) \in Queues
  BY DEF Settled, Queues, BullMQ!Records

(***************************************************************************)
(* The type invariant.                                                     *)
(***************************************************************************)
Jobs == [status : Statuses, size : 0 .. MaxBands, stored : BOOLEAN, staged : BOOLEAN,
         total : Nat, counted : Nat, rows : Nat, rejected : Nat, deduped : Nat,
         created : Nat, duplicate : Nat]

\* No more copies are marked than there are.
Tables == {t \in [exists : BOOLEAN, copies : Nat, marked : Nat] : t.marked <= t.copies}

DrivePcs == {"readDrive", "stage", "dedup", "record", "plan", "fanOut"}
ChunkPcs == {"readBand", "merge", "count", "refill", "fire", "drop"}
Tasks    == {t \in [pc : {"idle"} \cup DrivePcs \cup ChunkPcs, id : Ids, locked : BOOLEAN,
                     deduped : Nat] :
               /\ t.pc \in DrivePcs => t.id = Drive
               /\ t.pc \in ChunkPcs => t.id \in Bands}

\* The type invariant, variable by variable; a drive is worked on as a drive and
\* a chunk as a chunk.
Typed == /\ job \in Jobs
         /\ band \in [Bands -> {"none", "queued", "completed"}]
         /\ staging \in Tables
         /\ contacts \in SUBSET Bands
         /\ queue \in Queues
         /\ upload \in {"start", "store", "enqueue", "end"}
         /\ worker \in [Workers -> Tasks]
         /\ rollups \in Nat
         /\ faults \in 0 .. MaxFaults

LEMMA TypedIsTypeOK == Typed => TypeOK
  BY DEF Typed, TypeOK, Jobs, Tables, Tasks, DrivePcs, ChunkPcs, Queues

\* What a step of a worker does to its task keeps the tasks typed.
LEMMA TaskMoves ==
  ASSUME worker \in [Workers -> Tasks], NEW w \in Workers
  PROVE  /\ Leave(w) => worker' \in [Workers -> Tasks]
         /\ \A pc \in DrivePcs : Goto(w, pc) /\ worker[w].pc \in DrivePcs
                                => worker' \in [Workers -> Tasks]
         /\ \A pc \in ChunkPcs : Goto(w, pc) /\ worker[w].pc \in ChunkPcs
                                => worker' \in [Workers -> Tasks]
         /\ At(w) \in Ids
         /\ worker[w].pc \in ChunkPcs => At(w) \in Bands
  <1>1. Free \in Tasks /\ worker[w] \in Tasks
    BY DEF Free, Tasks, Ids, Drive, DrivePcs, ChunkPcs
  <1>2. Leave(w) => worker' \in [Workers -> Tasks]
    BY <1>1 DEF Leave
  <1>3. ASSUME NEW pc, Goto(w, pc),
               \/ pc \in DrivePcs /\ worker[w].pc \in DrivePcs
               \/ pc \in ChunkPcs /\ worker[w].pc \in ChunkPcs
        PROVE  worker' \in [Workers -> Tasks]
    <2>1. [worker[w] EXCEPT !.pc = pc] \in Tasks
      BY <1>1, <1>3 DEF Tasks, DrivePcs, ChunkPcs
    <2> QED BY <1>3, <2>1 DEF Goto
  <1> QED BY <1>1, <1>2, <1>3 DEF At, Tasks

LEMMA BreakBounds ==
  ASSUME faults \in 0 .. MaxFaults, NEW kind, NEW where, Break(kind, where)
  PROVE  faults' \in 0 .. MaxFaults
  BY Constants DEF Break

\* A worker that loses its job leaves a typed queue.
LEMMA ThrownTypes ==
  ASSUME Typed, NEW w \in Workers, Thrown(w)
  PROVE  queue' \in Queues /\ worker' \in [Workers -> Tasks]
  <1>1. queue \in Queues /\ worker \in [Workers -> Tasks]
    BY DEF Typed
  <1>2. worker' \in [Workers -> Tasks] /\ At(w) \in Ids
    BY <1>1, TaskMoves DEF Thrown
  <1>3. BullMQ!Retried(queue[At(w)]) \in BullMQ!Records
    BY <1>1, <1>2, QueueOps
  <1>4. queue' \in Queues
    BY <1>1, <1>2, <1>3 DEF Thrown, Queues
  <1> QED BY <1>2, <1>4

\* The API's steps and the reaper's.
LEMMA ApiTypes ==
  ASSUME Typed, Api \/ Reap
  PROVE  Typed'
  <1> USE Constants
  <1>1. ASSUME NEW n \in FileSizes, CreateRow(n) PROVE Typed'
    BY <1>1, FilesAssumption DEF Typed, CreateRow, NoFault, Jobs, Statuses
  <1>2. CASE Store
    BY <1>2 DEF Typed, Store, NoFault, Jobs
  <1>3. CASE StoreFails
    BY <1>3, BreakBounds DEF Typed, StoreFails, Jobs, Statuses
  <1>4. ASSUME Publish \/ Reap PROVE Typed'
    <2>1. queue' \in Queues
      <3>1. /\ BullMQ!Added(queue, {Drive}, DriveAttempts, TRUE) \in Queues
            /\ BullMQ!Added(queue, {Drive}, 1, FALSE) \in Queues
        BY QueueOps DEF Typed
      <3> QED BY <1>4, <3>1 DEF Publish, Reap
    <2> QED BY <1>4, <2>1 DEF Typed, Publish, Reap, NoFault
  <1>5. CASE Shed
    BY <1>5, BreakBounds DEF Typed, Shed
  <1> QED BY <1>1, <1>2, <1>3, <1>4, <1>5 DEF Api

\* The queue's steps.
LEMMA QueueTypes ==
  ASSUME Typed,
         \/ \E w \in Workers : Throws(w) \/ WorkerDies(w) \/ LockExpires(w)
         \/ \E w \in Workers, i \in Ids : Take(w, i)
         \/ \E i \in Ids : Expire(i)
  PROVE  Typed'
  <1>t. queue \in Queues /\ worker \in [Workers -> Tasks]
    BY DEF Typed
  <1>1. ASSUME NEW w \in Workers, Throws(w) PROVE Typed'
    BY <1>1, ThrownTypes, BreakBounds DEF Throws, Thrown, Typed
  <1>2. ASSUME NEW w \in Workers, WorkerDies(w) PROVE Typed'
    <2>1. worker' \in [Workers -> Tasks] /\ At(w) \in Ids
      BY <1>2, <1>t, TaskMoves DEF WorkerDies
    <2>2. queue' \in Queues
      BY <1>2, <1>t, <2>1, QueueOps DEF WorkerDies, Queues
    <2> QED BY <1>2, <2>1, <2>2, BreakBounds DEF WorkerDies, Typed
  <1>3. ASSUME NEW w \in Workers, LockExpires(w) PROVE Typed'
    <2>1. worker' \in [Workers -> Tasks] /\ At(w) \in Ids
      BY <1>3, <1>t, TaskMoves DEF LockExpires, Tasks
    <2>2. queue' \in Queues
      BY <1>3, <1>t, <2>1, QueueOps DEF LockExpires, Queues
    <2> QED BY <1>3, <2>1, <2>2, BreakBounds DEF LockExpires, Typed
  <1>4. ASSUME NEW w \in Workers, NEW i \in Ids, Take(w, i) PROVE Typed'
    <2>1. worker' \in [Workers -> Tasks]
      <3>1. i # Drive => i \in Bands
        BY DEF Ids
      <3>2. [pc |-> IF i = Drive THEN "readDrive" ELSE "readBand", id |-> i,
             locked |-> TRUE, deduped |-> 0] \in Tasks
        BY <3>1 DEF Tasks, DrivePcs, ChunkPcs
      <3> QED BY <1>4, <1>t, <3>2 DEF Take
    <2>2. queue' \in Queues
      BY <1>4, <1>t DEF Take, Queues, BullMQ!Records
    <2> QED BY <1>4, <2>1, <2>2 DEF Take, NoFault, Typed
  <1>5. ASSUME NEW i \in Ids, Expire(i) PROVE Typed'
    <2>1. queue' \in Queues
      BY <1>5, <1>t, QueueOps DEF Expire, Queues
    <2> QED BY <1>5, <2>1 DEF Expire, NoFault, Typed
  <1> QED BY <1>1, <1>2, <1>3, <1>4, <1>5

LEMMA Multiples ==
  ASSUME NEW k \in Nat, NEW n \in Nat
  PROVE  k * n \in Nat /\ (k + 1) * n = k * n + n /\ k * (n + 1) = k * n + k /\ k * 0 = 0
  OBVIOUS

\* The rows of the file that repeat an earlier one.
Repeated == Repeats \cap 1 .. job.size

LEMMA RepeatedCount ==
  IsFiniteSet(Repeated) /\ Repeated \subseteq Bands /\ Cardinality(Repeated) \in Nat
  <1>1. Repeated \in SUBSET Bands
    BY DEF Repeated, Repeats
  <1>2. IsFiniteSet(Repeated)
    BY <1>1, Constants, FS_Subset
  <1> QED BY <1>1, <1>2, FS_CardinalityType

\* What dedupWithinFile does to the table and to its worker.
LEMMA DedupFacts ==
  ASSUME Typed, NEW w \in Workers, Dedup(w)
  PROVE  /\ DedupCount \in Nat /\ DedupCount = staging.copies * Cardinality(Repeated)
         /\ staging' \in Tables /\ staging'.exists = staging.exists
         /\ staging'.copies = staging.copies /\ staging'.marked = staging.copies
         /\ worker' \in [Workers -> Tasks]
         /\ worker[w].pc = "dedup" /\ worker'[w].pc = "record"
         /\ worker'[w].id = worker[w].id /\ worker'[w].locked = worker[w].locked
         /\ worker'[w].deduped = DedupCount
         /\ \A v \in Workers : v # w => worker'[v] = worker[v]
  <1>1. /\ staging \in [exists : BOOLEAN, copies : Nat, marked : Nat]
        /\ staging.copies \in Nat
    BY DEF Typed, Tables
  <1>2. DedupCount = staging.copies * Cardinality(Repeated)
    BY DEF DedupCount, Repeated
  <1>3. DedupCount \in Nat
    BY <1>1, <1>2, RepeatedCount, Multiples
  <1>4. /\ staging' \in Tables /\ staging'.exists = staging.exists
        /\ staging'.copies = staging.copies /\ staging'.marked = staging.copies
    <2>1. /\ staging' \in [exists : BOOLEAN, copies : Nat, marked : Nat]
          /\ staging'.exists = staging.exists
          /\ staging'.copies = staging.copies /\ staging'.marked = staging.copies
      BY <1>1 DEF Dedup
    <2>2. staging'.marked <= staging'.copies
      BY <1>1, <2>1
    <2> QED BY <2>1, <2>2 DEF Tables
  <1>5. worker \in [Workers -> Tasks] /\ worker[w] \in Tasks
    BY DEF Typed
  <1>6. /\ worker'[w] = [worker[w] EXCEPT !.pc = "record", !.deduped = DedupCount]
        /\ \A v \in Workers : v # w => worker'[v] = worker[v]
    BY <1>5 DEF Dedup
  <1> HIDE DEF DedupCount
  <1>7. worker[w].pc = "dedup"
    BY DEF Dedup, Running
  <1>8. /\ worker'[w] \in Tasks /\ worker'[w].pc = "record" /\ worker'[w].deduped = DedupCount
        /\ worker'[w].id = worker[w].id /\ worker'[w].locked = worker[w].locked
    BY <1>3, <1>5, <1>6, <1>7 DEF Tasks, DrivePcs, ChunkPcs
  <1>9. worker' \in [Workers -> Tasks]
    <2>1. worker' = [worker EXCEPT ![w] = worker'[w]]
      BY <1>5, <1>6 DEF Dedup
    <2> QED BY <1>5, <1>8, <2>1
  <1> QED BY <1>2, <1>3, <1>4, <1>6, <1>7, <1>8, <1>9

\* The drive's steps.
LEMMA DriveTypes ==
  ASSUME Typed, NEW w \in Workers, DriveStep(w)
  PROVE  Typed'
  <1> USE Constants
  <1>t. queue \in Queues /\ worker \in [Workers -> Tasks] /\ job \in Jobs
    BY DEF Typed
  <1>a. \A S : Settled(w, BullMQ!Added(queue, S, 1, FALSE)) \in Queues
    <2> TAKE S
    <2>1. BullMQ!Added(queue, S, 1, FALSE) \in Queues
      BY <1>t, QueueOps
    <2> QED BY <2>1, SettledQueue
  <1>s. Settled(w, queue) \in Queues
    BY <1>t, SettledQueue
  <1>1. ASSUME Resume(w) \/ FanOut(w) PROVE Typed'
    <2>1. worker' \in [Workers -> Tasks]
      BY <1>1, <1>t, TaskMoves DEF Resume, FanOut
    <2>2. queue' \in Queues
      BY <1>1, <1>a DEF Resume, FanOut
    <2>3. UNCHANGED <<job, band, staging, contacts, upload, rollups, faults>>
      BY <1>1 DEF Resume, FanOut, NoFault
    <2> QED BY <2>1, <2>2, <2>3 DEF Typed
  <1>2. CASE StartDrive(w)
    BY <1>2, <1>t, TaskMoves DEF StartDrive, NoFault, Running, Typed, Jobs, Statuses, DrivePcs
  <1>3. CASE Stage(w)
    <2>1. staging' \in Tables
      <3>1. /\ staging \in [exists : BOOLEAN, copies : Nat, marked : Nat]
            /\ staging.marked <= staging.copies
        BY DEF Typed, Tables
      <3>2. /\ staging' \in [exists : BOOLEAN, copies : Nat, marked : Nat]
            /\ staging'.copies = staging.copies + 1 /\ staging'.marked = staging.marked
        BY <1>3, <3>1 DEF Stage
      <3>3. staging'.marked <= staging'.copies
        BY <3>1, <3>2
      <3> QED BY <3>2, <3>3 DEF Tables
    <2> QED BY <1>3, <1>t, <2>1, TaskMoves DEF Stage, NoFault, Running, Typed, DrivePcs
  <1>4. CASE MissingObject(w)
    <2>1. staging' \in Tables
      BY <1>4 DEF MissingObject, Typed, Tables
    <2> QED BY <1>4, <2>1, ThrownTypes DEF MissingObject, Thrown, NoFault, Typed
  <1>9. CASE Dedup(w)
    <2>1. staging' \in Tables /\ worker' \in [Workers -> Tasks]
      BY <1>9, DedupFacts
    <2> QED BY <1>9, <2>1 DEF Dedup, NoFault, Typed
  <1>10. CASE DedupThrows(w)
    BY <1>10, ThrownTypes DEF DedupThrows, Thrown, NoFault, Typed
  <1>5. CASE RecordStaged(w)
    <2>1. Cardinality(Rejected \cap 1 .. job.size) \in Nat
      <3>1. IsFiniteSet(Rejected \cap 1 .. job.size)
        BY FilesAssumption, FS_Subset, FS_Intersection
      <3> QED BY <3>1, FS_CardinalityType
    <2>2. \A s, m, n, d \in Nat : [job EXCEPT !.status = "staged", !.staged = TRUE, !.total = s,
                        !.rows = m, !.rejected = n, !.deduped = d] \in Jobs
      BY <1>t DEF Jobs, Statuses
    <2>3. job' \in Jobs
      <3>1. /\ job.size \in Nat /\ job.rows + job.size \in Nat
            /\ job.rejected + Cardinality(Rejected \cap 1 .. job.size) \in Nat
            /\ job.deduped + worker[w].deduped \in Nat
        BY <1>t, <2>1 DEF Jobs, Tasks
      <3> QED BY <1>5, <2>2, <3>1 DEF RecordStaged
    <2> QED BY <1>5, <1>t, <2>3, TaskMoves DEF RecordStaged, NoFault, Running, Typed, DrivePcs
  <1>6. CASE FinishEmpty(w)
    BY <1>6, <1>s, <1>t, TaskMoves
       DEF FinishEmpty, NoFault, Typed, Jobs, Statuses, NoTable, Tables
  <1>7. CASE Plan(w)
    BY <1>7, <1>t, TaskMoves DEF Plan, NoFault, Running, Typed, DrivePcs
  <1>8. CASE PlannedAlready(w)
    BY <1>8, ThrownTypes DEF PlannedAlready, Thrown, NoFault, Typed
  <1> QED BY <1>1, <1>2, <1>3, <1>4, <1>5, <1>6, <1>7, <1>8, <1>9, <1>10 DEF DriveStep

\* The chunk's steps.
LEMMA ChunkTypes ==
  ASSUME Typed, NEW w \in Workers, ChunkStep(w)
  PROVE  Typed'
  <1> USE Constants
  <1>t. queue \in Queues /\ worker \in [Workers -> Tasks] /\ job \in Jobs
    BY DEF Typed
  <1>s. Settled(w, queue) \in Queues
    BY <1>t, SettledQueue
  <1>1. CASE SkipBand(w)
    BY <1>1, <1>s, <1>t, TaskMoves DEF SkipBand, NoFault, Typed
  <1>2. CASE ReadBand(w)
    BY <1>2, <1>t, TaskMoves DEF ReadBand, NoFault, Running, Typed, ChunkPcs
  <1>3. CASE MergeThrows(w)
    BY <1>3, ThrownTypes DEF MergeThrows, Thrown, NoFault, Typed
  <1>4. CASE Merge(w)
    <2>1. At(w) \in Ids /\ Staged(At(w)) \in Nat
      BY <1>t, TaskMoves DEF Staged, Typed, Tables
    <2>2. job' \in Jobs
      <3>1. \A m, n \in Nat : [job EXCEPT !.created = m, !.duplicate = n] \in Jobs
        BY <1>t DEF Jobs
      <3>2. /\ job.created \in Nat /\ job.duplicate \in Nat
            /\ job.created + Staged(At(w)) \in Nat /\ job.duplicate + Staged(At(w)) \in Nat
            /\ job.created + 0 \in Nat /\ job.duplicate + 0 \in Nat
        BY <1>t, <2>1 DEF Jobs
      <3> QED BY <1>4, <3>1, <3>2 DEF Merge
    <2>3. contacts' \in SUBSET Bands
      <3>1. At(w) \in Bands /\ Original[At(w)] \in Bands
        BY <1>4, <1>t, TaskMoves, IdentityAssumption DEF Merge, Running, ChunkPcs
      <3> QED BY <1>4, <3>1 DEF Merge, Typed
    <2> QED BY <1>4, <1>t, <2>2, <2>3, TaskMoves DEF Merge, NoFault, Running, Typed, ChunkPcs
  <1>5. CASE CountBand(w)
    BY <1>5, <1>t, TaskMoves DEF CountBand, NoFault, Running, Typed, Jobs, ChunkPcs
  <1>6. CASE Finalize(w)
    <2>1. \A n \in Nat, st \in Statuses : [job EXCEPT !.counted = n, !.status = st] \in Jobs
      BY <1>t DEF Jobs
    <2>2. job.counted + 1 \in Nat
      BY <1>t DEF Jobs
    <2>3. job' \in Jobs
      BY <1>6, <2>1, <2>2 DEF Finalize, Statuses
    <2>4. worker' \in [Workers -> Tasks]
      BY <1>6, <1>t, TaskMoves DEF Finalize, Running, ChunkPcs
    <2> QED BY <1>6, <2>3, <2>4 DEF Finalize, NoFault, Typed
  <1>7. CASE CleanUp(w)
    BY <1>7, <1>s, <1>t, TaskMoves DEF CleanUp, NoFault, Typed, NoTable, Tables
  <1>8. CASE Continue(w)
    <2>1. Settled(w, BullMQ!Added(queue, Refill, 1, FALSE)) \in Queues
      <3>1. BullMQ!Added(queue, Refill, 1, FALSE) \in Queues
        BY <1>t, QueueOps
      <3> QED BY <3>1, SettledQueue
    <2> QED BY <1>8, <1>t, <2>1, TaskMoves DEF Continue, NoFault, Typed
  <1> QED BY <1>1, <1>2, <1>3, <1>4, <1>5, <1>6, <1>7, <1>8 DEF ChunkStep

LEMMA TypedStep ==
  ASSUME Typed, [Next]_vars
  PROVE  Typed'
  <1>1. CASE UNCHANGED vars
    BY <1>1 DEF vars, Typed
  <1> QED BY <1>1, ApiTypes, QueueTypes, DriveTypes, ChunkTypes DEF Next, Step

(***************************************************************************)
(* The inductive invariant.                                                *)
(***************************************************************************)
Ready == job.stored /\ (staging.exists => staging.copies >= 1)

\* Before the request has made its row there is nothing else.
Untouched ==
  upload = "start" =>
    /\ job.status = "none"
    /\ \A i \in Ids : queue[i].st = "absent"
    /\ \A w \in Workers : worker[w].pc = "idle"
    /\ \A b \in Bands : band[b] = "none"

\* A lock is on an active record, and a record has one lock.
Locks ==
  /\ \A w \in Workers : worker[w].locked => worker[w].pc # "idle"
  /\ \A w \in Workers : worker[w].locked => queue[worker[w].id].st = "active"
  /\ \A v, w \in Workers : worker[v].locked /\ worker[w].locked /\ v # w
                             => worker[v].id # worker[w].id

\* What is queued or worked on as a band has been planned as one.
Planned ==
  /\ \A b \in Bands : Live(b) => band[b] # "none"
  /\ \A w \in Workers : worker[w].pc \in ChunkPcs => band[worker[w].id] # "none"
  /\ \A w \in Workers : worker[w].pc = "fanOut"
                          => \A b \in Bands : b <= job.size => band[b] # "none"
  /\ \A b \in Bands : band[b] # "none" => b <= job.size

\* Bands are planned from a file that is stored and staged.
StagedFirst ==
  /\ \A b \in Bands : band[b] # "none" => Ready
  /\ \A w \in Workers : worker[w].pc \in {"dedup", "record", "plan", "fanOut"} => Ready

\* What the bands and counters say has happened.
Landed == Existing \subseteq contacts /\ CreatedIsTruth /\ CompletedBandLanded

\* The live bands are always among the lowest unfinished ones.
LowestLive ==
  Window > 0 => \A b \in Pending : Live(b) => b \in Lowest(Pending, Window)

IInv == /\ Typed /\ Untouched /\ Locks /\ Planned /\ StagedFirst
        /\ Landed /\ LowestLive

LEMMA InitIInv == Init => IInv
  <1> SUFFICES ASSUME Init PROVE IInv
    OBVIOUS
  <1> USE Constants
  <1>1. Typed
    <2>1. queue \in Queues
      BY QueueOps DEF Init, Queues, BullMQ!Absent, BullMQ!Records
    <2>2. worker \in [Workers -> Tasks]
      BY DEF Init, Free, Tasks, DrivePcs, ChunkPcs
    <2>3. job \in Jobs
      BY DEF Init, Jobs, Statuses
    <2>4. contacts \in SUBSET Bands
      BY IdentityAssumption DEF Init
    <2> QED BY <2>1, <2>2, <2>3, <2>4 DEF Init, Typed, NoTable, Tables
  <1>2. Untouched
    BY DEF Init, Untouched, BullMQ!Absent, Free
  <1>3. Locks
    BY DEF Init, Locks, Free
  <1>4. Planned /\ StagedFirst /\ LowestLive
    BY DEF Init, Planned, StagedFirst, LowestLive, Live, BullMQ!Live, BullMQ!Absent, Free,
           ChunkPcs, Pending
  <1>5. Landed
    BY FS_EmptySet DEF Init, Landed, CreatedIsTruth, CompletedBandLanded, Done
  <1> QED BY <1>1, <1>2, <1>3, <1>4, <1>5 DEF IInv

\* Nothing but the request's first step happens before it.
LEMMA UntouchedStep ==
  ASSUME IInv, [Next]_vars
  PROVE  /\ Untouched'
         /\ upload = "start" => \/ UNCHANGED vars
                                \/ \E n \in FileSizes : CreateRow(n)
         /\ (\E n \in FileSizes : CreateRow(n)) \/ job'.size = job.size
  <1>1. CASE UNCHANGED vars
    BY <1>1 DEF vars, IInv, Untouched
  <1>2. CASE Api
    BY <1>2 DEF Api, CreateRow, Store, StoreFails, Publish, Shed, IInv, Untouched, Typed, Jobs
  <1>3. CASE Reap
    BY <1>3 DEF Reap, Orphaned, IInv, Untouched
  <1>4. ASSUME NEW w \in Workers, Step(w) \/ Throws(w) \/ WorkerDies(w) \/ LockExpires(w)
        PROVE  upload # "start" /\ upload' = upload /\ job'.size = job.size
    <2>1. worker[w].pc # "idle" /\ upload' = upload /\ job'.size = job.size
      <3>1. CASE DriveStep(w)
        BY <3>1 DEF DriveStep, Resume, StartDrive, Stage, MissingObject, Dedup, DedupThrows,
                    RecordStaged, FinishEmpty, Plan, PlannedAlready, FanOut, Thrown, Running, IInv, Typed, Jobs
      <3>2. CASE ChunkStep(w)
        BY <3>2 DEF ChunkStep, SkipBand, ReadBand, MergeThrows, Merge, CountBand, Finalize,
                    CleanUp, Continue, Thrown, Running, IInv, Typed, Jobs
      <3>3. CASE Throws(w) \/ WorkerDies(w)
        BY <3>3 DEF Throws, Thrown, WorkerDies, Running
      <3>4. CASE LockExpires(w)
        BY <3>4 DEF LockExpires, IInv, Locks
      <3> QED BY <1>4, <3>1, <3>2, <3>3, <3>4 DEF Step
    <2> QED BY <2>1 DEF IInv, Untouched
  <1>5. ASSUME NEW w \in Workers, NEW i \in Ids, Take(w, i)
        PROVE  upload # "start" /\ upload' = upload /\ job'.size = job.size
    BY <1>5 DEF Take, IInv, Untouched
  <1>6. ASSUME NEW i \in Ids, Expire(i)
        PROVE  upload # "start" /\ upload' = upload /\ job'.size = job.size
    BY <1>6 DEF Expire, BullMQ!Expires, IInv, Untouched
  <1> QED BY <1>1, <1>2, <1>3, <1>4, <1>5, <1>6 DEF Next, Untouched, Reap

\* What the steps do to the queue, as far as locks and bands are concerned:
\* the record of worker w changes, bands in S may be added.
LEMMA SettledAdd ==
  ASSUME Typed, Locks, NEW w \in Workers, NEW S, NEW n \in Nat, NEW k \in BOOLEAN,
         queue' = Settled(w, BullMQ!Added(queue, S, n, k)), Leave(w)
  PROVE  /\ Locks'
         /\ \A i \in Ids : Live(i)' => Live(i) \/ i \in S
  <1> DEFINE q == BullMQ!Added(queue, S, n, k)
  <1>1. /\ q \in Queues
        /\ \A i \in Ids \ S : q[i] = queue[i]
        /\ \A i \in Ids : queue[i].st # "absent" => q[i] = queue[i]
    BY QueueOps DEF Typed
  <1>2. At(w) \in Ids /\ \A v \in Workers : worker[v].id \in Ids
    BY DEF Typed, Tasks, At
  <1>3. \A i \in Ids : \/ queue'[i] = q[i]
                       \/ worker[w].locked /\ i = At(w) /\ queue'[i].st = "completed"
    BY <1>1, <1>2 DEF Settled, Queues, BullMQ!Records
  <1>4. /\ \A v \in Workers : v # w => worker'[v] = worker[v]
        /\ worker'[w] = Free
    BY DEF Leave, Typed
  <1> HIDE DEF q
  <1>5. Locks'
    <2>1. \A v \in Workers : worker'[v].locked => worker'[v].pc # "idle"
      BY <1>4 DEF Locks, Free
    <2>2. ASSUME NEW v \in Workers, worker'[v].locked
          PROVE  queue'[worker'[v].id].st = "active"
      <3>1. v # w /\ worker'[v] = worker[v]
        BY <1>4, <2>2 DEF Free
      <3>2. queue[worker[v].id].st = "active"
        BY <2>2, <3>1 DEF Locks
      <3>3. q[worker[v].id] = queue[worker[v].id]
        BY <1>1, <1>2, <3>2
      <3>4. worker[w].locked => worker[v].id # At(w)
        BY <2>2, <3>1 DEF Locks, At
      <3> QED BY <1>2, <1>3, <3>1, <3>2, <3>3, <3>4
    <2>3. \A u, v \in Workers : worker'[u].locked /\ worker'[v].locked /\ u # v
                                => worker'[u].id # worker'[v].id
      BY <1>4 DEF Locks, Free
    <2> QED BY <2>1, <2>2, <2>3 DEF Locks
  <1>6. ASSUME NEW i \in Ids, Live(i)' PROVE Live(i) \/ i \in S
    BY <1>1, <1>3, <1>6 DEF Live, BullMQ!Live
  <1> QED BY <1>5, <1>6

\* Losing a job: its record, if still locked, waits again or has failed.
LEMMA LostJob ==
  ASSUME Typed, Locks, NEW w \in Workers, Leave(w), NEW r,
         queue' = IF worker[w].locked THEN [queue EXCEPT ![At(w)] = r] ELSE queue
  PROVE  /\ Locks'
         /\ \A i \in Ids : Live(i)' => Live(i)
  <1>1. /\ queue \in Queues /\ At(w) \in Ids /\ At(w) = worker[w].id
        /\ \A v \in Workers : worker[v].id \in Ids
    BY DEF Typed, Tasks, At
  <1>2. \A i \in Ids : queue'[i] = queue[i] \/ (worker[w].locked /\ i = At(w))
    BY <1>1 DEF Queues
  <1>3. /\ \A v \in Workers : v # w => worker'[v] = worker[v]
        /\ worker'[w] = Free
    BY DEF Leave, Typed
  <1>4. Locks'
    BY <1>1, <1>2, <1>3 DEF Locks, Free
  <1>5. \A i \in Ids : Live(i)' => Live(i)
    BY <1>1, <1>2 DEF Live, BullMQ!Live, Locks
  <1> QED BY <1>4, <1>5

\* A step of a worker that goes on with its job.
LEMMA GoOn ==
  ASSUME Typed, Locks, NEW w \in Workers, NEW pc, pc # "idle",
         Goto(w, pc) \/ (Dedup(w) /\ pc = "record"), queue' = queue
  PROVE  Locks' /\ \A i \in Ids : Live(i)' => Live(i)
  <1>1. \A v \in Workers : /\ worker'[v].id = worker[v].id
                           /\ worker'[v].locked = worker[v].locked
                           /\ worker'[v].pc \in {worker[v].pc, pc}
    <2> TAKE v \in Workers
    <2>1. worker[v] \in Tasks
      BY DEF Typed
    <2>2. CASE Goto(w, pc)
      BY <2>1, <2>2 DEF Goto, Typed, Tasks
    <2>3. CASE Dedup(w) /\ pc = "record"
      BY <2>3, DedupFacts
    <2> QED BY <2>2, <2>3
  <1> QED BY <1>1 DEF Locks, Live

\* A band becomes live only where a drive or a chunk adds it.
Enqueues(w, b) == \/ Resume(w) /\ b \in Windowed(Pending)
                  \/ FanOut(w) /\ b \in Windowed(1 .. job.size)
                  \/ Continue(w) /\ b \in Refill

LEMMA QueueStep ==
  ASSUME Typed, Locks, [Next]_vars
  PROVE  /\ Locks'
         /\ \A b \in Bands : Live(b)' => Live(b) \/ \E w \in Workers : Enqueues(w, b)
  <1> USE Constants
  <1>t. queue \in Queues /\ worker \in [Workers -> Tasks]
    BY DEF Typed
  <1>1. ASSUME UNCHANGED <<queue, worker>>
        PROVE  Locks' /\ \A b \in Bands : Live(b)' => Live(b)
    BY <1>1 DEF Locks, Live
  <1>2. ASSUME Publish \/ Reap
        PROVE  Locks' /\ \A b \in Bands : Live(b)' => Live(b)
    <2> DEFINE Drives(n, k) == BullMQ!Added(queue, {Drive}, n, k)
    <2>1. ASSUME NEW n \in Nat, NEW k \in BOOLEAN
          PROVE  \A i \in Ids : i # Drive \/ queue[i].st # "absent"
                                => Drives(n, k)[i] = queue[i]
      BY DEF BullMQ!Added
    <2>2. PICK n \in Nat, k \in BOOLEAN : queue' = Drives(n, k)
      BY <1>2 DEF Publish, Reap
    <2>3. worker' = worker
      BY <1>2 DEF Publish, Reap
    <2> HIDE DEF Drives
    <2>4. \A v \in Workers : worker[v].locked => queue'[worker[v].id] = queue[worker[v].id]
      BY <1>t, <2>1, <2>2 DEF Locks, Tasks
    <2>5. \A b \in Bands : queue'[b] = queue[b]
      BY <2>1, <2>2 DEF Drive
    <2> QED BY <2>3, <2>4, <2>5 DEF Locks, Live
  <1>3. ASSUME NEW w \in Workers, NEW i \in Ids, Take(w, i)
        PROVE  Locks' /\ \A b \in Bands : Live(b)' => Live(b)
    <2>1. /\ \A j \in Ids : j # i => queue'[j] = queue[j]
          /\ queue[i].st = "waiting" /\ queue'[i].st = "active"
      BY <1>3, <1>t DEF Take, Queues, BullMQ!Records
    <2>2. /\ \A v \in Workers : v # w => worker'[v] = worker[v]
          /\ worker'[w].id = i /\ worker'[w].pc # "idle"
      BY <1>3, <1>t DEF Take
    <2>3. \A v \in Workers : v # w /\ worker[v].locked =>
            /\ queue[worker[v].id].st = "active" /\ worker[v].id # i
            /\ worker[v].id \in Ids
      BY <1>t, <2>1 DEF Locks, Tasks
    <2>4. \A v \in Workers : worker'[v].locked => worker'[v].pc # "idle"
      BY <2>2 DEF Locks
    <2>5. \A v \in Workers : worker'[v].locked => queue'[worker'[v].id].st = "active"
      <3> TAKE v \in Workers
      <3>1. CASE v = w
        BY <2>1, <2>2, <3>1
      <3>2. CASE v # w
        BY <2>1, <2>2, <2>3, <3>2
      <3> QED BY <3>1, <3>2
    <2>6. \A u, v \in Workers : worker'[u].locked /\ worker'[v].locked /\ u # v
                                => worker'[u].id # worker'[v].id
      BY <2>2, <2>3 DEF Locks
    <2>7. \A b \in Bands : Live(b)' => Live(b)
      BY <2>1 DEF Live, BullMQ!Live
    <2> QED BY <2>4, <2>5, <2>6, <2>7 DEF Locks
  <1>4. ASSUME NEW i \in Ids, Expire(i)
        PROVE  Locks' /\ \A b \in Bands : Live(b)' => Live(b)
    <2>1. /\ \A j \in Ids : j # i => queue'[j] = queue[j]
          /\ queue'[i].st = "absent" /\ queue[i].st # "active" /\ worker' = worker
      BY <1>4, <1>t DEF Expire, BullMQ!Expires, Queues, BullMQ!Absent
    <2>2. \A v \in Workers : worker[v].locked => worker[v].id \in Ids \ {i}
      BY <1>t, <2>1 DEF Locks, Tasks
    <2> QED BY <2>1, <2>2 DEF Locks, Live, BullMQ!Live
  <1>5. ASSUME NEW w \in Workers, LockExpires(w)
        PROVE  Locks' /\ \A b \in Bands : Live(b)' => Live(b)
    <2>1. \A i \in Ids : i # worker[w].id => queue'[i] = queue[i]
      BY <1>5, <1>t DEF LockExpires, Queues, At
    <2>2. \A v \in Workers : /\ worker'[v].id = worker[v].id /\ worker'[v].pc = worker[v].pc
                             /\ worker'[v].locked => worker[v].locked /\ v # w
                             /\ worker[v].id \in Ids
      <3> TAKE v \in Workers
      <3>1. worker[v] \in Tasks
        BY <1>t
      <3> QED BY <1>5, <1>t, <3>1 DEF LockExpires, Tasks
    <2>3. worker[w].locked /\ queue[worker[w].id].st = "active"
      BY <1>5 DEF LockExpires, Locks
    <2>4. Locks'
      <3>1. \A v \in Workers : worker'[v].locked => worker'[v].pc # "idle"
        BY <2>2 DEF Locks
      <3>2. ASSUME NEW v \in Workers, worker'[v].locked
            PROVE  queue'[worker'[v].id].st = "active"
        <4>1. worker[v].locked /\ v # w /\ worker[v].id \in Ids
          BY <2>2, <3>2
        <4>2. worker[v].id # worker[w].id /\ queue[worker[v].id].st = "active"
          BY <2>3, <4>1 DEF Locks
        <4> QED BY <2>1, <2>2, <4>1, <4>2
      <3>3. \A u, v \in Workers : worker'[u].locked /\ worker'[v].locked /\ u # v
                                  => worker'[u].id # worker'[v].id
        BY <2>2 DEF Locks
      <3> QED BY <3>1, <3>2, <3>3 DEF Locks
    <2>5. \A b \in Bands : Live(b)' => Live(b)
      BY <2>1, <2>3 DEF Live, BullMQ!Live
    <2> QED BY <2>4, <2>5
  <1>6. ASSUME NEW w \in Workers, Thrown(w) \/ WorkerDies(w)
        PROVE  Locks' /\ \A b \in Bands : Live(b)' => Live(b)
    BY <1>6, LostJob DEF Thrown, WorkerDies
  <1>7. ASSUME NEW w \in Workers,
               StartDrive(w) \/ Stage(w) \/ RecordStaged(w) \/ Plan(w) \/ ReadBand(w)
                 \/ Merge(w) \/ CountBand(w) \/ Finalize(w)
        PROVE  Locks' /\ \A b \in Bands : Live(b)' => Live(b)
    <2>1. PICK pc \in DrivePcs \cup ChunkPcs : Goto(w, pc)
      BY <1>7 DEF StartDrive, Stage, RecordStaged, Plan, ReadBand, Merge, CountBand,
                  Finalize, DrivePcs, ChunkPcs
    <2>2. queue' = queue
      BY <1>7 DEF StartDrive, Stage, RecordStaged, Plan, ReadBand, Merge, CountBand, Finalize
    <2>3. pc # "idle"
      BY DEF DrivePcs, ChunkPcs
    <2> QED BY <2>1, <2>2, <2>3, GoOn
  <1>13. ASSUME NEW w \in Workers, Dedup(w)
         PROVE  Locks' /\ \A b \in Bands : Live(b)' => Live(b)
    <2>1. queue' = queue
      BY <1>13 DEF Dedup
    <2> QED BY <1>13, <2>1, GoOn
  <1>8. ASSUME NEW w \in Workers, SkipBand(w) \/ FinishEmpty(w) \/ CleanUp(w)
        PROVE  Locks' /\ \A b \in Bands : Live(b)' => Live(b)
    <2>1. PICK S : S = {}
      OBVIOUS
    <2>2. BullMQ!Added(queue, S, 1, FALSE) = queue
      BY <1>t, <2>1 DEF BullMQ!Added, Queues
    <2>3. queue' = Settled(w, BullMQ!Added(queue, S, 1, FALSE)) /\ Leave(w)
      BY <1>8, <2>2 DEF SkipBand, FinishEmpty, CleanUp
    <2>4. Locks' /\ \A i \in Ids : Live(i)' => Live(i) \/ i \in S
      BY <2>3, SettledAdd
    <2> QED BY <2>1, <2>4
  <1>9. ASSUME NEW w \in Workers, Resume(w) \/ FanOut(w) \/ Continue(w)
        PROVE  Locks' /\ \A b \in Bands : Live(b)' => Live(b) \/ Enqueues(w, b)
    BY <1>9, SettledAdd DEF Resume, FanOut, Continue, Enqueues
  <1>10. ASSUME NEW w \in Workers, Step(w) \/ Throws(w) \/ WorkerDies(w) \/ LockExpires(w)
         PROVE  Locks' /\ \A b \in Bands : Live(b)' => Live(b) \/ Enqueues(w, b)
    <2>1. \/ Thrown(w) \/ WorkerDies(w) \/ LockExpires(w)
          \/ StartDrive(w) \/ Stage(w) \/ RecordStaged(w) \/ Plan(w) \/ ReadBand(w)
          \/ Merge(w) \/ CountBand(w) \/ Finalize(w) \/ Dedup(w)
          \/ SkipBand(w) \/ FinishEmpty(w) \/ CleanUp(w)
          \/ Resume(w) \/ FanOut(w) \/ Continue(w)
      BY <1>10 DEF Step, DriveStep, ChunkStep, MissingObject, DedupThrows, PlannedAlready,
                   MergeThrows, Throws
    <2> QED BY <1>5, <1>6, <1>7, <1>8, <1>9, <1>13, <2>1
  <1>11. CASE UNCHANGED vars
    BY <1>1, <1>11 DEF vars
  <1>12. CASE Api
    BY <1>1, <1>2, <1>12 DEF Api, CreateRow, Store, StoreFails, Shed
  <1> QED BY <1>2, <1>3, <1>4, <1>10, <1>11, <1>12 DEF Next

\* How a worker comes to a job of a kind.
LEMMA WorkerStep ==
  ASSUME Typed, [Next]_vars, NEW v \in Workers
  PROVE  /\ worker'[v].pc \in ChunkPcs =>
              \/ worker[v].pc \in ChunkPcs /\ worker'[v].id = worker[v].id
              \/ \E i \in Bands : Take(v, i) /\ worker'[v].id = i
         /\ worker'[v].pc = "fanOut" => worker[v].pc = "fanOut" \/ Plan(v)
         /\ worker'[v].pc \in {"dedup", "record", "plan", "fanOut"} =>
              worker[v].pc \in {"dedup", "record", "plan", "fanOut"} \/ Stage(v)
  <1> DEFINE Goal ==
        /\ worker'[v].pc \in ChunkPcs =>
              \/ worker[v].pc \in ChunkPcs /\ worker'[v].id = worker[v].id
              \/ \E i \in Bands : Take(v, i) /\ worker'[v].id = i
        /\ worker'[v].pc = "fanOut" => worker[v].pc = "fanOut" \/ Plan(v)
        /\ worker'[v].pc \in {"dedup", "record", "plan", "fanOut"} =>
              worker[v].pc \in {"dedup", "record", "plan", "fanOut"} \/ Stage(v)
  <1>t. worker \in [Workers -> Tasks] /\ worker[v] \in Tasks
    BY DEF Typed
  <1>1. ASSUME worker'[v] = worker[v] \/ worker'[v].pc = "idle"
        PROVE  Goal
    BY <1>1 DEF ChunkPcs
  <1>2. ASSUME NEW w \in Workers, LockExpires(w)
        PROVE  Goal
    <2>1. worker'[v].pc = worker[v].pc /\ worker'[v].id = worker[v].id
      BY <1>2, <1>t DEF LockExpires, Tasks
    <2> QED BY <2>1
  <1>3. ASSUME NEW w \in Workers, Thrown(w) \/ WorkerDies(w) \/ SkipBand(w) \/ FinishEmpty(w)
                 \/ CleanUp(w) \/ Resume(w) \/ FanOut(w) \/ Continue(w)
        PROVE  Goal
    <2>1. worker'[v] = worker[v] \/ worker'[v].pc = "idle"
      <3>1. Leave(w)
        BY <1>3 DEF Thrown, WorkerDies, SkipBand, FinishEmpty, CleanUp, Resume, FanOut, Continue
      <3> QED BY <1>t, <3>1 DEF Leave, Free
    <2> QED BY <1>1, <2>1
  <1>4. ASSUME NEW w \in Workers, NEW i \in Ids, Take(w, i)
        PROVE  Goal
    <2>1. CASE v # w
      <3>1. worker'[v] = worker[v]
        BY <1>4, <1>t, <2>1 DEF Take
      <3> QED BY <1>1, <3>1
    <2>2. CASE v = w
      <3>1. worker'[v].pc = (IF i = Drive THEN "readDrive" ELSE "readBand") /\ worker'[v].id = i
        BY <1>4, <1>t, <2>2 DEF Take
      <3>2. i # Drive => i \in Bands
        BY DEF Ids
      <3> QED BY <1>4, <2>2, <3>1, <3>2 DEF ChunkPcs
    <2> QED BY <2>1, <2>2
  <1>5. ASSUME NEW w \in Workers,
               StartDrive(w) \/ Stage(w) \/ RecordStaged(w) \/ Plan(w) \/ ReadBand(w)
                 \/ Merge(w) \/ CountBand(w) \/ Finalize(w)
        PROVE  Goal
    <2>1. ASSUME NEW pc, Goto(w, pc)
          PROVE  /\ v # w => worker'[v] = worker[v]
                 /\ v = w => worker'[v].pc = pc /\ worker'[v].id = worker[v].id
      <3>1. /\ v # w => worker'[v] = worker[v]
            /\ v = w => worker'[v] = [worker[v] EXCEPT !.pc = pc]
        BY <1>t, <2>1 DEF Goto
      <3>2. [worker[v] EXCEPT !.pc = pc].pc = pc /\ [worker[v] EXCEPT !.pc = pc].id = worker[v].id
        BY <1>t DEF Tasks
      <3> QED BY <3>1, <3>2
    <2>2. CASE v # w
      BY <1>1, <1>5, <2>1, <2>2 DEF StartDrive, Stage, RecordStaged, Plan, ReadBand, Merge,
                                    CountBand, Finalize
    <2>3. CASE v = w
      <3>1. CASE StartDrive(w)
        BY <2>1, <2>3, <3>1 DEF StartDrive, ChunkPcs
      <3>2. CASE Stage(w)
        BY <2>1, <2>3, <3>2 DEF Stage, ChunkPcs
      <3>3. CASE RecordStaged(w)
        BY <2>1, <2>3, <3>3 DEF RecordStaged, Running, ChunkPcs
      <3>4. CASE Plan(w)
        BY <2>1, <2>3, <3>4 DEF Plan, Running, ChunkPcs
      <3>5. CASE ReadBand(w)
        BY <2>1, <2>3, <3>5 DEF ReadBand, Running, ChunkPcs
      <3>6. CASE Merge(w)
        BY <2>1, <2>3, <3>6 DEF Merge, Running, ChunkPcs
      <3>7. CASE CountBand(w)
        BY <2>1, <2>3, <3>7 DEF CountBand, Running, ChunkPcs
      <3>8. CASE Finalize(w)
        BY <2>1, <2>3, <3>8 DEF Finalize, Running, ChunkPcs
      <3> QED BY <1>5, <3>1, <3>2, <3>3, <3>4, <3>5, <3>6, <3>7, <3>8
    <2> QED BY <2>2, <2>3
  <1>9. ASSUME NEW w \in Workers, Dedup(w)
        PROVE  Goal
    <2>1. worker'[v] = worker[v] \/ (worker[v].pc = "dedup" /\ worker'[v].pc = "record")
      BY <1>9, DedupFacts
    <2> QED BY <1>1, <2>1 DEF ChunkPcs
  <1>6. ASSUME NEW w \in Workers, Step(w) \/ Throws(w) \/ WorkerDies(w) \/ LockExpires(w)
        PROVE  Goal
    <2> HIDE DEF Goal
    <2> QED BY <1>2, <1>3, <1>5, <1>6, <1>9
            DEF Step, DriveStep, ChunkStep, MissingObject, DedupThrows, PlannedAlready,
                MergeThrows, Throws
  <1>7. ASSUME UNCHANGED worker PROVE Goal
    BY <1>1, <1>7
  <1>8. Goal
    <2> HIDE DEF Goal
    <2>1. Api \/ Reap \/ (\E i \in Ids : Expire(i)) \/ UNCHANGED vars => UNCHANGED worker
      BY DEF Api, CreateRow, Store, StoreFails, Publish, Shed, Reap, Expire, vars
    <2> QED BY <1>4, <1>6, <1>7, <2>1 DEF Next
  <1> QED BY <1>8

\* What a step does to the rows.
LEMMA RowStep ==
  ASSUME Typed, [Next]_vars
  PROVE  /\ \/ band' = band /\ contacts' = contacts /\ job'.created = job.created
            \/ \E w \in Workers : Plan(w) \/ Merge(w)
         /\ Ready => Ready'
  <1>t. job \in Jobs /\ staging \in Tables
    BY DEF Typed
  <1>1. ASSUME UNCHANGED <<job, band, staging, contacts>>
        PROVE  /\ band' = band /\ contacts' = contacts /\ job'.created = job.created
               /\ Ready => Ready'
    BY <1>1 DEF Ready
  <1>2. CASE Api
    BY <1>t, <1>2 DEF Api, CreateRow, Store, StoreFails, Publish, Shed, Jobs, Ready
  <1>3. ASSUME NEW w \in Workers,
               StartDrive(w) \/ RecordStaged(w) \/ CountBand(w) \/ Finalize(w)
        PROVE  /\ band' = band /\ contacts' = contacts /\ job'.created = job.created
               /\ Ready => Ready'
    BY <1>t, <1>3 DEF StartDrive, RecordStaged, CountBand, Finalize, Jobs, Ready
  <1>4. ASSUME NEW w \in Workers,
               Stage(w) \/ MissingObject(w) \/ FinishEmpty(w) \/ CleanUp(w)
        PROVE  /\ band' = band /\ contacts' = contacts /\ job'.created = job.created
               /\ Ready => Ready'
    <2>1. band' = band /\ contacts' = contacts /\ job'.created = job.created
      BY <1>t, <1>4 DEF Stage, MissingObject, FinishEmpty, CleanUp, Thrown, Jobs
    <2>2. job'.stored = job.stored
      BY <1>t, <1>4 DEF Stage, MissingObject, FinishEmpty, CleanUp, Thrown, Jobs
    <2>3. \/ staging'.exists /\ staging'.copies = staging.copies + 1
          \/ ~job.stored
          \/ staging' = NoTable
      BY <1>t, <1>4 DEF Stage, MissingObject, FinishEmpty, CleanUp, Tables
    <2>4. staging.copies \in Nat
      BY <1>t DEF Tables
    <2> QED BY <2>1, <2>2, <2>3, <2>4 DEF Ready, NoTable
  <1>5. ASSUME NEW w \in Workers, Plan(w) \/ Merge(w)
        PROVE  Ready => Ready'
    BY <1>t, <1>5 DEF Plan, Merge, Ready, Jobs
  <1>8. ASSUME NEW w \in Workers, Dedup(w)
        PROVE  /\ band' = band /\ contacts' = contacts /\ job'.created = job.created
               /\ Ready => Ready'
    <2>1. job' = job /\ band' = band /\ contacts' = contacts
      BY <1>8 DEF Dedup
    <2> QED BY <1>8, <2>1, DedupFacts DEF Ready
  <1>6. ASSUME NEW w \in Workers,
               Resume(w) \/ FanOut(w) \/ DedupThrows(w) \/ PlannedAlready(w) \/ SkipBand(w)
                 \/ ReadBand(w) \/ MergeThrows(w) \/ Continue(w) \/ Throws(w) \/ WorkerDies(w)
                 \/ LockExpires(w) \/ (\E i \in Ids : Take(w, i))
        PROVE  UNCHANGED <<job, band, staging, contacts>>
    BY <1>6 DEF Resume, FanOut, DedupThrows, PlannedAlready, SkipBand, ReadBand, MergeThrows,
                Continue,
                Throws, Thrown, WorkerDies, LockExpires, Take
  <1>7. ASSUME Reap \/ (\E i \in Ids : Expire(i)) \/ UNCHANGED vars
        PROVE  UNCHANGED <<job, band, staging, contacts>>
    BY <1>7 DEF Reap, Expire, vars
  <1> QED BY <1>1, <1>2, <1>3, <1>4, <1>5, <1>6, <1>7, <1>8
          DEF Next, Step, DriveStep, ChunkStep

\* Bands that are planned stay planned; Plan finds none.
LEMMA BandStep ==
  ASSUME Typed, [Next]_vars, NEW b \in Bands
  PROVE  /\ band[b] # "none" => band'[b] # "none"
         /\ band'[b] # "none" =>
              \/ band[b] # "none"
              \/ \E w \in Workers : Plan(w) /\ b <= job.size
              \/ \E w \in Workers : Merge(w) /\ b = At(w)
         /\ b \in Pending' => \/ b \in Pending
                             \/ \E w \in Workers : Plan(w)
         /\ band'[b] = "completed" => \/ band[b] = "completed"
                                     \/ \E w \in Workers : Merge(w) /\ b = At(w)
  <1>t. band \in [Bands -> {"none", "queued", "completed"}]
    BY DEF Typed
  <1>1. CASE band' = band
    BY <1>1 DEF Pending
  <1>2. ASSUME NEW w \in Workers, Plan(w)
        PROVE  /\ band[b] = "none"
               /\ band'[b] = IF b <= job.size THEN "queued" ELSE "none"
    BY <1>2, <1>t DEF Plan, Pending, Done
  <1>3. ASSUME NEW w \in Workers, Merge(w)
        PROVE  band'[b] = IF b = At(w) THEN "completed" ELSE band[b]
    BY <1>3, <1>t DEF Merge
  <1>4. ASSUME NEW w \in Workers, Plan(w) \/ Merge(w)
        PROVE  /\ band[b] # "none" => band'[b] # "none"
               /\ band'[b] # "none" =>
                    \/ band[b] # "none"
                    \/ Plan(w) /\ b <= job.size
                    \/ Merge(w) /\ b = At(w)
               /\ b \in Pending' => b \in Pending \/ Plan(w)
               /\ band'[b] = "completed" =>
                    band[b] = "completed" \/ (Merge(w) /\ b = At(w))
    BY <1>2, <1>3, <1>4 DEF Pending
  <1> QED BY <1>1, <1>4, RowStep

LEMMA PlannedStep ==
  ASSUME IInv, [Next]_vars
  PROVE  Planned'
  <1> USE Constants
  <1>i. Typed /\ Locks /\ Planned /\ Untouched
    BY DEF IInv
  <1>s. upload # "start" => job'.size = job.size
    BY UntouchedStep DEF CreateRow
  <1>1. ASSUME NEW b \in Bands, Live(b)' PROVE band'[b] # "none"
    <2>1. CASE Live(b)
      BY <1>i, <2>1, BandStep DEF Planned
    <2>2. ASSUME NEW w \in Workers, Enqueues(w, b) PROVE band[b] # "none"
      <3>1. CASE Resume(w) /\ b \in Windowed(Pending)
        BY <3>1 DEF Windowed, Lowest, Pending
      <3>2. CASE FanOut(w) /\ b \in Windowed(1 .. job.size)
        <4>1. b \in 1 .. job.size
          BY <3>2 DEF Windowed, Lowest
        <4>2. b <= job.size /\ worker[w].pc = "fanOut"
          BY <3>2, <4>1, <1>i DEF FanOut, Running, Typed, Jobs
        <4> QED BY <1>i, <4>2 DEF Planned
      <3>3. CASE Continue(w) /\ b \in Refill
        BY <3>3 DEF Refill, Lowest, Pending
      <3> QED BY <2>2, <3>1, <3>2, <3>3 DEF Enqueues
    <2> QED BY <1>1, <1>i, <2>1, <2>2, QueueStep, BandStep
  <1>2. ASSUME NEW v \in Workers, worker'[v].pc \in ChunkPcs
        PROVE  band'[worker'[v].id] # "none"
    <2>1. CASE worker[v].pc \in ChunkPcs /\ worker'[v].id = worker[v].id
      <3>1. worker[v].id \in Bands
        BY <1>i, <2>1 DEF Typed, Tasks
      <3> QED BY <1>i, <2>1, <3>1, BandStep DEF Planned
    <2>2. ASSUME NEW i \in Bands, Take(v, i), worker'[v].id = i
          PROVE  band'[worker'[v].id] # "none"
      <3>1. Live(i)
        BY <2>2 DEF Take, Live, BullMQ!Live
      <3> QED BY <1>i, <2>2, <3>1, BandStep DEF Planned
    <2> QED BY <1>2, <1>i, <2>1, <2>2, WorkerStep
  <1>3. ASSUME NEW v \in Workers, worker'[v].pc = "fanOut", NEW b \in Bands, b <= job'.size
        PROVE  band'[b] # "none"
    <2>1. CASE worker[v].pc = "fanOut"
      <3>1. upload # "start"
        BY <1>i, <2>1 DEF Untouched
      <3> QED BY <1>3, <1>i, <1>s, <2>1, <3>1, BandStep DEF Planned
    <2>2. CASE Plan(v)
      BY <1>3, <2>2 DEF Plan
    <2> QED BY <1>3, <1>i, <2>1, <2>2, WorkerStep
  <1>4. ASSUME NEW b \in Bands, band'[b] # "none"
        PROVE  b <= job'.size
    <2>1. CASE band[b] # "none"
      <3>1. upload # "start"
        BY <1>i, <2>1 DEF Untouched
      <3> QED BY <1>i, <1>s, <2>1, <3>1 DEF Planned
    <2>2. ASSUME NEW w \in Workers, Plan(w), b <= job.size
          PROVE  b <= job'.size
      BY <2>2 DEF Plan
    <2>3. ASSUME NEW w \in Workers, Merge(w), b = At(w)
          PROVE  band[b] # "none"
      BY <1>i, <2>3 DEF Merge, Running, ChunkPcs, At, Planned
    <2> QED BY <1>4, <1>i, <2>1, <2>2, <2>3, BandStep
  <1> QED BY <1>1, <1>2, <1>3, <1>4 DEF Planned

LEMMA StagedFirstStep ==
  ASSUME IInv, [Next]_vars
  PROVE  StagedFirst'
  <1>i. Typed /\ Planned /\ StagedFirst
    BY DEF IInv
  <1>r. Ready => Ready'
    BY <1>i, RowStep
  <1>1. ASSUME NEW b \in Bands, band'[b] # "none" PROVE Ready'
    <2>1. CASE band[b] # "none"
      BY <1>i, <1>r, <2>1 DEF StagedFirst
    <2>2. ASSUME NEW w \in Workers, Plan(w) PROVE Ready'
      BY <1>i, <1>r, <2>2 DEF Plan, Running, StagedFirst
    <2>3. ASSUME NEW w \in Workers, Merge(w), b = At(w) PROVE Ready'
      <3>1. worker[w].pc \in ChunkPcs /\ worker[w].id = b
        BY <2>3 DEF Merge, Running, ChunkPcs, At
      <3> QED BY <1>i, <1>r, <3>1 DEF Planned, StagedFirst
    <2> QED BY <1>1, <1>i, <2>1, <2>2, <2>3, BandStep
  <1>2. ASSUME NEW v \in Workers, worker'[v].pc \in {"dedup", "record", "plan", "fanOut"}
        PROVE  Ready'
    <2>1. CASE worker[v].pc \in {"dedup", "record", "plan", "fanOut"}
      BY <1>i, <1>r, <2>1 DEF StagedFirst
    <2>2. CASE Stage(v)
      <3>1. staging.copies \in Nat /\ staging'.copies = staging.copies + 1
        BY <1>i, <2>2 DEF Stage, Typed, Tables
      <3> QED BY <2>2, <3>1 DEF Stage, Ready
    <2> QED BY <1>2, <1>i, <2>1, <2>2, WorkerStep
  <1> QED BY <1>1, <1>2 DEF StagedFirst

\* A merge adds one contact and counts one, or adds none and counts none.
LEMMA LandedStep ==
  ASSUME IInv, [Next]_vars
  PROVE  Landed'
  <1> USE Constants
  <1>i. Typed /\ Planned /\ StagedFirst /\ Landed
    BY DEF IInv
  <1>1. CASE band' = band /\ contacts' = contacts /\ job'.created = job.created
    BY <1>i, <1>1 DEF Landed, CreatedIsTruth, CompletedBandLanded, Done
  <1>2. ASSUME NEW w \in Workers, Plan(w) PROVE Landed'
    <2>1. Done' = {}
      BY <1>2 DEF Plan, Done
    <2> QED BY <1>i, <1>2, <2>1 DEF Plan, Landed, CreatedIsTruth, CompletedBandLanded
  <1>3. ASSUME NEW w \in Workers, Merge(w) PROVE Landed'
    <2> DEFINE b == At(w)
               c == Original[b]
    <2>1. b \in Bands /\ c \in Bands /\ band[b] # "none" /\ (b \notin Repeats => c = b)
      BY <1>3, <1>i, IdentityAssumption
         DEF Merge, Running, ChunkPcs, At, Planned, Typed, Tasks, Repeats
    <2>2. /\ staging.exists /\ staging.copies \in Nat /\ staging.copies >= 1
          /\ staging.marked \in Nat /\ staging.marked <= staging.copies
      BY <1>3, <1>i, <2>1 DEF Merge, CannotMerge, StagedFirst, Ready, Typed, Tables
    <2>3. Staged(b) \in Nat /\ (b \notin Rejected \cup Repeats => Staged(b) > 0)
          /\ (c \notin contacts => Staged(b) <= 1)
      BY <1>3, <2>2 DEF Merge, CannotMerge, Staged
    <2>4. contacts' \subseteq contacts \cup {c} /\ contacts \subseteq contacts'
      BY <1>3 DEF Merge
    <2>5. CreatedIsTruth'
      <3>1. IsFiniteSet(contacts \ Existing) /\ Cardinality(contacts \ Existing) \in Nat
        <4>1. contacts \ Existing \in SUBSET Bands
          BY <1>i DEF Typed
        <4>2. IsFiniteSet(contacts \ Existing)
          BY <4>1, FS_Subset
        <4> QED BY <4>2, FS_CardinalityType
      <3>2. CASE c \notin contacts /\ Staged(b) > 0
        <4>1. contacts' \ Existing = (contacts \ Existing) \cup {c}
              /\ c \notin contacts \ Existing
          BY <1>3, <1>i, <3>2 DEF Merge, Landed
        <4>2. Cardinality(contacts' \ Existing) = Cardinality(contacts \ Existing) + 1
          BY <3>1, <4>1, FS_AddElement
        <4>3. Staged(b) = 1
          BY <2>3, <3>2
        <4>4. job'.created = job.created + 1
          <5>1. job'.created = job.created + Staged(b)
            BY <1>3, <1>i, <3>2 DEF Merge, Typed, Jobs
          <5> QED BY <4>3, <5>1
        <4> QED BY <1>i, <4>2, <4>4 DEF Landed, CreatedIsTruth
      <3>3. CASE ~(c \notin contacts /\ Staged(b) > 0)
        <4>1. contacts' = contacts
          BY <1>3, <3>3 DEF Merge
        <4>2. job'.created = job.created + 0 /\ job.created \in Nat
          BY <1>3, <1>i, <3>3 DEF Merge, Typed, Jobs
        <4> QED BY <1>i, <4>1, <4>2 DEF Landed, CreatedIsTruth
      <3> QED BY <3>2, <3>3
    <2>6. CompletedBandLanded'
      <3> SUFFICES ASSUME NEW a \in Bands, band'[a] = "completed",
                          a \notin Rejected \cup Repeats
                   PROVE  a \in contacts'
        BY DEF CompletedBandLanded, Done
      <3>1. CASE a = b
        BY <1>3, <2>1, <2>3, <3>1 DEF Merge
      <3>2. CASE a # b
        <4>1. band[a] = "completed"
          BY <1>3, <1>i, <3>2 DEF Merge, Typed
        <4> QED BY <1>i, <2>4, <4>1 DEF Landed, CompletedBandLanded, Done
      <3> QED BY <3>1, <3>2
    <2> QED BY <1>i, <2>4, <2>5, <2>6 DEF Landed
  <1> QED BY <1>i, <1>1, <1>2, <1>3, RowStep

\* A drive and a chunk add the lowest bands that are left; no band is unfinished again.
LEMMA LowestLiveStep ==
  ASSUME IInv, [Next]_vars
  PROVE  LowestLive'
  <1> USE Constants
  <1>i. Typed /\ Locks /\ Planned /\ LowestLive
    BY DEF IInv
  <1>f. IsFiniteSet(Pending) /\ Pending \subseteq Bands
    BY FS_Subset DEF Pending
  <1> SUFFICES ASSUME Window > 0, NEW b \in Pending', Live(b)'
               PROVE  b \in Lowest(Pending', Window)
    BY DEF LowestLive
  <1>b. b \in Bands
    BY DEF Pending
  <1>1. CASE \A w \in Workers : ~Plan(w)
    <2>1. Pending' \subseteq Pending /\ b \in Pending
      BY <1>i, <1>b, <1>1, BandStep DEF Pending
    <2>2. b \in Lowest(Pending, Window)
      <3>1. CASE Live(b)
        BY <1>i, <2>1, <3>1 DEF LowestLive
      <3>2. ASSUME NEW w \in Workers, Enqueues(w, b) PROVE b \in Lowest(Pending, Window)
        <4>1. CASE b \in Windowed(Pending) \/ b \in Refill
          BY <4>1 DEF Windowed, Refill
        <4>2. CASE b \in Windowed(1 .. job.size)
          <5>1. job.size \in Nat
            BY <1>i DEF Typed, Jobs
          <5>2. IsFiniteSet(1 .. job.size) /\ Pending \subseteq 1 .. job.size
            <6>1. IsFiniteSet(1 .. job.size)
              BY <5>1, FS_Interval
            <6>2. \A a \in Pending : a \in Nat /\ a >= 1 /\ a <= job.size
              BY <1>i DEF Planned, Pending, Bands
            <6> QED BY <5>1, <6>1, <6>2
          <5>3. b \in Lowest(1 .. job.size, Window)
            BY <4>2 DEF Windowed
          <5> QED BY <2>1, <5>2, <5>3, LowestInPart
        <4> QED BY <3>2, <4>1, <4>2 DEF Enqueues
      <3> QED BY <1>i, <1>b, <3>1, <3>2, QueueStep
    <2> QED BY <1>f, <2>1, <2>2, LowestInPart
  <1>2. ASSUME NEW w \in Workers, Plan(w) PROVE FALSE
    <2>1. band[b] = "none"
      BY <1>2, <1>b, <1>i DEF Plan, Pending, Done, Typed
    <2>2. ~Live(b) /\ queue' = queue
      BY <1>2, <1>b, <1>i, <2>1 DEF Planned, Plan
    <2> QED BY <2>2 DEF Live
  <1> QED BY <1>1, <1>2

LEMMA IInvStep == IInv /\ [Next]_vars => IInv'
  <1> SUFFICES ASSUME IInv, [Next]_vars PROVE IInv'
    OBVIOUS
  <1>1. Typed' /\ Locks'
    BY TypedStep, QueueStep DEF IInv
  <1> QED BY <1>1, UntouchedStep, PlannedStep, StagedFirstStep, LandedStep, LowestLiveStep
          DEF IInv

LEMMA IInvHolds == Spec => []IInv
  BY InitIInv, IInvStep, PTL DEF Spec

\* Whatever is redelivered, staged twice, or run by two workers at once:
\* rows_created is the number of contacts the import added, and a band that
\* says completed has landed its row.
THEOREM ImportTruth == Spec => []ImportInv
  <1>1. IInv => ImportInv
    BY TypedIsTypeOK DEF IInv, Landed, ImportInv
  <1> QED BY <1>1, IInvHolds, PTL

\* However drives, chunks, retention and the reaper interleave, the queue
\* holds at most IMPORT_CHUNK_WINDOW unfinished bands of the job.
THEOREM WindowIsABound == Spec => []WindowHolds
  <1>1. IInv => WindowHolds
    <2> SUFFICES ASSUME IInv, Window > 0
                 PROVE  Cardinality({b \in Pending : Live(b)}) <= Window
      BY DEF WindowHolds
    <2> DEFINE L == Lowest(Pending, Window)
               W == {b \in Pending : Live(b)}
    <2>1. IsFiniteSet(Pending) /\ Pending \subseteq Nat /\ Window \in Nat
      BY Constants, FS_Subset DEF Pending
    <2>2. IsFiniteSet(L) /\ Cardinality(L) <= Window
      BY <2>1, LowestBound
    <2>3. W \in SUBSET L
      BY DEF IInv, LowestLive
    <2>4. IsFiniteSet(W) /\ Cardinality(W) <= Cardinality(L)
      BY <2>2, <2>3, FS_Subset
    <2>5. Cardinality(W) \in Nat /\ Cardinality(L) \in Nat
      BY <2>2, <2>4, FS_CardinalityType
    <2>6. Cardinality(W) <= Window
      <3> HIDE DEF W, L
      <3> QED BY <2>1, <2>2, <2>4, <2>5
    <2> QED BY <2>6
  <1> QED BY <1>1, IInvHolds, PTL

(***************************************************************************)
(* What a job's end promises when no worker outlived its lock and no drive *)
(* died between the COPY and its bookkeeping.  Then every job has one      *)
(* worker, so one drive stages at a time, each band is merged and counted  *)
(* at most once, and the buckets of the job follow its staged copies.      *)
(***************************************************************************)
Clean == hit \cap {"stall", "dedup", "record"} = {}

Busy(w)     == worker[w].pc # "idle"
Ending(w)   == worker[w].pc \in {"fire", "drop"}
PlannedYet  == \E b \in Bands : band[b] # "none"
Deduping    == \E w \in Workers : Running(w, "dedup")
Recorder(w) == worker[w].pc \in {"dedup", "record"}
Recording   == \E w \in Workers : Recorder(w)
Finalized   == job.status \in {"completed", "partial"} /\ job.size > 0

\* A worker that is at work holds its lock.
Alone == \A w \in Workers : Busy(w) => worker[w].locked

\* The request has not stored its file, or not even made its row.
Fresh == /\ upload \in {"start", "store"} => ~job.stored
         /\ upload = "start" => /\ job.size = 0 /\ ~job.staged /\ job.deduped = 0
                                /\ staging.copies = 0 /\ staging.marked = 0

\* Bands are planned for a job that knows its total.
Bookkept == /\ PlannedYet => job.staged
            /\ \A w \in Workers : Running(w, "plan") => job.staged
            /\ job.staged => job.total = job.size

\* Once the bands are planned no drive stages any more.
OneDrive == PlannedYet =>
              \A w \in Workers : worker[w].pc \notin {"stage", "dedup", "record", "plan"}

\* A band is merged while it is unfinished and counted when it is finished.
InOrder == \A w \in Workers : /\ Running(w, "merge") => band[At(w)] # "completed"
                              /\ Running(w, "count") => band[At(w)] = "completed"

\* The finished bands, without those whose worker is still to count them.
Uncounted == {b \in Bands : \E w \in Workers : Running(w, "count") /\ At(w) = b}
Countable == Done \ Uncounted
Counted   == job.counted <= Cardinality(Countable)

\* The job is finalized by the last count, and only then cleaned up.
Finished == /\ Finalized => job.counted >= job.size
            /\ \A w \in Workers : Ending(w) => Finalized

\* One worker fires the rollups, once.
Fired == /\ rollups <= 1
         /\ rollups > 0 => Finalized
         /\ \A v \in Workers : Ending(v) => /\ rollups = 0
                                            /\ \A w \in Workers : Ending(w) => v = w

\* The file has been staged and recorded k times; until the job is finalized
\* the table has the k copies, and one more while a drive has yet to record it.
Invalid     == Rejected \cap 1 .. job.size
Mergeable   == Done \ (Rejected \cup Repeats)
Accounts(k) == /\ job.rows = k * job.size
               /\ job.rejected = k * Cardinality(Invalid)
               /\ job.created + job.duplicate = k * Cardinality(Mergeable)
               /\ job.size > 0 /\ ~Finalized =>
                    staging.copies = IF Recording THEN k + 1 ELSE k

\* Every repeat of every copy is marked, and counted at least once: each drive
\* counts those of the drives before it too, so with one drive exactly once.
Marks(k) == /\ job.deduped >= k * Cardinality(Repeated)
            /\ k <= 1 \/ Cardinality(Repeated) = 0 => job.deduped = k * Cardinality(Repeated)
            /\ job.size > 0 /\ ~Finalized /\ ~Deduping => staging.marked = staging.copies
            /\ \A w \in Workers : Running(w, "record") =>
                 worker[w].deduped = (k + 1) * Cardinality(Repeated)

\* The file is staged again only after a drive has died with its bands unplanned.
Once(k) == job.size > 0 /\ "plan" \notin hit =>
             /\ k <= 1
             /\ k = 1 => PlannedYet \/ \E w \in Workers : Running(w, "plan")

Books == \E k \in Nat : Accounts(k) /\ Marks(k) /\ Once(k)

\* The table a drive dedups is there.
HasTable == Deduping => staging.exists

CleanInv == /\ Alone /\ Fresh /\ Bookkept /\ OneDrive /\ InOrder /\ Counted
            /\ Finished /\ Fired /\ HasTable /\ Books

Sure == Clean => CleanInv

LEMMA CleanStays == [Next]_vars => hit \subseteq hit' /\ (Clean' => Clean)
  <1>1. CASE UNCHANGED vars
    BY <1>1 DEF vars, Clean
  <1>2. ASSUME NEW kind, NEW where, Break(kind, where)
        PROVE  hit \subseteq hit' /\ (Clean' => Clean)
    BY <1>2 DEF Break, Clean
  <1>3. ASSUME NoFault
        PROVE  hit \subseteq hit' /\ (Clean' => Clean)
    BY <1>3 DEF NoFault, Clean
  <1>4. ASSUME NEW w \in Workers, Step(w) PROVE NoFault
    BY <1>4 DEF Step, DriveStep, ChunkStep, Resume, StartDrive, Stage, MissingObject,
                Dedup, DedupThrows, RecordStaged, FinishEmpty, Plan, PlannedAlready, FanOut,
                SkipBand, ReadBand, MergeThrows, Merge, CountBand, Finalize, CleanUp, Continue
  <1>5. Next => NoFault \/ \E kind, where : Break(kind, where)
    BY <1>4 DEF Next, Api, CreateRow, Store, StoreFails, Publish, Shed, Throws, WorkerDies,
                LockExpires, Take, Expire, Reap
  <1> QED BY <1>1, <1>2, <1>3, <1>5

\* What a worker's own move does to the tasks.
LEMMA MoveFacts ==
  ASSUME Typed, NEW w \in Workers
  PROVE  /\ Leave(w) => /\ worker'[w].pc = "idle"
                        /\ \A v \in Workers : v # w => worker'[v] = worker[v]
         /\ \A pc : Goto(w, pc) =>
              /\ worker'[w].pc = pc /\ worker'[w].id = worker[w].id
              /\ worker'[w].locked = worker[w].locked
              /\ \A v \in Workers : v # w => worker'[v] = worker[v]
         /\ \A i \in Ids : Take(w, i) =>
              /\ worker'[w].pc \in {"readDrive", "readBand"} /\ worker'[w].locked
              /\ worker[w].pc = "idle"
              /\ \A v \in Workers : v # w => worker'[v] = worker[v]
  <1>1. worker \in [Workers -> Tasks] /\ worker[w] \in Tasks
    BY DEF Typed
  <1>2. \A pc : /\ [worker[w] EXCEPT !.pc = pc].pc = pc
                /\ [worker[w] EXCEPT !.pc = pc].id = worker[w].id
                /\ [worker[w] EXCEPT !.pc = pc].locked = worker[w].locked
    BY <1>1 DEF Tasks
  <1>3. ASSUME Leave(w)
        PROVE  worker'[w].pc = "idle" /\ \A v \in Workers : v # w => worker'[v] = worker[v]
    BY <1>1, <1>3 DEF Leave, Free
  <1>4. ASSUME NEW pc, Goto(w, pc)
        PROVE  /\ worker'[w] = [worker[w] EXCEPT !.pc = pc]
               /\ \A v \in Workers : v # w => worker'[v] = worker[v]
    BY <1>1, <1>4 DEF Goto
  <1>5. ASSUME NEW i \in Ids, Take(w, i)
        PROVE  /\ worker'[w].pc \in {"readDrive", "readBand"} /\ worker'[w].locked
               /\ worker[w].pc = "idle"
               /\ \A v \in Workers : v # w => worker'[v] = worker[v]
    BY <1>1, <1>5 DEF Take, Running
  <1> QED BY <1>2, <1>3, <1>4, <1>5

\* How the tasks change in a step that leaves the import clean.
LEMMA CleanMoves ==
  ASSUME Typed, [Next]_vars, Clean'
  PROVE  \/ worker' = worker
         \/ \E w \in Workers : Leave(w) \/ Dedup(w)
         \/ \E w \in Workers, i \in Ids : Take(w, i)
         \/ \E w \in Workers, pc \in DrivePcs \cup ChunkPcs : Busy(w) /\ Goto(w, pc)
  <1>1. ASSUME NEW w \in Workers, LockExpires(w) PROVE FALSE
    BY <1>1 DEF LockExpires, Break, Clean
  <1>2. ASSUME NEW w \in Workers,
               WorkerDies(w) \/ Throws(w) \/ MissingObject(w) \/ DedupThrows(w)
                 \/ PlannedAlready(w) \/ MergeThrows(w)
                 \/ SkipBand(w) \/ FinishEmpty(w) \/ CleanUp(w)
                 \/ Resume(w) \/ FanOut(w) \/ Continue(w)
        PROVE  Leave(w)
    BY <1>2 DEF WorkerDies, Throws, MissingObject, DedupThrows, PlannedAlready, MergeThrows,
                Thrown, SkipBand, FinishEmpty, CleanUp, Resume, FanOut, Continue
  <1>4. ASSUME NEW w \in Workers,
               StartDrive(w) \/ Stage(w) \/ RecordStaged(w) \/ Plan(w) \/ ReadBand(w)
                 \/ Merge(w) \/ CountBand(w) \/ Finalize(w)
        PROVE  \E pc \in DrivePcs \cup ChunkPcs : Busy(w) /\ Goto(w, pc)
    <2>1. Busy(w)
      BY <1>4 DEF StartDrive, Stage, RecordStaged, Plan, ReadBand, Merge, CountBand,
                  Finalize, Running, Busy
    <2>2. \E pc \in DrivePcs \cup ChunkPcs : Goto(w, pc)
      BY <1>4 DEF StartDrive, Stage, RecordStaged, Plan, ReadBand, Merge, CountBand,
                  Finalize, DrivePcs, ChunkPcs
    <2> QED BY <2>1, <2>2
  <1>5. Api \/ Reap \/ (\E i \in Ids : Expire(i)) \/ UNCHANGED vars => UNCHANGED worker
    BY DEF Api, CreateRow, Store, StoreFails, Publish, Shed, Reap, Expire, vars
  <1> QED BY <1>1, <1>2, <1>4, <1>5 DEF Next, Step, DriveStep, ChunkStep

LEMMA AloneStep ==
  ASSUME Typed, Alone, [Next]_vars, Clean'
  PROVE  Alone'
  <1>1. CASE worker' = worker
    BY <1>1 DEF Alone, Busy
  <1>2. ASSUME NEW w \in Workers, Leave(w) PROVE Alone'
    BY <1>2, MoveFacts DEF Alone, Busy
  <1>3. ASSUME NEW w \in Workers, NEW i \in Ids, Take(w, i) PROVE Alone'
    BY <1>3, MoveFacts DEF Alone, Busy
  <1>4. ASSUME NEW w \in Workers, NEW pc, Busy(w), Goto(w, pc) PROVE Alone'
    <2>1. worker[w].locked
      BY <1>4 DEF Alone
    <2> QED BY <1>4, <2>1, MoveFacts DEF Alone, Busy
  <1>5. ASSUME NEW w \in Workers, Dedup(w) PROVE Alone'
    <2>1. worker[w].locked
      BY <1>5, DedupFacts DEF Alone, Busy
    <2> QED BY <1>5, <2>1, DedupFacts DEF Alone, Busy
  <1> QED BY <1>1, <1>2, <1>3, <1>4, <1>5, CleanMoves

\* Two workers at work have different jobs; in particular one has the drive.
LEMMA Apart ==
  ASSUME Typed, Locks, Alone, NEW u \in Workers, NEW v \in Workers, u # v, Busy(u), Busy(v)
  PROVE  /\ At(u) # At(v)
         /\ worker[u].pc \in DrivePcs => worker[v].pc \notin DrivePcs
  <1>1. worker[u].locked /\ worker[v].locked
    BY DEF Alone
  <1>2. worker[u].id # worker[v].id
    BY <1>1 DEF Locks
  <1>3. worker[u] \in Tasks /\ worker[v] \in Tasks
    BY DEF Typed
  <1> QED BY <1>2, <1>3 DEF At, Tasks

LEMMA CleanCards ==
  ASSUME Typed
  PROVE  /\ IsFiniteSet(Done) /\ IsFiniteSet(Countable) /\ Cardinality(Countable) \in Nat
         /\ IsFiniteSet(Mergeable) /\ Cardinality(Mergeable) \in Nat
         /\ IsFiniteSet(Invalid) /\ Cardinality(Invalid) \in Nat
         /\ job.size \in Nat /\ job.counted \in Nat /\ staging.copies \in Nat
         /\ job.rows \in Nat /\ job.rejected \in Nat /\ job.deduped \in Nat
         /\ job.created \in Nat /\ job.duplicate \in Nat
  <1>1. /\ Done \in SUBSET Bands /\ Countable \in SUBSET Bands
        /\ Mergeable \in SUBSET Bands /\ Invalid \in SUBSET Bands
    BY FilesAssumption DEF Done, Countable, Mergeable, Invalid
  <1>2. /\ IsFiniteSet(Done) /\ IsFiniteSet(Countable) /\ IsFiniteSet(Mergeable)
        /\ IsFiniteSet(Invalid)
    BY <1>1, Constants, FS_Subset
  <1>3. /\ Cardinality(Countable) \in Nat /\ Cardinality(Mergeable) \in Nat
        /\ Cardinality(Invalid) \in Nat
    BY <1>2, FS_CardinalityType
  <1>4. /\ job.size \in Nat /\ job.counted \in Nat /\ job.rows \in Nat /\ job.rejected \in Nat
        /\ job.created \in Nat /\ job.duplicate \in Nat /\ job.deduped \in Nat
    BY Constants DEF Typed, Jobs
  <1>5. staging.copies \in Nat
    BY DEF Typed, Tables
  <1> QED BY <1>2, <1>3, <1>4, <1>5

\* When as many bands are counted as the file has, all are merged and no
\* worker is still to count one.
LEMMA AllFinished ==
  ASSUME Typed, Planned, InOrder, Counted, job.counted >= job.size
  PROVE  /\ Done = 1 .. job.size
         /\ \A w \in Workers : ~Running(w, "count")
  <1>s. job.size \in Nat
    BY CleanCards
  <1>1. job.size \in Nat /\ IsFiniteSet(1 .. job.size) /\ Cardinality(1 .. job.size) = job.size
    BY <1>s, FS_Interval
  <1>2. Done \subseteq 1 .. job.size
    BY Constants, <1>1 DEF Planned, Done, Bands
  <1>3. Countable \in SUBSET (1 .. job.size)
    BY <1>2 DEF Countable
  <1>4. Cardinality(Countable) >= job.size /\ Cardinality(Countable) \in Nat
    BY <1>1, CleanCards DEF Counted
  <1>5. Cardinality(Countable) <= Cardinality(1 .. job.size)
        /\ (Cardinality(Countable) = Cardinality(1 .. job.size) => 1 .. job.size = Countable)
    BY <1>1, <1>3, FS_Subset
  <1>6. Countable = 1 .. job.size
    BY <1>1, <1>4, <1>5
  <1>7. Done = 1 .. job.size
    BY <1>2, <1>6 DEF Countable
  <1>8. ASSUME NEW w \in Workers, Running(w, "count") PROVE FALSE
    <2>1. At(w) \in Bands /\ At(w) \in Done
      BY <1>8 DEF InOrder, Done, Typed, Tasks, At, Running, ChunkPcs
    <2>2. At(w) \in Uncounted
      BY <1>8, <2>1 DEF Uncounted
    <2> QED BY <1>6, <1>7, <2>1, <2>2 DEF Countable
  <1> QED BY <1>7, <1>8

\* Counting never gets ahead when fewer workers have a band to count.
LEMMA CountedKept ==
  ASSUME Typed, Counted, job'.counted = job.counted, Countable \subseteq Countable'
  PROVE  Counted'
  <1>1. IsFiniteSet(Countable') /\ Countable \in SUBSET Countable'
    <2>1. Countable' \in SUBSET Bands
      BY DEF Countable, Done
    <2> QED BY <2>1, Constants, FS_Subset
  <1>2. Cardinality(Countable) <= Cardinality(Countable')
    BY <1>1, FS_Subset
  <1>3. Cardinality(Countable) \in Nat /\ Cardinality(Countable') \in Nat /\ job.counted \in Nat
    BY <1>1, CleanCards, FS_CardinalityType
  <1> QED BY <1>2, <1>3 DEF Counted

\* What the counters say of a job.
SameBooks == /\ job'.size = job.size /\ job'.staged = job.staged /\ job'.total = job.total
             /\ job'.counted = job.counted /\ job'.rows = job.rows
             /\ job'.rejected = job.rejected /\ job'.deduped = job.deduped
             /\ job'.created = job.created /\ job'.duplicate = job.duplicate

\* The copies in the table, and those marked, as long as they matter.
SameTable == \/ staging'.copies = staging.copies /\ staging'.marked = staging.marked
             \/ Finalized
             \/ job.size = 0

\* A band that is planned says how far the job is.
LEMMA PlannedMeans ==
  ASSUME IInv, CleanInv, PlannedYet
  PROVE  /\ job.stored /\ job.staged /\ job.total = job.size /\ job.size > 0
         /\ \A w \in Workers : worker[w].pc \notin {"stage", "dedup", "record", "plan"}
         /\ CanResume /\ ~Recording
  <1>1. PICK b \in Bands : band[b] # "none"
    BY DEF PlannedYet
  <1>2. job.stored /\ b <= job.size
    BY <1>1 DEF IInv, StagedFirst, Ready, Planned
  <1>3. job.size > 0
    BY <1>1, <1>2, Constants, CleanCards DEF IInv, Bands
  <1>4. job.staged /\ job.total = job.size
    BY DEF CleanInv, Bookkept
  <1>5. \A w \in Workers : worker[w].pc \notin {"stage", "dedup", "record", "plan"}
    BY DEF CleanInv, OneDrive
  <1>6. b \in Pending \cup Done
    BY <1>1 DEF IInv, Typed, Pending, Done
  <1> QED BY <1>2, <1>3, <1>4, <1>5, <1>6 DEF CanResume, Recording, Recorder

\* A finalized job has merged and counted everything.
LEMMA FinalizedMeans ==
  ASSUME IInv, CleanInv, Finalized
  PROVE  /\ Done = 1 .. job.size /\ PlannedYet
         /\ \A w \in Workers : ~Running(w, "count") /\ ~Running(w, "merge")
  <1>1. Done = 1 .. job.size /\ \A w \in Workers : ~Running(w, "count")
    BY AllFinished DEF CleanInv, IInv, Finished
  <1>2. job.size \in Nat /\ job.size > 0
    BY CleanCards DEF IInv, Finalized
  <1>3. 1 \in Done
    BY <1>1, <1>2
  <1>4. PlannedYet
    BY <1>3 DEF Done, PlannedYet
  <1>5. ASSUME NEW w \in Workers, Running(w, "merge") PROVE FALSE
    <2>1. At(w) \in Bands /\ band[At(w)] # "none"
      BY <1>5 DEF IInv, Planned, Typed, Tasks, At, Running, ChunkPcs
    <2>2. At(w) \in Nat /\ At(w) >= 1 /\ At(w) <= job.size
      BY <2>1, Constants DEF IInv, Planned, Bands
    <2>3. At(w) \in Done
      BY <1>1, <1>2, <2>2
    <2> QED BY <1>5, <2>3 DEF CleanInv, InOrder, Done
  <1> QED BY <1>1, <1>4, <1>5

\* A step that leaves bands and counters alone, and in which workers only
\* stop, come to a job, or read that they may go on with it.
LEMMA QuietStep ==
  ASSUME IInv, CleanInv, Alone', Fresh', SameBooks, Finalized' <=> Finalized,
         band' = band, rollups' = rollups \/ Fired', hit \subseteq hit',
         SameTable, Deduping => staging'.exists,
         \A v \in Workers :
           \/ worker'[v] = worker[v]
           \/ worker'[v].pc \in {"idle", "readDrive", "readBand"}
           \/ worker'[v].pc = "merge" /\ band[worker'[v].id] # "completed"
           \/ worker'[v].pc = "stage" /\ ~PlannedYet,
         \A v \in Workers : Recorder(v) => worker'[v] = worker[v],
         \A v \in Workers : Running(v, "plan") => \/ worker'[v] = worker[v]
                                                 \/ PlannedYet \/ job.size = 0
                                                 \/ "plan" \in hit'
  PROVE  CleanInv'
  <1>1. \A v \in Workers : worker'[v].pc \notin {"idle", "readDrive", "readBand", "merge", "stage"}
                           => worker'[v] = worker[v]
    OBVIOUS
  <1>2. Bookkept'
    BY <1>1 DEF CleanInv, Bookkept, PlannedYet, Running, SameBooks
  <1>3. OneDrive'
    BY <1>1 DEF CleanInv, OneDrive, PlannedYet
  <1>4. InOrder'
    <2>1. ASSUME NEW v \in Workers, worker'[v].pc = "merge"
          PROVE  band'[worker'[v].id] # "completed"
      BY <2>1 DEF CleanInv, InOrder, Running, At
    <2>2. ASSUME NEW v \in Workers, worker'[v].pc = "count"
          PROVE  band'[worker'[v].id] = "completed"
      BY <1>1, <2>2 DEF CleanInv, InOrder, Running, At
    <2> QED BY <2>1, <2>2 DEF InOrder, Running, At
  <1>5. Counted'
    <2>1. Uncounted' \subseteq Uncounted
      BY <1>1 DEF Uncounted, Running, At
    <2>2. Countable \subseteq Countable'
      BY <2>1 DEF Countable, Done
    <2> QED BY <2>2, CountedKept DEF CleanInv, IInv, SameBooks
  <1>6. Finished'
    BY <1>1 DEF CleanInv, Finished, Ending, SameBooks
  <1>7. Fired'
    BY <1>1 DEF CleanInv, Fired, Ending
  <1>8. HasTable'
    <2>1. Deduping' => Deduping
      BY <1>1 DEF Deduping, Running
    <2> QED BY <2>1 DEF HasTable
  <1>9. Books'
    <2>1. PICK k \in Nat : Accounts(k) /\ Marks(k) /\ Once(k)
      BY DEF CleanInv, Books
    <2>2. Recording' = Recording /\ Deduping' = Deduping /\ PlannedYet' = PlannedYet
      BY <1>1 DEF Recording, Recorder, Deduping, Running, PlannedYet
    <2>3. Invalid' = Invalid /\ Mergeable' = Mergeable /\ Repeated' = Repeated
      BY DEF Invalid, Mergeable, Done, Repeated, SameBooks
    <2>4. job.size > 0 /\ ~Finalized => /\ staging'.copies = staging.copies
                                       /\ staging'.marked = staging.marked
      BY CleanCards DEF IInv, SameTable
    <2>5. Accounts(k)'
      BY <2>1, <2>2, <2>3, <2>4 DEF Accounts, SameBooks
    <2>6. \A w \in Workers : Running(w, "record")' => Running(w, "record") /\ worker'[w] = worker[w]
      BY <1>1 DEF Running
    <2>7. Marks(k)'
      BY <2>1, <2>2, <2>3, <2>4, <2>6 DEF Marks, SameBooks
    <2>8. Once(k)'
      <3> SUFFICES ASSUME job.size > 0, "plan" \notin hit'
                   PROVE  /\ k <= 1
                          /\ k = 1 => PlannedYet' \/ \E w \in Workers : Running(w, "plan")'
        BY DEF Once, SameBooks
      <3>1. k <= 1 /\ (k = 1 => PlannedYet \/ \E w \in Workers : Running(w, "plan"))
        BY <2>1 DEF Once
      <3>2. job.size # 0
        BY CleanCards DEF IInv
      <3> QED BY <2>2, <3>1, <3>2 DEF Running
    <2> QED BY <2>5, <2>7, <2>8 DEF Books
  <1> QED BY <1>2, <1>3, <1>4, <1>5, <1>6, <1>7, <1>8, <1>9 DEF CleanInv

LEMMA FreshStep ==
  ASSUME IInv, Fresh, [Next]_vars
  PROVE  Fresh'
  <1>1. CASE UNCHANGED vars
    BY <1>1 DEF vars, Fresh
  <1>2. ASSUME NEW n \in FileSizes, CreateRow(n) PROVE Fresh'
    BY <1>2 DEF CreateRow, Fresh, IInv, Typed, Jobs
  <1>3. CASE Store \/ StoreFails \/ Publish \/ Shed
    BY <1>3 DEF Store, StoreFails, Publish, Shed, Fresh, IInv, Typed, Jobs
  <1>4. CASE upload = "start"
    BY <1>1, <1>2, <1>4, UntouchedStep
  <1>5. ASSUME NEW w \in Workers, Step(w) PROVE upload' = upload /\ job'.stored = job.stored
    BY <1>5 DEF Step, DriveStep, ChunkStep, Resume, StartDrive, Stage, MissingObject,
                Dedup, DedupThrows, RecordStaged, FinishEmpty, Plan, PlannedAlready, FanOut, SkipBand, ReadBand,
                MergeThrows, Merge, CountBand, Finalize, CleanUp, Continue, Thrown,
                IInv, Typed, Jobs
  <1>6. CASE upload' = upload /\ job'.stored = job.stored /\ upload # "start"
    BY <1>6 DEF Fresh
  <1>7. Api \/ (\E w \in Workers : Step(w)) \/ (upload' = upload /\ job' = job) \/ UNCHANGED vars
    BY DEF Next, Throws, Thrown, WorkerDies, LockExpires, Take, Expire, Reap
  <1> QED BY <1>1, <1>2, <1>3, <1>4, <1>5, <1>6, <1>7 DEF Api

\* The steps that settle nothing of the job's account.
LEMMA CreateRowClean ==
  ASSUME IInv, CleanInv, Alone', Fresh', NEW n \in FileSizes, CreateRow(n)
  PROVE  CleanInv'
  <1>1. /\ upload = "start" /\ job.size = 0 /\ staging.copies = 0 /\ ~job.staged
        /\ staging.marked = 0 /\ job.deduped = 0
        /\ \A w \in Workers : worker[w].pc = "idle"
        /\ \A b \in Bands : band[b] = "none"
        /\ job.status = "none"
    BY DEF CreateRow, IInv, Untouched, CleanInv, Fresh
  <1>2. /\ worker' = worker /\ band' = band /\ staging' = staging /\ rollups' = rollups
        /\ job'.status = "queued" /\ job'.staged = job.staged /\ job'.counted = job.counted
        /\ job'.rows = job.rows /\ job'.rejected = job.rejected /\ job'.deduped = job.deduped
        /\ job'.created = job.created /\ job'.duplicate = job.duplicate
    BY DEF CreateRow, IInv, Typed, Jobs
  <1>3. Bookkept' /\ OneDrive' /\ InOrder'
    BY <1>1, <1>2 DEF Bookkept, OneDrive, InOrder, PlannedYet, Running
  <1>4. Counted'
    <2>1. Countable \subseteq Countable'
      BY <1>2 DEF Countable, Done, Uncounted, Running, At
    <2> QED BY <1>2, <2>1, CountedKept DEF CleanInv, IInv
  <1>5. Finished' /\ Fired'
    BY <1>1, <1>2 DEF CleanInv, Finished, Fired, Ending, Finalized
  <1>6. Books'
    <2>1. PICK k \in Nat : Accounts(k)
      BY DEF CleanInv, Books
    <2>2. Mergeable = {} /\ Mergeable' = {}
      BY <1>1, <1>2 DEF Mergeable, Done
    <2>3. Invalid = {}
      BY <1>1 DEF Invalid
    <2>4. Cardinality({}) = 0
      BY FS_EmptySet
    <2>5. job.rows = 0 /\ job.rejected = 0 /\ job.created + job.duplicate = 0
      BY <1>1, <2>1, <2>2, <2>3, <2>4 DEF Accounts
    <2>6. ~Recording' /\ ~Deduping' /\ \A w \in Workers : ~Running(w, "record")'
      BY <1>1, <1>2 DEF Recording, Recorder, Deduping, Running
    <2>7. job'.size \in Nat /\ Cardinality(Invalid') \in Nat /\ Cardinality(Repeated') \in Nat
      <3>1. job'.size = n /\ n \in Nat
        BY FilesAssumption DEF CreateRow, IInv, Typed, Jobs
      <3>2. Invalid' \in SUBSET Bands
        BY FilesAssumption DEF Invalid
      <3>3. IsFiniteSet(Invalid')
        BY <3>2, Constants, FS_Subset
      <3>4. Repeated' \in SUBSET Bands
        BY DEF Repeated, Repeats
      <3>5. IsFiniteSet(Repeated')
        BY <3>4, Constants, FS_Subset
      <3> QED BY <3>1, <3>3, <3>5, FS_CardinalityType
    <2>8. Accounts(0)'
      BY <1>1, <1>2, <2>2, <2>4, <2>5, <2>6, <2>7 DEF Accounts
    <2>9. Marks(0)' /\ Once(0)'
      BY <1>1, <1>2, <2>6, <2>7 DEF Marks, Once
    <2> QED BY <2>8, <2>9 DEF Books
  <1>7. HasTable'
    BY <1>1, <1>2 DEF HasTable, Deduping, Running
  <1> QED BY <1>3, <1>4, <1>5, <1>6, <1>7 DEF CleanInv

\* A worker that stops, unless it was to record what it staged.
LEMMA StopsClean ==
  ASSUME IInv, CleanInv, Alone', Fresh', SameBooks, Finalized' <=> Finalized,
         band' = band, rollups' = rollups \/ Fired', hit \subseteq hit',
         SameTable, Deduping => staging'.exists,
         NEW w \in Workers, Leave(w), ~Recorder(w),
         Running(w, "plan") => PlannedYet \/ job.size = 0 \/ "plan" \in hit'
  PROVE  CleanInv'
  <1>1. /\ worker'[w].pc = "idle"
        /\ \A v \in Workers : v # w => worker'[v] = worker[v]
    BY MoveFacts DEF IInv
  <1>2. \A v \in Workers : Recorder(v) => worker'[v] = worker[v]
    BY <1>1
  <1> QED BY <1>1, <1>2, QuietStep

\* The request's steps, the queue's and the reaper's.
LEMMA OutsideClean ==
  ASSUME IInv, CleanInv, Alone', Fresh', [Next]_vars, Clean',
         \/ Api \/ Reap \/ UNCHANGED vars
         \/ \E w \in Workers : Throws(w) \/ WorkerDies(w) \/ LockExpires(w)
         \/ \E w \in Workers, i \in Ids : Take(w, i)
         \/ \E i \in Ids : Expire(i)
  PROVE  CleanInv'
  <1>h. hit \subseteq hit'
    BY CleanStays
  <1>t. staging' = staging => SameTable /\ (Deduping => staging'.exists)
    BY DEF SameTable, CleanInv, HasTable
  <1>1. ASSUME worker' = worker, band' = band, staging' = staging, rollups' = rollups,
               SameBooks, Finalized' <=> Finalized
        PROVE  CleanInv'
    BY <1>1, <1>h, <1>t, QuietStep
  <1>s. job' = job => SameBooks /\ (Finalized' <=> Finalized)
    BY DEF SameBooks, Finalized
  <1>2. CASE UNCHANGED vars
    BY <1>1, <1>2, <1>s DEF vars
  <1>3. CASE Publish \/ Shed \/ Reap \/ \E i \in Ids : Expire(i)
    BY <1>1, <1>3, <1>s DEF Publish, Shed, Reap, Expire
  <1>4. CASE Store
    <2>1. SameBooks /\ (Finalized' <=> Finalized)
      BY <1>4 DEF Store, SameBooks, Finalized, IInv, Typed, Jobs
    <2> QED BY <1>1, <1>4, <2>1 DEF Store
  <1>5. CASE StoreFails
    <2>1. SameBooks /\ job'.status = "failed"
      BY <1>5 DEF StoreFails, SameBooks, IInv, Typed, Jobs
    <2>2. ~Finalized
      BY <1>5, FinalizedMeans, PlannedMeans DEF StoreFails, CleanInv, Fresh
    <2>3. ~Finalized'
      BY <2>1 DEF Finalized
    <2> QED BY <1>1, <1>5, <2>1, <2>2, <2>3 DEF StoreFails
  <1>6. ASSUME NEW n \in FileSizes, CreateRow(n) PROVE CleanInv'
    BY <1>6, CreateRowClean
  <1>7. ASSUME NEW w \in Workers, Throws(w) \/ WorkerDies(w) PROVE CleanInv'
    <2>1. Leave(w) /\ ~Recorder(w)
      BY <1>7 DEF Throws, Thrown, WorkerDies, Break, Clean, Recorder
    <2>2. job' = job /\ band' = band /\ rollups' = rollups /\ staging' = staging
      BY <1>7 DEF Throws, Thrown, WorkerDies
    <2>3. Running(w, "plan") => "plan" \in hit'
      BY <1>7 DEF Throws, WorkerDies, Break, Running
    <2> QED BY <1>h, <1>s, <1>t, <2>1, <2>2, <2>3, StopsClean
  <1>8. ASSUME NEW w \in Workers, LockExpires(w) PROVE FALSE
    BY <1>8 DEF LockExpires, Break, Clean
  <1>9. ASSUME NEW w \in Workers, NEW i \in Ids, Take(w, i) PROVE CleanInv'
    <2>1. /\ worker'[w].pc \in {"readDrive", "readBand"} /\ worker[w].pc = "idle"
          /\ \A v \in Workers : v # w => worker'[v] = worker[v]
      BY <1>9, MoveFacts DEF IInv
    <2>2. \A v \in Workers : Recorder(v) \/ Running(v, "plan") => worker'[v] = worker[v]
      BY <2>1 DEF Recorder, Running
    <2>3. job' = job /\ band' = band /\ rollups' = rollups /\ staging' = staging
      BY <1>9 DEF Take
    <2> QED BY <1>h, <1>s, <1>t, <2>1, <2>2, <2>3, QuietStep
  <1> QED BY <1>2, <1>3, <1>4, <1>5, <1>6, <1>7, <1>8, <1>9 DEF Api

\* A drive's steps before it stages, and those with which a worker stops.
LEMMA QuietClean ==
  ASSUME IInv, CleanInv, Alone', Fresh', NEW w \in Workers,
         hit \subseteq hit',
         \/ Resume(w) \/ StartDrive(w) \/ MissingObject(w) \/ FinishEmpty(w)
         \/ PlannedAlready(w) \/ FanOut(w)
         \/ SkipBand(w) \/ ReadBand(w) \/ MergeThrows(w) \/ CleanUp(w) \/ Continue(w)
  PROVE  CleanInv'
  <1>s. job' = job => SameBooks /\ (Finalized' <=> Finalized)
    BY DEF SameBooks, Finalized
  <1>t. staging' = staging => SameTable /\ (Deduping => staging'.exists)
    BY DEF SameTable, CleanInv, HasTable
  <1>1. CASE Resume(w) \/ PlannedAlready(w) \/ FanOut(w) \/ SkipBand(w) \/ MergeThrows(w)
               \/ Continue(w)
    <2>1. Leave(w) /\ ~Recorder(w)
      BY <1>1 DEF Resume, PlannedAlready, FanOut, SkipBand, MergeThrows, Continue, Thrown,
                  Running, Recorder
    <2>2. job' = job /\ band' = band /\ rollups' = rollups /\ staging' = staging
      BY <1>1 DEF Resume, PlannedAlready, FanOut, SkipBand, MergeThrows, Continue, Thrown
    <2>3. Running(w, "plan") => PlannedYet
      BY <1>1 DEF Resume, PlannedAlready, FanOut, SkipBand, MergeThrows, Continue, Running,
                  Pending, Done, PlannedYet
    <2> QED BY <1>s, <1>t, <2>1, <2>2, <2>3, StopsClean
  <1>2. CASE MissingObject(w)
    <2>1. Leave(w) /\ ~Recorder(w) /\ ~Running(w, "plan")
      BY <1>2 DEF MissingObject, Thrown, Running, Recorder
    <2>2. job' = job /\ band' = band /\ rollups' = rollups
      BY <1>2 DEF MissingObject, Thrown
    <2>3. /\ staging'.copies = staging.copies /\ staging'.marked = staging.marked
          /\ staging'.exists
      BY <1>2 DEF MissingObject, IInv, Typed, Tables
    <2>4. SameTable /\ (Deduping => staging'.exists)
      BY <2>3 DEF SameTable
    <2> QED BY <1>s, <2>1, <2>2, <2>4, StopsClean
  <1>3. CASE FinishEmpty(w)
    <2>1. Leave(w) /\ ~Recorder(w) /\ job.size = 0 /\ worker[w].pc = "plan"
      BY <1>3 DEF FinishEmpty, Running, Recorder
    <2>2. SameBooks /\ band' = band /\ rollups' = rollups
      BY <1>3 DEF FinishEmpty, SameBooks, IInv, Typed, Jobs
    <2>3. ~Finalized /\ ~Finalized'
      BY <2>1, <2>2 DEF SameBooks, Finalized
    <2>4. SameTable /\ ~Deduping
      <3>1. \A v \in Workers : v # w => ~Running(v, "dedup")
        BY <2>1, Apart DEF CleanInv, IInv, Busy, DrivePcs, Running
      <3> QED BY <2>1, <3>1 DEF SameTable, Deduping, Running
    <2> QED BY <2>1, <2>2, <2>3, <2>4, StopsClean
  <1>4. CASE CleanUp(w)
    <2>1. /\ Leave(w) /\ ~Recorder(w) /\ ~Running(w, "plan")
          /\ job' = job /\ band' = band /\ Ending(w)
      BY <1>4 DEF CleanUp, Running, Recorder, Ending
    <2>2. Finalized /\ rollups = 0 /\ \A v \in Workers : Ending(v) => v = w
      BY <2>1 DEF CleanInv, Finished, Fired
    <2>3. Fired'
      <3>1. \A v \in Workers : ~Ending(v)'
        <4>1. /\ worker'[w].pc = "idle"
              /\ \A v \in Workers : v # w => worker'[v] = worker[v]
          BY <2>1, MoveFacts DEF IInv
        <4> QED BY <2>2, <4>1 DEF Ending
      <3>2. rollups' \in {0, 1}
        BY <1>4, <2>2 DEF CleanUp
      <3>3. Finalized'
        BY <2>1, <2>2 DEF Finalized
      <3> QED BY <3>1, <3>2, <3>3 DEF Fired
    <2>4. SameTable /\ ~Deduping
      BY <2>2, FinalizedMeans, PlannedMeans DEF SameTable, Deduping, Running
    <2> QED BY <1>s, <2>1, <2>2, <2>3, <2>4, StopsClean
  <1>5. CASE StartDrive(w)
    <2>1. /\ worker[w].pc = "readDrive" /\ worker'[w].pc = "stage"
          /\ \A v \in Workers : v # w => worker'[v] = worker[v]
      BY <1>5, MoveFacts DEF StartDrive, Running, IInv
    <2>2. SameBooks /\ band' = band /\ rollups' = rollups /\ staging' = staging
          /\ job'.status = "validating"
      BY <1>5 DEF StartDrive, SameBooks, IInv, Typed, Jobs
    <2>3. ~PlannedYet
      BY <1>5, PlannedMeans DEF StartDrive
    <2>4. ~Finalized /\ ~Finalized'
      BY <2>2, <2>3, FinalizedMeans DEF Finalized
    <2>5. \A v \in Workers : Recorder(v) \/ Running(v, "plan") => worker'[v] = worker[v]
      BY <2>1 DEF Recorder, Running
    <2> QED BY <1>t, <2>1, <2>2, <2>3, <2>4, <2>5, QuietStep
  <1>6. CASE ReadBand(w)
    <2>1. /\ worker[w].pc = "readBand" /\ worker'[w].pc = "merge"
          /\ worker'[w].id = worker[w].id /\ band[worker[w].id] # "completed"
          /\ \A v \in Workers : v # w => worker'[v] = worker[v]
      BY <1>6, MoveFacts DEF ReadBand, Running, IInv, AlreadyDone, At
    <2>2. job' = job /\ band' = band /\ rollups' = rollups /\ staging' = staging
      BY <1>6 DEF ReadBand
    <2>3. \A v \in Workers : Recorder(v) \/ Running(v, "plan") => worker'[v] = worker[v]
      BY <2>1 DEF Recorder, Running
    <2> QED BY <1>s, <1>t, <2>1, <2>2, <2>3, QuietStep
  <1> QED BY <1>1, <1>2, <1>3, <1>4, <1>5, <1>6

\* A drive puts one more copy of the file into the table.
LEMMA StageClean ==
  ASSUME IInv, CleanInv, Alone', Fresh', NEW w \in Workers, Stage(w)
  PROVE  CleanInv'
  <1>1. /\ worker[w].pc = "stage" /\ worker'[w].pc = "dedup"
        /\ \A v \in Workers : v # w => worker'[v] = worker[v]
    BY MoveFacts DEF Stage, Running, IInv
  <1>2. /\ job' = job /\ band' = band /\ rollups' = rollups /\ hit' = hit
        /\ staging'.copies = staging.copies + 1 /\ staging'.exists
    BY DEF Stage, NoFault
  <1>3. ~PlannedYet /\ ~Finalized /\ ~Finalized'
    BY <1>1, <1>2, PlannedMeans, FinalizedMeans DEF Finalized
  <1>4. ~Recording /\ Recording' /\ Deduping'
    <2>1. \A v \in Workers : v # w => ~Recorder(v)
      BY <1>1, Apart DEF CleanInv, IInv, Busy, DrivePcs, Recorder
    <2> QED BY <1>1, <2>1 DEF Recording, Recorder, Deduping, Running
  <1>5. Bookkept' /\ OneDrive' /\ InOrder' /\ HasTable'
    BY <1>1, <1>2, <1>3
       DEF CleanInv, Bookkept, OneDrive, InOrder, PlannedYet, Running, At, HasTable
  <1>6. Counted'
    <2>1. Countable \subseteq Countable'
      BY <1>1, <1>2 DEF Countable, Done, Uncounted, Running, At
    <2> QED BY <1>2, <2>1, CountedKept DEF CleanInv, IInv
  <1>7. Finished' /\ Fired'
    BY <1>1, <1>2, <1>3 DEF CleanInv, Finished, Fired, Ending
  <1>8. Books'
    <2>1. PICK k \in Nat : Accounts(k) /\ Marks(k) /\ Once(k)
      BY DEF CleanInv, Books
    <2>2. Invalid' = Invalid /\ Mergeable' = Mergeable /\ Repeated' = Repeated
      BY <1>2 DEF Invalid, Mergeable, Done, Repeated
    <2>3. Accounts(k)'
      BY <1>2, <1>3, <1>4, <2>1, <2>2 DEF Accounts
    <2>4. Marks(k)'
      <3>1. \A v \in Workers : ~Running(v, "record")'
        BY <1>1, <1>4 DEF Recording, Recorder, Running
      <3> QED BY <1>2, <1>4, <2>1, <2>2, <3>1 DEF Marks
    <2>5. Once(k)'
      BY <1>1, <1>2, <1>3, <2>1 DEF Once, PlannedYet, Running
    <2> QED BY <2>3, <2>4, <2>5 DEF Books
  <1> QED BY <1>5, <1>6, <1>7, <1>8 DEF CleanInv

\* The drive marks every copy of a repeated row and remembers how many.
LEMMA DedupClean ==
  ASSUME IInv, CleanInv, Alone', Fresh', NEW w \in Workers, Dedup(w)
  PROVE  CleanInv'
  <1>1. /\ worker[w].pc = "dedup" /\ worker'[w].pc = "record" /\ At(w)' = At(w)
        /\ worker'[w].deduped = staging.copies * Cardinality(Repeated)
        /\ \A v \in Workers : v # w => worker'[v] = worker[v]
    BY DedupFacts DEF IInv, At
  <1>2. /\ job' = job /\ band' = band /\ rollups' = rollups /\ hit' = hit
        /\ staging'.copies = staging.copies /\ staging'.marked = staging.copies
    BY DedupFacts DEF Dedup, NoFault, IInv
  <1>3. ~PlannedYet /\ ~Finalized /\ ~Finalized'
    BY <1>1, <1>2, PlannedMeans, FinalizedMeans DEF Finalized
  <1>4. Recording /\ Recording' /\ ~Deduping' /\ \A v \in Workers : v # w => ~Recorder(v)
    <2>1. \A v \in Workers : v # w => ~Recorder(v)
      BY <1>1, Apart DEF CleanInv, IInv, Busy, DrivePcs, Recorder
    <2> QED BY <1>1, <2>1 DEF Recording, Recorder, Deduping, Running
  <1>5. Bookkept' /\ OneDrive' /\ InOrder' /\ HasTable'
    BY <1>1, <1>2, <1>3, <1>4
       DEF CleanInv, Bookkept, OneDrive, InOrder, PlannedYet, Running, At, HasTable
  <1>6. Counted'
    <2>1. Countable \subseteq Countable'
      BY <1>1, <1>2 DEF Countable, Done, Uncounted, Running, At
    <2> QED BY <1>2, <2>1, CountedKept DEF CleanInv, IInv
  <1>7. Finished' /\ Fired'
    BY <1>1, <1>2, <1>3 DEF CleanInv, Finished, Fired, Ending
  <1>8. Books'
    <2>1. PICK k \in Nat : Accounts(k) /\ Marks(k) /\ Once(k)
      BY DEF CleanInv, Books
    <2>2. Invalid' = Invalid /\ Mergeable' = Mergeable /\ Repeated' = Repeated
      BY <1>2 DEF Invalid, Mergeable, Done, Repeated
    <2>3. Accounts(k)'
      BY <1>2, <1>3, <1>4, <2>1, <2>2 DEF Accounts
    <2>4. worker'[w].deduped = (k + 1) * Cardinality(Repeated)
      <3>1. CASE job.size > 0
        BY <1>1, <1>3, <1>4, <2>1, <3>1 DEF Accounts
      <3>2. CASE job.size = 0
        <4>1. Repeated = {}
          BY <3>2 DEF Repeated
        <4>2. Cardinality(Repeated) = 0
          BY <4>1, FS_EmptySet
        <4>3. staging.copies \in Nat /\ k + 1 \in Nat
          BY CleanCards DEF IInv
        <4> QED BY <1>1, <4>2, <4>3, Multiples
      <3> QED BY <3>1, <3>2, CleanCards DEF IInv
    <2>5. Marks(k)'
      <3>1. \A v \in Workers : Running(v, "record")' => v = w
        BY <1>1, <1>4 DEF Recorder, Running
      <3> QED BY <1>2, <2>1, <2>2, <2>4, <3>1 DEF Marks
    <2>6. Once(k)'
      BY <1>1, <1>2, <1>3, <2>1 DEF Once, PlannedYet, Running
    <2> QED BY <2>3, <2>5, <2>6 DEF Books
  <1> QED BY <1>5, <1>6, <1>7, <1>8 DEF CleanInv

\* The drive that staged a copy records it.
LEMMA RecordClean ==
  ASSUME IInv, CleanInv, Alone', Fresh', NEW w \in Workers, RecordStaged(w)
  PROVE  CleanInv'
  <1>1. /\ worker[w].pc = "record" /\ worker'[w].pc = "plan"
        /\ \A v \in Workers : v # w => worker'[v] = worker[v]
    BY MoveFacts DEF RecordStaged, Running, IInv
  <1>2. /\ band' = band /\ rollups' = rollups /\ staging' = staging
        /\ job'.status = "staged" /\ job'.staged = TRUE
        /\ job'.size = job.size /\ job'.total = job.size
        /\ job'.counted = job.counted
        /\ job'.rows = job.rows + job.size
        /\ job'.rejected = job.rejected + Cardinality(Invalid)
        /\ job'.deduped = job.deduped + worker[w].deduped
        /\ job'.created = job.created /\ job'.duplicate = job.duplicate
        /\ hit' = hit
    BY DEF RecordStaged, NoFault, IInv, Typed, Jobs, Invalid
  <1>3. ~PlannedYet /\ ~Finalized /\ ~Finalized'
    BY <1>1, <1>2, PlannedMeans, FinalizedMeans DEF Finalized
  <1>4. /\ Recording /\ ~Recording' /\ ~Deduping /\ ~Deduping'
        /\ \A v \in Workers : v # w => ~Running(v, "plan")
    <2>1. \A v \in Workers : v # w => ~Recorder(v) /\ ~Running(v, "plan")
      BY <1>1, Apart DEF CleanInv, IInv, Busy, DrivePcs, Recorder, Running
    <2> QED BY <1>1, <2>1 DEF Recording, Recorder, Deduping, Running
  <1>5. Bookkept' /\ OneDrive' /\ InOrder' /\ HasTable'
    BY <1>1, <1>2, <1>3, <1>4
       DEF CleanInv, Bookkept, OneDrive, InOrder, PlannedYet, Running, At, HasTable
  <1>6. Counted'
    <2>1. Countable \subseteq Countable'
      BY <1>1, <1>2 DEF Countable, Done, Uncounted, Running, At
    <2> QED BY <1>2, <2>1, CountedKept DEF CleanInv, IInv
  <1>7. Finished' /\ Fired'
    BY <1>1, <1>2, <1>3 DEF CleanInv, Finished, Fired, Ending
  <1>8. Books'
    <2>1. PICK k \in Nat : Accounts(k) /\ Marks(k) /\ Once(k)
      BY DEF CleanInv, Books
    <2>2. Invalid' = Invalid /\ Mergeable' = Mergeable /\ Repeated' = Repeated
      BY <1>2 DEF Invalid, Mergeable, Done, Repeated
    <2>3. Mergeable = {} /\ Cardinality({}) = 0
      BY <1>3, FS_EmptySet DEF PlannedYet, Mergeable, Done
    <2>4. job.size \in Nat /\ Cardinality(Invalid) \in Nat /\ k + 1 \in Nat
      BY CleanCards DEF IInv
    <2>5. /\ job'.rows = (k + 1) * job.size
          /\ job'.rejected = (k + 1) * Cardinality(Invalid)
      <3>1. /\ job'.rows = k * job.size + job.size
            /\ job'.rejected = k * Cardinality(Invalid) + Cardinality(Invalid)
        BY <1>2, <2>1 DEF Accounts
      <3>2. (k + 1) * job.size = k * job.size + job.size
        BY <2>4, Multiples
      <3>3. (k + 1) * Cardinality(Invalid) = k * Cardinality(Invalid) + Cardinality(Invalid)
        BY <2>4, Multiples
      <3> QED BY <3>1, <3>2, <3>3
    <2>6. job'.created + job'.duplicate = (k + 1) * Cardinality(Mergeable)
      <3>1. job'.created + job'.duplicate = k * 0 /\ Cardinality(Mergeable) = 0
        BY <1>2, <2>1, <2>3 DEF Accounts
      <3>2. k * 0 = 0 /\ (k + 1) * 0 = 0
        BY <2>4, Multiples
      <3> QED BY <3>1, <3>2
    <2>7. job.size > 0 => staging'.copies = k + 1
      BY <1>2, <1>3, <1>4, <2>1 DEF Accounts
    <2>8. Accounts(k + 1)'
      BY <1>2, <1>4, <2>2, <2>5, <2>6, <2>7 DEF Accounts
    <2>9. Marks(k + 1)'
      <3> DEFINE d == Cardinality(Repeated)
                 e == worker[w].deduped
      <3>1. d \in Nat /\ job.deduped \in Nat /\ k * d \in Nat
        BY RepeatedCount, CleanCards, Multiples DEF IInv
      <3>2. /\ job'.deduped = job.deduped + e /\ e = (k + 1) * d
            /\ job.deduped >= k * d /\ (k <= 1 \/ d = 0 => job.deduped = k * d)
        BY <1>1, <1>2, <2>1 DEF Marks, Running
      <3>3. (k + 1) * d \in Nat
        BY <2>4, <3>1, Multiples
      <3>4. job'.deduped >= (k + 1) * d
        BY <3>1, <3>2, <3>3
      <3>5. k + 1 <= 1 \/ d = 0 => job'.deduped = (k + 1) * d
        <4>1. ASSUME k + 1 <= 1 \/ d = 0 PROVE k * d = 0
          <5>1. CASE d = 0
            BY <5>1, Multiples
          <5>2. CASE k = 0
            BY <3>1, <5>2
          <5> QED BY <4>1, <5>1, <5>2
        <4>2. k + 1 <= 1 \/ d = 0 => k <= 1 \/ d = 0
          OBVIOUS
        <4> QED BY <3>2, <3>3, <4>1, <4>2
      <3>6. job.size > 0 => staging'.marked = staging'.copies
        BY <1>2, <1>3, <1>4, <2>1 DEF Marks
      <3>7. \A v \in Workers : ~Running(v, "record")'
        BY <1>4 DEF Recording, Recorder, Running
      <3> QED BY <1>2, <2>2, <3>4, <3>5, <3>6, <3>7 DEF Marks
    <2>10. Once(k + 1)'
      <3> SUFFICES ASSUME job.size > 0, "plan" \notin hit
                   PROVE  k + 1 <= 1 /\ \E v \in Workers : Running(v, "plan")'
        BY <1>2 DEF Once
      <3>1. k <= 1 /\ ~(k = 1)
        BY <1>1, <1>3, <1>4, <2>1 DEF Once, Running
      <3> QED BY <1>1, <3>1 DEF Running
    <2> QED BY <2>4, <2>8, <2>9, <2>10 DEF Books
  <1> QED BY <1>5, <1>6, <1>7, <1>8 DEF CleanInv

\* The one drive there is plans the bands.
LEMMA PlanClean ==
  ASSUME IInv, CleanInv, Alone', Fresh', NEW w \in Workers, Plan(w)
  PROVE  CleanInv'
  <1>1. /\ worker[w].pc = "plan" /\ worker'[w].pc = "fanOut"
        /\ \A v \in Workers : v # w => worker'[v] = worker[v]
    BY MoveFacts DEF Plan, Running, IInv
  <1>2. job' = job /\ rollups' = rollups /\ staging' = staging /\ hit' = hit /\ job.size > 0
    BY DEF Plan, NoFault
  <1>3. ~PlannedYet /\ ~Finalized /\ ~Finalized'
    BY <1>1, <1>2, PlannedMeans, FinalizedMeans DEF Finalized
  <1>4. \A v \in Workers : v # w => worker[v].pc \notin DrivePcs
    BY <1>1, Apart DEF CleanInv, IInv, Busy, DrivePcs
  <1>5. \A v \in Workers : worker[v].pc \notin ChunkPcs
    <2>1. \A v \in Workers : worker[v].pc \in ChunkPcs => worker[v].id \in Bands
      BY DEF IInv, Typed, Tasks
    <2> QED BY <1>3, <2>1 DEF IInv, Planned, PlannedYet
  <1>6. Done = {} /\ Done' = {}
    BY DEF Plan, Done
  <1>11. PlannedYet'
    <2>2. job.size \in 0 .. MaxBands
      BY DEF IInv, Typed, Jobs
    <2>3. 1 \in Bands /\ 1 <= job.size
      BY <1>2, <2>2, Constants DEF Bands
    <2>4. band'[1] = "queued"
      BY <2>3 DEF Plan
    <2> QED BY <2>3, <2>4 DEF PlannedYet
  <1>7. Bookkept' /\ OneDrive' /\ InOrder' /\ HasTable'
    <2>1. job.staged
      BY <1>1 DEF CleanInv, Bookkept, Running
    <2> QED BY <1>1, <1>2, <1>4, <1>5, <2>1
            DEF CleanInv, Bookkept, OneDrive, InOrder, Running, DrivePcs, ChunkPcs,
                HasTable, Deduping
  <1>8. Counted'
    <2>1. Countable \subseteq Countable'
      BY <1>6 DEF Countable
    <2> QED BY <1>2, <2>1, CountedKept DEF CleanInv, IInv
  <1>9. Finished' /\ Fired'
    BY <1>1, <1>2, <1>3 DEF CleanInv, Finished, Fired, Ending
  <1>10. Books'
    <2>1. PICK k \in Nat : Accounts(k) /\ Marks(k) /\ Once(k)
      BY DEF CleanInv, Books
    <2>2. Recording' = Recording /\ Deduping' = Deduping
      BY <1>1 DEF Recording, Recorder, Deduping, Running
    <2>3. Invalid' = Invalid /\ Mergeable' = Mergeable /\ Repeated' = Repeated
      BY <1>2, <1>6 DEF Invalid, Mergeable, Repeated
    <2>4. Accounts(k)'
      BY <1>2, <1>3, <2>1, <2>2, <2>3 DEF Accounts
    <2>5. \A v \in Workers : Running(v, "record")' =>
                            Running(v, "record") /\ worker'[v] = worker[v]
      BY <1>1 DEF Running
    <2>6. Marks(k)'
      BY <1>2, <1>3, <2>1, <2>2, <2>3, <2>5 DEF Marks
    <2>7. Once(k)'
      BY <1>2, <1>11, <2>1 DEF Once
    <2> QED BY <2>4, <2>6, <2>7 DEF Books
  <1> QED BY <1>7, <1>8, <1>9, <1>10 DEF CleanInv

\* A merge puts every staged copy of its band's row into one bucket.
LEMMA MergeClean ==
  ASSUME IInv, CleanInv, Alone', Fresh', NEW w \in Workers, Merge(w)
  PROVE  CleanInv'
  <1> DEFINE b == At(w)
  <1>1. /\ worker[w].pc = "merge" /\ worker'[w].pc = "count" /\ worker'[w].id = b
        /\ \A v \in Workers : v # w => worker'[v] = worker[v]
    BY MoveFacts DEF Merge, Running, IInv, At
  <1>2. /\ rollups' = rollups /\ staging' = staging
        /\ job'.status = job.status /\ job'.size = job.size
        /\ job'.staged = job.staged /\ job'.total = job.total
        /\ job'.counted = job.counted /\ job'.rows = job.rows
        /\ job'.rejected = job.rejected /\ job'.deduped = job.deduped /\ hit' = hit
    BY DEF Merge, NoFault, IInv, Typed, Jobs
  <1>3. b \in Bands /\ band[b] \notin {"none", "completed"}
    BY <1>1 DEF IInv, Planned, Typed, Tasks, At, ChunkPcs, CleanInv, InOrder, Running
  <1>4. band'[b] = "completed" /\ \A a \in Bands \ {b} : band'[a] = band[a]
    BY <1>3 DEF Merge, IInv, Typed
  <1>5. PlannedYet /\ ~Finalized /\ ~Finalized'
    <2>1. PlannedYet
      BY <1>3 DEF PlannedYet
    <2>2. ~Finalized
      BY <1>1, FinalizedMeans DEF Running
    <2> QED BY <1>2, <2>1, <2>2 DEF Finalized
  <1>6. Done' = Done \cup {b} /\ b \notin Done
    BY <1>3, <1>4 DEF Done
  <1>7. \A v \in Workers : v # w /\ Busy(v) => At(v) # b
    BY <1>1, Apart DEF CleanInv, IInv, Busy
  <1>8. /\ ~Recording /\ ~Recording' /\ ~Deduping /\ ~Deduping'
        /\ \A v \in Workers : ~Running(v, "record")'
    <2>1. ~Recording
      BY <1>5, PlannedMeans
    <2> QED BY <1>1, <2>1 DEF Recording, Recorder, Deduping, Running
  <1>14. PlannedYet'
    BY <1>3, <1>4 DEF PlannedYet
  <1>9. Bookkept' /\ OneDrive' /\ HasTable'
    <2>1. job.staged /\ \A v \in Workers : worker[v].pc \notin {"stage", "dedup", "record", "plan"}
      BY <1>5, PlannedMeans
    <2> QED BY <1>1, <1>2, <1>8, <2>1 DEF CleanInv, Bookkept, OneDrive, Running, HasTable
  <1>10. InOrder'
    <2> SUFFICES ASSUME NEW v \in Workers
                 PROVE  /\ worker'[v].pc = "merge" => band'[worker'[v].id] # "completed"
                        /\ worker'[v].pc = "count" => band'[worker'[v].id] = "completed"
      BY DEF InOrder, Running, At
    <2>1. CASE v = w
      BY <1>1, <1>4, <2>1
    <2>2. CASE v # w /\ worker[v].pc \in {"merge", "count"}
      <3>1. worker[v].id \in Bands \ {b}
        BY <1>7, <2>2 DEF IInv, Typed, Tasks, ChunkPcs, Busy, At
      <3> QED BY <1>1, <1>4, <2>2, <3>1 DEF CleanInv, InOrder, Running, At
    <2> QED BY <1>1, <2>1, <2>2
  <1>11. Counted'
    <2>1. Uncounted' \subseteq Uncounted \cup {b}
      BY <1>1 DEF Uncounted, Running, At
    <2>2. Countable \subseteq Countable'
      BY <1>6, <2>1 DEF Countable
    <2> QED BY <1>2, <2>2, CountedKept DEF CleanInv, IInv
  <1>12. Finished' /\ Fired'
    BY <1>1, <1>2, <1>5 DEF CleanInv, Finished, Fired, Ending
  <1>13. Books'
    <2>1. PICK k \in Nat : Accounts(k) /\ Marks(k) /\ Once(k)
      BY DEF CleanInv, Books
    <2>2. staging.copies = k /\ staging.marked = k
      BY <1>5, <1>8, <2>1, PlannedMeans DEF Accounts, Marks
    <2>3. job'.created + job'.duplicate = job.created + job.duplicate + Staged(b)
      <3>1. job.created \in Nat /\ job.duplicate \in Nat /\ Staged(b) \in Nat
        BY <2>2, CleanCards DEF IInv, Staged
      <3>2. \/ /\ job'.created = job.created + Staged(b)
               /\ job'.duplicate = job.duplicate + 0
            \/ /\ job'.created = job.created + 0
               /\ job'.duplicate = job.duplicate + Staged(b)
        BY DEF Merge, IInv, Typed, Jobs
      <3> QED BY <3>1, <3>2
    <2>4. /\ IsFiniteSet(Mergeable) /\ Cardinality(Mergeable) \in Nat
          /\ job.created + job.duplicate \in Nat
      BY CleanCards DEF IInv
    <2>5. job'.created + job'.duplicate = k * Cardinality(Mergeable')
      <3>1. CASE b \in Rejected \cup Repeats
        <4>1. Mergeable' = Mergeable
          BY <1>6, <3>1 DEF Mergeable
        <4>2. Staged(b) = 0
          BY <2>2, <3>1 DEF Staged
        <4>3. job.created + job.duplicate = k * Cardinality(Mergeable)
          BY <2>1 DEF Accounts
        <4>4. job'.created + job'.duplicate = job.created + job.duplicate
          BY <2>3, <2>4, <4>2
        <4> QED BY <4>1, <4>3, <4>4
      <3>2. CASE b \notin Rejected \cup Repeats
        <4>1. Mergeable' = Mergeable \cup {b} /\ b \notin Mergeable
          BY <1>6, <3>2 DEF Mergeable
        <4>2. Cardinality(Mergeable') = Cardinality(Mergeable) + 1
          BY <2>4, <4>1, FS_AddElement
        <4>3. Staged(b) = k
          BY <2>2, <3>2 DEF Staged
        <4>4. k * Cardinality(Mergeable') = k * Cardinality(Mergeable) + k
          BY <2>4, <4>2, Multiples
        <4>5. job.created + job.duplicate = k * Cardinality(Mergeable)
          BY <2>1 DEF Accounts
        <4>6. job'.created + job'.duplicate = k * Cardinality(Mergeable) + k
          BY <2>3, <4>3, <4>5
        <4> QED BY <4>4, <4>6
      <3> QED BY <3>1, <3>2
    <2>6. Accounts(k)'
      BY <1>2, <1>5, <1>8, <2>1, <2>2, <2>5 DEF Accounts, Invalid
    <2>7. Repeated' = Repeated
      BY <1>2 DEF Repeated
    <2>8. Marks(k)'
      BY <1>2, <1>8, <2>1, <2>2, <2>7 DEF Marks
    <2>9. Once(k)'
      BY <1>2, <1>14, <2>1 DEF Once
    <2> QED BY <2>6, <2>8, <2>9 DEF Books
  <1> QED BY <1>9, <1>10, <1>11, <1>12, <1>13 DEF CleanInv

\* A worker that counts its band, and the one whose count is the last.
LEMMA CountClean ==
  ASSUME IInv, CleanInv, Alone', Fresh', NEW w \in Workers, CountBand(w) \/ Finalize(w)
  PROVE  CleanInv'
  <1> DEFINE b == At(w)
  <1>1. /\ worker[w].pc = "count" /\ worker'[w].pc \in {"refill", "fire", "drop"}
        /\ \A v \in Workers : v # w => worker'[v] = worker[v]
    BY MoveFacts DEF CountBand, Finalize, Running, IInv
  <1>2. /\ rollups' = rollups /\ staging' = staging /\ band' = band
        /\ job'.size = job.size /\ job'.staged = job.staged /\ job'.total = job.total
        /\ job'.counted = job.counted + 1 /\ job'.rows = job.rows
        /\ job'.rejected = job.rejected /\ job'.deduped = job.deduped
        /\ job'.created = job.created /\ job'.duplicate = job.duplicate
        /\ hit' = hit
    BY DEF CountBand, Finalize, NoFault, IInv, Typed, Jobs
  <1>3. b \in Bands /\ band[b] = "completed"
    BY <1>1 DEF IInv, Typed, Tasks, At, ChunkPcs, CleanInv, InOrder, Running
  <1>4. PlannedYet /\ ~Finalized /\ ~Recording /\ job.size > 0 /\ job.total = job.size
    BY <1>1, <1>3, FinalizedMeans, PlannedMeans DEF PlannedYet, Running
  <1>5. /\ ~Recording' /\ ~Deduping /\ ~Deduping'
        /\ \A v \in Workers : ~Running(v, "record")'
    BY <1>1, <1>4 DEF Recording, Recorder, Deduping, Running
  <1>6. \A v \in Workers : v # w /\ Busy(v) => At(v) # b
    BY <1>1, Apart DEF CleanInv, IInv, Busy
  <1>7. Bookkept' /\ OneDrive' /\ InOrder' /\ HasTable'
    BY <1>1, <1>2, <1>5
       DEF CleanInv, Bookkept, OneDrive, InOrder, PlannedYet, Running, At, HasTable
  <1>8. Counted'
    <2>1. b \in Done /\ b \in Uncounted
      BY <1>1, <1>3 DEF Done, Uncounted, Running
    <2>2. Uncounted' = Uncounted \ {b}
      <3>1. \A v \in Workers : /\ (Running(v, "count") /\ At(v) # b) => worker'[v] = worker[v]
                               /\ Running(v, "count")' => v # w /\ worker'[v] = worker[v]
        BY <1>1 DEF Running, At
      <3>2. \A v \in Workers : Running(v, "count") => Busy(v)
        BY DEF Running, Busy
      <3> QED BY <1>6, <3>1, <3>2 DEF Uncounted, Running, At
    <2>3. Countable' = Countable \cup {b} /\ b \notin Countable
      BY <1>2, <2>1, <2>2 DEF Countable, Done
    <2>4. Cardinality(Countable') = Cardinality(Countable) + 1
      BY <2>3, CleanCards, FS_AddElement DEF IInv
    <2> QED BY <1>2, <2>4, CleanCards DEF CleanInv, IInv, Counted
  <1>9. Finished' /\ Fired'
    <2>1. rollups = 0 /\ \A v \in Workers : ~Ending(v)
      <3>1. rollups \in Nat
        BY DEF IInv, Typed
      <3> QED BY <1>4, <3>1 DEF CleanInv, Finished, Fired
    <2>2. CASE CountBand(w)
      <3>1. worker'[w].pc = "refill"
        BY <2>2, MoveFacts DEF CountBand, IInv
      <3>2. job'.status = job.status
        BY <2>2 DEF CountBand, IInv, Typed, Jobs
      <3>3. ~Finalized' /\ \A v \in Workers : ~Ending(v)'
        BY <1>1, <1>2, <1>4, <2>1, <3>1, <3>2 DEF Finalized, Ending
      <3> QED BY <1>2, <2>1, <3>3 DEF Finished, Fired
    <2>3. CASE Finalize(w)
      <3>1. job'.status \in {"partial", "completed"}
        BY <2>3 DEF Finalize, IInv, Typed, Jobs
      <3>2. Finalized'
        BY <1>2, <1>4, <3>1 DEF Finalized
      <3>3. job'.counted >= job'.size
        BY <1>2, <1>4, <2>3 DEF Finalize, IsLast
      <3>4. \A v \in Workers : Ending(v)' => v = w
        BY <1>1, <2>1 DEF Ending
      <3> QED BY <1>2, <2>1, <3>2, <3>3, <3>4 DEF Finished, Fired
    <2> QED BY <2>2, <2>3
  <1>10. Books'
    <2>1. PICK k \in Nat : Accounts(k) /\ Marks(k) /\ Once(k)
      BY DEF CleanInv, Books
    <2>2. /\ Invalid' = Invalid /\ Mergeable' = Mergeable /\ Repeated' = Repeated
          /\ PlannedYet'
      BY <1>2, <1>4 DEF Invalid, Mergeable, Done, Repeated, PlannedYet
    <2>3. Accounts(k)'
      BY <1>2, <1>4, <1>5, <2>1, <2>2 DEF Accounts
    <2>4. Marks(k)'
      BY <1>2, <1>4, <1>5, <2>1, <2>2 DEF Marks
    <2>5. Once(k)'
      BY <1>2, <2>1, <2>2 DEF Once
    <2> QED BY <2>3, <2>4, <2>5 DEF Books
  <1> QED BY <1>7, <1>8, <1>9, <1>10 DEF CleanInv

LEMMA SureStep ==
  ASSUME IInv, Sure, [Next]_vars
  PROVE  Sure'
  <1> SUFFICES ASSUME Clean' PROVE CleanInv'
    BY DEF Sure
  <1>1. CleanInv
    BY CleanStays DEF Sure
  <1>2. Alone' /\ Fresh' /\ hit \subseteq hit'
    BY <1>1, AloneStep, FreshStep, CleanStays DEF CleanInv, IInv
  <1>3. ASSUME NEW w \in Workers, Step(w) PROVE CleanInv'
    <2>1. \/ Resume(w) \/ StartDrive(w) \/ MissingObject(w) \/ FinishEmpty(w)
          \/ PlannedAlready(w) \/ FanOut(w)
          \/ SkipBand(w) \/ ReadBand(w) \/ MergeThrows(w) \/ CleanUp(w) \/ Continue(w)
          \/ Stage(w) \/ Dedup(w) \/ DedupThrows(w) \/ RecordStaged(w) \/ Plan(w) \/ Merge(w) \/ CountBand(w) \/ Finalize(w)
      BY <1>3 DEF Step, DriveStep, ChunkStep
    <2>2. ~DedupThrows(w)
      BY <1>1 DEF DedupThrows, CleanInv, HasTable, Deduping
    <2> QED BY <1>1, <1>2, <2>1, <2>2, QuietClean, StageClean, DedupClean, RecordClean,
               PlanClean, MergeClean, CountClean
  <1> QED BY <1>1, <1>2, <1>3, OutsideClean DEF Next

LEMMA InitSure == Init => Sure
  <1> SUFFICES ASSUME Init PROVE CleanInv
    BY DEF Sure
  <1>1. \A w \in Workers : worker[w].pc = "idle"
    BY DEF Init, Free
  <1>2. \A b \in Bands : band[b] = "none"
    BY DEF Init
  <1>3. /\ Countable = {} /\ Invalid = {} /\ Mergeable = {} /\ Repeated = {}
        /\ Cardinality({}) = 0
    BY <1>2, FS_EmptySet DEF Done, Countable, Invalid, Mergeable, Repeated, Init
  <1>4. Alone /\ Fresh /\ Bookkept /\ OneDrive /\ InOrder /\ HasTable
    BY <1>1, <1>2 DEF Init, Alone, Busy, Fresh, NoTable, Bookkept, OneDrive, PlannedYet,
                      InOrder, Running, HasTable, Deduping
  <1>5. Counted /\ Finished /\ Fired
    BY <1>1, <1>3 DEF Init, Counted, Finished, Finalized, Fired, Ending
  <1>6. Accounts(0) /\ Marks(0) /\ Once(0)
    BY <1>1, <1>3 DEF Init, NoTable, Accounts, Marks, Once, Running
  <1> QED BY <1>4, <1>5, <1>6 DEF CleanInv, Books

\* A finished job has merged every band, no row is missing from its buckets,
\* and its rollups ran at most once, however often the file was staged again,
\* jobs were redelivered, or the window was refilled; its buckets add up
\* exactly unless repeats were counted by more than one drive.
THEOREM FinishedIsReconciled == Spec => []FinishedJobReconciles
  <1>1. IInv /\ Sure => FinishedJobReconciles
    <2> SUFFICES ASSUME IInv, CleanInv, Closed
                 PROVE  /\ Done = 1 .. job.size
                        /\ Buckets >= job.rows
                        /\ "plan" \notin hit \/ Repeats = {} => Buckets = job.rows
                        /\ rollups <= 1
      BY DEF FinishedJobReconciles, Sure, Clean
    <2>1. job.size \in Nat
      BY CleanCards DEF IInv
    <2>2. Done = 1 .. job.size
      <3>1. CASE job.size > 0
        BY <3>1, FinalizedMeans DEF Finalized, Closed
      <3>2. CASE job.size = 0
        <4>1. ~PlannedYet
          BY <3>2, PlannedMeans
        <4>2. Done = {}
          BY <4>1 DEF Done, PlannedYet
        <4> QED BY <3>2, <4>2
      <3> QED BY <2>1, <3>1, <3>2
    <2>3. PICK k \in Nat : Accounts(k) /\ Marks(k) /\ Once(k)
      BY DEF CleanInv, Books
    <2> DEFINE m == Cardinality(Mergeable)
               n == Cardinality(Invalid)
               d == Cardinality(Repeated)
    <2>4. m \in Nat /\ n \in Nat /\ d \in Nat
      BY CleanCards, RepeatedCount DEF IInv
    <2>5. m + n + d = job.size
      <3>1. /\ IsFiniteSet(Mergeable) /\ IsFiniteSet(Invalid) /\ IsFiniteSet(Repeated)
        BY CleanCards, RepeatedCount DEF IInv
      <3>2. Mergeable \cap Invalid = {} /\ (Mergeable \cup Invalid) \cap Repeated = {}
        BY IdentityAssumption DEF Mergeable, Invalid, Repeated
      <3>3. (Mergeable \cup Invalid) \cup Repeated = 1 .. job.size
        BY <2>2 DEF Mergeable, Invalid, Repeated
      <3>4. /\ IsFiniteSet(Mergeable \cup Invalid)
            /\ Cardinality(Mergeable \cup Invalid) = m + n - Cardinality({})
        BY <3>1, <3>2, FS_Union
      <3>5. Cardinality((Mergeable \cup Invalid) \cup Repeated)
              = Cardinality(Mergeable \cup Invalid) + d - Cardinality({})
        BY <3>1, <3>2, <3>4, FS_Union
      <3>6. Cardinality(1 .. job.size) = job.size /\ Cardinality({}) = 0
        BY <2>1, FS_Interval, FS_EmptySet
      <3> HIDE DEF m, n, d
      <3>7. Cardinality(Mergeable \cup Invalid) = m + n
        BY <2>4, <3>4, <3>6
      <3>8. Cardinality((Mergeable \cup Invalid) \cup Repeated) = m + n + d
        BY <2>4, <3>5, <3>6, <3>7
      <3>9. Cardinality((Mergeable \cup Invalid) \cup Repeated) = job.size
        BY <3>3, <3>6
      <3> QED BY <3>8, <3>9
    <2>6. /\ job.created + job.duplicate = k * m /\ job.rejected = k * n
          /\ job.rows = k * job.size
          /\ job.deduped >= k * d /\ (k <= 1 \/ d = 0 => job.deduped = k * d)
      BY <2>3 DEF Accounts, Marks
    <2>7. k * (m + n + d) = k * m + k * n + k * d
      BY <2>4
    <2>8. k * m \in Nat /\ k * n \in Nat /\ k * d \in Nat /\ job.deduped \in Nat
      BY <2>4, Multiples, CleanCards DEF IInv
    <2>9. job.rows = k * m + k * n + k * d
      BY <2>5, <2>6, <2>7
    <2>10. Buckets = k * m + k * n + job.deduped
      BY <2>6 DEF Buckets
    <2>11. k <= 1 \/ d = 0 \/ ("plan" \in hit /\ Repeats # {})
      <3>1. CASE Repeats = {} \/ job.size = 0
        <4>1. Repeated = {}
          BY <3>1 DEF Repeated
        <4> QED BY <4>1, FS_EmptySet
      <3>2. CASE Repeats # {} /\ job.size > 0
        <4>1. "plan" \notin hit => k <= 1
          BY <2>3, <3>2 DEF Once
        <4> QED BY <3>2, <4>1
      <3> QED BY <2>1, <3>1, <3>2
    <2>12. rollups <= 1
      BY DEF CleanInv, Fired
    <2> HIDE DEF m, n, d
    <2>13. Buckets >= job.rows
      BY <2>6, <2>8, <2>9, <2>10
    <2>14. "plan" \notin hit \/ Repeats = {} => Buckets = job.rows
      BY <2>6, <2>9, <2>10, <2>11
    <2> QED BY <2>2, <2>12, <2>13, <2>14
  <1>2. Spec => []Sure
    <2>1. Sure /\ IInv /\ [Next]_vars => Sure'
      BY SureStep
    <2> QED BY <2>1, InitSure, IInvHolds, PTL DEF Spec
  <1> QED BY <1>1, <1>2, IInvHolds, PTL

=============================================================================
