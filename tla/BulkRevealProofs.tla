-------------------------- MODULE BulkRevealProofs --------------------------
(***************************************************************************)
(* Proofs about one bulk-reveal job, for every selection, band size, price *)
(* and number of workers, resumes and faults: its lease keeps the ledger   *)
(* balanced, a completed job is drained, and a stopped job stops promptly. *)
(***************************************************************************)
EXTENDS BulkReveal, MoneyLemmas, TLAPS

(***************************************************************************)
(* Arithmetic.                                                             *)
(***************************************************************************)

\* The number after p, modulo c.
LEMMA NextModulo ==
  ASSUME NEW p \in Nat, NEW c \in Nat \ {0}
  PROVE  /\ p % c \in 0 .. c - 1
         /\ (p + 1) % c = IF p % c = c - 1 THEN 0 ELSE (p % c) + 1
  <1> DEFINE q == p \div c
             r == p % c
  <1>1. r \in 0 .. c - 1 /\ q \in Int /\ p = c * q + r
    OBVIOUS
  <1>2. \A k \in Int, s \in 0 .. c - 1 : (c * k + s) % c = s
    OBVIOUS
  <1>3. CASE r = c - 1
    <2>1. p + 1 = c * (q + 1) + 0
      BY <1>1, <1>3
    <2>2. q + 1 \in Int /\ 0 \in 0 .. c - 1
      BY <1>1
    <2> QED BY <1>1, <1>2, <1>3, <2>1, <2>2
  <1>4. CASE r # c - 1
    <2>1. p + 1 = c * q + (r + 1) /\ r + 1 \in 0 .. c - 1
      BY <1>1, <1>4
    <2> QED BY <1>1, <1>2, <1>4, <2>1
  <1> QED BY <1>3, <1>4

\* A set of rows has a first one.
LEMMA FirstIsFirst ==
  ASSUME NEW S, S \subseteq Nat, S # {}
  PROVE  First(S) \in S /\ \A y \in S : First(S) <= y
  <1> DEFINE R == OpToRel(<, Nat)
  <1>1. IsWellFoundedOn(R, Nat)
    BY NatLessThanWellFounded
  <1>2. \A x, y \in Nat : <<y, x>> \notin R => x <= y
    BY DEF OpToRel
  <1> HIDE DEF R
  <1>3. \E x \in S : \A y \in S : <<y, x>> \notin R
    BY <1>1, WFMin
  <1>4. \E x \in S : \A y \in S : x <= y
    BY <1>2, <1>3
  <1> QED BY <1>4 DEF First

LEMMA Modulo ==
  ASSUME NEW c \in Nat \ {0}
  PROVE  \A p \in Nat : p % c \in Nat
  <1>1. \A p \in Nat : p % c \in 0 .. c - 1
    BY NextModulo
  <1> QED BY <1>1

LEMMA Constants ==
  /\ BandRows \in Nat \ {0} /\ CheckEvery \in Nat \ {0}
  /\ Total \in Nat /\ UnitCost \in Nat /\ Funds \in Nat /\ MaxResumes \in Nat
  /\ MaxFaults \in Nat
  /\ Rows \subseteq Nat /\ IsFiniteSet(Rows) /\ Bands \subseteq Rows
  /\ Bands = {} => Rows = {}
  <1>1. /\ BandRows \in Nat \ {0} /\ CheckEvery \in Nat \ {0}
        /\ Total \in Nat /\ UnitCost \in Nat /\ Funds \in Nat /\ MaxResumes \in Nat
        /\ MaxFaults \in Nat
    BY SizesAssumption
  <1>2. IsFiniteSet(Rows) /\ Rows \subseteq Nat /\ Bands \subseteq Rows
    BY <1>1, FS_Interval DEF Rows, Bands
  <1>3. Bands = {} => Rows = {}
    <2>1. 0 % BandRows = 0
      BY <1>1
    <2> QED BY <1>1, <2>1 DEF Rows, Bands
  <1> QED BY <1>1, <1>2, <1>3

\* A band has at most BandRows rows.
LEMMA BandSize ==
  ASSUME NEW b \in Bands, NEW T, T \subseteq RowsOf(b)
  PROVE  /\ T \subseteq Rows /\ Cardinality(T) \in Nat /\ Cardinality(T) <= BandRows
  <1>1. b \in Int /\ BandRows \in Nat \ {0}
    BY Constants
  <1>2. T \in SUBSET (b .. b + BandRows - 1)
    BY <1>1, Constants DEF RowsOf
  <1>3. /\ IsFiniteSet(b .. b + BandRows - 1)
        /\ Cardinality(b .. b + BandRows - 1) = BandRows
    <2>1. b + BandRows - 1 \in Int /\ b <= b + BandRows - 1
      BY <1>1
    <2>2. /\ IsFiniteSet(b .. b + BandRows - 1)
          /\ Cardinality(b .. b + BandRows - 1)
               = IF b > b + BandRows - 1 THEN 0 ELSE (b + BandRows - 1) - b + 1
      BY <1>1, <2>1, FS_Interval
    <2> QED BY <1>1, <2>1, <2>2
  <1>4. IsFiniteSet(T) /\ Cardinality(T) <= Cardinality(b .. b + BandRows - 1)
    BY <1>2, <1>3, FS_Subset
  <1> QED BY <1>3, <1>4, FS_CardinalityType DEF RowsOf

\* Taking a member from a set of rows.
LEMMA OneFewer ==
  ASSUME NEW T \in SUBSET Rows, NEW r \in T
  PROVE  /\ Cardinality(T) \in Nat /\ Cardinality(T \ {r}) = Cardinality(T) - 1
         /\ Cardinality(T) > 0
  <1>1. IsFiniteSet(T)
    BY Constants, FS_Subset
  <1>2. Cardinality(T \ {r}) = Cardinality(T) - 1 /\ Cardinality(T) \in Nat
    BY <1>1, FS_RemoveElement, FS_CardinalityType
  <1>3. Cardinality(T) # 0
    BY <1>1, FS_EmptySet
  <1> QED BY <1>2, <1>3

(***************************************************************************)
(* What a worker remembers.                                                *)
(***************************************************************************)

\* How many rows a worker may have revealed for a stopped job: none when it has
\* just looked, CheckEvery when it is about to look.
Unlooked(m) ==
  CASE m.pc = "row"     -> IF m.processed > 0 /\ m.processed % CheckEvery = 0 /\ ~m.checked
                           THEN CheckEvery ELSE m.processed % CheckEvery
    [] m.pc = "outcome" -> (m.processed % CheckEvery) + 1
    [] m.pc \in {"count", "file", "finalize"} -> CheckEvery
    [] OTHER            -> 0

Pcs == {"idle", "drive", "list", "row", "outcome", "count", "file", "finalize"}

Fields == [pc : Pcs, band : Bands \cup {0}, todo : SUBSET Rows, processed : 0 .. BandRows,
           checked : BOOLEAN, outcome : Outcomes, charged : {0, UnitCost},
           spent : Nat, file : SUBSET Rows, overrun : Nat]

\* A worker processes the rows it listed, at most a band, and looks in time.
Memories ==
  {m \in Fields :
     /\ m.pc = "list" => m.band \in Bands /\ m.processed = 0
     /\ m.pc \in {"row", "outcome"} => m.processed + Cardinality(m.todo) <= BandRows
     /\ m.pc \in {"drive", "outcome"} => m.todo # {}
     /\ m.overrun <= Unlooked(m)}

Typed ==
  /\ job \in [status : {"none", "awaiting", "running", "paused", "completed", "cancelled"},
              leased : Nat, leasedSub : Nat, spent : Nat, file : SUBSET Rows]
  /\ row \in [Rows -> Outcomes \cup {"absent"}]
  /\ owner \in [Rows -> {"none", "job", "other"}]
  /\ price \in [Rows -> {0, UnitCost}]
  /\ request \in [inserting : BOOLEAN, unsent : Nat]
  /\ queue \in [drives : Nat, chunks : [Bands -> Nat]]
  /\ worker \in [Workers -> Memories]
  /\ resumes \in 0 .. MaxResumes
  /\ faults \in 0 .. MaxFaults

LEMMA IdleMemory == Idle \in Memories
  <1>1. Idle \in Fields
    BY Constants DEF Idle, Fields, Pcs, Outcomes
  <1>2. Unlooked(Idle) = 0
    BY DEF Idle, Unlooked
  <1> QED BY <1>1, <1>2 DEF Idle, Memories

\* A worker that has revealed nothing since it took its message.
LEMMA FreshMemory ==
  ASSUME NEW m \in Fields, m.pc \in {"idle", "drive", "list"}, m.overrun = 0,
         m.pc = "list" => m.band \in Bands /\ m.processed = 0,
         m.pc = "drive" => m.todo # {}
  PROVE  m \in Memories
  <1>1. Unlooked(m) = 0
    BY DEF Unlooked
  <1> QED BY <1>1 DEF Memories

LEMMA UnlookedBound ==
  ASSUME NEW m \in Memories
  PROVE  Unlooked(m) \in 0 .. CheckEvery
  <1>1. m.processed % CheckEvery \in 0 .. CheckEvery - 1 /\ CheckEvery \in Nat \ {0}
    <2>1. m.processed \in Nat /\ CheckEvery \in Nat \ {0}
      BY Constants DEF Memories, Fields
    <2> QED BY <2>1, NextModulo
  <1>2. CASE m.pc = "row"
    BY <1>1, <1>2 DEF Unlooked
  <1>3. CASE m.pc = "outcome"
    BY <1>1, <1>3 DEF Unlooked
  <1>4. CASE m.pc \notin {"row", "outcome"}
    BY <1>1, <1>4 DEF Unlooked
  <1> QED BY <1>2, <1>3, <1>4

LEMMA MemoryIsPrompt ==
  ASSUME NEW m \in Memories
  PROVE  m.overrun <= CheckEvery
  <1>1. m.overrun \in Nat /\ m.overrun <= Unlooked(m)
    BY DEF Memories, Fields
  <1> QED BY <1>1, UnlookedBound, Constants

(***************************************************************************)
(* Types.                                                                  *)
(***************************************************************************)
LEMMA TypedInit == Init => Typed
  <1> SUFFICES ASSUME Init PROVE Typed
    OBVIOUS
  <1>1. job \in [status : {"none", "awaiting", "running", "paused", "completed", "cancelled"},
                 leased : Nat, leasedSub : Nat, spent : Nat, file : SUBSET Rows]
    BY DEF Init
  <1>2. worker \in [Workers -> Memories]
    BY IdleMemory DEF Init
  <1> QED BY <1>1, <1>2, Constants DEF Init, Typed, Outcomes

LEMMA EstimateType == Estimate \in Nat
  <1>1. {r \in Billable : owner[r] = "none"} \in SUBSET Rows
    BY SelectionAssumption
  <1>2. Cardinality({r \in Billable : owner[r] = "none"}) \in Nat
    BY <1>1, Constants, FS_Subset, FS_CardinalityType
  <1> DEFINE n == Cardinality({r \in Billable : owner[r] = "none"})
  <1> HIDE DEF n
  <1>3. n \in Nat => UnitCost * n \in Nat
    BY Constants
  <1> QED BY <1>2, <1>3 DEF Estimate, n

LEMMA ApiTypes ==
  ASSUME Typed, Good(Keys, account), ApiStep \/ ApiCrash \/ \E r \in Rows : OtherReveal(r)
  PROVE  Typed'
  <1>1. CASE CreateJob
    BY <1>1, EstimateType DEF CreateJob, Typed
  <1>2. CASE InsertRows
    BY <1>2 DEF InsertRows, Typed, Outcomes
  <1>3. CASE Confirm
    <2>1. LeasedFromSub(account, job.leased) \in Nat
      BY GoodFields DEF Typed, LeasedFromSub, Least
    <2>2. request.unsent + 1 \in Nat
      BY DEF Typed
    <2> QED BY <1>3, <2>1, <2>2 DEF Confirm, Typed
  <1>4. CASE Send
    <2>1. request.unsent - 1 \in Nat /\ queue.drives + 1 \in Nat
      BY <1>4 DEF Typed, Send
    <2> QED BY <1>4, <2>1 DEF Send, Typed
  <1>5. CASE Pause \/ Cancel
    BY <1>5 DEF Pause, Cancel, Typed
  <1>6. CASE Resume
    <2>1. request.unsent + 1 \in Nat /\ resumes + 1 \in 0 .. MaxResumes
      BY <1>6, Constants DEF Typed, Resume
    <2> QED BY <1>6, <2>1 DEF Resume, Typed
  <1>7. CASE ApiCrash
    <2>1. faults + 1 \in 0 .. MaxFaults
      BY <1>7, Constants DEF Typed, ApiCrash, Breaks
    <2>2. request' \in [inserting : BOOLEAN, unsent : Nat]
      <3>1. request.unsent > 0 => request.unsent - 1 \in Nat
        BY DEF Typed
      <3> QED BY <1>7, <3>1 DEF ApiCrash, Typed
    <2> QED BY <1>7, <2>1, <2>2 DEF ApiCrash, Breaks, Typed
  <1>8. ASSUME NEW r \in Rows, OtherReveal(r) PROVE Typed'
    BY <1>8 DEF OtherReveal, Prices, Typed
  <1> QED BY <1>1, <1>2, <1>3, <1>4, <1>5, <1>6, <1>7, <1>8 DEF ApiStep

\* A worker that goes back to the queue, and one that dies.
LEMMA QueueTypes ==
  ASSUME Typed, NEW w \in Workers,
         \/ TakeDrive(w) \/ EnqueueChunk(w) \/ \E b \in Bands : TakeChunk(w, b)
         \/ WorkerCrash(w) \/ ChunkFails(w)
  PROVE  Typed'
  <1>t. /\ worker[w] \in Memories /\ worker[w] \in Fields
        /\ queue \in [drives : Nat, chunks : [Bands -> Nat]]
    BY DEF Typed, Memories
  <1>q. \A b : [queue EXCEPT !.chunks[b] = @ + 1] \in [drives : Nat, chunks : [Bands -> Nat]]
    <2> TAKE b
    <2>1. [queue.chunks EXCEPT ![b] = @ + 1] \in [Bands -> Nat]
      <3>1. \A a \in Bands : queue.chunks[a] + 1 \in Nat
        BY <1>t
      <3> QED BY <1>t, <3>1
    <2> QED BY <1>t, <2>1
  <1>1. CASE TakeDrive(w)
    <2>1. Bands # {} => [Idle EXCEPT !.pc = "drive", !.todo = Bands] \in Memories
      <3> SUFFICES ASSUME Bands # {}
                   PROVE  [Idle EXCEPT !.pc = "drive", !.todo = Bands] \in Memories
        OBVIOUS
      <3> DEFINE m == [Idle EXCEPT !.pc = "drive", !.todo = Bands]
      <3>1. m \in Fields /\ m.pc = "drive" /\ m.overrun = 0 /\ m.todo = Bands
        <4>1. Idle \in Fields /\ Idle.overrun = 0
          BY IdleMemory DEF Memories, Idle
        <4> QED BY <4>1, Constants DEF Fields, Pcs
      <3> HIDE DEF m
      <3>2. m \in Memories
        BY <3>1, FreshMemory
      <3> QED BY <3>2 DEF m
    <2>2. worker' \in [Workers -> Memories]
      BY <1>1, <2>1 DEF TakeDrive, Typed
    <2>3. queue' \in [drives : Nat, chunks : [Bands -> Nat]]
      <3>1. queue.drives - 1 \in Nat
        BY <1>1, <1>t DEF TakeDrive
      <3> QED BY <1>1, <1>t, <3>1 DEF TakeDrive
    <2>4. /\ job' \in [status : {"none", "awaiting", "running", "paused", "completed", "cancelled"},
                       leased : Nat, leasedSub : Nat, spent : Nat, file : SUBSET Rows]
          /\ UNCHANGED <<row, owner, price, request, resumes, faults>>
      BY <1>1 DEF TakeDrive, Typed
    <2> QED BY <2>2, <2>3, <2>4 DEF Typed
  <1>2. CASE EnqueueChunk(w)
    <2> DEFINE rest == worker[w].todo \ {First(worker[w].todo)}
               m    == [worker[w] EXCEPT !.todo = rest]
    <2>1. rest # {} => m \in Memories
      <3>1. m \in Fields
        BY <1>t DEF Fields
      <3>2. worker[w].pc = "drive"
        BY <1>2 DEF EnqueueChunk
      <3>3. Unlooked(m) = 0 /\ Unlooked(worker[w]) = 0
        BY <3>2, <1>t DEF Unlooked, Fields
      <3> QED BY <1>t, <3>1, <3>2, <3>3 DEF Memories, Fields
    <2>2. worker' = [worker EXCEPT ![w] = IF rest = {} THEN Idle ELSE m]
      BY <1>2 DEF EnqueueChunk, Typed
    <2>3. worker' \in [Workers -> Memories]
      BY <2>1, <2>2, IdleMemory DEF Typed
    <2>4. queue' \in [drives : Nat, chunks : [Bands -> Nat]]
      BY <1>2, <1>q DEF EnqueueChunk
    <2> QED BY <1>2, <2>3, <2>4 DEF EnqueueChunk, Typed
  <1>3. ASSUME NEW b \in Bands, TakeChunk(w, b) PROVE Typed'
    <2>1. [Idle EXCEPT !.pc = "list", !.band = b] \in Memories
      <3> DEFINE m == [Idle EXCEPT !.pc = "list", !.band = b]
      <3>1. m \in Fields /\ m.pc = "list" /\ m.overrun = 0 /\ m.band = b
            /\ m.processed = 0
        <4>1. Idle \in Fields /\ Idle.overrun = 0 /\ Idle.processed = 0
          BY IdleMemory DEF Memories, Idle
        <4> QED BY <4>1, Constants DEF Fields, Pcs
      <3> HIDE DEF m
      <3>2. m \in Memories
        BY <3>1, FreshMemory
      <3> QED BY <3>2 DEF m
    <2>2. worker' \in [Workers -> Memories]
      BY <1>3, <2>1 DEF TakeChunk, Typed
    <2>3. queue' \in [drives : Nat, chunks : [Bands -> Nat]]
      <3>1. queue.chunks[b] - 1 \in Nat
        <4>1. queue.chunks[b] > 0
          BY <1>3 DEF TakeChunk
        <4> QED BY <1>t, <4>1
      <3>2. [queue.chunks EXCEPT ![b] = @ - 1] \in [Bands -> Nat]
        BY <1>t, <3>1
      <3> QED BY <1>3, <1>t, <3>2 DEF TakeChunk
    <2> QED BY <1>3, <2>2, <2>3 DEF TakeChunk, Typed
  <1>4. CASE WorkerCrash(w) \/ ChunkFails(w)
    <2>1. faults + 1 \in 0 .. MaxFaults
      BY <1>4, Constants DEF Typed, WorkerCrash, ChunkFails, Breaks
    <2>2. worker' \in [Workers -> Memories]
      BY <1>4, IdleMemory DEF WorkerCrash, ChunkFails, Typed
    <2>3. queue' \in [drives : Nat, chunks : [Bands -> Nat]]
      <3>1. queue.drives + 1 \in Nat
        BY <1>t
      <3>2. [queue EXCEPT !.drives = @ + 1] \in [drives : Nat, chunks : [Bands -> Nat]]
        BY <1>t, <3>1
      <3> QED BY <1>4, <1>t, <1>q, <3>2 DEF WorkerCrash, ChunkFails
    <2> QED BY <1>4, <2>1, <2>2, <2>3 DEF WorkerCrash, ChunkFails, Breaks, Typed
  <1> QED BY <1>1, <1>2, <1>3, <1>4

\* Listing a band.
LEMMA ListTypes ==
  ASSUME Typed, NEW w \in Workers, ListRows(w)
  PROVE  Typed'
  <1> DEFINE rows == {r \in RowsOf(worker[w].band) : row[r] = "queued"}
             m    == [worker[w] EXCEPT !.pc = "row", !.todo = rows]
  <1>1. /\ worker[w] \in Memories /\ worker[w] \in Fields /\ worker[w].pc = "list"
        /\ worker[w].band \in Bands /\ worker[w].overrun <= Unlooked(worker[w])
        /\ worker[w].processed \in Nat /\ worker[w].overrun \in Nat
    BY DEF Typed, Memories, ListRows, Fields
  <1>2. worker[w].overrun = 0
    <2>1. Unlooked(worker[w]) = 0
      BY <1>1 DEF Unlooked
    <2> QED BY <1>1, <2>1
  <1>p. worker[w].processed = 0
    BY <1>1 DEF Memories
  <1>3. /\ rows \subseteq Rows /\ Cardinality(rows) \in Nat
        /\ Cardinality(rows) <= BandRows
    BY <1>1, BandSize
  <1> HIDE DEF rows
  <1>4. /\ m \in Fields /\ m.pc = "row" /\ m.todo = rows /\ m.overrun = 0 /\ m.processed = 0
    BY <1>1, <1>2, <1>3, <1>p DEF Fields, Pcs
  <1> HIDE DEF m
  <1>5. Unlooked(m) \in Nat
    <2>1. m.processed % CheckEvery \in Nat
      BY <1>4, NextModulo, Constants
    <2> QED BY <1>4, <2>1, Constants DEF Unlooked
  <1>6. m \in Memories
    BY <1>3, <1>4, <1>5, Constants DEF Memories
  <1>7. worker' = [worker EXCEPT ![w] = m]
        /\ UNCHANGED <<account, job, row, owner, price, request, queue, resumes, faults>>
    BY DEF ListRows, Remember, m, rows
  <1> QED BY <1>6, <1>7 DEF Typed

LEMMA LookTypes ==
  ASSUME Typed, NEW w \in Workers, CheckStatus(w)
  PROVE  Typed'
  <1> DEFINE look == [worker[w] EXCEPT !.checked = TRUE, !.overrun = 0]
             stop == [worker[w] EXCEPT !.todo = {}]
  <1>1. /\ worker[w] \in Memories /\ worker[w] \in Fields /\ worker[w].pc = "row"
        /\ worker[w].processed \in Nat /\ worker[w].overrun \in Nat
        /\ worker[w].overrun <= Unlooked(worker[w])
        /\ worker[w].processed + Cardinality(worker[w].todo) <= BandRows
        /\ worker[w].processed <= BandRows
    BY DEF Typed, Memories, CheckStatus, Fields
  <1>2. look \in Memories
    <2>1. look \in Fields /\ look.pc = "row" /\ look.todo = worker[w].todo /\ look.overrun = 0
          /\ look.processed = worker[w].processed /\ look.checked
      BY <1>1 DEF Fields
    <2> HIDE DEF look
    <2>2. Unlooked(look) \in Nat
      <3>1. look.processed % CheckEvery \in Nat
        BY <1>1, <2>1, Modulo, Constants
      <3> QED BY <2>1, <3>1 DEF Unlooked
    <2> QED BY <1>1, <2>1, <2>2 DEF Memories
  <1>3. stop \in Memories
    <2>1. stop \in Fields /\ stop.pc = "row" /\ stop.todo = {}
          /\ stop.overrun = worker[w].overrun /\ stop.checked = worker[w].checked
          /\ stop.processed = worker[w].processed
      BY <1>1 DEF Fields
    <2> HIDE DEF stop
    <2>2. Unlooked(stop) = Unlooked(worker[w])
      BY <1>1, <2>1 DEF Unlooked
    <2>3. stop.processed + Cardinality(stop.todo) <= BandRows
      BY <1>1, <2>1, FS_EmptySet
    <2> QED BY <1>1, <2>1, <2>2, <2>3 DEF Memories
  <1> HIDE DEF look, stop
  <1>4. /\ worker' = [worker EXCEPT ![w] = IF job.status = "running" THEN look ELSE stop]
        /\ UNCHANGED <<account, job, row, owner, price, request, queue, resumes, faults>>
    BY DEF CheckStatus, Remember, look, stop
  <1> QED BY <1>2, <1>3, <1>4 DEF Typed

\* A reveal adds at most one to the overrun, when no look is due.
LEMMA RevealTypes ==
  ASSUME Typed, NEW w \in Workers, RevealRow(w)
  PROVE  Typed'
  <1>1. /\ worker[w] \in Memories /\ worker[w] \in Fields /\ worker[w].pc = "row"
        /\ worker[w].processed \in Nat /\ worker[w].overrun \in Nat
        /\ worker[w].overrun <= Unlooked(worker[w])
        /\ worker[w].processed + Cardinality(worker[w].todo) <= BandRows
        /\ worker[w].todo # {}
    BY DEF Typed, Memories, RevealRow, Fields
  <1>2. /\ worker[w].processed % CheckEvery \in Nat
        /\ worker[w].overrun <= worker[w].processed % CheckEvery
    <2>1. worker[w].processed % CheckEvery \in Nat
      BY <1>1, Modulo, Constants
    <2>2. ~(worker[w].processed > 0 /\ worker[w].processed % CheckEvery = 0 /\ ~worker[w].checked)
      BY DEF RevealRow, CheckDue
    <2>3. Unlooked(worker[w]) = worker[w].processed % CheckEvery
      BY <1>1, <2>2 DEF Unlooked
    <2> QED BY <1>1, <2>1, <2>3
  <1>3. ASSUME NEW o \in Outcomes, NEW c \in {0, UnitCost}, Revealed(w, o, c)
        PROVE  worker' \in [Workers -> Memories]
    <2> DEFINE over == IF job.status = "running" THEN 0 ELSE worker[w].overrun + 1
               m    == [worker[w] EXCEPT !.pc = "outcome", !.outcome = o, !.charged = c,
                                         !.overrun = over]
    <2>1. over \in Nat /\ over <= (worker[w].processed % CheckEvery) + 1
      BY <1>1, <1>2
    <2>2. worker' = [worker EXCEPT ![w] = m]
      BY <1>3 DEF Revealed, Typed
    <2> HIDE DEF over
    <2>3. /\ m \in Fields /\ m.pc = "outcome" /\ m.todo = worker[w].todo
          /\ m.processed = worker[w].processed /\ m.overrun = over
      BY <1>1, <2>1 DEF Fields, Pcs
    <2> HIDE DEF m
    <2>4. Unlooked(m) = (worker[w].processed % CheckEvery) + 1
      BY <2>3 DEF Unlooked
    <2>5. m \in Memories
      BY <1>1, <2>1, <2>3, <2>4 DEF Memories
    <2> QED BY <2>2, <2>5 DEF Typed
  <1>4. worker' \in [Workers -> Memories]
    BY <1>3 DEF RevealRow, Prices, Outcomes
  <1>5. /\ owner' \in [Rows -> {"none", "job", "other"}]
        /\ price' \in [Rows -> {0, UnitCost}]
    BY DEF RevealRow, Prices, Typed
  <1> QED BY <1>4, <1>5 DEF RevealRow, Typed

\* A recorded row counts: when the count reaches the interval, a look is due.
LEMMA RecordTypes ==
  ASSUME Typed, NEW w \in Workers, RecordRow(w)
  PROVE  Typed'
  <1> DEFINE old  == worker[w]
             r    == First(old.todo)
             m    == [old EXCEPT !.pc = "row", !.todo = old.todo \ {r},
                                 !.processed = old.processed + 1, !.checked = FALSE,
                                 !.spent = old.spent + old.charged]
  <1>1. /\ old \in Memories /\ old \in Fields /\ old.pc = "outcome"
        /\ old.processed \in Nat /\ old.overrun \in Nat /\ old.todo \in SUBSET Rows
        /\ old.overrun <= Unlooked(old)
        /\ old.processed + Cardinality(old.todo) <= BandRows
        /\ old.todo # {}
        /\ old.outcome \in Outcomes
        /\ old.spent + old.charged \in Nat
    <2>1. /\ old \in Memories /\ old \in Fields /\ old.pc = "outcome"
      BY DEF Typed, RecordRow, Memories
    <2>2. old.spent + old.charged \in Nat
      BY <2>1, Constants DEF Fields
    <2> QED BY <2>1, <2>2 DEF Memories, Fields
  <1>2. old.overrun <= (old.processed % CheckEvery) + 1
    BY <1>1 DEF Unlooked
  <1>3. r \in old.todo
    BY <1>1, Constants, FirstIsFirst
  <1>4. /\ Cardinality(old.todo \ {r}) = Cardinality(old.todo) - 1
        /\ Cardinality(old.todo) \in Nat /\ Cardinality(old.todo) > 0
    BY <1>1, <1>3, OneFewer
  <1>5. row' = [row EXCEPT ![r] = IF @ = "queued" THEN old.outcome ELSE @]
        /\ worker' = [worker EXCEPT ![w] = m]
        /\ UNCHANGED <<account, job, owner, price, request, queue, resumes, faults>>
    <2>1. worker \in [Workers -> Memories]
      BY DEF Typed
    <2>2. worker' = [worker EXCEPT ![w] = m]
      BY <2>1 DEF RecordRow
    <2>3. row' = [row EXCEPT ![r] = IF @ = "queued" THEN old.outcome ELSE @]
      BY DEF RecordRow
    <2> QED BY <2>2, <2>3 DEF RecordRow
  <1> HIDE DEF r
  <1>6. /\ m \in Fields /\ m.pc = "row" /\ m.todo = old.todo \ {r} /\ ~m.checked
        /\ m.processed = old.processed + 1 /\ m.overrun = old.overrun
    <2>1. old.processed + 1 \in 0 .. BandRows
      BY <1>1, <1>4, Constants
    <2> QED BY <1>1, <2>1 DEF Fields, Pcs
  <1> HIDE DEF m
  <1>7. m.overrun <= Unlooked(m)
    <2>1. /\ old.processed % CheckEvery \in 0 .. CheckEvery - 1
          /\ m.processed % CheckEvery =
               IF old.processed % CheckEvery = CheckEvery - 1 THEN 0
               ELSE (old.processed % CheckEvery) + 1
      BY <1>1, <1>6, NextModulo, Constants
    <2>2. Unlooked(m) = IF m.processed % CheckEvery = 0 THEN CheckEvery
                        ELSE m.processed % CheckEvery
      BY <1>1, <1>6 DEF Unlooked
    <2> QED BY <1>1, <1>2, <1>6, <2>1, <2>2, Constants
  <1>8. m.processed + Cardinality(m.todo) <= BandRows
    BY <1>1, <1>4, <1>6
  <1>9. m \in Memories
    BY <1>6, <1>7, <1>8 DEF Memories
  <1>10. row' \in [Rows -> Outcomes \cup {"absent"}]
    BY <1>1, <1>5 DEF Typed
  <1> QED BY <1>5, <1>9, <1>10 DEF Typed

\* The end of a chunk.
LEMMA EndTypes ==
  ASSUME Typed, NEW w \in Workers,
         AddProgress(w) \/ CountQueued(w) \/ BuildFile(w) \/ Finalize(w)
  PROVE  Typed'
  <1>1. /\ worker[w] \in Memories /\ worker[w] \in Fields
        /\ worker[w].overrun \in Nat /\ worker[w].overrun <= CheckEvery
    BY MemoryIsPrompt DEF Typed, Memories, Fields
  <1>2. ASSUME NEW pc \in {"count", "file", "finalize"}, NEW f \in SUBSET Rows
        PROVE  [worker[w] EXCEPT !.pc = pc, !.file = f] \in Memories
    <2> DEFINE m == [worker[w] EXCEPT !.pc = pc, !.file = f]
    <2>1. m \in Fields /\ m.pc = pc /\ m.overrun = worker[w].overrun
      BY <1>1, <1>2 DEF Fields, Pcs
    <2> HIDE DEF m
    <2>2. Unlooked(m) = CheckEvery
      BY <1>2, <2>1 DEF Unlooked
    <2>3. m \in Memories
      BY <1>1, <1>2, <2>1, <2>2 DEF Memories
    <2> QED BY <2>3 DEF m
  <1>3. ASSUME NEW pc \in {"count", "file", "finalize"}
        PROVE  [worker[w] EXCEPT !.pc = pc] \in Memories
    <2>1. [worker[w] EXCEPT !.pc = pc] = [worker[w] EXCEPT !.pc = pc, !.file = worker[w].file]
      BY <1>1 DEF Fields
    <2> QED BY <1>1, <1>2, <2>1 DEF Fields
  <1>4. CASE AddProgress(w)
    <2>1. job.spent + worker[w].spent \in Nat
      BY <1>1 DEF Typed, Fields
    <2>2. worker' \in [Workers -> Memories]
      <3>1. worker' = [worker EXCEPT ![w] = [worker[w] EXCEPT !.pc = "count"]]
        BY <1>4 DEF AddProgress, Typed
      <3> QED BY <1>3, <3>1 DEF Typed
    <2> QED BY <1>4, <2>1, <2>2 DEF AddProgress, Typed
  <1>5. CASE CountQueued(w)
    <2>1. worker' \in [Workers -> Memories]
      BY <1>3, <1>5, IdleMemory DEF CountQueued, Remember, Typed
    <2> QED BY <1>5, <2>1 DEF CountQueued, Remember, Typed
  <1>6. CASE BuildFile(w)
    <2>1. worker' \in [Workers -> Memories]
      <3>1. Delivered \in SUBSET Rows
        BY DEF Delivered
      <3> QED BY <1>2, <1>6, <3>1 DEF BuildFile, Remember, Typed
    <2> QED BY <1>6, <2>1 DEF BuildFile, Remember, Typed
  <1>7. CASE Finalize(w)
    <2>1. worker' \in [Workers -> Memories]
      BY <1>7, IdleMemory DEF Finalize, Typed
    <2>2. job' \in [status : {"none", "awaiting", "running", "paused", "completed", "cancelled"},
                    leased : Nat, leasedSub : Nat, spent : Nat, file : SUBSET Rows]
      BY <1>1, <1>7 DEF Finalize, Typed, Fields
    <2> QED BY <1>7, <2>1, <2>2 DEF Finalize, Typed
  <1> QED BY <1>4, <1>5, <1>6, <1>7

LEMMA TypedStep ==
  ASSUME Typed, Good(Keys, account), [Next]_vars
  PROVE  Typed'
  <1>1. CASE UNCHANGED vars
    BY <1>1 DEF vars, Typed
  <1> QED BY <1>1, ApiTypes, QueueTypes, ListTypes, LookTypes, RevealTypes, RecordTypes, EndTypes
          DEF Next, WorkerStep

(***************************************************************************)
(* The ledger.                                                             *)
(***************************************************************************)

\* A key is not posted before the status, or the claim, that posts it.
KeysFollow ==
  /\ <<"lease">> \in account.keys => job.status \notin {"none", "awaiting"}
  /\ <<"release">> \in account.keys => job.status \in {"completed", "cancelled"}
  /\ \A r \in Rows : <<"reveal", r>> \in account.keys => owner[r] # "none"

AccountInv == Good(Keys, account) /\ KeysFollow

LEMMA KeyFacts ==
  /\ <<"lease">> \in Keys /\ <<"release">> \in Keys /\ \A r \in Rows : <<"reveal", r>> \in Keys
  /\ <<"lease">> # <<"release">>
  /\ \A r \in Rows : <<"reveal", r>> # <<"lease">> /\ <<"reveal", r>> # <<"release">>
  /\ \A r, q \in Rows : <<"reveal", r>> = <<"reveal", q>> => r = q
  BY DEF Keys

LEMMA AccountInit == Init => AccountInv
  <1> SUFFICES ASSUME Init PROVE AccountInv
    OBVIOUS
  <1>1. /\ account.total = Funds /\ account.sub = 0 /\ account.sum = Funds
        /\ account.keys = {} /\ account \in Accounts(Keys)
    <2>1. account = [total |-> Funds, sub |-> 0, sum |-> Funds, keys |-> {}]
      BY DEF Init, EmptyAccount
    <2>2. Funds \in Int
      BY Constants
    <2> QED BY <2>1, <2>2 DEF Accounts
  <1> QED BY <1>1, Constants DEF AccountInv, KeysFollow, Good, Sound, Balanced

\* A release, by a cancel, by the last chunk or by an empty drive, posts at most
\* its own key.
LEMMA ReleasePosts ==
  ASSUME Typed, AccountInv, job.status \in {"running", "paused"}
  PROVE  /\ Good(Keys, ReleaseLease)
         /\ ReleaseLease.keys \subseteq account.keys \cup {<<"release">>}
  <1>1. <<"release">> \notin account.keys /\ <<"release">> \in Keys
    BY KeyFacts DEF AccountInv, KeysFollow
  <1>2. job.leased \in Nat /\ job.leasedSub \in Nat /\ job.spent \in Nat
    BY DEF Typed
  <1>3. Advances(Keys, account, ReleaseLease, {<<"release">>})
    BY <1>1, <1>2, ReleaseGood DEF AccountInv, ReleaseLease
  <1> QED BY <1>3 DEF Advances

LEMMA ReleaseKeeps ==
  ASSUME Typed, AccountInv, job.status \in {"running", "paused"},
         account' = ReleaseLease, owner' = owner,
         job'.status \in {"completed", "cancelled"}
  PROVE  AccountInv'
  BY ReleasePosts, KeyFacts DEF AccountInv, KeysFollow

\* Steps that move no credits; a status goes forward, a claim stays.
NoCredits ==
  /\ account' = account
  /\ \A r \in Rows : owner[r] # "none" => owner'[r] # "none"
  /\ \/ job'.status = job.status
     \/ job.status = "none"
     \/ job.status = "awaiting" /\ job'.status = "cancelled"
     \/ job.status \in {"running", "paused"} /\ job'.status \in {"running", "paused"}

LEMMA NoCreditsKeeps ==
  ASSUME AccountInv, NoCredits
  PROVE  AccountInv'
  BY DEF AccountInv, KeysFollow, NoCredits

LEMMA AccountApi ==
  ASSUME Typed, AccountInv, ApiStep \/ ApiCrash \/ \E r \in Rows : OtherReveal(r)
  PROVE  AccountInv'
  <1>1. CASE CreateJob
    <2>1. NoCredits
      BY <1>1 DEF CreateJob, NoCredits, Typed
    <2> QED BY <2>1, NoCreditsKeeps
  <1>2. CASE InsertRows \/ Send \/ ApiCrash
    <2>1. NoCredits
      BY <1>2 DEF InsertRows, Send, ApiCrash, NoCredits, Typed
    <2> QED BY <2>1, NoCreditsKeeps
  <1>3. CASE Confirm
    <2>1. <<"lease">> \notin account.keys /\ <<"lease">> \in Keys
      BY <1>3, KeyFacts DEF Confirm, AccountInv, KeysFollow
    <2>2. Advances(Keys, account, account', {<<"lease">>})
      BY <1>3, <2>1, LeaseGood DEF Confirm, AccountInv, Typed
    <2>3. Good(Keys, account') /\ account'.keys \subseteq account.keys \cup {<<"lease">>}
      BY <2>2 DEF Advances
    <2>4. job.status = "awaiting" /\ job'.status = "running" /\ owner' = owner
      BY <1>3 DEF Confirm, Typed
    <2> QED BY <2>3, <2>4, KeyFacts DEF AccountInv, KeysFollow
  <1>4. CASE Pause \/ Resume
    <2>1. NoCredits
      BY <1>4 DEF Pause, Resume, NoCredits, Typed
    <2> QED BY <2>1, NoCreditsKeeps
  <1>5. CASE Cancel
    <2>1. /\ job.status \in {"awaiting", "running", "paused"}
          /\ job'.status = "cancelled" /\ owner' = owner
          /\ account' = IF job.status = "awaiting" THEN account ELSE ReleaseLease
      BY <1>5 DEF Cancel, Typed
    <2>2. CASE job.status = "awaiting"
      <3>1. NoCredits
        BY <2>1, <2>2 DEF NoCredits
      <3> QED BY <3>1, NoCreditsKeeps
    <2>3. CASE job.status # "awaiting"
      <3>1. job.status \in {"running", "paused"} /\ account' = ReleaseLease
        BY <2>1, <2>3
      <3> QED BY <2>1, <3>1, ReleaseKeeps
    <2> QED BY <2>2, <2>3
  <1>6. ASSUME NEW r \in Rows, OtherReveal(r) PROVE AccountInv'
    <2>1. PICK p \in Prices(r) :
            /\ CanCover(account, p)
            /\ account' = IF p = 0 THEN account ELSE Spend(account, account, <<"reveal", r>>, p)
      BY <1>6 DEF OtherReveal
    <2>2. p \in Nat
      BY Constants DEF Prices
    <2>3. <<"reveal", r>> \notin account.keys /\ <<"reveal", r>> \in Keys
      BY <1>6, KeyFacts DEF OtherReveal, AccountInv, KeysFollow
    <2>4. Good(Keys, account') /\ account'.keys \subseteq account.keys \cup {<<"reveal", r>>}
      <3>1. CASE p = 0
        BY <2>1, <3>1 DEF AccountInv
      <3>2. CASE p # 0
        <4>1. Advances(Keys, account, account', {<<"reveal", r>>})
          BY <2>1, <2>2, <2>3, <3>2, SpendGood DEF AccountInv
        <4> QED BY <4>1 DEF Advances
      <3> QED BY <3>1, <3>2
    <2>5. job' = job /\ owner' = [owner EXCEPT ![r] = "other"]
      BY <1>6 DEF OtherReveal
    <2> QED BY <2>4, <2>5, KeyFacts DEF AccountInv, KeysFollow, Typed
  <1> QED BY <1>1, <1>2, <1>3, <1>4, <1>5, <1>6 DEF ApiStep

LEMMA AccountWorker ==
  ASSUME Typed, AccountInv, NEW w \in Workers, WorkerStep(w) \/ WorkerCrash(w) \/ ChunkFails(w)
  PROVE  AccountInv'
  <1>1. CASE TakeDrive(w)
    <2>1. CASE job.status = "running" /\ Bands = {}
      <3>1. job'.status = "completed" /\ account' = ReleaseLease /\ owner' = owner
        BY <1>1, <2>1 DEF TakeDrive, Typed
      <3> QED BY <2>1, <3>1, ReleaseKeeps
    <2>2. CASE ~(job.status = "running" /\ Bands = {})
      <3>1. NoCredits
        BY <1>1, <2>2 DEF TakeDrive, NoCredits
      <3> QED BY <3>1, NoCreditsKeeps
    <2> QED BY <2>1, <2>2
  <1>2. CASE Finalize(w)
    <2>1. CASE job.status = "running"
      <3>1. job'.status = "completed" /\ account' = ReleaseLease /\ owner' = owner
        BY <1>2, <2>1 DEF Finalize, Typed
      <3> QED BY <2>1, <3>1, ReleaseKeeps
    <2>2. CASE job.status # "running"
      <3>1. NoCredits
        BY <1>2, <2>2 DEF Finalize, NoCredits
      <3> QED BY <3>1, NoCreditsKeeps
    <2> QED BY <2>1, <2>2
  <1>3. CASE RevealRow(w)
    <2>1. \A r \in Rows : owner[r] # "none" => owner'[r] # "none"
      BY <1>3 DEF RevealRow, Typed
    <2>2. NoCredits
      BY <1>3, <2>1 DEF RevealRow, NoCredits
    <2> QED BY <2>2, NoCreditsKeeps
  <1>4. CASE AddProgress(w)
    <2>1. NoCredits
      BY <1>4 DEF AddProgress, NoCredits, Typed
    <2> QED BY <2>1, NoCreditsKeeps
  <1>5. CASE \/ EnqueueChunk(w) \/ \E b \in Bands : TakeChunk(w, b)
             \/ ListRows(w) \/ CheckStatus(w) \/ RecordRow(w) \/ CountQueued(w) \/ BuildFile(w)
             \/ WorkerCrash(w) \/ ChunkFails(w)
    <2>1. account' = account /\ owner' = owner /\ job' = job
      BY <1>5 DEF EnqueueChunk, TakeChunk, ListRows, CheckStatus, RecordRow, CountQueued,
         BuildFile, Remember, WorkerCrash, ChunkFails
    <2>2. NoCredits
      BY <2>1 DEF NoCredits
    <2> QED BY <2>2, NoCreditsKeeps
  <1> QED BY <1>1, <1>2, <1>3, <1>4, <1>5 DEF WorkerStep

LedgerInv == Typed /\ AccountInv

LEMMA LedgerInvKept ==
  /\ Init => LedgerInv
  /\ LedgerInv /\ [Next]_vars => LedgerInv'
  <1>1. Init => LedgerInv
    BY TypedInit, AccountInit DEF LedgerInv
  <1>2. ASSUME LedgerInv, Next PROVE AccountInv'
    BY <1>2, AccountApi, AccountWorker DEF LedgerInv, Next
  <1>3. ASSUME LedgerInv, UNCHANGED vars PROVE AccountInv'
    BY <1>3 DEF vars, LedgerInv, AccountInv, KeysFollow
  <1>4. ASSUME LedgerInv, [Next]_vars PROVE Typed'
    BY <1>4, TypedStep DEF LedgerInv, AccountInv
  <1> QED BY <1>1, <1>2, <1>3, <1>4 DEF LedgerInv

(***************************************************************************)
(* Every reachable state has the declared types.                           *)
(***************************************************************************)
THEOREM TypeCorrect == Spec => []TypeOK
  <1>1. LedgerInv => TypeOK
    <2>1. Memories \subseteq Fields
      BY DEF Memories
    <2> QED BY <2>1 DEF LedgerInv, AccountInv, Good, Typed, Fields, Pcs, TypeOK
  <1> QED BY <1>1, LedgerInvKept, PTL DEF Spec

(***************************************************************************)
(* The lease is taken and released once, whoever confirms, cancels or      *)
(* finalizes: the counter equals the ledger and is never overdrawn.        *)
(***************************************************************************)
THEOREM LeaseReconciles == Spec => []LedgerReconciles
  <1>1. LedgerInv => LedgerReconciles
    BY DEF LedgerInv, AccountInv, Good, LedgerReconciles
  <1> QED BY <1>1, LedgerInvKept, PTL DEF Spec

(***************************************************************************)
(* A cancel or a pause stops a band promptly.                              *)
(***************************************************************************)
THEOREM StopIsPrompt == Spec => []StopsPromptly
  <1>1. LedgerInv => StopsPromptly
    BY MemoryIsPrompt DEF LedgerInv, Typed, StopsPromptly
  <1> QED BY <1>1, LedgerInvKept, PTL DEF Spec

(***************************************************************************)
(* The drained job, when no job is confirmed before its rows are written.  *)
(***************************************************************************)
Written == \A r \in Rows : row[r] # "absent"
Worked  == Written /\ \A r \in Rows : row[r] # "queued"

\* A job runs, and a worker works, on written rows; a worker that found none
\* queued goes on to the file, and no row changes any more.
DrainInv ==
  /\ job.status = "none" => ~request.inserting
  /\ job.status = "none" \/ request.inserting => \A r \in Rows : row[r] = "absent"
  /\ job.status \in {"running", "paused", "completed"} => Written
  /\ job.status = "completed" => Worked /\ job.file = Delivered
  /\ \A w \in Workers :
       /\ worker[w].pc # "idle" => Written
       /\ worker[w].pc \in {"file", "finalize"} => Worked
       /\ worker[w].pc = "finalize" => worker[w].file = Delivered

LEMMA DrainInit == Init => DrainInv
  BY DEF Init, Idle, DrainInv

\* A change that leaves the rows alone, starts a worker only on written rows,
\* and completes the job only with the file of its worked rows.
Follows ==
  /\ row' = row
  /\ request'.inserting => request.inserting
  /\ job'.status = "none" => job.status = "none"
  /\ job'.status \in {"running", "paused"} => Written
  /\ job'.status = "completed" =>
       \/ job' = job
       \/ Worked /\ job'.file = Delivered
  /\ \A w \in Workers :
       \/ worker'[w] = worker[w]
       \/ worker'[w].pc = "idle"
       \/ Written /\ worker'[w].pc \in {"drive", "list", "row", "outcome", "count"}
       \/ Worked /\ worker'[w].pc = "file"
       \/ Worked /\ worker'[w].pc = "finalize" /\ worker'[w].file = Delivered

LEMMA FollowsKeeps ==
  ASSUME DrainInv, Follows
  PROVE  DrainInv'
  <1>1. Delivered' = Delivered /\ Written' = Written /\ Worked' = Worked
    BY DEF Follows, Delivered, Written, Worked
  <1> HIDE DEF Delivered, Written, Worked
  <1>2. /\ job'.status = "none" => ~request'.inserting
        /\ job'.status = "none" \/ request'.inserting => \A r \in Rows : row'[r] = "absent"
    BY DEF DrainInv, Follows
  <1>3. /\ job'.status \in {"running", "paused", "completed"} => Written
        /\ job'.status = "completed" => Worked /\ job'.file = Delivered
    BY DEF DrainInv, Follows, Worked
  <1>4. ASSUME NEW w \in Workers
        PROVE  /\ worker'[w].pc # "idle" => Written
               /\ worker'[w].pc \in {"file", "finalize"} => Worked
               /\ worker'[w].pc = "finalize" => worker'[w].file = Delivered
    BY DEF DrainInv, Follows, Worked
  <1> QED BY <1>1, <1>2, <1>3, <1>4 DEF DrainInv

LEMMA DrainApi ==
  ASSUME "confirm_early" \notin Buttons, Typed, DrainInv,
         ApiStep \/ ApiCrash \/ \E r \in Rows : OtherReveal(r)
  PROVE  DrainInv'
  <1>1. CASE CreateJob
    <2>1. /\ job'.status = "awaiting" /\ row' = row /\ worker' = worker
          /\ \A r \in Rows : row[r] = "absent"
      BY <1>1 DEF CreateJob, Typed, DrainInv
    <2>2. Delivered' = Delivered /\ Written' = Written /\ Worked' = Worked
      BY <2>1 DEF Delivered, Written, Worked
    <2> QED BY <2>1, <2>2 DEF DrainInv
  <1>2. CASE InsertRows
    <2>1. /\ job' = job /\ worker' = worker /\ ~request'.inserting /\ request.inserting
          /\ row' = [r \in Rows |-> "queued"] /\ job.status # "none"
      BY <1>2 DEF InsertRows, Typed, DrainInv
    <2>2. \A r \in Rows : row[r] = "absent"
      BY <2>1 DEF DrainInv
    <2>3. Written'
      BY <2>1 DEF Written
    <2>4. Worked => Worked' /\ Delivered' = Delivered
      BY <2>1, <2>2 DEF Worked, Written, Delivered
    <2>5. CASE Rows = {}
      <3>1. Worked' /\ Delivered' = Delivered
        BY <2>1, <2>5 DEF Worked, Written, Delivered
      <3> QED BY <2>1, <2>3, <3>1 DEF DrainInv
    <2>6. CASE Rows # {}
      <3>1. ~Written /\ ~Worked
        BY <2>2, <2>6 DEF Written, Worked
      <3> QED BY <2>1, <2>3, <3>1 DEF DrainInv
    <2> QED BY <2>5, <2>6
  <1>3. CASE Confirm
    <2>1. Written
      BY <1>3 DEF Confirm, Written
    <2>2. Follows
      BY <1>3, <2>1 DEF Confirm, Follows, Typed
    <2> QED BY <2>2, FollowsKeeps
  <1>4. CASE Send \/ Pause \/ Resume \/ Cancel \/ ApiCrash
    <2>1. Follows
      BY <1>4 DEF Send, Pause, Resume, Cancel, ApiCrash, Follows, Typed, DrainInv
    <2> QED BY <2>1, FollowsKeeps
  <1>5. CASE \E r \in Rows : OtherReveal(r)
    <2>1. Follows
      BY <1>5 DEF OtherReveal, Follows, Typed, DrainInv
    <2> QED BY <2>1, FollowsKeeps
  <1> QED BY <1>1, <1>2, <1>3, <1>4, <1>5 DEF ApiStep

LEMMA DrainWorker ==
  ASSUME Typed, DrainInv, NEW w \in Workers, WorkerStep(w) \/ WorkerCrash(w) \/ ChunkFails(w)
  PROVE  DrainInv'
  <1>1. CASE TakeDrive(w)
    <2>1. CASE job.status = "running" /\ Bands = {}
      <3>1. Rows = {} /\ job'.status = "completed" /\ job'.file = job.file
            /\ row' = row /\ request' = request /\ worker' = worker
        BY <1>1, <2>1, Constants DEF TakeDrive, Typed
      <3>2. Worked /\ job.file = Delivered
        BY <3>1 DEF Worked, Written, Delivered, Typed
      <3> QED BY <3>1, <3>2, FollowsKeeps DEF Follows
    <2>2. CASE ~(job.status = "running" /\ Bands = {})
      <3>1. /\ job' = job /\ row' = row /\ request' = request
            /\ \A v \in Workers : v # w => worker'[v] = worker[v]
            /\ \/ worker'[w] = worker[w]
               \/ job.status = "running" /\ worker'[w].pc = "drive"
        BY <1>1, <2>2 DEF TakeDrive, Typed, Idle
      <3>2. Follows
        BY <3>1 DEF Follows, DrainInv
      <3> QED BY <3>2, FollowsKeeps
    <2> QED BY <2>1, <2>2
  <1>2. CASE \E b \in Bands : TakeChunk(w, b)
    <2>1. /\ job' = job /\ row' = row /\ request' = request
          /\ \A v \in Workers : v # w => worker'[v] = worker[v]
          /\ \/ worker'[w] = worker[w]
             \/ job.status = "running" /\ worker'[w].pc = "list"
      BY <1>2 DEF TakeChunk, Typed, Idle
    <2>2. Follows
      BY <2>1 DEF Follows, DrainInv
    <2> QED BY <2>2, FollowsKeeps
  <1>3. CASE \/ EnqueueChunk(w) \/ ListRows(w) \/ CheckStatus(w) \/ RevealRow(w)
             \/ AddProgress(w) \/ WorkerCrash(w) \/ ChunkFails(w)
    <2>1. /\ worker[w].pc # "idle"
          /\ worker'[w].pc \in {"idle", "drive", "row", "outcome", "count"}
          /\ \A v \in Workers : v # w => worker'[v] = worker[v]
      <3>1. worker[w] \in Fields /\ DOMAIN worker = Workers
        BY DEF Typed, Memories
      <3>2. CASE EnqueueChunk(w)
        BY <3>1, <3>2 DEF EnqueueChunk, Fields, Idle
      <3>3. CASE ListRows(w) \/ CheckStatus(w)
        BY <3>1, <3>3 DEF ListRows, CheckStatus, Remember, Fields
      <3>4. CASE RevealRow(w)
        <4>1. PICK o, c : Revealed(w, o, c)
          BY <3>4 DEF RevealRow
        <4> QED BY <3>1, <3>4, <4>1 DEF RevealRow, Revealed, Fields
      <3>5. CASE AddProgress(w)
        BY <3>1, <3>5 DEF AddProgress, Fields
      <3>6. CASE WorkerCrash(w) \/ ChunkFails(w)
        <4>1. worker[w].pc # "idle" /\ worker' = [worker EXCEPT ![w] = Idle]
          BY <3>6 DEF WorkerCrash, ChunkFails
        <4> QED BY <3>1, <4>1 DEF Idle
      <3> QED BY <1>3, <3>2, <3>3, <3>4, <3>5, <3>6
    <2>2. /\ row' = row /\ request' = request
          /\ job'.status = job.status /\ job'.file = job.file
      BY <1>3 DEF EnqueueChunk, ListRows, CheckStatus, RevealRow, AddProgress,
         Remember, WorkerCrash, ChunkFails, Typed
    <2>3. Follows
      BY <2>1, <2>2 DEF Follows, DrainInv
    <2> QED BY <2>3, FollowsKeeps
  <1>4. CASE RecordRow(w)
    <2>1. /\ job' = job /\ request' = request
          /\ worker[w].pc = "outcome" /\ worker'[w].pc = "row"
          /\ \A v \in Workers : v # w => worker'[v] = worker[v]
      BY <1>4 DEF RecordRow, Typed, Memories, Fields
    <2>2. /\ Written /\ row' \in [Rows -> Outcomes \cup {"absent"}]
          /\ \A q \in Rows : row'[q] = row[q] \/ (row[q] = "queued" /\ row'[q] \in Outcomes)
      <3>1. Written
        BY <2>1 DEF DrainInv
      <3>2. worker[w].outcome \in Outcomes /\ row \in [Rows -> Outcomes \cup {"absent"}]
        BY DEF Typed, Memories, Fields
      <3>3. PICK r : row' = [row EXCEPT ![r] = IF row[r] = "queued" THEN worker[w].outcome
                                                                   ELSE row[r]]
        BY <1>4 DEF RecordRow
      <3> QED BY <3>1, <3>2, <3>3
    <2>3. Written'
      BY <2>2 DEF Written, Outcomes
    <2>4. CASE Worked
      <3>1. row' = row
        BY <2>2, <2>4 DEF Worked, Typed
      <3>2. Follows
        BY <2>1, <2>2, <3>1 DEF Follows, DrainInv
      <3> QED BY <3>2, FollowsKeeps
    <2>5. CASE ~Worked
      <3>1. /\ job.status # "completed" /\ job.status # "none" /\ ~request.inserting
            /\ \A v \in Workers : worker[v].pc \notin {"file", "finalize"}
        <4>1. Rows # {}
          BY <2>2, <2>5 DEF Worked
        <4> QED BY <2>2, <2>5, <4>1 DEF DrainInv, Written
      <3>2. \A v \in Workers : worker'[v].pc \notin {"file", "finalize"}
        BY <2>1, <3>1
      <3> QED BY <2>1, <2>3, <3>1, <3>2 DEF DrainInv
    <2> QED BY <2>4, <2>5
  <1>5. CASE CountQueued(w)
    <2>1. /\ job' = job /\ row' = row /\ request' = request /\ worker[w].pc = "count"
          /\ \A v \in Workers : v # w => worker'[v] = worker[v]
          /\ \/ worker'[w].pc = "idle"
             \/ worker'[w].pc = "file" /\ \A r \in Rows : row[r] # "queued"
      BY <1>5 DEF CountQueued, Remember, Typed, Memories, Fields, Idle
    <2>2. Follows
      BY <2>1 DEF Follows, DrainInv, Worked
    <2> QED BY <2>2, FollowsKeeps
  <1>6. CASE BuildFile(w)
    <2>1. /\ job' = job /\ row' = row /\ request' = request /\ worker[w].pc = "file"
          /\ \A v \in Workers : v # w => worker'[v] = worker[v]
          /\ worker'[w].pc = "finalize" /\ worker'[w].file = Delivered
      BY <1>6 DEF BuildFile, Remember, Typed, Memories, Fields
    <2>2. Follows
      BY <2>1 DEF Follows, DrainInv
    <2> QED BY <2>2, FollowsKeeps
  <1>7. CASE Finalize(w)
    <2>1. /\ row' = row /\ request' = request /\ worker[w].pc = "finalize"
          /\ \A v \in Workers : v # w => worker'[v] = worker[v]
          /\ worker'[w].pc = "idle"
          /\ job' = job \/ (job'.status = "completed" /\ job'.file = worker[w].file)
      <3>1. /\ row' = row /\ request' = request /\ worker[w].pc = "finalize"
            /\ worker' = [worker EXCEPT ![w] = Idle]
            /\ \/ job' = job
               \/ job' = [job EXCEPT !.status = "completed", !.file = worker[w].file]
        BY <1>7 DEF Finalize
      <3>2. DOMAIN worker = Workers
        BY DEF Typed
      <3>3. worker'[w].pc = "idle" /\ \A v \in Workers : v # w => worker'[v] = worker[v]
        BY <3>1, <3>2 DEF Idle
      <3>4. job' = job \/ (job'.status = "completed" /\ job'.file = worker[w].file)
        BY <3>1 DEF Typed
      <3> QED BY <3>1, <3>3, <3>4
    <2>2. Follows
      BY <2>1 DEF Follows, DrainInv
    <2> QED BY <2>2, FollowsKeeps
  <1> QED BY <1>1, <1>2, <1>3, <1>4, <1>5, <1>6, <1>7 DEF WorkerStep

(***************************************************************************)
(* A completed job has no row left to work on, and its file holds every    *)
(* contact it delivered, however its workers died, overlapped or were      *)
(* paused: provided that nobody confirms it before its rows are written.   *)
(***************************************************************************)
THEOREM CompletedIsDrained ==
  ASSUME "confirm_early" \notin Buttons
  PROVE  Spec => []CompletedMeansDrained
  <1> DEFINE Inv == LedgerInv /\ DrainInv
  <1>1. Init => Inv
    BY LedgerInvKept, DrainInit
  <1>2. Inv /\ [Next]_vars => Inv'
    <2>1. ASSUME Inv, Next PROVE DrainInv'
      BY <2>1, DrainApi, DrainWorker DEF LedgerInv, Next
    <2>2. ASSUME Inv, UNCHANGED vars PROVE DrainInv'
      BY <2>2 DEF vars, DrainInv, Written, Worked, Delivered
    <2> QED BY <2>1, <2>2, LedgerInvKept
  <1>3. Inv => CompletedMeansDrained
    BY DEF DrainInv, Worked, Written, CompletedMeansDrained
  <1> QED BY <1>1, <1>2, <1>3, PTL DEF Spec

(***************************************************************************)
(* The lease, and what the job's reveals are worth.                        *)
(***************************************************************************)

\* What a worker has charged and not yet added to the job's spend.
Pending(m) == (IF m.pc \in {"list", "row", "outcome"} THEN m.spent ELSE 0)
                + (IF m.pc = "outcome" THEN m.charged ELSE 0)

Tally    == [w \in Workers |-> Pending(worker[w])]
Unbooked == SumOver(Tally, Workers)

Held(who) == {r \in Rows : owner[r] = who}

\* Nothing is under way before the job is confirmed.
Quiet ==
  job.status \in {"none", "awaiting"} =>
    /\ request.unsent = 0 /\ queue.drives = 0
    /\ \A b \in Bands : queue.chunks[b] = 0
    /\ \A w \in Workers : worker[w].pc = "idle"
    /\ \A r \in Rows : owner[r] # "job"

\* What a whole band is worth at most.
Share == BandRows * UnitCost

\* A worker in its band has charged no more than its rows so far.
Telling(m)  == m.pc \in {"list", "row", "outcome"}
InTally(m)  == Telling(m) => m.spent <= m.processed * UnitCost
TallyInv    == \A w \in Workers : InTally(worker[w])

\* The tallies never exceed the prices of the rows revealed, and account for
\* all of them but one band for each fault; a lease that is held is all the job
\* has paid.
SpentInv ==
  /\ job.spent + Unbooked <= Worth
  /\ Worth <= job.spent + Unbooked + faults * Share
  /\ job.status \in {"none", "awaiting"} => Paid = 0
  /\ job.status \in {"running", "paused"} => Paid = job.leased

LEMMA PricesAre ==
  \A who : /\ PricesOf(who) = SumOver(price, Held(who))
           /\ PricesOf(who)' = SumOver(price', Held(who)')
  <1>1. \A who : PricesOf(who) = SumOver(price, Held(who))
    BY DEF PricesOf, SumOver, Held
  <1>2. \A who : PricesOf(who)' = SumOver(price', Held(who)')
    BY DEF PricesOf, SumOver, Held, MapThenSumSet, MapThenFoldSet
  <1> QED BY <1>1, <1>2

LEMMA MoneyTypes ==
  ASSUME Typed, AccountInv
  PROVE  /\ Worth \in Nat /\ Paid \in Int /\ PricesOf("other") \in Nat
         /\ Unbooked \in Nat /\ job.spent \in Nat /\ job.leased \in Nat
         /\ \A w \in Workers : Tally[w] \in Nat
         /\ account.total \in Nat
         /\ Held("job") \in SUBSET Rows /\ Held("other") \in SUBSET Rows
         /\ \A r \in Rows : price[r] \in Nat
  <1>1. \A r \in Rows : price[r] \in Nat
    BY Constants DEF Typed
  <1>2. \A who : IsFiniteSet(Held(who)) /\ Held(who) \in SUBSET Rows
    BY Constants, FS_Subset DEF Held
  <1>3. \A who : PricesOf(who) \in Nat
    <2> SUFFICES ASSUME NEW who PROVE PricesOf(who) \in Nat
      OBVIOUS
    <2>1. SumOver(price, Held(who)) \in Nat
      BY <1>1, Constants, <1>2, SumBelow
    <2> QED BY <2>1, PricesAre
  <1>4. \A w \in Workers : Tally[w] \in Nat
    <2> SUFFICES ASSUME NEW w \in Workers PROVE Tally[w] \in Nat
      OBVIOUS
    <2>1. worker[w].spent \in Nat /\ worker[w].charged \in Nat
      BY Constants DEF Typed, Memories, Fields
    <2> QED BY <2>1 DEF Tally, Pending
  <1>5. Unbooked \in Nat
    BY <1>4, SizesAssumption, SumBelow DEF Unbooked
  <1>6. account.total \in Nat
    BY GoodFields DEF AccountInv
  <1>7. job.spent \in Nat /\ job.leased \in Nat
    BY DEF Typed
  <1>8. Worth \in Nat /\ Paid \in Int
    BY <1>3, <1>6, Constants DEF Worth, Paid
  <1> QED BY <1>1, <1>2, <1>3, <1>4, <1>5, <1>6, <1>7, <1>8

\* A step in which one contact is claimed, by the job or by another user.
LEMMA ClaimWorth ==
  ASSUME Typed, AccountInv, NEW r \in Rows, owner[r] = "none",
         NEW p \in {0, UnitCost}, price' = [price EXCEPT ![r] = p],
         NEW who \in {"job", "other"}, owner' = [owner EXCEPT ![r] = who]
  PROVE  /\ PricesOf(who)' = PricesOf(who) + p
         /\ \A o \in {"job", "other"} : o # who => PricesOf(o)' = PricesOf(o)
  <1>1. \A q \in Rows : price[q] \in Int /\ price'[q] \in Int
    BY Constants DEF Typed
  <1>2. /\ price'[r] = p /\ \A q \in Rows : q # r => price'[q] = price[q]
        /\ owner'[r] = who /\ \A q \in Rows : q # r => owner'[q] = owner[q]
    BY DEF Typed
  <1>3. \A o : IsFiniteSet(Held(o)) /\ Held(o) \in SUBSET Rows
    BY Constants, FS_Subset DEF Held
  <1>4. /\ r \notin Held("job") /\ r \notin Held("other")
        /\ Held(who)' = Held(who) \cup {r}
        /\ \A o \in {"job", "other"} : o # who => Held(o)' = Held(o)
    BY <1>2 DEF Held
  <1>5. \A o \in {"job", "other"} : SumOver(price', Held(o)) = SumOver(price, Held(o))
    <2> SUFFICES ASSUME NEW o \in {"job", "other"}
                 PROVE  SumOver(price', Held(o)) = SumOver(price, Held(o))
      OBVIOUS
    <2>1. \A q \in Held(o) : price'[q] = price[q]
      BY <1>2, <1>3, <1>4
    <2> QED BY <1>3, <2>1, SumSame
  <1>6. SumOver(price', Held(who) \cup {r}) = SumOver(price', Held(who)) + p
    <2>1. r \notin Held(who) /\ \A q \in Held(who) \cup {r} : price'[q] \in Int
      BY <1>1, <1>3, <1>4
    <2>2. SumOver(price', Held(who) \cup {r}) = SumOver(price', Held(who)) + price'[r]
      BY <1>3, <2>1, SumAdd
    <2> QED BY <1>2, <2>2
  <1> QED BY <1>4, <1>5, <1>6, PricesAre

\* A step that changes one worker's tally.
LEMMA TallyChange ==
  ASSUME Typed, Typed', AccountInv, AccountInv', NEW w \in Workers,
         \A v \in Workers : v # w => worker'[v] = worker[v]
  PROVE  Unbooked' = Unbooked + Pending(worker'[w]) - Pending(worker[w])
  <1>1. /\ \A v \in Workers : Tally[v] \in Int /\ Tally'[v] \in Int
        /\ \A v \in Workers \ {w} : Tally'[v] = Tally[v]
    <2>1. \A v \in Workers : Tally[v] \in Nat
      BY MoneyTypes
    <2>2. \A v \in Workers : Pending(worker'[v]) \in Nat
      <3> SUFFICES ASSUME NEW v \in Workers PROVE Pending(worker'[v]) \in Nat
        OBVIOUS
      <3>1. worker'[v].spent \in Nat /\ worker'[v].charged \in Nat
        BY Constants DEF Typed, Memories, Fields
      <3> QED BY <3>1 DEF Pending
    <2>3. \A v \in Workers : Tally'[v] = Pending(worker'[v])
      BY DEF Tally
    <2> QED BY <2>1, <2>2, <2>3 DEF Tally
  <1>2. SumOver(Tally', Workers) = SumOver(Tally, Workers) + Tally'[w] - Tally[w]
    BY <1>1, SizesAssumption, SumChange
  <1>3. Tally[w] = Pending(worker[w]) /\ Tally'[w] = Pending(worker'[w])
    BY DEF Tally
  <1> QED BY <1>2, <1>3 DEF Unbooked

\* Nothing is claimed and no credit moves.
Still == account' = account /\ owner' = owner /\ price' = price

LEMMA StillMoney ==
  ASSUME Still
  PROVE  Worth' = Worth /\ Paid' = Paid /\ PricesOf("other")' = PricesOf("other")
  <1>1. \A who : PricesOf(who)' = PricesOf(who)
    BY PricesAre DEF Still, Held
  <1> QED BY <1>1 DEF Still, Worth, Paid

\* The job's state in the lease's terms.
Phase ==
  CASE job.status \in {"none", "awaiting"}   -> "open"
    [] job.status \in {"running", "paused"}  -> "held"
    [] OTHER                                 -> "closed"

\* What a step of the job is for its lease.
LeaseStep ==
  \/ Phase' = Phase /\ Paid' = Paid /\ Worth' = Worth
  \/ Phase' = Phase /\ Paid' = Paid /\ Worth' > Worth
  \/ Phase = "open" /\ Phase' = "held" /\ Paid' \in Nat /\ Worth' = Worth
  \/ Phase = "open" /\ Phase' = "closed" /\ Paid' = Paid /\ Worth' = Worth
  \/ /\ Phase = "held" /\ Phase' = "closed" /\ Worth' = Worth
     /\ Paid' <= Paid /\ Paid' <= Worth

MoneyInv == LedgerInv /\ Quiet /\ SpentInv /\ TallyInv

\* A worker's step that neither reveals nor books nor loses anything.
LEMMA SameTally ==
  ASSUME Typed, AccountInv, NEW w \in Workers,
         \/ TakeDrive(w) \/ EnqueueChunk(w) \/ \E b \in Bands : TakeChunk(w, b)
         \/ ListRows(w) \/ CheckStatus(w) \/ RecordRow(w) \/ CountQueued(w) \/ BuildFile(w)
         \/ Finalize(w)
  PROVE  /\ Pending(worker'[w]) = Pending(worker[w])
         /\ \A v \in Workers : v # w => worker'[v] = worker[v]
         /\ job'.spent = job.spent
  <1>1. worker[w] \in Fields /\ DOMAIN worker = Workers
    BY DEF Typed, Memories
  <1>2. CASE TakeDrive(w)
    BY <1>1, <1>2 DEF TakeDrive, Pending, Typed, Idle
  <1>3. CASE EnqueueChunk(w)
    BY <1>1, <1>3 DEF EnqueueChunk, Pending, Fields, Idle
  <1>4. CASE \E b \in Bands : TakeChunk(w, b)
    BY <1>1, <1>4 DEF TakeChunk, Pending, Idle
  <1>5. CASE ListRows(w)
    BY <1>1, <1>5 DEF ListRows, Remember, Pending, Fields
  <1>6. CASE CheckStatus(w)
    BY <1>1, <1>6 DEF CheckStatus, Remember, Pending, Fields
  <1>7. CASE RecordRow(w)
    BY <1>1, <1>7, Constants DEF RecordRow, Pending, Fields
  <1>8. CASE CountQueued(w)
    BY <1>1, <1>8 DEF CountQueued, Remember, Pending, Idle, Fields
  <1>9. CASE BuildFile(w)
    BY <1>1, <1>9 DEF BuildFile, Remember, Pending, Fields
  <1>10. CASE Finalize(w)
    BY <1>1, <1>10 DEF Finalize, Pending, Idle, Typed
  <1> QED BY <1>2, <1>3, <1>4, <1>5, <1>6, <1>7, <1>8, <1>9, <1>10

\* A lease closed by the release of what it did not spend.
LEMMA ReleaseMoney ==
  ASSUME MoneyInv, LedgerInv', job.status \in {"running", "paused"},
         account' = ReleaseLease, owner' = owner, price' = price
  PROVE  /\ Worth' = Worth
         /\ Paid' = Least(job.leased, job.spent)
         /\ Paid' <= Paid /\ Paid' <= Worth
  <1>1. \A who : PricesOf(who)' = PricesOf(who)
    BY PricesAre DEF Held
  <1>2. account'.total = account.total + job.leased - Least(job.leased, job.spent)
    <2> DEFINE key == <<"release">>
    <2>1. key \notin account.keys /\ key \in Keys /\ Good(Keys, account)
      BY KeyFacts DEF MoneyInv, LedgerInv, AccountInv, KeysFollow
    <2>2. job.leased \in Nat /\ job.leasedSub \in Nat /\ job.spent \in Nat
      BY DEF MoneyInv, LedgerInv, Typed
    <2>3. ReleaseLease = Release(account, key, job.leased, job.leasedSub, job.spent)
      BY DEF ReleaseLease
    <2> HIDE DEF key
    <2>5. account.total \in Nat /\ Least(job.leased, job.spent) \in Nat
      BY <2>1, <2>2, GoodFields DEF Least
    <2>4. Advances(Keys, account, Release(account, key, job.leased, job.leasedSub, job.spent), {key})
      BY <2>1, <2>2, ReleaseGood
    <2>6. Release(account, key, job.leased, job.leasedSub, job.spent).total
            = account.total + job.leased - Least(job.leased, job.spent)
      BY <2>1, <2>2, <2>4, <2>5, ReleaseGood
    <2> QED BY <2>3, <2>6
  <1>3. /\ Worth \in Nat /\ Paid \in Int /\ PricesOf("other") \in Nat /\ Unbooked \in Nat
        /\ job.spent \in Nat /\ job.leased \in Nat /\ account.total \in Nat /\ Funds \in Nat
    BY MoneyTypes, Constants DEF MoneyInv, LedgerInv
  <1>4. Least(job.leased, job.spent) \in Nat /\ Least(job.leased, job.spent) <= job.leased
        /\ Least(job.leased, job.spent) <= job.spent
    BY <1>3 DEF Least
  <1>5. Paid = job.leased /\ job.spent + Unbooked <= Worth
    BY DEF MoneyInv, SpentInv
  <1>6. Paid' = Paid - job.leased + Least(job.leased, job.spent)
    BY <1>1, <1>2, <1>3, <1>4 DEF Paid
  <1> QED BY <1>1, <1>3, <1>4, <1>5, <1>6 DEF Worth

\* Multiplication, for the provers.
LEMMA Multiply ==
  \A m, n \in Nat : /\ m * n \in Nat /\ 0 * n = 0 /\ 1 * n = n
                    /\ (m + 1) * n = m * n + n
  OBVIOUS

\* A worker in its band has not charged more than the band is worth.
LEMMA PendingBound ==
  ASSUME NEW m \in Memories, InTally(m)
  PROVE  /\ Pending(m) \in Nat /\ Share \in Nat /\ Pending(m) <= Share
  <1>1. /\ m.spent \in Nat /\ m.charged \in {0, UnitCost}
        /\ m.processed \in 0 .. BandRows /\ UnitCost \in Nat /\ BandRows \in Nat
        /\ m.todo \in SUBSET Rows
    BY Constants DEF Memories, Fields
  <1>2. InTally(m)
    OBVIOUS
  <1>3. \A i, j, u \in Nat : i <= j => i * u <= j * u /\ i * u \in Nat /\ j * u \in Nat
    OBVIOUS
  <1>4. Share \in Nat
    BY <1>1, Multiply DEF Share
  <1>5. CASE m.pc = "outcome"
    <2>1. PICK r : r \in m.todo
      BY <1>1, <1>5 DEF Memories
    <2>2. Cardinality(m.todo) \in Nat /\ Cardinality(m.todo) > 0
      BY <1>1, <2>1, OneFewer
    <2>3. m.processed + Cardinality(m.todo) <= BandRows
      BY <1>1, <1>5 DEF Memories
    <2>4. m.processed + 1 <= BandRows /\ m.processed \in Nat
      BY <1>1, <2>2, <2>3
    <2>5. (m.processed + 1) * UnitCost <= Share /\ (m.processed + 1) * UnitCost \in Nat
      BY <1>1, <1>3, <2>4 DEF Share
    <2>6. (m.processed + 1) * UnitCost = m.processed * UnitCost + UnitCost
      BY <1>1, <2>4, Multiply
    <2>7. m.processed * UnitCost \in Nat /\ m.spent <= m.processed * UnitCost
      BY <1>1, <1>2, <1>5, <2>4, Multiply DEF InTally, Telling
    <2>8. Pending(m) = m.spent + m.charged
      BY <1>5 DEF Pending
    <2> DEFINE done == m.processed * UnitCost
               next == (m.processed + 1) * UnitCost
    <2>9. done \in Nat /\ m.spent <= done /\ next = done + UnitCost /\ next <= Share
      BY <2>5, <2>6, <2>7
    <2> HIDE DEF done, next
    <2>10. Pending(m) \in Nat /\ Pending(m) <= Share
      BY <1>1, <1>4, <2>8, <2>9
    <2> QED BY <1>4, <2>10
  <1>6. CASE m.pc \in {"list", "row"}
    <2>1. m.processed * UnitCost <= Share /\ m.processed * UnitCost \in Nat
      BY <1>1, <1>3 DEF Share
    <2>2. m.spent <= m.processed * UnitCost
      BY <1>2, <1>6 DEF InTally, Telling
    <2>3. Pending(m) = m.spent
      BY <1>1, <1>6 DEF Pending
    <2> DEFINE done == m.processed * UnitCost
    <2>4. done \in Nat /\ m.spent <= done /\ done <= Share
      BY <2>1, <2>2
    <2> HIDE DEF done
    <2> QED BY <1>1, <1>4, <2>3, <2>4
  <1>7. CASE ~Telling(m)
    BY <1>4, <1>7 DEF Pending, Telling
  <1> QED BY <1>5, <1>6, <1>7 DEF Telling

\* A row's price is added when the row is.
LEMMA TallyKept ==
  ASSUME Typed, TallyInv, [Next]_vars
  PROVE  TallyInv'
  <1>1. ASSUME NEW w \in Workers, WorkerStep(w) \/ WorkerCrash(w) \/ ChunkFails(w)
        PROVE  TallyInv'
    <2>1. worker[w] \in Fields /\ DOMAIN worker = Workers /\ InTally(worker[w])
      BY DEF Typed, Memories, TallyInv
    <2>2. \A v \in Workers : v # w => worker'[v] = worker[v]
      BY <1>1, <2>1 DEF WorkerStep, TakeDrive, EnqueueChunk, TakeChunk, ListRows, CheckStatus,
         RevealRow, Revealed, RecordRow, AddProgress, CountQueued, BuildFile, Finalize, Remember,
         WorkerCrash, ChunkFails
    <2>3. InTally(worker'[w])
      <3>1. CASE TakeDrive(w) \/ WorkerCrash(w) \/ ChunkFails(w)
        <4>1. worker'[w] = worker[w] \/ worker'[w].pc \in {"idle", "drive"}
          <5>1. CASE TakeDrive(w)
            BY <2>1, <5>1 DEF TakeDrive, Idle
          <5>2. CASE WorkerCrash(w) \/ ChunkFails(w)
            <6>1. worker' = [worker EXCEPT ![w] = Idle]
              BY <5>2 DEF WorkerCrash, ChunkFails
            <6> QED BY <2>1, <6>1 DEF Idle
          <5> QED BY <3>1, <5>1, <5>2
        <4> QED BY <2>1, <4>1 DEF InTally, Telling
      <3>2. CASE EnqueueChunk(w)
        BY <2>1, <3>2 DEF EnqueueChunk, InTally, Telling, Idle, Fields
      <3>3. CASE \E b \in Bands : TakeChunk(w, b)
        <4>1. 0 <= 0 * UnitCost
          BY Constants, Multiply
        <4> QED BY <2>1, <3>3, <4>1 DEF TakeChunk, InTally, Idle
      <3>4. CASE ListRows(w) \/ CheckStatus(w)
        <4>1. CASE ListRows(w)
          BY <2>1, <4>1 DEF ListRows, Remember, InTally, Telling, Fields
        <4>2. CASE CheckStatus(w)
          BY <2>1, <4>2 DEF CheckStatus, Remember, InTally, Telling, Fields
        <4> QED BY <3>4, <4>1, <4>2
      <3>5. CASE RevealRow(w)
        <4>1. \A o, c : Revealed(w, o, c) => /\ worker'[w].spent = worker[w].spent
                                            /\ worker'[w].processed = worker[w].processed
          BY <2>1 DEF Revealed, Fields
        <4>2. /\ worker'[w].spent = worker[w].spent
              /\ worker'[w].processed = worker[w].processed /\ worker[w].pc = "row"
          BY <3>5, <4>1 DEF RevealRow
        <4> QED BY <2>1, <4>2 DEF InTally, Telling
      <3>6. CASE RecordRow(w)
        <4>1. /\ worker[w].pc = "outcome" /\ worker'[w].processed = worker[w].processed + 1
              /\ worker'[w].spent = worker[w].spent + worker[w].charged
          BY <2>1, <3>6 DEF RecordRow, Fields
        <4>2. /\ worker[w].spent \in Nat /\ worker[w].charged \in {0, UnitCost} /\ UnitCost \in Nat
              /\ worker[w].processed \in Nat
          BY <2>1, Constants DEF Fields
        <4> DEFINE done == worker[w].processed * UnitCost
                   next == (worker[w].processed + 1) * UnitCost
        <4>3. done \in Nat /\ next = done + UnitCost /\ worker[w].spent <= done
          BY <2>1, <4>1, <4>2, Multiply DEF InTally, Telling
        <4> HIDE DEF done, next
        <4>4. worker'[w].spent <= next
          BY <4>1, <4>2, <4>3
        <4> QED BY <4>1, <4>4 DEF next, InTally
      <3>7. CASE AddProgress(w) \/ CountQueued(w) \/ BuildFile(w) \/ Finalize(w)
        <4>1. worker'[w].pc \in {"count", "idle", "file", "finalize"}
          <5>1. CASE AddProgress(w)
            BY <2>1, <5>1 DEF AddProgress, Fields
          <5>2. CASE CountQueued(w)
            BY <2>1, <5>2 DEF CountQueued, Remember, Idle, Fields
          <5>3. CASE BuildFile(w)
            BY <2>1, <5>3 DEF BuildFile, Remember, Fields
          <5>4. CASE Finalize(w)
            BY <2>1, <5>4 DEF Finalize, Idle
          <5> QED BY <3>7, <5>1, <5>2, <5>3, <5>4
        <4> QED BY <4>1 DEF InTally, Telling
      <3> QED BY <1>1, <3>1, <3>2, <3>3, <3>4, <3>5, <3>6, <3>7 DEF WorkerStep
    <2> QED BY <2>2, <2>3 DEF TallyInv
  <1>2. CASE UNCHANGED worker
    BY <1>2 DEF TallyInv
  <1> QED BY <1>1, <1>2 DEF Next, vars, ApiStep, CreateJob, InsertRows, Confirm, Send, Pause,
          Resume, Cancel, OtherReveal, ApiCrash

\* How the invariant of the money follows from what a step adds to the worth
\* (more) and to the tallies (booked).
LEMMA SpentKept ==
  ASSUME MoneyInv, LedgerInv', NEW more \in Nat, NEW booked \in Int,
         Worth' = Worth + more,
         job'.spent + Unbooked' = job.spent + Unbooked + booked,
         booked <= more,
         \/ faults' = faults /\ more <= booked
         \/ faults' = faults + 1 /\ more <= booked + Share,
         job'.status \in {"none", "awaiting"} => Paid' = 0,
         job'.status \in {"running", "paused"} => Paid' = job'.leased
  PROVE  SpentInv'
  <1>1. /\ Worth \in Nat /\ Worth' \in Nat /\ Unbooked \in Nat /\ job.spent \in Nat
        /\ job'.spent \in Int /\ Unbooked' \in Int
    <2>1. Worth \in Nat /\ Unbooked \in Nat /\ job.spent \in Nat
      BY MoneyTypes DEF MoneyInv, LedgerInv
    <2>2. job'.spent \in Int
      BY DEF LedgerInv, Typed
    <2>3. Unbooked' \in Int
      <3>1. \A w \in Workers : Tally'[w] \in Int
        <4> SUFFICES ASSUME NEW w \in Workers PROVE Tally'[w] \in Int
          OBVIOUS
        <4>1. worker'[w].spent \in Nat /\ worker'[w].charged \in Nat
          BY Constants DEF LedgerInv, Typed, Memories, Fields
        <4> QED BY <4>1 DEF Tally, Pending
      <3> QED BY <3>1, SizesAssumption, SumInt DEF Unbooked
    <2> QED BY <2>1, <2>2, <2>3
  <1>2. /\ job.spent + Unbooked <= Worth
        /\ Worth <= job.spent + Unbooked + faults * Share
    BY DEF MoneyInv, SpentInv
  <1>3. /\ faults * Share \in Nat /\ Share \in Nat /\ faults \in Nat
        /\ faults' = faults \/ faults' * Share = faults * Share + Share
    <2>1. faults \in Nat
      BY Constants DEF MoneyInv, LedgerInv, Typed
    <2>2. Share \in Nat
      BY Constants, Multiply DEF Share
    <2> QED BY <2>1, <2>2, Multiply
  <1>4. job'.spent + Unbooked' <= Worth'
    BY <1>1, <1>2
  <1>5. Worth' <= job'.spent + Unbooked' + faults' * Share
    <2> DEFINE lost  == faults * Share
               after == faults' * Share
    <2>1. \/ after = lost /\ more <= booked
          \/ after = lost + Share /\ more <= booked + Share
      BY <1>3
    <2>2. Worth <= job.spent + Unbooked + lost /\ lost \in Nat /\ Share \in Nat
      BY <1>2, <1>3
    <2> HIDE DEF lost, after
    <2>3. Worth' <= job'.spent + Unbooked' + after
      BY <1>1, <2>1, <2>2
    <2> QED BY <2>3 DEF after
  <1>6. Share' = Share
    BY DEF Share
  <1> QED BY <1>4, <1>5, <1>6 DEF SpentInv

\* The steps of the API and of other users.
LEMMA MoneyApi ==
  ASSUME MoneyInv, LedgerInv', ApiStep \/ ApiCrash \/ \E r \in Rows : OtherReveal(r)
  PROVE  Quiet' /\ SpentInv' /\ LeaseStep
  <1>t. /\ Typed /\ AccountInv
        /\ Worth \in Nat /\ Paid \in Int /\ PricesOf("other") \in Nat /\ Unbooked \in Nat
        /\ job.spent \in Nat /\ job.leased \in Nat /\ account.total \in Nat /\ Funds \in Nat
        /\ Share \in Nat
    BY MoneyTypes, Constants, Multiply DEF MoneyInv, LedgerInv, Share
  <1>s. /\ job.status \in {"none", "awaiting", "running", "paused", "completed", "cancelled"}
        /\ job.status \in {"none", "awaiting"} => Paid = 0
        /\ job.status \in {"running", "paused"} => Paid = job.leased
    BY <1>t DEF MoneyInv, SpentInv, Typed
  <1>w. worker' = worker /\ job'.spent = job.spent /\ faults' \in {faults, faults + 1}
    <2>1. faults \in Nat
      BY <1>t, Constants DEF Typed
    <2>2. CASE CreateJob \/ InsertRows \/ Confirm \/ Send
      BY <1>t, <2>2 DEF CreateJob, InsertRows, Confirm, Send, Typed
    <2>3. CASE Pause \/ Resume \/ Cancel
      BY <1>t, <2>3 DEF Pause, Resume, Cancel, Typed
    <2>4. CASE ApiCrash
      BY <2>1, <2>4 DEF ApiCrash, Breaks
    <2>5. CASE \E r \in Rows : OtherReveal(r)
      BY <2>5 DEF OtherReveal
    <2> QED BY <2>2, <2>3, <2>4, <2>5 DEF ApiStep
  <1>u. Unbooked' = Unbooked
    BY <1>w DEF Unbooked, Tally
  <1>1. CASE CreateJob \/ InsertRows \/ Send \/ Pause \/ Resume \/ ApiCrash
             \/ (Cancel /\ job.status = "awaiting")
    <2>1. Still
      BY <1>1 DEF CreateJob, InsertRows, Send, Pause, Resume, ApiCrash, Cancel, Still
    <2>2. Worth' = Worth /\ Paid' = Paid
      BY <2>1, StillMoney
    <2>3. /\ job'.status = "none" => job.status = "none"
          /\ job'.status = "awaiting" => job.status \in {"none", "awaiting"}
          /\ job'.status \in {"running", "paused"} =>
               job.status \in {"running", "paused"} /\ job'.leased = job.leased
          /\ job'.status = "cancelled" => job.status \in {"awaiting", "cancelled"}
          /\ job'.status = "completed" => job.status = "completed"
          /\ job'.status \in {"none", "awaiting", "running", "paused", "completed", "cancelled"}
      BY <1>1, <1>t DEF CreateJob, InsertRows, Send, Pause, Resume, ApiCrash, Cancel, Typed
    <2>4. SpentInv'
      BY <1>s, <1>t, <1>u, <1>w, <2>2, <2>3, SpentKept
    <2>5. Quiet'
      <3> SUFFICES ASSUME job'.status \in {"none", "awaiting"} PROVE Quiet'
        BY DEF Quiet
      <3>1. job.status \in {"none", "awaiting"}
        BY <2>3
      <3>2. request'.unsent = 0 /\ queue' = queue
        BY <1>1, <1>t, <3>1 DEF CreateJob, InsertRows, Send, Pause, Resume, ApiCrash, Cancel, Typed,
           MoneyInv, Quiet
      <3> QED BY <1>w, <2>1, <3>1, <3>2 DEF Quiet, Still, MoneyInv
    <2>6. LeaseStep
      BY <1>s, <2>2, <2>3 DEF LeaseStep, Phase
    <2> QED BY <2>4, <2>5, <2>6
  <1>2. CASE Confirm
    <2>1. /\ job.status = "awaiting" /\ job'.status = "running" /\ job'.leased = job.leased
          /\ account' = Lease(account, <<"lease">>, job.leased) /\ owner' = owner /\ price' = price
          /\ CanCover(account, job.leased)
      BY <1>2, <1>t DEF Confirm, Typed
    <2>2. \A who : PricesOf(who)' = PricesOf(who)
      BY <2>1, PricesAre DEF Held
    <2>3. account'.total = account.total - job.leased
      <3> DEFINE key == <<"lease">>
      <3>1. key \notin account.keys /\ key \in Keys /\ Good(Keys, account)
        BY <1>t, <2>1, KeyFacts DEF AccountInv, KeysFollow
      <3>2. job.leased \in Nat /\ CanCover(account, job.leased)
        BY <1>t, <2>1
      <3>3. account' = Lease(account, key, job.leased)
        BY <2>1
      <3> HIDE DEF key
      <3>4. Advances(Keys, account, Lease(account, key, job.leased), {key})
        BY <3>1, <3>2, LeaseGood
      <3>5. Lease(account, key, job.leased).total = account.total - job.leased
        BY <3>1, <3>2, <3>4, LeaseGood
      <3> QED BY <3>3, <3>5
    <2>4. Worth' = Worth /\ Paid' = job.leased
      BY <1>s, <1>t, <2>1, <2>2, <2>3 DEF Worth, Paid
    <2>5. SpentInv'
      BY <1>t, <1>u, <1>w, <2>1, <2>4, SpentKept
    <2>6. Quiet'
      BY <2>1 DEF Quiet
    <2>7. LeaseStep
      BY <1>t, <2>1, <2>4 DEF LeaseStep, Phase
    <2> QED BY <2>5, <2>6, <2>7
  <1>3. CASE Cancel /\ job.status # "awaiting"
    <2>1. /\ job.status \in {"running", "paused"} /\ job'.status = "cancelled"
          /\ account' = ReleaseLease /\ owner' = owner /\ price' = price
      BY <1>3, <1>t DEF Cancel, Typed
    <2>2. Worth' = Worth /\ Paid' <= Paid /\ Paid' <= Worth
      BY <2>1, ReleaseMoney
    <2>3. SpentInv'
      BY <1>t, <1>u, <1>w, <2>1, <2>2, SpentKept
    <2>4. Quiet' /\ LeaseStep
      BY <2>1, <2>2 DEF Quiet, LeaseStep, Phase
    <2> QED BY <2>3, <2>4
  <1>4. ASSUME NEW r \in Rows, OtherReveal(r)
        PROVE  Quiet' /\ SpentInv' /\ LeaseStep
    <2>1. PICK p \in Prices(r) :
            /\ CanCover(account, p)
            /\ price' = [price EXCEPT ![r] = p]
            /\ account' = IF p = 0 THEN account ELSE Spend(account, account, <<"reveal", r>>, p)
      BY <1>4 DEF OtherReveal
    <2>2. p \in {0, UnitCost} /\ p \in Nat
      BY Constants DEF Prices
    <2>3. owner[r] = "none" /\ owner' = [owner EXCEPT ![r] = "other"] /\ job' = job
          /\ request' = request /\ queue' = queue
      BY <1>4 DEF OtherReveal
    <2>4. PricesOf("other")' = PricesOf("other") + p /\ PricesOf("job")' = PricesOf("job")
      BY <1>t, <2>1, <2>2, <2>3, ClaimWorth
    <2>5. account'.total = account.total - p
      <3>1. CASE p = 0
        BY <1>t, <2>1, <3>1
      <3>2. CASE p # 0
        <4> DEFINE key == <<"reveal", r>>
        <4>1. key \notin account.keys /\ key \in Keys /\ Good(Keys, account)
          BY <1>t, <2>3, KeyFacts DEF AccountInv, KeysFollow
        <4>2. CanCover(account, p) /\ account' = Spend(account, account, key, p)
          BY <2>1, <3>2
        <4> HIDE DEF key
        <4>3. Advances(Keys, account, Spend(account, account, key, p), {key})
          BY <2>2, <4>1, <4>2, SpendGood
        <4>4. Spend(account, account, key, p).total = account.total - p
          BY <2>2, <4>1, <4>2, <4>3, SpendGood
        <4> QED BY <4>2, <4>4
      <3> QED BY <3>1, <3>2
    <2>6. Worth' = Worth /\ Paid' = Paid
      BY <1>t, <2>2, <2>4, <2>5 DEF Worth, Paid
    <2>7. SpentInv'
      BY <1>s, <1>t, <1>u, <1>w, <2>3, <2>6, SpentKept
    <2>8. Quiet'
      BY <1>t, <1>w, <2>3 DEF Quiet, MoneyInv, Typed
    <2>9. LeaseStep
      BY <2>3, <2>6 DEF LeaseStep, Phase
    <2> QED BY <2>7, <2>8, <2>9
  <1> QED BY <1>1, <1>2, <1>3, <1>4 DEF ApiStep

\* The steps of the workers, and their deaths.
LEMMA MoneyWorker ==
  ASSUME MoneyInv, LedgerInv', NEW w \in Workers,
         WorkerStep(w) \/ WorkerCrash(w) \/ ChunkFails(w)
  PROVE  Quiet' /\ SpentInv' /\ LeaseStep
  <1>t. /\ Typed /\ AccountInv /\ worker[w] \in Fields /\ DOMAIN worker = Workers
        /\ Worth \in Nat /\ Paid \in Int /\ PricesOf("other") \in Nat /\ Unbooked \in Nat
        /\ job.spent \in Nat /\ job.leased \in Nat /\ faults \in Nat
        /\ Pending(worker[w]) \in Nat /\ Share \in Nat /\ Pending(worker[w]) <= Share
    <2>1. Typed /\ AccountInv
      BY DEF MoneyInv, LedgerInv
    <2>2. Pending(worker[w]) \in Nat /\ Share \in Nat /\ Pending(worker[w]) <= Share
      <3>1. worker[w] \in Memories /\ InTally(worker[w])
        BY <2>1 DEF Typed, MoneyInv, TallyInv
      <3> QED BY <3>1, PendingBound
    <2> QED BY <2>1, <2>2, MoneyTypes, Constants DEF Typed, Memories
  <1>s. /\ job.status \in {"none", "awaiting", "running", "paused", "completed", "cancelled"}
        /\ job.status \in {"none", "awaiting"} => Paid = 0
        /\ job.status \in {"running", "paused"} => Paid = job.leased
    BY <1>t DEF MoneyInv, SpentInv, Typed
  <1>q. ~ job.status \in {"none", "awaiting"}
    <2> SUFFICES ASSUME job.status \in {"none", "awaiting"} PROVE FALSE
      OBVIOUS
    <2>1. /\ worker[w].pc = "idle" /\ ~ queue.drives > 0
          /\ \A b \in Bands : ~ queue.chunks[b] > 0
      BY DEF MoneyInv, Quiet
    <2>2. ~TakeDrive(w) /\ \A b \in Bands : ~TakeChunk(w, b)
      BY <2>1 DEF TakeDrive, TakeChunk
    <2>3. ~WorkerCrash(w) /\ ~ChunkFails(w) /\ ~EnqueueChunk(w) /\ ~ListRows(w)
      BY <2>1 DEF EnqueueChunk, ListRows, WorkerCrash, ChunkFails
    <2>4. ~CheckStatus(w) /\ ~RevealRow(w) /\ ~RecordRow(w) /\ ~AddProgress(w)
      BY <2>1 DEF CheckStatus, RevealRow, RecordRow, AddProgress
    <2>5. ~CountQueued(w) /\ ~BuildFile(w) /\ ~Finalize(w)
      BY <2>1 DEF CountQueued, BuildFile, Finalize
    <2> QED BY <2>2, <2>3, <2>4, <2>5 DEF WorkerStep
  <1>u. ASSUME \A v \in Workers : v # w => worker'[v] = worker[v]
        PROVE  Unbooked' = Unbooked + Pending(worker'[w]) - Pending(worker[w])
    BY <1>u, <1>t, TallyChange DEF LedgerInv
  \* A step that leaves status and lease alone is no business of Quiet or the phase.
  <1>p. ASSUME job'.status = job.status
        PROVE  Quiet' /\ Phase' = Phase
    BY <1>p, <1>q DEF Quiet, Phase
  <1>1. CASE \/ EnqueueChunk(w) \/ (\E b \in Bands : TakeChunk(w, b)) \/ ListRows(w)
             \/ CheckStatus(w) \/ RecordRow(w) \/ CountQueued(w) \/ BuildFile(w)
             \/ TakeDrive(w) /\ ~(job.status = "running" /\ Bands = {})
             \/ Finalize(w) /\ job.status # "running"
    <2>1. Pending(worker'[w]) = Pending(worker[w]) /\ \A v \in Workers : v # w => worker'[v] = worker[v]
      BY <1>1, <1>t, SameTally
    <2>2. Unbooked' = Unbooked
      BY <1>t, <1>u, <2>1
    <2>3. Still /\ job' = job /\ faults' = faults
      BY <1>1 DEF EnqueueChunk, TakeChunk, ListRows, CheckStatus, RecordRow, CountQueued, BuildFile,
         TakeDrive, Finalize, Remember, Still
    <2>4. Worth' = Worth /\ Paid' = Paid
      BY <2>3, StillMoney
    <2>5. SpentInv'
      BY <1>s, <1>t, <2>2, <2>3, <2>4, SpentKept
    <2> QED BY <1>p, <2>3, <2>4, <2>5 DEF LeaseStep
  <1>2. CASE \/ TakeDrive(w) /\ job.status = "running" /\ Bands = {}
             \/ Finalize(w) /\ job.status = "running"
    <2>1. /\ Pending(worker'[w]) = Pending(worker[w]) /\ job'.spent = job.spent
          /\ \A v \in Workers : v # w => worker'[v] = worker[v]
      BY <1>2, <1>t, SameTally
    <2>2. Unbooked' = Unbooked
      BY <1>t, <1>u, <2>1
    <2>3. /\ job'.status = "completed" /\ account' = ReleaseLease /\ owner' = owner
          /\ price' = price /\ faults' = faults
      BY <1>2, <1>t DEF TakeDrive, Finalize, Typed
    <2>4. Worth' = Worth /\ Paid' <= Paid /\ Paid' <= Worth
      BY <1>2, <2>3, ReleaseMoney
    <2>5. SpentInv'
      <3>1. /\ Worth' = Worth + 0 /\ job'.spent + Unbooked' = job.spent + Unbooked + 0
            /\ 0 \in Nat /\ 0 \in Int /\ 0 <= 0
        BY <1>t, <2>1, <2>2, <2>4
      <3>2. /\ job'.status \in {"none", "awaiting"} => Paid' = 0
            /\ job'.status \in {"running", "paused"} => Paid' = job'.leased
        BY <2>3
      <3> QED BY <2>3, <3>1, <3>2, SpentKept
    <2> QED BY <1>2, <2>3, <2>4, <2>5 DEF LeaseStep, Quiet, Phase
  <1>3. CASE RevealRow(w)
    <2> DEFINE r == First(worker[w].todo)
    <2>r. r \in Rows
      <3>1. worker[w].todo # {} /\ worker[w].todo \subseteq Rows /\ Rows \subseteq Nat
        BY <1>3, <1>t, Constants DEF RevealRow, Fields
      <3> QED BY <3>1, FirstIsFirst
    <2> HIDE DEF r
    <2>j. /\ job' = job /\ faults' = faults /\ account' = account /\ worker[w].pc = "row"
      BY <1>3 DEF RevealRow
    <2>p. ASSUME NEW o, NEW c \in Nat, Revealed(w, o, c)
          PROVE  Unbooked' = Unbooked + c
      <3>1. /\ worker'[w].pc = "outcome" /\ worker'[w].charged = c
            /\ worker'[w].spent = worker[w].spent
            /\ \A v \in Workers : v # w => worker'[v] = worker[v]
        BY <1>t, <2>p DEF Revealed, Fields
      <3>2. worker[w].spent \in Nat
        BY <1>t DEF Fields
      <3>3. Pending(worker'[w]) = Pending(worker[w]) + c
        BY <2>j, <2>p, <3>1, <3>2 DEF Pending
      <3> QED BY <1>t, <1>u, <2>p, <3>1, <3>3
    <2>1. CASE owner[r] = "none" /\ \E p \in Prices(r) : price' = [price EXCEPT ![r] = p]
                                                        /\ Revealed(w, "revealed", p)
               /\ owner' = [owner EXCEPT ![r] = "job"]
      <3>1. PICK p \in Prices(r) : price' = [price EXCEPT ![r] = p] /\ Revealed(w, "revealed", p)
        BY <2>1
      <3>2. p \in {0, UnitCost} /\ p \in Nat
        BY Constants DEF Prices
      <3>3. PricesOf("job")' = PricesOf("job") + p /\ PricesOf("other")' = PricesOf("other")
        BY <1>t, <2>1, <2>r, <3>1, <3>2, ClaimWorth
      <3>4. Worth' = Worth + p /\ Paid' = Paid
        BY <2>j, <3>3 DEF Worth, Paid
      <3>5. Unbooked' = Unbooked + p
        BY <2>p, <3>1, <3>2
      <3>6. SpentInv'
        BY <1>s, <1>t, <2>j, <3>2, <3>4, <3>5, SpentKept
      <3>7. Worth' = Worth \/ Worth' > Worth
        BY <1>t, <3>2, <3>4
      <3> QED BY <1>p, <2>j, <3>4, <3>6, <3>7 DEF LeaseStep
    <2>2. CASE (Revealed(w, "already_owned", 0) \/ Revealed(w, "failed", 0))
               /\ UNCHANGED <<owner, price>>
      <3>1. Still
        BY <2>2, <2>j DEF Still
      <3>2. Worth' = Worth /\ Paid' = Paid
        BY <3>1, StillMoney
      <3>3. Unbooked' = Unbooked
        BY <1>t, <2>2, <2>p
      <3>4. SpentInv'
        BY <1>s, <1>t, <2>j, <3>2, <3>3, SpentKept
      <3> QED BY <1>p, <2>j, <3>2, <3>4 DEF LeaseStep
    <2> QED BY <1>3, <2>1, <2>2 DEF RevealRow, r
  <1>4. CASE AddProgress(w)
    <2>1. /\ worker[w].pc = "row" /\ worker'[w].pc = "count"
          /\ \A v \in Workers : v # w => worker'[v] = worker[v]
          /\ job'.status = job.status /\ job'.leased = job.leased
          /\ job'.spent = job.spent + worker[w].spent /\ faults' = faults /\ Still
      BY <1>4, <1>t DEF AddProgress, Typed, Still, Fields
    <2>2. worker[w].spent \in Nat
      BY <1>t DEF Fields
    <2>3. Pending(worker[w]) = worker[w].spent /\ Pending(worker'[w]) = 0
      BY <2>1, <2>2 DEF Pending
    <2>4. Unbooked' = Unbooked - worker[w].spent
      BY <1>t, <1>u, <2>1, <2>2, <2>3
    <2>5. Worth' = Worth /\ Paid' = Paid
      BY <2>1, StillMoney
    <2>6. SpentInv'
      BY <1>s, <1>t, <2>1, <2>2, <2>4, <2>5, SpentKept
    <2> QED BY <1>p, <2>1, <2>5, <2>6 DEF LeaseStep
  <1>5. CASE WorkerCrash(w) \/ ChunkFails(w)
    <2>1. /\ worker' = [worker EXCEPT ![w] = Idle] /\ faults' = faults + 1
          /\ job' = job /\ Still
      BY <1>5 DEF WorkerCrash, ChunkFails, Breaks, Still
    <2>2. Pending(worker'[w]) = 0 /\ \A v \in Workers : v # w => worker'[v] = worker[v]
      BY <1>t, <2>1 DEF Pending, Idle
    <2>3. Unbooked' = Unbooked - Pending(worker[w])
      BY <1>t, <1>u, <2>2
    <2>4. Worth' = Worth /\ Paid' = Paid
      BY <2>1, StillMoney
    <2>5. SpentInv'
      <3> DEFINE booked == 0 - Pending(worker[w])
      <3>1. /\ booked \in Int /\ booked <= 0 /\ 0 <= booked + Share
            /\ job'.spent + Unbooked' = job.spent + Unbooked + booked
        BY <1>t, <2>1, <2>3
      <3> HIDE DEF booked
      <3> QED BY <1>s, <1>t, <2>1, <2>4, <3>1, SpentKept
    <2> QED BY <1>p, <2>1, <2>4, <2>5 DEF LeaseStep
  <1> DEFINE Goal == Quiet' /\ SpentInv' /\ LeaseStep
  <1> HIDE DEF Goal
  <1>6. TakeDrive(w) \/ Finalize(w) => Goal
    BY <1>1, <1>2 DEF Goal
  <1>7. EnqueueChunk(w) \/ ListRows(w) \/ CheckStatus(w) \/ RecordRow(w) => Goal
    BY <1>1 DEF Goal
  <1>a. CountQueued(w) \/ BuildFile(w) => Goal
    BY <1>1 DEF Goal
  <1>b. \A b \in Bands : TakeChunk(w, b) => Goal
    BY <1>1 DEF Goal
  <1>8. RevealRow(w) \/ AddProgress(w) \/ WorkerCrash(w) \/ ChunkFails(w) => Goal
    BY <1>3, <1>4, <1>5 DEF Goal
  <1>9. Goal
    BY <1>6, <1>7, <1>8, <1>a, <1>b DEF WorkerStep
  <1> QED BY <1>9 DEF Goal

LEMMA MoneyInit == Init => Quiet /\ SpentInv /\ TallyInv /\ Worth = 0
  <1> SUFFICES ASSUME Init PROVE Quiet /\ SpentInv /\ TallyInv /\ Worth = 0
    OBVIOUS
  <1>1. Quiet
    BY DEF Init, Quiet, Idle
  <1>2. Held("job") = {} /\ Held("other") = {}
    BY DEF Init, Held
  <1>3. Worth = 0 /\ PricesOf("other") = 0
    BY <1>2, PricesAre, SumEmpty DEF Worth
  <1>4. Unbooked = 0
    <2>1. \A w \in Workers : Tally[w] = 0
      BY DEF Init, Idle, Tally, Pending
    <2>2. SumOver(Tally, Workers) = SumOver(Tally, {})
      BY <2>1, SizesAssumption, SumSupport
    <2> QED BY <2>2, SumEmpty DEF Unbooked
  <1>5. job.spent = 0 /\ job.status = "none" /\ account.total = Funds /\ faults * Share = 0
    <2>1. Share \in Nat
      BY Constants, Multiply DEF Share
    <2> QED BY <2>1, Multiply DEF Init, EmptyAccount
  <1>6. Paid = 0
    BY <1>3, <1>5, Constants DEF Paid
  <1>7. TallyInv
    BY DEF Init, Idle, TallyInv, InTally, Telling
  <1> QED BY <1>1, <1>3, <1>4, <1>5, <1>6, <1>7 DEF SpentInv

LEMMA MoneyStep ==
  ASSUME MoneyInv, LedgerInv', [Next]_vars
  PROVE  Quiet' /\ SpentInv' /\ LeaseStep
  <1>1. CASE UNCHANGED vars
    <2>1. /\ UNCHANGED <<account, job, owner, price, request, queue, worker, faults>>
      BY <1>1 DEF vars
    <2>2. Worth' = Worth /\ Paid' = Paid
      BY <2>1, StillMoney DEF Still
    <2>3. Unbooked' = Unbooked /\ Phase' = Phase
      BY <2>1 DEF Unbooked, Tally, Phase
    <2>4. Quiet'
      BY <2>1 DEF MoneyInv, Quiet
    <2>5. SpentInv'
      BY <2>1, <2>2, <2>3 DEF MoneyInv, SpentInv, Share
    <2> QED BY <2>2, <2>3, <2>4, <2>5 DEF LeaseStep
  <1>2. CASE Next
    BY <1>2, MoneyApi, MoneyWorker DEF Next
  <1> QED BY <1>1, <1>2

LEMMA MoneyInvKept ==
  /\ Init => MoneyInv
  /\ MoneyInv /\ [Next]_vars => MoneyInv'
  <1>1. Init => MoneyInv
    BY LedgerInvKept, MoneyInit DEF MoneyInv
  <1>2. MoneyInv /\ [Next]_vars => MoneyInv'
    BY LedgerInvKept, MoneyStep, TallyKept DEF MoneyInv, LedgerInv
  <1> QED BY <1>1, <1>2

(***************************************************************************)
(* ADR-0029: every step of a job, of its sibling chunks, of other users    *)
(* and of whatever breaks is a step of the lease contract: one reservation,*)
(* one settlement, and then neither more than was reserved nor more than   *)
(* the reveals are worth.                                                  *)
(***************************************************************************)
THEOREM KeepsLeaseContract == Spec => ImplementsLeaseContract
  <1>1. Init => Contract!Init
    <2> SUFFICES ASSUME Init PROVE Contract!Init
      OBVIOUS
    <2>1. job.status = "none" /\ Worth = 0 /\ Paid = 0
      BY MoneyInit DEF Init, SpentInv
    <2> QED BY <2>1 DEF Contract!Init
  <1>2. MoneyInv /\ MoneyInv' /\ [Next]_vars => [Contract!Next]_(Contract!vars)
    <2> SUFFICES ASSUME MoneyInv, MoneyInv', [Next]_vars
                 PROVE  [Contract!Next]_(Contract!vars)
      OBVIOUS
    <2>1. LeaseStep
      BY MoneyStep DEF MoneyInv
    <2> QED BY <2>1 DEF LeaseStep, Phase, Contract!Next, Contract!vars, Contract!Hold,
                Contract!Work, Contract!Close, Contract!Abandon
  <1> QED BY <1>1, <1>2, MoneyInvKept, PTL DEF Spec, ImplementsLeaseContract, Contract!Spec

(***************************************************************************)
(* The estimate.                                                           *)
(***************************************************************************)

\* Rows the job has priced and nobody else has claimed; and those it revealed
\* that had nothing to reveal then.
Own     == {r \in Billable : owner[r] # "other"}
LateOwn == {r \in Late : owner[r] = "job"}

CoverInv ==
  /\ \A r \in Rows : r \notin Billable \cup Late => price[r] = 0
  /\ job.status # "none" => UnitCost * Cardinality(Own) <= job.leased

LEMMA OwnBound ==
  ASSUME NEW A \in SUBSET Rows, NEW B \in SUBSET A
  PROVE  /\ UnitCost * Cardinality(B) <= UnitCost * Cardinality(A)
         /\ UnitCost * Cardinality(B) \in Nat /\ UnitCost * Cardinality(A) \in Nat
  <1>1. /\ Cardinality(A) \in Nat /\ Cardinality(B) \in Nat
        /\ Cardinality(B) <= Cardinality(A) /\ UnitCost \in Nat
    BY Constants, FS_Subset, FS_CardinalityType
  <1>2. \A m, n, u \in Nat : m <= n => u * m <= u * n /\ u * m \in Nat /\ u * n \in Nat
    OBVIOUS
  <1> QED BY <1>1, <1>2

LEMMA WorthCovered ==
  ASSUME MoneyInv, CoverInv, job.status # "none"
  PROVE  LateWorth \in Int /\ Worth <= job.leased + LateWorth
  <1> DEFINE S == Held("job")
             B == S \cap Billable
             L == LateOwn
             T == B \cup L
  <1>1. /\ S \in SUBSET Rows /\ B \in SUBSET S /\ IsFiniteSet(S) /\ IsFiniteSet(B)
        /\ \A r \in Rows : price[r] \in Nat /\ price[r] <= UnitCost
    BY Constants, FS_Subset DEF Held, MoneyInv, LedgerInv, Typed
  <1>l. /\ L \in SUBSET S /\ IsFiniteSet(L) /\ T \in SUBSET S /\ IsFiniteSet(T)
        /\ T \ B = L /\ B \in SUBSET T
    <2>1. L \in SUBSET S /\ T \ B = L
      BY SelectionAssumption DEF Held, LateOwn
    <2> HIDE DEF S, B, L
    <2> QED BY <1>1, <2>1, FS_Subset
  <1>2. SumOver(price, S) = SumOver(price, B) + SumOver(price, L)
    <2>1. \A r \in S \ T : price[r] = 0
      BY <1>1 DEF CoverInv, Held, LateOwn
    <2>2. /\ \A r \in S : price[r] \in Int
          /\ \A r \in T : price[r] \in Int
      BY <1>1, <1>l
    <2> HIDE DEF S, B, L, T
    <2>3. SumOver(price, S) = SumOver(price, T)
      BY <1>1, <1>l, <2>1, <2>2, SumSupport
    <2>4. SumOver(price, T) = SumOver(price, B) + SumOver(price, T \ B)
      BY <1>l, <2>2, SumSplit
    <2> QED BY <1>l, <2>3, <2>4
  <1>m. LateWorth = SumOver(price, L) /\ LateWorth \in Int
    <2>1. LateWorth = SumOver(price, L)
      BY DEF LateWorth, SumOver, LateOwn
    <2>2. \A r \in L : price[r] \in Int
      BY <1>1, <1>l
    <2> HIDE DEF L
    <2> QED BY <1>l, <2>1, <2>2, SumInt
  <1>3. SumOver(price, B) <= UnitCost * Cardinality(B) /\ SumOver(price, B) \in Int
    <2>1. \A r \in B : price[r] \in Nat /\ price[r] <= UnitCost
      BY <1>1
    <2>2. IsFiniteSet(B) /\ UnitCost \in Nat
      BY <1>1, Constants
    <2>3. \A r \in B : price[r] \in Int
      BY <2>1
    <2> HIDE DEF S, B
    <2>4. SumOver(price, B) <= UnitCost * Cardinality(B)
      BY <2>1, <2>2, SumAtMost
    <2>5. SumOver(price, B) \in Int
      BY <2>2, <2>3, SumInt
    <2> QED BY <2>4, <2>5
  <1>4. /\ UnitCost * Cardinality(B) <= UnitCost * Cardinality(Own)
        /\ UnitCost * Cardinality(B) \in Nat /\ UnitCost * Cardinality(Own) \in Nat
    <2>1. Own \in SUBSET Rows /\ B \in SUBSET Own
      BY SelectionAssumption DEF Own, Held
    <2> HIDE DEF B
    <2> QED BY <2>1, OwnBound
  <1>5. Worth = SumOver(price, S)
    BY PricesAre DEF Worth
  <1>6. UnitCost * Cardinality(Own) <= job.leased /\ job.leased \in Nat
    BY DEF CoverInv, MoneyInv, LedgerInv, Typed
  <1> DEFINE b == UnitCost * Cardinality(B)
             o == UnitCost * Cardinality(Own)
             p == SumOver(price, B)
  <1>7. p <= b /\ b <= o /\ o <= job.leased /\ p \in Int /\ b \in Nat /\ o \in Nat
        /\ job.leased \in Nat /\ Worth = p + LateWorth
    BY <1>2, <1>3, <1>4, <1>5, <1>6, <1>m
  <1> HIDE DEF b, o, p
  <1> QED BY <1>7, <1>m

LEMMA CoverKept ==
  ASSUME MoneyInv, CoverInv, [Next]_vars
  PROVE  CoverInv'
  <1>t. Typed /\ (job.status \in {"none", "awaiting"} => \A r \in Rows : owner[r] # "job")
    BY DEF MoneyInv, LedgerInv, Quiet
  <1>b. Own \in SUBSET Rows /\ Own' \in SUBSET Rows
    BY SelectionAssumption DEF Own
  <1>1. \A r \in Rows : r \notin Billable \cup Late => price'[r] = 0
    <2>1. CASE \E q \in Rows : OtherReveal(q)
      BY <2>1, <1>t DEF OtherReveal, Prices, CoverInv, Typed
    <2>2. CASE \E w \in Workers : RevealRow(w)
      BY <2>2, <1>t DEF RevealRow, Prices, CoverInv, Typed
    <2>3. CASE price' = price
      BY <2>3 DEF CoverInv
    <2> QED BY <2>1, <2>2, <2>3 DEF Next, vars, ApiStep, WorkerStep, CreateJob, InsertRows,
               Confirm, Send, Pause, Resume, Cancel, TakeDrive, EnqueueChunk, TakeChunk, ListRows,
               CheckStatus, RecordRow, AddProgress, CountQueued, BuildFile, Finalize, Remember,
               WorkerCrash, ChunkFails, ApiCrash
  <1>2. Own' \in SUBSET Own
    <2>1. CASE \E q \in Rows : OtherReveal(q)
      BY <2>1, <1>t, SelectionAssumption DEF OtherReveal, Own, Typed
    <2>2. CASE \E w \in Workers : RevealRow(w)
      BY <2>2, <1>t, SelectionAssumption DEF RevealRow, Own, Typed
    <2>3. CASE owner' = owner
      BY <2>3 DEF Own
    <2> QED BY <2>1, <2>2, <2>3 DEF Next, vars, ApiStep, WorkerStep, CreateJob, InsertRows,
               Confirm, Send, Pause, Resume, Cancel, TakeDrive, EnqueueChunk, TakeChunk, ListRows,
               CheckStatus, RecordRow, AddProgress, CountQueued, BuildFile, Finalize, Remember,
               WorkerCrash, ChunkFails, ApiCrash
  <1>3. job'.status # "none" => UnitCost * Cardinality(Own') <= job'.leased
    <2>1. CASE CreateJob
      <3>1. job.status = "none" /\ owner' = owner /\ job'.leased = Estimate
        BY <2>1, <1>t DEF CreateJob, Typed
      <3>2. Own' = {r \in Billable : owner[r] = "none"}
        BY <3>1, <1>t, SelectionAssumption DEF Own, Typed
      <3>3. UnitCost * Cardinality(Own') = job'.leased /\ UnitCost * Cardinality(Own') \in Nat
        BY <1>b, <3>1, <3>2, OwnBound DEF Estimate
      <3> QED BY <3>3
    <2>2. CASE job'.leased = job.leased /\ (job'.status # "none" => job.status # "none")
      <3>1. /\ UnitCost * Cardinality(Own') <= UnitCost * Cardinality(Own)
            /\ UnitCost * Cardinality(Own') \in Nat /\ UnitCost * Cardinality(Own) \in Nat
        BY <1>2, <1>b, OwnBound
      <3>2. job.leased \in Nat
        BY <1>t DEF Typed
      <3> QED BY <2>2, <3>1, <3>2 DEF CoverInv
    <2>3. CASE job' = job
      BY <2>2, <2>3
    <2>4. CASE \/ Confirm \/ Pause \/ Resume \/ Cancel
               \/ \E w \in Workers : TakeDrive(w) \/ AddProgress(w) \/ Finalize(w)
      <3>1. job'.leased = job.leased /\ (job'.status # "none" => job.status # "none")
        BY <2>4, <1>t DEF Confirm, Pause, Resume, Cancel, TakeDrive, AddProgress, Finalize, Typed
      <3> QED BY <2>2, <3>1
    <2>5. CASE \E w \in Workers : \/ EnqueueChunk(w) \/ (\E b \in Bands : TakeChunk(w, b))
                                 \/ ListRows(w) \/ CheckStatus(w) \/ RevealRow(w)
                                 \/ RecordRow(w) \/ CountQueued(w) \/ BuildFile(w)
                                 \/ WorkerCrash(w) \/ ChunkFails(w)
      BY <2>3, <2>5 DEF EnqueueChunk, TakeChunk, ListRows, CheckStatus, RevealRow, RecordRow,
         CountQueued, BuildFile, Remember, WorkerCrash, ChunkFails
    <2>6. CASE InsertRows \/ Send \/ ApiCrash \/ (\E r \in Rows : OtherReveal(r)) \/ vars' = vars
      BY <2>3, <2>6 DEF InsertRows, Send, ApiCrash, OtherReveal, vars
    <2> QED BY <2>1, <2>4, <2>5, <2>6 DEF Next, ApiStep, WorkerStep
  <1> QED BY <1>1, <1>3 DEF CoverInv, Own

LEMMA CoverInit == Init => CoverInv
  BY DEF Init, CoverInv

(***************************************************************************)
(* estimate.ts: what is leased at the confirmation covers whatever the job *)
(* may reveal of the contacts that had something to reveal at the estimate,*)
(* whatever others reveal, and whichever contacts gain a field since.      *)
(***************************************************************************)
THEOREM LeaseCovers == Spec => []LeaseCoversWork
  <1>1. Init => MoneyInv /\ CoverInv
    BY MoneyInvKept, CoverInit
  <1>2. MoneyInv /\ CoverInv /\ [Next]_vars => MoneyInv' /\ CoverInv'
    BY MoneyInvKept, CoverKept
  <1>3. MoneyInv /\ CoverInv => LeaseCoversWork
    BY WorthCovered DEF LeaseCoversWork
  <1> QED BY <1>1, <1>2, <1>3, PTL DEF Spec

(***************************************************************************)
(* What a settled job has not paid.                                        *)
(***************************************************************************)

\* What a worker may still hold: its tally, or a band it may yet take.
Load(m) == IF Telling(m) THEN Pending(m) ELSE Share

Loads  == [w \in Workers |-> Load(worker[w])]
Burden == SumOver(Loads, Workers)

\* The worker that finalizes holds nothing.
Returned == IF job.status = "completed" THEN Share ELSE 0

\* A settled job has spent its lease, or paid all but what workers may hold.
LoadInv ==
  Settled => \/ Paid = job.leased
             \/ job.spent + Unbooked + Returned <= Paid + Burden

LEMMA LoadBound ==
  ASSUME NEW m \in Memories, InTally(m)
  PROVE  /\ Pending(m) \in Nat /\ Share \in Nat /\ Load(m) \in Nat
         /\ Pending(m) <= Load(m) /\ Load(m) <= Share
         /\ ~Telling(m) => Pending(m) = 0 /\ Load(m) = Share
  <1>1. Pending(m) \in Nat /\ Share \in Nat /\ Pending(m) <= Share
    BY PendingBound
  <1>2. ~Telling(m) => Pending(m) = 0
    BY DEF Telling, Pending
  <1> QED BY <1>1, <1>2 DEF Load

\* Of two rows of numbers the greater, which is greater by u at w.
LEMMA SumRaised ==
  ASSUME NEW S, IsFiniteSet(S), NEW f, NEW g, NEW w \in S, NEW u \in Nat,
         \A x \in S : f[x] \in Int /\ g[x] \in Int /\ f[x] <= g[x],
         f[w] = 0, g[w] = u
  PROVE  SumOver(f, S) + u <= SumOver(g, S)
  <1> DEFINE R == S \ {w}
  <1>1. SumOver(f, S) = f[w] + SumOver(f, R) /\ SumOver(g, S) = g[w] + SumOver(g, R)
    BY SumRemove
  <1>2. IsFiniteSet(R) /\ \A x \in R : f[x] \in Int /\ g[x] \in Int /\ f[x] <= g[x]
    BY FS_RemoveElement
  <1> HIDE DEF R
  <1>3. SumOver(f, R) <= SumOver(g, R)
    BY <1>2, SumMore
  <1>4. SumOver(f, R) \in Int /\ SumOver(g, R) \in Int
    BY <1>2, SumInt
  <1> QED BY <1>1, <1>3, <1>4

\* The tallies against the loads, and the loads against whole bands; W is what
\* the workers remember.
LEMMA LoadsBound ==
  ASSUME NEW W \in [Workers -> Memories], \A w \in Workers : InTally(W[w]),
         NEW tally, tally = [w \in Workers |-> Pending(W[w])],
         NEW loads, loads = [w \in Workers |-> Load(W[w])]
  PROVE  /\ SumOver(tally, Workers) \in Nat /\ SumOver(loads, Workers) \in Nat
         /\ SumOver(tally, Workers) <= SumOver(loads, Workers)
         /\ SumOver(loads, Workers) <= Share * Cardinality(Workers)
         /\ \A w \in Workers : ~Telling(W[w]) =>
              SumOver(tally, Workers) + Share <= SumOver(loads, Workers)
  <1>1. \A w \in Workers : /\ tally[w] \in Nat /\ loads[w] \in Nat /\ Share \in Nat
                           /\ tally[w] <= loads[w] /\ loads[w] <= Share
                           /\ ~Telling(W[w]) => tally[w] = 0 /\ loads[w] = Share
    <2> SUFFICES ASSUME NEW w \in Workers
                 PROVE  /\ tally[w] \in Nat /\ loads[w] \in Nat /\ Share \in Nat
                        /\ tally[w] <= loads[w] /\ loads[w] <= Share
                        /\ ~Telling(W[w]) => tally[w] = 0 /\ loads[w] = Share
      OBVIOUS
    <2>1. W[w] \in Memories /\ InTally(W[w])
      OBVIOUS
    <2>2. tally[w] = Pending(W[w]) /\ loads[w] = Load(W[w])
      OBVIOUS
    <2> QED BY <2>1, <2>2, LoadBound
  <1>2. SumOver(tally, Workers) \in Nat /\ SumOver(loads, Workers) \in Nat
    BY <1>1, SizesAssumption, SumBelow
  <1>3. SumOver(tally, Workers) <= SumOver(loads, Workers)
    BY <1>1, SizesAssumption, SumMore
  <1>4. SumOver(loads, Workers) <= Share * Cardinality(Workers)
    <2>1. Share \in Nat
      BY Constants, Multiply DEF Share
    <2> QED BY <1>1, <2>1, SizesAssumption, SumAtMost
  <1>5. ASSUME NEW w \in Workers, ~Telling(W[w])
        PROVE  SumOver(tally, Workers) + Share <= SumOver(loads, Workers)
    <2>1. /\ tally[w] = 0 /\ loads[w] = Share /\ Share \in Nat
          /\ \A v \in Workers : /\ tally[v] \in Int /\ loads[v] \in Int
                                 /\ tally[v] <= loads[v]
      BY <1>1, <1>5
    <2> QED BY <2>1, SizesAssumption, SumRaised
  <1> QED BY <1>2, <1>3, <1>4, <1>5

LEMMA BurdenBound ==
  ASSUME MoneyInv
  PROVE  /\ Unbooked \in Nat /\ Burden \in Nat /\ Unbooked <= Burden
         /\ Burden <= Share * Cardinality(Workers)
  <1>1. worker \in [Workers -> Memories] /\ \A w \in Workers : InTally(worker[w])
    BY DEF MoneyInv, LedgerInv, Typed, TallyInv
  <1>2. Tally = [w \in Workers |-> Pending(worker[w])] /\ Loads = [w \in Workers |-> Load(worker[w])]
    BY DEF Tally, Loads
  <1> QED BY <1>1, <1>2, LoadsBound DEF Unbooked, Burden

\* The same after a step.
LEMMA BurdenAfter ==
  ASSUME MoneyInv'
  PROVE  /\ Unbooked' \in Nat /\ Burden' \in Nat /\ Unbooked' <= Burden'
         /\ \A w \in Workers : worker'[w].pc = "idle" => Unbooked' + Share <= Burden'
  <1>1. worker' \in [Workers -> Memories] /\ \A w \in Workers : InTally(worker'[w])
    BY DEF MoneyInv, LedgerInv, Typed, TallyInv
  <1>2. /\ Tally' = [w \in Workers |-> Pending(worker'[w])]
        /\ Loads' = [w \in Workers |-> Load(worker'[w])]
    BY DEF Tally, Loads, Load, Telling, Pending, Share
  <1>3. \A w \in Workers : worker'[w].pc = "idle" => ~Telling(worker'[w])
    BY DEF Telling
  <1> QED BY <1>1, <1>2, <1>3, LoadsBound DEF Unbooked, Burden

\* What a worker's step books and what it lets go of, once the job is settled.
LEMMA LoadStep ==
  ASSUME MoneyInv, MoneyInv', NEW w \in Workers, Settled,
         WorkerStep(w) \/ WorkerCrash(w) \/ ChunkFails(w)
  PROVE  /\ \A v \in Workers : v # w => worker'[v] = worker[v]
         /\ job'.spent + Pending(worker'[w]) + Load(worker[w])
              <= job.spent + Pending(worker[w]) + Load(worker'[w])
  <1>t. /\ Typed /\ AccountInv /\ worker[w] \in Fields /\ DOMAIN worker = Workers
        /\ job.spent \in Nat /\ job.status # "running"
        /\ worker[w] \in Memories /\ InTally(worker[w])
        /\ worker'[w] \in Memories /\ InTally(worker'[w])
    <2>1. Typed /\ AccountInv /\ TallyInv /\ Typed' /\ TallyInv'
      BY DEF MoneyInv, LedgerInv
    <2>2. job.status # "running"
      BY DEF Settled
    <2> QED BY <2>1, <2>2 DEF Typed, Memories, TallyInv
  <1>b. /\ Pending(worker[w]) \in Nat /\ Share \in Nat /\ Load(worker[w]) \in Nat
        /\ Load(worker[w]) <= Share
        /\ Pending(worker'[w]) \in Nat /\ Load(worker'[w]) \in Nat
        /\ ~Telling(worker'[w]) => Pending(worker'[w]) = 0 /\ Load(worker'[w]) = Share
        /\ Telling(worker[w]) => Load(worker[w]) = Pending(worker[w])
        /\ Telling(worker'[w]) => Load(worker'[w]) = Pending(worker'[w])
    <2>1. \A m : Telling(m) => Load(m) = Pending(m)
      BY DEF Load
    <2> QED BY <1>t, <2>1, LoadBound
  <1>1. CASE \/ TakeDrive(w) \/ EnqueueChunk(w) \/ (\E b \in Bands : TakeChunk(w, b))
             \/ ListRows(w) \/ CheckStatus(w) \/ RecordRow(w) \/ CountQueued(w)
             \/ BuildFile(w) \/ Finalize(w)
    <2>1. /\ Pending(worker'[w]) = Pending(worker[w]) /\ job'.spent = job.spent
          /\ \A v \in Workers : v # w => worker'[v] = worker[v]
      BY <1>1, <1>t, SameTally
    <2>2. Telling(worker'[w]) => Telling(worker[w])
      <3>1. CASE TakeDrive(w) \/ \E b \in Bands : TakeChunk(w, b)
        BY <1>t, <3>1 DEF TakeDrive, TakeChunk
      <3>2. CASE EnqueueChunk(w) \/ CountQueued(w) \/ BuildFile(w) \/ Finalize(w)
        <4>1. CASE EnqueueChunk(w)
          BY <1>t, <4>1 DEF EnqueueChunk, Telling, Idle, Fields
        <4>2. CASE CountQueued(w)
          BY <1>t, <4>2 DEF CountQueued, Remember, Telling, Idle, Fields
        <4>3. CASE BuildFile(w)
          BY <1>t, <4>3 DEF BuildFile, Remember, Telling, Fields
        <4>4. CASE Finalize(w)
          BY <1>t, <4>4 DEF Finalize, Telling, Idle
        <4> QED BY <3>2, <4>1, <4>2, <4>3, <4>4
      <3>3. CASE ListRows(w) \/ CheckStatus(w) \/ RecordRow(w)
        BY <3>3 DEF ListRows, CheckStatus, RecordRow, Telling
      <3> QED BY <1>1, <3>1, <3>2, <3>3
    <2>3. Load(worker[w]) <= Load(worker'[w])
      BY <1>b, <2>1, <2>2
    <2> QED BY <1>b, <1>t, <2>1, <2>3
  <1>2. CASE RevealRow(w)
    <2>1. /\ job' = job /\ worker[w].pc = "row"
          /\ \E o, c : Revealed(w, o, c)
      BY <1>2 DEF RevealRow
    <2>2. /\ worker'[w].pc = "outcome"
          /\ \A v \in Workers : v # w => worker'[v] = worker[v]
      BY <1>t, <2>1 DEF Revealed, Fields
    <2>3. Telling(worker[w]) /\ Telling(worker'[w])
      BY <2>1, <2>2 DEF Telling
    <2>4. job'.spent = job.spent
      BY <2>1
    <2> QED BY <1>b, <1>t, <2>2, <2>3, <2>4
  <1>3. CASE AddProgress(w)
    <2>1. /\ worker[w].pc = "row" /\ worker'[w].pc = "count"
          /\ \A v \in Workers : v # w => worker'[v] = worker[v]
          /\ job'.spent = job.spent + worker[w].spent
      BY <1>3, <1>t DEF AddProgress, Typed, Fields
    <2>2. worker[w].spent \in Nat
      BY <1>t DEF Fields
    <2>3. Pending(worker[w]) = worker[w].spent /\ ~Telling(worker'[w])
      BY <2>1, <2>2 DEF Pending, Telling
    <2> QED BY <1>b, <1>t, <2>1, <2>2, <2>3
  <1>4. CASE WorkerCrash(w) \/ ChunkFails(w)
    <2>1. worker' = [worker EXCEPT ![w] = Idle] /\ job' = job
      BY <1>4 DEF WorkerCrash, ChunkFails
    <2>2. ~Telling(worker'[w]) /\ job'.spent = job.spent
          /\ \A v \in Workers : v # w => worker'[v] = worker[v]
      BY <1>t, <2>1 DEF Telling, Idle
    <2> QED BY <1>b, <1>t, <2>2
  <1> QED BY <1>1, <1>2, <1>3, <1>4 DEF WorkerStep

\* How one worker's load enters the sum.
LEMMA BurdenChange ==
  ASSUME MoneyInv, MoneyInv', NEW w \in Workers,
         \A v \in Workers : v # w => worker'[v] = worker[v]
  PROVE  Burden' = Burden + Load(worker'[w]) - Load(worker[w])
  <1>1. /\ \A v \in Workers : Loads[v] \in Int /\ Loads'[v] \in Int
        /\ \A v \in Workers \ {w} : Loads'[v] = Loads[v]
    <2>1. \A v \in Workers : Load(worker[v]) \in Nat /\ Load(worker'[v]) \in Nat
      <3> SUFFICES ASSUME NEW v \in Workers
                   PROVE  Load(worker[v]) \in Nat /\ Load(worker'[v]) \in Nat
        OBVIOUS
      <3>1. /\ worker[v] \in Memories /\ InTally(worker[v])
            /\ worker'[v] \in Memories /\ InTally(worker'[v])
        BY DEF MoneyInv, LedgerInv, Typed, TallyInv
      <3> QED BY <3>1, LoadBound
    <2>2. \A v \in Workers : Loads[v] = Load(worker[v]) /\ Loads'[v] = Load(worker'[v])
      BY DEF Loads, Load, Telling, Pending, Share
    <2>3. \A v \in Workers \ {w} : Loads'[v] = Loads[v]
      BY <2>2
    <2> QED BY <2>1, <2>2, <2>3
  <1>2. SumOver(Loads', Workers) = SumOver(Loads, Workers) + Loads'[w] - Loads[w]
    BY <1>1, SizesAssumption, SumChange
  <1>3. Loads[w] = Load(worker[w]) /\ Loads'[w] = Load(worker'[w])
    BY DEF Loads, Load, Telling, Pending, Share
  <1> QED BY <1>2, <1>3 DEF Burden

LEMMA LoadKept ==
  ASSUME MoneyInv, MoneyInv', LoadInv, [Next]_vars
  PROVE  LoadInv'
  <1>t. /\ Typed /\ AccountInv /\ LedgerInv'
        /\ job.status \in {"none", "awaiting", "running", "paused", "completed", "cancelled"}
        /\ Paid \in Int /\ Worth \in Nat /\ job.spent \in Nat /\ job.leased \in Nat
        /\ Unbooked \in Nat /\ Burden \in Nat /\ Share \in Nat /\ Returned \in Nat
        /\ Unbooked' \in Nat /\ Burden' \in Nat /\ Unbooked' <= Burden'
    <2>1. Typed /\ AccountInv /\ LedgerInv'
      BY DEF MoneyInv, LedgerInv
    <2>2. Share \in Nat
      BY Constants, Multiply DEF Share
    <2>3. Returned \in Nat
      BY <2>2 DEF Returned
    <2> QED BY <2>1, <2>2, <2>3, MoneyTypes, BurdenBound, BurdenAfter DEF Typed
  <1> SUFFICES ASSUME Settled'
               PROVE  \/ Paid' = job'.leased
                      \/ job'.spent + Unbooked' + Returned' <= Paid' + Burden'
    BY DEF LoadInv
  <1>1. CASE Settled
    <2>1. Paid' = Paid
      BY <1>1, MoneyStep DEF LeaseStep, Phase, MoneyInv, Settled
    <2>2. ASSUME NEW w \in Workers, WorkerStep(w) \/ WorkerCrash(w) \/ ChunkFails(w)
          PROVE  job'.spent + Unbooked' + Burden <= job.spent + Unbooked + Burden'
      <3>1. /\ \A v \in Workers : v # w => worker'[v] = worker[v]
            /\ job'.spent + Pending(worker'[w]) + Load(worker[w])
                 <= job.spent + Pending(worker[w]) + Load(worker'[w])
        BY <1>1, <2>2, LoadStep
      <3>2. Burden' = Burden + Load(worker'[w]) - Load(worker[w])
        BY <3>1, BurdenChange
      <3>3. Unbooked' = Unbooked + Pending(worker'[w]) - Pending(worker[w])
        BY <3>1, TallyChange DEF MoneyInv, LedgerInv
      <3>4. /\ Load(worker'[w]) \in Nat /\ Load(worker[w]) \in Nat
            /\ Pending(worker'[w]) \in Nat /\ Pending(worker[w]) \in Nat
            /\ job'.spent \in Nat
        <4>1. /\ worker[w] \in Memories /\ InTally(worker[w])
              /\ worker'[w] \in Memories /\ InTally(worker'[w])
          BY DEF MoneyInv, LedgerInv, Typed, TallyInv
        <4>2. job'.spent \in Nat
          BY DEF MoneyInv, LedgerInv, Typed
        <4> QED BY <4>1, <4>2, LoadBound
      <3> QED BY <1>t, <3>1, <3>2, <3>3, <3>4
    <2>3. ASSUME job' = job, worker' = worker
          PROVE  job'.spent + Unbooked' + Burden <= job.spent + Unbooked + Burden'
      <3>1. Unbooked' = Unbooked /\ Burden' = Burden
        BY <2>3 DEF Unbooked, Tally, Burden, Loads, Load, Telling, Pending, Share
      <3> QED BY <1>t, <2>3, <3>1
    <2>4. \/ job' = job /\ worker' = worker
          \/ \E w \in Workers : WorkerStep(w) \/ WorkerCrash(w) \/ ChunkFails(w)
      <3>1. CASE ApiStep
        BY <1>1, <3>1 DEF Settled, ApiStep, CreateJob, InsertRows, Confirm, Send, Pause, Resume,
           Cancel
      <3>2. CASE ApiCrash \/ (\E r \in Rows : OtherReveal(r)) \/ vars' = vars
        BY <3>2 DEF ApiCrash, OtherReveal, vars
      <3> QED BY <3>1, <3>2 DEF Next
    <2>5. job'.spent + Unbooked' + Burden <= job.spent + Unbooked + Burden'
      BY <2>2, <2>3, <2>4
    <2>6. job'.status = job.status /\ job'.leased = job.leased
      <3>1. ASSUME NEW w \in Workers, WorkerStep(w) \/ WorkerCrash(w) \/ ChunkFails(w)
            PROVE  job'.status = job.status /\ job'.leased = job.leased
        <4>1. CASE AddProgress(w)
          BY <1>t, <4>1 DEF AddProgress, Typed
        <4>2. CASE TakeDrive(w) \/ Finalize(w)
          BY <1>1, <4>2 DEF Settled, TakeDrive, Finalize
        <4>3. CASE \/ EnqueueChunk(w) \/ (\E b \in Bands : TakeChunk(w, b)) \/ ListRows(w)
                   \/ CheckStatus(w) \/ RevealRow(w) \/ RecordRow(w) \/ CountQueued(w)
                   \/ BuildFile(w) \/ WorkerCrash(w) \/ ChunkFails(w)
          BY <4>3 DEF EnqueueChunk, TakeChunk, ListRows, CheckStatus, RevealRow, RecordRow,
             CountQueued, BuildFile, Remember, WorkerCrash, ChunkFails
        <4> QED BY <3>1, <4>1, <4>2, <4>3 DEF WorkerStep
      <3> QED BY <2>4, <3>1
    <2>7. Returned' = Returned
      BY <2>6 DEF Returned, Share
    <2>8. job'.spent \in Nat
      BY DEF MoneyInv, LedgerInv, Typed
    <2>9. Paid = job.leased \/ job.spent + Unbooked + Returned <= Paid + Burden
      BY <1>1 DEF LoadInv
    <2> QED BY <1>t, <2>1, <2>5, <2>6, <2>7, <2>8, <2>9
  <1>2. CASE ~Settled
    <2>1. CASE Cancel
      <3>1. /\ job'.status = "cancelled" /\ job'.leased = job.leased /\ job'.spent = job.spent
            /\ worker' = worker /\ owner' = owner /\ price' = price
        BY <1>t, <2>1 DEF Cancel, Typed
      <3>2. Returned' = 0 /\ Unbooked' = Unbooked
        BY <3>1 DEF Returned, Unbooked, Tally
      <3>3. CASE job.status = "awaiting"
        <4>1. account' = account
          BY <2>1, <3>3 DEF Cancel
        <4>2. Worth = 0
          <5>1. Held("job") = {}
            BY <3>3 DEF MoneyInv, Quiet, Held
          <5> QED BY <5>1, PricesAre, SumEmpty DEF Worth
        <4>3. Paid' = Paid /\ Paid = 0
          BY <3>1, <3>3, <4>1, StillMoney DEF Still, MoneyInv, SpentInv
        <4>4. job.spent + Unbooked <= 0
          BY <4>2 DEF MoneyInv, SpentInv
        <4> QED BY <1>t, <3>1, <3>2, <4>3, <4>4
      <3>4. CASE job.status # "awaiting"
        <4>1. job.status \in {"running", "paused"} /\ account' = ReleaseLease
          BY <2>1, <3>4 DEF Cancel
        <4>2. Paid' = Least(job.leased, job.spent)
          BY <1>t, <3>1, <4>1, ReleaseMoney
        <4> QED BY <1>t, <3>1, <3>2, <4>2 DEF Least
      <3> QED BY <3>3, <3>4
    <2>2. ASSUME NEW w \in Workers, TakeDrive(w) \/ Finalize(w)
          PROVE  \/ Paid' = job'.leased
                 \/ job'.spent + Unbooked' + Returned' <= Paid' + Burden'
      <3>1. /\ job'.status = "completed" /\ job'.leased = job.leased /\ job'.spent = job.spent
            /\ job.status = "running" /\ account' = ReleaseLease
            /\ owner' = owner /\ price' = price
        <4>1. CASE TakeDrive(w)
          BY <1>2, <1>t, <4>1 DEF TakeDrive, Settled, Typed
        <4>2. CASE Finalize(w)
          BY <1>2, <1>t, <4>2 DEF Finalize, Settled, Typed
        <4> QED BY <2>2, <4>1, <4>2
      <3>2. worker'[w].pc = "idle"
        <4>1. DOMAIN worker = Workers
          BY <1>t DEF Typed
        <4>2. CASE TakeDrive(w)
          <5>1. Bands = {} /\ worker[w].pc = "idle"
            BY <1>2, <1>t, <4>2 DEF TakeDrive, Settled
          <5> QED BY <4>2, <5>1 DEF TakeDrive
        <4>3. CASE Finalize(w)
          BY <4>1, <4>3 DEF Finalize, Idle
        <4> QED BY <2>2, <4>2, <4>3
      <3>3. Unbooked' + Returned' <= Burden'
        BY <3>1, <3>2, BurdenAfter DEF Returned, Share
      <3>4. Paid' = Least(job.leased, job.spent)
        BY <1>t, <3>1, ReleaseMoney
      <3>5. Returned' \in Nat
        <4>1. Returned' = Share
          BY <3>1 DEF Returned, Share
        <4> QED BY <1>t, <4>1
      <3>6. /\ job.leased \in Nat /\ job.spent \in Nat /\ Unbooked' \in Nat /\ Burden' \in Nat
            /\ Paid' = job.leased \/ Paid' = job.spent
        BY <1>t, <3>4 DEF Least
      <3>7. CASE Paid' = job.leased
        BY <3>1, <3>7
      <3>8. CASE Paid' = job.spent
        <4>1. job'.spent + Unbooked' + Returned' <= job.spent + Burden'
          <5>1. \A a, b, c, d \in Nat : b + c <= d => (a + b) + c <= a + d
            OBVIOUS
          <5>2. job.spent + Unbooked' + Returned' <= job.spent + Burden'
            BY <3>3, <3>5, <3>6, <5>1
          <5>3. job'.spent = job.spent
            BY <3>1
          <5> QED BY <5>2, <5>3
        <4> QED BY <3>8, <4>1
      <3> QED BY <3>6, <3>7, <3>8
    <2>3. Cancel \/ \E w \in Workers : TakeDrive(w) \/ Finalize(w)
      <3>1. CASE ApiStep
        <4>1. ~Cancel => job'.status \notin {"completed", "cancelled"}
          BY <1>2, <1>t, <3>1 DEF Settled, ApiStep, CreateJob, InsertRows, Confirm, Send, Pause,
             Resume, Typed
        <4> QED BY <4>1 DEF Settled
      <3>2. CASE ApiCrash \/ (\E r \in Rows : OtherReveal(r)) \/ vars' = vars
        BY <1>2, <3>2 DEF ApiCrash, OtherReveal, vars, Settled
      <3>3. ASSUME NEW w \in Workers, WorkerStep(w) \/ WorkerCrash(w) \/ ChunkFails(w)
            PROVE  TakeDrive(w) \/ Finalize(w)
        <4>1. CASE AddProgress(w)
          BY <1>2, <1>t, <4>1 DEF AddProgress, Typed, Settled
        <4>2. CASE \/ EnqueueChunk(w) \/ (\E b \in Bands : TakeChunk(w, b)) \/ ListRows(w)
                   \/ CheckStatus(w) \/ RevealRow(w) \/ RecordRow(w) \/ CountQueued(w)
                   \/ BuildFile(w) \/ WorkerCrash(w) \/ ChunkFails(w)
          BY <1>2, <4>2 DEF EnqueueChunk, TakeChunk, ListRows, CheckStatus, RevealRow, RecordRow,
             CountQueued, BuildFile, Remember, WorkerCrash, ChunkFails, Settled
        <4> QED BY <3>3, <4>1, <4>2 DEF WorkerStep
      <3> QED BY <3>1, <3>2, <3>3 DEF Next
    <2> QED BY <2>1, <2>2, <2>3
  <1> QED BY <1>1, <1>2

LEMMA LoadInit == Init => LoadInv
  BY DEF Init, LoadInv, Settled

\* Bands counted in credits.
LEMMA BandCredits ==
  ASSUME NEW n \in Nat, NEW f \in Nat, NEW u \in Nat
  PROVE  /\ n * u \in Nat /\ f * u \in Nat /\ u * n = n * u
         /\ (n + f) * u = n * u + f * u
         /\ ((n - 1) + f) * u = n * u - u + f * u
  OBVIOUS

\* A settled job owes no more than what its workers still held and what the
\* dead ones lost, or no more than the contacts that came late are worth.
LEMMA SettledOwes ==
  ASSUME MoneyInv, CoverInv, LoadInv, Settled
  PROVE  \/ Worth <= Paid + LateWorth
         \/ Worth <= Paid + (Holders + faults) * Share
  <1>1. /\ Worth \in Nat /\ Paid \in Int /\ job.spent \in Nat /\ job.leased \in Nat
        /\ Unbooked \in Nat /\ Burden \in Nat /\ Share \in Nat /\ faults \in Nat
        /\ Cardinality(Workers) \in Nat /\ Burden <= Share * Cardinality(Workers)
    <2>1. Typed /\ AccountInv
      BY DEF MoneyInv, LedgerInv
    <2>2. Share \in Nat
      BY Constants, Multiply DEF Share
    <2>3. Cardinality(Workers) \in Nat
      BY SizesAssumption, FS_CardinalityType
    <2>4. faults \in Nat
      BY <2>1, Constants DEF Typed
    <2> QED BY <2>1, <2>2, <2>3, <2>4, MoneyTypes, BurdenBound
  <1>2. LateWorth \in Int /\ Worth <= job.leased + LateWorth
    BY WorthCovered DEF Settled
  <1>3. Worth <= job.spent + Unbooked + faults * Share
    BY DEF MoneyInv, SpentInv
  <1>4. CASE Paid = job.leased
    BY <1>1, <1>2, <1>4
  <1>5. CASE job.spent + Unbooked + Returned <= Paid + Burden
    <2> DEFINE all    == Cardinality(Workers) * Share
               lost   == faults * Share
               unpaid == (Holders + faults) * Share
    <2>1. /\ all \in Nat /\ lost \in Nat /\ Burden <= all
          /\ unpaid = all - Returned + lost /\ Returned \in Nat
      <3>1. CASE job.status = "completed"
        BY <1>1, <3>1, BandCredits DEF Holders, Returned
      <3>2. CASE job.status # "completed"
        BY <1>1, <3>2, BandCredits DEF Holders, Returned
      <3> QED BY <3>1, <3>2
    <2>2. Worth <= job.spent + Unbooked + lost
      BY <1>3
    <2> HIDE DEF all, lost, unpaid
    <2>3. Worth <= Paid + unpaid
      BY <1>1, <1>5, <2>1, <2>2
    <2> QED BY <2>3 DEF unpaid
  <1> QED BY <1>4, <1>5 DEF LoadInv

(***************************************************************************)
(* runBulkReveal.ts: whoever settles the job, and whatever its workers do  *)
(* meanwhile, what goes unpaid is at most a band for every worker and for  *)
(* every death, or what the estimate could not see.                        *)
(***************************************************************************)
THEOREM UnpaidIsFewBands == Spec => []UnpaidIsBounded
  <1> DEFINE I == MoneyInv /\ CoverInv /\ LoadInv
  <1>1. Init => I
    BY MoneyInvKept, CoverInit, LoadInit
  <1>2. I /\ [Next]_vars => I'
    BY MoneyInvKept, CoverKept, LoadKept
  <1>3. I => UnpaidIsBounded
    BY SettledOwes DEF UnpaidIsBounded, Share
  <1> HIDE DEF I
  <1> QED BY <1>1, <1>2, <1>3, PTL DEF Spec
=============================================================================
