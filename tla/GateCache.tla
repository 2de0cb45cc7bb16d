----------------------------- MODULE GateCache ------------------------------
(***************************************************************************)
(* One tenant's feature flag as the API processes cache it: the memo in    *)
(* each process and the generation that retires every entry at once        *)
(* (gateMemo.ts), over the read-through tier they share in Redis, with its *)
(* single flight and the epochs that keep a load begun before an           *)
(* invalidation from being stored after it (readThrough.ts); and the       *)
(* administrator's writes that invalidate (admin/routes.ts).               *)
(*                                                                         *)
(* A step is what a process does between two awaits, together with the     *)
(* Redis command or the query that ends or begins it: the commands of a    *)
(* process reach Redis in order, on one connection.                        *)
(***************************************************************************)
EXTENDS Integers, FiniteSets

CONSTANTS
  Apis,        \* the API processes
  Requests,    \* requests in progress at once, each again and again
  Home,        \* the process of each
  MaxWrites,   \* bound: writes of the flag
  MaxGlobal,   \* bound: how many of them are global
  FaultKinds,  \* what may break: "redis", "load", "crash"
  MaxFaults    \* bound: how often

Gens     == 0 .. MaxGlobal
Versions == 0 .. MaxWrites
None     == -1

ASSUME GateAssumption ==
  /\ {MaxWrites, MaxGlobal, MaxFaults} \subseteq Nat
  /\ Home \in [Requests -> Apis]
  /\ IsFiniteSet(Apis)
  /\ None \notin Apis \cup Requests

VARIABLES
  flag,      \* the flag in the database: the number of its last write
  gen,       \* GATE_GEN_KEY
  entry,     \* the shared entry of each generation: its value and who stored it
  memo,      \* flagMemo of each process
  epochs,    \* of each process: the epoch of each generation's key,
  inflight,  \* and the request whose load is in flight
  request,   \* what each request is doing
  writer,    \* what the administrator's write at each process still has to do
  known,     \* history: the newest write whose invalidation of a key is complete
  opened,    \* history: the write that opened each generation
  faults

tier    == <<entry, epochs, inflight>>
written == <<flag, gen, writer, known, opened>>  \* what requests leave alone
vars    == <<written, tier, memo, request, faults>>

Empty  == [value |-> None, by |-> None]
Absent == [pc |-> "idle", gen |-> 0, start |-> 0, value |-> None, run |-> None,
           since |-> 0, foreign |-> FALSE]
Done   == [pc |-> "none", gen |-> 0, version |-> 0]

Init ==
  /\ flag = 0 /\ gen = 0
  /\ entry = [g \in Gens |-> Empty]
  /\ memo = [p \in Apis |-> None]
  /\ epochs = [p \in Apis |-> [g \in Gens |-> 0]]
  /\ inflight = [p \in Apis |-> [g \in Gens |-> None]]
  /\ request = [r \in Requests |-> Absent]
  /\ writer = [p \in Apis |-> Done]
  /\ known = [p \in Apis |-> [g \in Gens |-> 0]]
  /\ opened = [g \in Gens |-> 0]
  /\ faults = 0

Break(kind) ==
  /\ kind \in FaultKinds
  /\ faults < MaxFaults
  /\ faults' = faults + 1

Works == UNCHANGED faults

\* The continuation after a Redis command that may have failed.
Either(works, fails) ==
  \/ works /\ Works
  \/ fails /\ Break("redis")

(***************************************************************************)
(* A request that reads the gate: flagGateCached and getOrSet.             *)
(***************************************************************************)
At(r)          == request[r].pc
Key(r)         == request[r].gen
Inside(r)      == At(r) \notin {"idle", "gen"}
Readers(p, g)  == {r \in Requests : Home[r] = p /\ Inside(r) /\ Key(r) = g}

\* A memo that is there is the answer, and nothing changes.
Begin(r) ==
  /\ At(r) = "idle"
  /\ memo[Home[r]] = None
  /\ request' = [request EXCEPT ![r].pc = "gen"]
  /\ Works
  /\ UNCHANGED <<written, tier, memo>>

\* The generation has come back, or counts as 0; the reader captures the epoch of
\* its key before it awaits anything else.
Enter(r) ==
  /\ At(r) = "gen"
  /\ \E g \in {gen, 0} :
       /\ request' = [request EXCEPT ![r] =
            [Absent EXCEPT !.pc = "lookup", !.gen = g, !.start = epochs[Home[r]][g],
                           !.since = known[Home[r]][g]]]
       /\ Either(g = gen, g # gen)
  /\ UNCHANGED <<written, tier, memo>>

\* What the shared tier answers; a failure is a miss.
Lookup(r) ==
  /\ At(r) = "lookup"
  /\ LET e == entry[Key(r)]
         Misses == request' = [request EXCEPT ![r].pc = "missed"]
         Hits   == request' = [request EXCEPT ![r].pc = "answered", ![r].value = e.value,
                                              ![r].foreign = e.by # Home[r]]
     IN  IF e = Empty THEN Misses /\ Works ELSE Either(Hits, Misses)
  /\ UNCHANGED <<written, tier, memo>>

\* Join the load in flight, or begin one.
JoinOrLoad(r) ==
  /\ At(r) = "missed"
  /\ LET run == inflight[Home[r]][Key(r)]
     IN  IF run # None
         THEN /\ request' = [request EXCEPT ![r].pc = "joined", ![r].run = run]
              /\ UNCHANGED inflight
         ELSE /\ request' = [request EXCEPT ![r].pc = "load", ![r].run = r]
              /\ inflight' = [inflight EXCEPT ![Home[r]][Key(r)] = r]
  /\ Works
  /\ UNCHANGED <<written, entry, epochs, memo>>

Load(r) ==
  /\ At(r) = "load"
  /\ request' = [request EXCEPT ![r].pc = "store", ![r].value = flag]
  /\ Works
  /\ UNCHANGED <<written, tier, memo>>

\* No invalidation since the reader entered.
Unchanged(r) == epochs[Home[r]][Key(r)] = request[r].start

Store(r) ==
  /\ At(r) = "store"
  /\ request' = [request EXCEPT ![r].pc = "stored"]
  /\ IF Unchanged(r)
     THEN Either(entry' = [entry EXCEPT ![Key(r)] =
                             [value |-> request[r].value, by |-> Home[r]]],
                 UNCHANGED entry)
     ELSE UNCHANGED entry /\ Works
  /\ UNCHANGED <<written, epochs, inflight, memo>>

\* Broken variant: whoever leaves drops the epoch, also with readers left.
LeaveDropping(p, g, S) ==
  /\ request' = [r \in Requests |-> IF r \in S THEN Absent ELSE request[r]]
  /\ epochs' = [epochs EXCEPT ![p][g] = 0]

\* The requests in S leave the tier; the last reader of a key drops its epoch.
Leave(p, g, S) ==
  /\ request' = [r \in Requests |-> IF r \in S THEN Absent ELSE request[r]]
  /\ epochs' = IF Readers(p, g) \subseteq S THEN [epochs EXCEPT ![p][g] = 0] ELSE epochs

\* A request that found an entry sets the memo and answers.
Answer(r) ==
  /\ At(r) = "answered"
  /\ Leave(Home[r], Key(r), {r})
  /\ memo' = [memo EXCEPT ![Home[r]] = request[r].value]
  /\ Works
  /\ UNCHANGED <<written, entry, inflight>>

\* The run of r and everyone who joined it.
Sharing(r) == {r} \cup {q \in Requests : At(q) = "joined" /\ request[q].run = r}

Unlinked(r) ==
  IF inflight[Home[r]][Key(r)] = r THEN [inflight EXCEPT ![Home[r]][Key(r)] = None]
  ELSE inflight

Settle(r) ==
  /\ At(r) = "stored"
  /\ Leave(Home[r], Key(r), Sharing(r))
  /\ inflight' = Unlinked(r)
  /\ memo' = [memo EXCEPT ![Home[r]] = request[r].value]
  /\ Works
  /\ UNCHANGED <<written, entry>>

LoadFails(r) ==
  /\ At(r) = "load"
  /\ Leave(Home[r], Key(r), Sharing(r))
  /\ inflight' = Unlinked(r)
  /\ Break("load")
  /\ UNCHANGED <<written, entry, memo>>

(***************************************************************************)
(* An administrator's write, and the invalidation it does not await.       *)
(***************************************************************************)
Globals == gen + Cardinality({p \in Apis : writer[p].pc = "all"})

Commit(p) ==
  /\ writer[p].pc = "none"
  /\ flag < MaxWrites
  /\ flag' = flag + 1
  /\ \E pc \in {"one"} \cup (IF Globals < MaxGlobal THEN {"all"} ELSE {}) :
       writer' = [writer EXCEPT ![p] = [pc |-> pc, gen |-> 0, version |-> flag']]
  /\ Works
  /\ UNCHANGED <<gen, known, opened, tier, memo, request>>

\* invalidateFlagGate: the memo goes, and the generation is read.
Forget(p) ==
  /\ writer[p].pc = "one"
  /\ memo' = [memo EXCEPT ![p] = None]
  /\ \E g \in {gen, 0} :
       /\ writer' = [writer EXCEPT ![p].pc = "key", ![p].gen = g]
       /\ Either(g = gen, g # gen)
  /\ UNCHANGED <<flag, gen, known, opened, tier, request>>

Later(a, b) == IF a < b THEN b ELSE a

\* Broken variant: the load in flight can still be joined.
InvalidateLinked(p) ==
  /\ writer[p].pc = "key"
  /\ LET g == writer[p].gen IN
       /\ epochs' = IF Readers(p, g) = {} THEN epochs ELSE [epochs EXCEPT ![p][g] = @ + 1]
       /\ entry' = [entry EXCEPT ![g] = Empty]
       /\ known' = [known EXCEPT ![p][g] = Later(@, writer[p].version)]
  /\ writer' = [writer EXCEPT ![p] = Done]
  /\ Works
  /\ UNCHANGED <<flag, gen, opened, inflight, memo, request>>

\* invalidate: unlink the load in flight, move the epoch on if anyone is reading,
\* delete the entry.
Invalidate(p) ==
  /\ writer[p].pc = "key"
  /\ LET g == writer[p].gen IN
       /\ inflight' = [inflight EXCEPT ![p][g] = None]
       /\ epochs' = IF Readers(p, g) = {} THEN epochs ELSE [epochs EXCEPT ![p][g] = @ + 1]
       /\ Either(/\ entry' = [entry EXCEPT ![g] = Empty]
                 /\ known' = [known EXCEPT ![p][g] = Later(@, writer[p].version)],
                 UNCHANGED <<entry, known>>)
  /\ writer' = [writer EXCEPT ![p] = Done]
  /\ UNCHANGED <<flag, gen, opened, memo, request>>

\* invalidateAllFlagGates: every memo goes, and every entry with its generation.
InvalidateAll(p) ==
  /\ writer[p].pc = "all"
  /\ memo' = [memo EXCEPT ![p] = None]
  /\ Either(/\ gen' = gen + 1
            /\ opened' = [opened EXCEPT ![gen + 1] = writer[p].version],
            UNCHANGED <<gen, opened>>)
  /\ writer' = [writer EXCEPT ![p] = Done]
  /\ UNCHANGED <<flag, known, tier, request>>

(***************************************************************************)
(* Time and faults.                                                        *)
(***************************************************************************)

\* Broken variant: the entry is set without a time to live.
EntryStays(g) == FALSE

EntryExpires(g) ==
  /\ entry[g] # Empty
  /\ entry' = [entry EXCEPT ![g] = Empty]
  /\ Works
  /\ UNCHANGED <<written, epochs, inflight, memo, request>>

MemoExpires(p) ==
  /\ memo[p] # None
  /\ memo' = [memo EXCEPT ![p] = None]
  /\ Works
  /\ UNCHANGED <<written, tier, request>>

\* An API process dies, with its write's invalidation if that was not done.
ApiCrash(p) ==
  /\ Break("crash")
  /\ memo' = [memo EXCEPT ![p] = None]
  /\ epochs' = [epochs EXCEPT ![p] = [g \in Gens |-> 0]]
  /\ inflight' = [inflight EXCEPT ![p] = [g \in Gens |-> None]]
  /\ request' = [r \in Requests |-> IF Home[r] = p THEN Absent ELSE request[r]]
  /\ writer' = [writer EXCEPT ![p] = Done]
  /\ UNCHANGED <<flag, gen, known, opened, entry>>

(***************************************************************************)
(* The specification.                                                      *)
(***************************************************************************)
Goes(r) == \/ Enter(r) \/ Lookup(r) \/ JoinOrLoad(r) \/ Load(r) \/ Store(r)
           \/ Answer(r) \/ Settle(r)

Writes(p) == Forget(p) \/ Invalidate(p) \/ InvalidateAll(p)

Next ==
  \/ \E r \in Requests : Begin(r) \/ Goes(r) \/ LoadFails(r)
  \/ \E p \in Apis : Commit(p) \/ Writes(p) \/ MemoExpires(p) \/ ApiCrash(p)
  \/ \E g \in Gens : EntryExpires(g)

Spec == Init /\ [][Next]_vars

\* What began goes on, and time passes.  Nobody has to ask or to write.
LiveSpec ==
  /\ Spec
  /\ \A r \in Requests : WF_vars(Goes(r))
  /\ \A p \in Apis : WF_vars(Writes(p)) /\ WF_vars(MemoExpires(p))
  /\ \A g \in Gens : WF_vars(EntryExpires(g))

(***************************************************************************)
(* Properties.                                                             *)
(***************************************************************************)
TypeOK ==
  /\ flag \in Versions /\ gen \in Gens
  /\ entry \in [Gens -> [value : Versions, by : Apis] \cup {Empty}]
  /\ memo \in [Apis -> Versions \cup {None}]
  /\ epochs \in [Apis -> [Gens -> Nat]]
  /\ inflight \in [Apis -> [Gens -> Requests \cup {None}]]
  /\ writer \in [Apis -> [pc : {"none", "one", "key", "all"}, gen : Gens,
                         version : Versions]]
  /\ known \in [Apis -> [Gens -> Versions]]
  /\ opened \in [Gens -> Versions]

\* An entry is never older than the last invalidation of its key by the process
\* that stored it.
NoStaleWriteBack ==
  \A p \in Apis : \A g \in Gens : entry[g].by = p => entry[g].value >= known[p][g]

\* An entry of a generation is never older than the write that opened it, whoever
\* stored it.
GenerationsRetire == \A g \in Gens : entry[g] # Empty => entry[g].value >= opened[g]

\* One load of a key at a time may still store its value.
SingleFlight ==
  \A p \in Apis : \A g \in Gens :
    Cardinality({r \in Readers(p, g) : At(r) \in {"load", "store"} /\ Unchanged(r)}) <= 1

\* readThrough.ts: what the shared tier holds, under every interleaving of loads,
\* stores and invalidations.
CacheInv == TypeOK /\ NoStaleWriteBack /\ GenerationsRetire /\ SingleFlight

\* readThrough.ts: a request that enters the tier after an invalidation gets no
\* value read before it, neither from an entry nor from a load it joins, unless
\* another process had stored it.
Answers(r) == At(r) \in {"answered", "stored", "joined"} /\ request'[r].pc = "idle"

Got(r) == IF At(r) = "joined" THEN request[request[r].run].value ELSE request[r].value

FreshAfterInvalidation ==
  [][\A r \in Requests : Answers(r) /\ ~(\E p \in Apis : ApiCrash(p)) /\ Got(r) # None =>
       /\ Got(r) >= opened[Key(r)]
       /\ request[r].foreign \/ Got(r) >= request[r].since]_vars

\* gateMemo.ts: whatever is lost, once the flag is written no more every cached
\* value is the flag's.
StalenessEnds ==
  <>[](/\ \A p \in Apis : memo[p] \in {None, flag}
       /\ \A g \in Gens : entry[g].value \in {None, flag})

\* What admin/routes.ts:1361 says: a write whose invalidation is complete lands on
\* the next request of this process.
LandsOnNextRequest == \A p \in Apis : memo[p] # None => memo[p] >= known[p][gen]

=============================================================================
