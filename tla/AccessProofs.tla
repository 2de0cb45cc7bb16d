----------------------------- MODULE AccessProofs -----------------------------
(***************************************************************************)
(* Proofs about what lets a person in: GateCache, for any number of API    *)
(* processes, requests, writes, generations and faults, and Sessions, for  *)
(* any number of devices, tabs and sessions.                               *)
(*                                                                         *)
(* The invariant of GateCache says what a request may assume in each phase *)
(* of its read: which epoch it entered under, whose load it waits for, and *)
(* that a load that may still store began after the last invalidation its  *)
(* process knows of.  The invariant of Sessions says in whose hands each   *)
(* live session is while nothing but the tabs' own races happens, and      *)
(* which sessions a login still has to count against the cap.              *)
(***************************************************************************)
EXTENDS GateCache, Sessions, FiniteSetTheorems, WellFoundedInduction, TLAPS

(***************************************************************************)
(* The inductive invariant.                                                *)
(***************************************************************************)
RequestPcs == {"idle", "gen", "lookup", "missed", "joined", "load", "store", "stored",
               "answered"}
Records == [pc : RequestPcs, gen : Gens, start : Nat, value : Versions \cup {None},
            run : Requests \cup {None}, since : Versions, foreign : BOOLEAN]

GateTyped == TypeOK /\ request \in [Requests -> Records]

\* A request whose load is in flight.
Loads(r) == At(r) \in {"load", "store", "stored"}

\* The value a request has read, if it has, is as new as v.
AsNew(r, v) == At(r) \in {"store", "stored"} => request[r].value >= v

\* Nothing is known that was not written, and no global write is without a generation.
Bounded ==
  /\ \A p \in Apis : writer[p].version <= flag /\ writer[p].gen <= gen
  /\ \A p \in Apis, g \in Gens : known[p][g] <= flag
  /\ \A g \in Gens : opened[g] <= flag /\ (g > gen => entry[g] = Empty)
  /\ Globals <= MaxGlobal

\* A request that is inside the tier.
Reading(r) ==
  Inside(r) =>
    /\ Key(r) <= gen
    /\ request[r].start <= epochs[Home[r]][Key(r)]
    /\ request[r].since <= known[Home[r]][Key(r)]
    /\ AsNew(r, opened[Key(r)])
    /\ AsNew(r, request[r].since)
    /\ Loads(r) /\ Unchanged(r) =>
         inflight[Home[r]][Key(r)] = r /\ AsNew(r, known[Home[r]][Key(r)])
    /\ At(r) = "answered" =>
         /\ request[r].value >= opened[Key(r)]
         /\ request[r].foreign \/ request[r].value >= request[r].since
    /\ At(r) \notin {"answered", "store", "stored"} => request[r].value = None

\* A request that waits for another's load.
Joining(q) ==
  At(q) = "joined" =>
    LET r == request[q].run
    IN  /\ r \in Requests /\ Home[r] = Home[q] /\ Key(r) = Key(q) /\ Loads(r)
        /\ AsNew(r, request[q].since)

\* A load in flight that can be joined.
Linked(p, g) ==
  LET r == inflight[p][g]
  IN  r # None => /\ r \in Requests /\ Home[r] = p /\ Key(r) = g /\ Loads(r)
                  /\ AsNew(r, known[p][g])

GateInv ==
  /\ GateTyped
  /\ Bounded
  /\ \A r \in Requests : Reading(r) /\ Joining(r)
  /\ \A p \in Apis, g \in Gens : Linked(p, g)
  /\ NoStaleWriteBack /\ GenerationsRetire

LEMMA GateConstants ==
  /\ MaxWrites \in Nat /\ MaxGlobal \in Nat /\ MaxFaults \in Nat
  /\ \A r \in Requests : Home[r] \in Apis
  /\ None \notin Apis /\ None \notin Requests /\ None \in Int /\ None < 0
  /\ Gens \subseteq Nat /\ Versions \subseteq Nat /\ 0 \in Gens /\ 0 \in Versions
  /\ \A g \in Gens : g <= MaxGlobal
  /\ \A v \in Versions \cup {None} : v \in Int
  BY GateAssumption DEF Gens, Versions, None

LEMMA TableTyped ==
  ASSUME NEW A, NEW B, NEW T, NEW f \in [A -> [B -> T]], NEW a \in A, NEW b \in B, NEW t \in T
  PROVE  [f EXCEPT ![a][b] = t] \in [A -> [B -> T]]
  OBVIOUS

\* What the types say of one request, one process and one key.
LEMMA GateTypes ==
  ASSUME GateTyped
  PROVE  /\ flag \in Nat /\ flag \in Versions /\ gen \in Gens /\ gen \in Nat
         /\ \A r \in Requests :
              /\ request[r] \in Records /\ At(r) \in RequestPcs /\ Home[r] \in Apis
              /\ Key(r) \in Gens /\ request[r].start \in Nat
              /\ request[r].value \in Versions \cup {None} /\ request[r].value \in Int
              /\ request[r].since \in Versions /\ request[r].since \in Nat
         /\ \A p \in Apis :
              /\ writer[p].version \in Versions /\ writer[p].version \in Nat
              /\ writer[p].gen \in Gens /\ writer[p].gen \in Nat
              /\ epochs[p] \in [Gens -> Nat] /\ known[p] \in [Gens -> Versions]
              /\ inflight[p] \in [Gens -> Requests \cup {None}]
              /\ \A g \in Gens : /\ epochs[p][g] \in Nat /\ known[p][g] \in Nat
         /\ \A g \in Gens :
              /\ opened[g] \in Nat /\ opened[g] \in Versions
              /\ entry[g].value \in Int
              /\ entry[g] # Empty => entry[g].value \in Versions /\ entry[g].by \in Apis
              /\ entry[g] = Empty <=> entry[g].by = None
  <1> USE GateConstants DEF GateTyped, TypeOK
  <1>1. flag \in Nat /\ flag \in Versions /\ gen \in Gens /\ gen \in Nat
    OBVIOUS
  <1>2. ASSUME NEW r \in Requests
        PROVE  /\ request[r] \in Records /\ At(r) \in RequestPcs /\ Home[r] \in Apis
               /\ Key(r) \in Gens /\ request[r].start \in Nat
               /\ request[r].value \in Versions \cup {None} /\ request[r].value \in Int
               /\ request[r].since \in Versions /\ request[r].since \in Nat
    <2>1. request[r] \in Records
      OBVIOUS
    <2>2. request[r].value \in Versions \cup {None} /\ request[r].since \in Versions
      BY <2>1 DEF Records
    <2>3. request[r].value \in Int /\ request[r].since \in Nat
      BY <2>2
    <2> QED BY <2>1, <2>2, <2>3 DEF Records, At, Key
  <1>3. ASSUME NEW p \in Apis
        PROVE  /\ writer[p].version \in Versions /\ writer[p].version \in Nat
               /\ writer[p].gen \in Gens /\ writer[p].gen \in Nat
               /\ epochs[p] \in [Gens -> Nat] /\ known[p] \in [Gens -> Versions]
               /\ inflight[p] \in [Gens -> Requests \cup {None}]
               /\ \A g \in Gens : /\ epochs[p][g] \in Nat /\ known[p][g] \in Nat
    <2>1. /\ epochs[p] \in [Gens -> Nat] /\ known[p] \in [Gens -> Versions]
          /\ inflight[p] \in [Gens -> Requests \cup {None}]
          /\ writer[p] \in [pc : {"none", "one", "key", "all"}, gen : Gens, version : Versions]
      OBVIOUS
    <2> QED BY <2>1
  <1>4. ASSUME NEW g \in Gens
        PROVE  /\ opened[g] \in Nat /\ opened[g] \in Versions
               /\ entry[g].value \in Int
               /\ entry[g] # Empty => entry[g].value \in Versions /\ entry[g].by \in Apis
               /\ entry[g] = Empty <=> entry[g].by = None
    <2>1. opened[g] \in Nat /\ opened[g] \in Versions
      OBVIOUS
    <2>0. entry[g] \in [value : Versions, by : Apis] \cup {Empty}
      OBVIOUS
    <2>2. CASE entry[g] = Empty
      <3>1. Empty.value = None /\ Empty.by = None
        BY DEF Empty
      <3> QED BY <2>1, <2>2, <3>1
    <2>3. CASE entry[g] \in [value : Versions, by : Apis]
      <3>1. entry[g].by \in Apis /\ entry[g].value \in Versions
        BY <2>3
      <3>2. entry[g].by # None /\ entry[g].value \in Int
        BY <3>1
      <3>3. entry[g] # Empty
        BY <3>2 DEF Empty
      <3> QED BY <2>1, <3>1, <3>2, <3>3
    <2> QED BY <2>0, <2>2, <2>3
  <1> QED BY <1>1, <1>2, <1>3, <1>4

\* A request as it begins and ends.
LEMMA AbsentTyped == Absent \in Records /\ None \in Int
  BY GateConstants DEF Absent, Records, RequestPcs, None

\* Any step of a request that sets fields of its record to values of their types.
LEMMA FieldsTyped ==
  ASSUME NEW t \in Records
  PROVE  /\ \A pc \in RequestPcs :
              /\ [t EXCEPT !.pc = pc] \in Records
              /\ \A v \in Versions \cup {None} :
                   /\ [t EXCEPT !.pc = pc, !.value = v] \in Records
                   /\ \A b \in BOOLEAN :
                        [t EXCEPT !.pc = pc, !.value = v, !.foreign = b] \in Records
              /\ \A q \in Requests \cup {None} : [t EXCEPT !.pc = pc, !.run = q] \in Records
              /\ \A g \in Gens, n \in Nat, v \in Versions :
                   [t EXCEPT !.pc = pc, !.gen = g, !.start = n, !.since = v] \in Records
  BY DEF Records

\* One request changes, to a record.
Changed(r) == \E t \in Records : request' = [request EXCEPT ![r] = t]

LEMMA RequestSteps ==
  ASSUME GateTyped, NEW r \in Requests,
         Begin(r) \/ Enter(r) \/ Lookup(r) \/ JoinOrLoad(r) \/ Load(r) \/ Store(r)
  PROVE  Changed(r)
  <1>t. /\ request \in [Requests -> Records] /\ request[r] \in Records
        /\ {"gen", "lookup", "missed", "joined", "load", "store", "stored", "answered"}
             \subseteq RequestPcs
    BY GateTypes DEF GateTyped, RequestPcs
  <1>1. CASE Begin(r)
    <2>1. request' = [request EXCEPT ![r] = [request[r] EXCEPT !.pc = "gen"]]
      BY <1>1, <1>t DEF Begin
    <2> QED BY <2>1, <1>t, FieldsTyped DEF Changed
  <1>2. CASE Enter(r)
    <2>1. PICK g \in {gen, 0} : request' = [request EXCEPT ![r] =
             [Absent EXCEPT !.pc = "lookup", !.gen = g, !.start = epochs[Home[r]][g],
                            !.since = known[Home[r]][g]]]
      BY <1>2 DEF Enter
    <2>2. g \in Gens /\ epochs[Home[r]][g] \in Nat /\ known[Home[r]][g] \in Versions
      BY GateTypes, GateConstants
    <2> QED BY <2>1, <2>2, <1>t, FieldsTyped, AbsentTyped DEF Changed
  <1>3. CASE Lookup(r)
    <2>1. \/ request' = [request EXCEPT ![r] = [request[r] EXCEPT !.pc = "missed"]]
          \/ /\ entry[Key(r)] # Empty
             /\ request' = [request EXCEPT ![r] =
                  [request[r] EXCEPT !.pc = "answered", !.value = entry[Key(r)].value,
                                     !.foreign = entry[Key(r)].by # Home[r]]]
      BY <1>3, <1>t DEF Lookup, Either
    <2>2. entry[Key(r)] # Empty => entry[Key(r)].value \in Versions
      BY GateTypes
    <2>3. (entry[Key(r)].by # Home[r]) \in BOOLEAN
      OBVIOUS
    <2> QED BY <2>1, <2>2, <2>3, <1>t, FieldsTyped DEF Changed
  <1>4. CASE JoinOrLoad(r)
    <2>1. \E q \in Requests \cup {None}, pc \in {"joined", "load"} :
             request' = [request EXCEPT ![r] = [request[r] EXCEPT !.pc = pc, !.run = q]]
      <3>1. inflight[Home[r]][Key(r)] \in Requests \cup {None}
        BY GateTypes
      <3>2. CASE inflight[Home[r]][Key(r)] = None
        BY <1>4, <1>t, <3>2 DEF JoinOrLoad
      <3>3. CASE inflight[Home[r]][Key(r)] # None
        BY <1>4, <1>t, <3>1, <3>3 DEF JoinOrLoad
      <3> QED BY <3>2, <3>3
    <2> QED BY <2>1, <1>t, FieldsTyped DEF Changed
  <1>5. CASE Load(r)
    <2>1. request' = [request EXCEPT ![r] = [request[r] EXCEPT !.pc = "store", !.value = flag]]
      BY <1>5, <1>t DEF Load
    <2> QED BY <2>1, <1>t, FieldsTyped, GateTypes DEF Changed
  <1>6. CASE Store(r)
    <2>1. request' = [request EXCEPT ![r] = [request[r] EXCEPT !.pc = "stored"]]
      BY <1>6, <1>t DEF Store
    <2> QED BY <2>1, <1>t, FieldsTyped DEF Changed
  <1> QED BY <1>1, <1>2, <1>3, <1>4, <1>5, <1>6

LEMMA RequestTypes ==
  ASSUME GateTyped, NEW r \in Requests, Reading(r), Begin(r) \/ Goes(r) \/ LoadFails(r)
  PROVE  GateTyped'
  <1>1. request' \in [Requests -> Records]
    <2>1. CASE Begin(r) \/ Enter(r) \/ Lookup(r) \/ JoinOrLoad(r) \/ Load(r) \/ Store(r)
      BY <2>1, RequestSteps DEF GateTyped, Changed
    <2>2. CASE Answer(r) \/ Settle(r) \/ LoadFails(r)
      BY <2>2, AbsentTyped DEF Answer, Settle, LoadFails, Leave, GateTyped
    <2> QED BY <2>1, <2>2 DEF Goes
  <1>2. epochs' \in [Apis -> [Gens -> Nat]]
    <2>1. epochs \in [Apis -> [Gens -> Nat]] /\ Home[r] \in Apis /\ Key(r) \in Gens
      BY GateTypes DEF GateTyped, TypeOK
    <2>2. epochs' = epochs \/ epochs' = [epochs EXCEPT ![Home[r]][Key(r)] = 0]
      BY DEF Begin, Goes, Enter, Lookup, JoinOrLoad, Load, Store, Answer,
             Settle, LoadFails, Leave, tier
    <2> QED BY <2>1, <2>2
  <1>3. inflight' \in [Apis -> [Gens -> Requests \cup {None}]]
    <2>1. /\ inflight \in [Apis -> [Gens -> Requests \cup {None}]]
          /\ Home[r] \in Apis /\ Key(r) \in Gens
      BY GateTypes DEF GateTyped, TypeOK
    <2>2. \/ inflight' = inflight
          \/ \E q \in Requests \cup {None} : inflight' = [inflight EXCEPT ![Home[r]][Key(r)] = q]
      BY DEF Begin, Goes, Enter, Lookup, JoinOrLoad, Load, Store, Answer,
             Settle, LoadFails, Unlinked, tier
    <2>3. ASSUME NEW q \in Requests \cup {None},
                 inflight' = [inflight EXCEPT ![Home[r]][Key(r)] = q]
          PROVE  inflight' \in [Apis -> [Gens -> Requests \cup {None}]]
      BY <2>1, <2>3
    <2> QED BY <2>1, <2>2, <2>3
  <1>4. memo' \in [Apis -> Versions \cup {None}]
    <2>1. memo \in [Apis -> Versions \cup {None}] /\ request[r].value \in Versions \cup {None}
      BY GateTypes DEF GateTyped, TypeOK
    <2>2. memo' = memo \/ memo' = [memo EXCEPT ![Home[r]] = request[r].value]
      BY DEF Begin, Goes, Enter, Lookup, JoinOrLoad, Load, Store, Answer, Settle, LoadFails
    <2> QED BY <2>1, <2>2
  <1>5. entry' \in [Gens -> [value : Versions, by : Apis] \cup {Empty}]
    <2>1. CASE entry' = entry
      BY <2>1 DEF GateTyped, TypeOK
    <2>2. CASE entry' # entry
      <3>1. entry' = [entry EXCEPT ![Key(r)] = [value |-> request[r].value, by |-> Home[r]]]
            /\ At(r) = "store"
        BY <2>2 DEF Begin, Goes, Enter, Lookup, JoinOrLoad, Load, Store, Either, Answer, Settle,
           LoadFails, tier
      <3>2. request[r].value >= opened[Key(r)] /\ opened[Key(r)] \in Nat
        BY <3>1, GateTypes DEF Reading, AsNew, Inside
      <3>3. request[r].value \in Versions /\ Home[r] \in Apis
        BY <3>2, GateTypes, GateConstants
      <3> QED BY <3>1, <3>3 DEF GateTyped, TypeOK
    <2> QED BY <2>1, <2>2
  <1>6. UNCHANGED written
    BY DEF Begin, Goes, Enter, Lookup, JoinOrLoad, Load, Store, Answer, Settle, LoadFails
  <1> QED BY <1>1, <1>2, <1>3, <1>4, <1>5, <1>6 DEF GateTyped, TypeOK, written

\* The write that opens a generation is among those that Globals counts.
LEMMA RoomForGlobal ==
  ASSUME GateTyped, Bounded, NEW p \in Apis, writer[p].pc = "all"
  PROVE  gen + 1 \in Gens
  <1>1. {q \in Apis : writer[q].pc = "all"} \subseteq Apis /\ IsFiniteSet(Apis)
    BY GateAssumption
  <1>2. /\ IsFiniteSet({q \in Apis : writer[q].pc = "all"})
        /\ p \in {q \in Apis : writer[q].pc = "all"}
    BY <1>1, FS_Subset
  <1>3. Cardinality({q \in Apis : writer[q].pc = "all"}) \in Nat \ {0}
    BY <1>2, FS_CardinalityType, FS_EmptySet
  <1> QED BY <1>3, GateTypes, GateConstants DEF Bounded, Globals, Gens

LEMMA WriteTypes ==
  ASSUME GateTyped, Bounded, NEW p \in Apis,
         Commit(p) \/ Writes(p) \/ MemoExpires(p) \/ ApiCrash(p)
  PROVE  GateTyped'
  <1> DEFINE Writers == [pc : {"none", "one", "key", "all"}, gen : Gens, version : Versions]
  <1>t. /\ writer \in [Apis -> Writers] /\ writer[p] \in Writers /\ gen \in Gens
        /\ epochs \in [Apis -> [Gens -> Nat]] /\ known \in [Apis -> [Gens -> Versions]]
        /\ inflight \in [Apis -> [Gens -> Requests \cup {None}]]
        /\ writer[p].gen \in Gens /\ writer[p].version \in Versions
    BY GateTypes DEF GateTyped, TypeOK
  <1> USE DEF Works, Break, Either, tier, written
  <1>1. flag' \in Versions
    <2>1. CASE Commit(p)
      BY <2>1, GateTypes, GateConstants DEF Commit, Versions
    <2>2. CASE ~Commit(p)
      BY <2>2, GateTypes DEF Writes, Forget, Invalidate, InvalidateAll, MemoExpires, ApiCrash
    <2> QED BY <2>1, <2>2
  <1>2. gen' \in Gens /\ opened' \in [Gens -> Versions]
    <2>1. CASE InvalidateAll(p)
      <3>1. gen + 1 \in Gens
        BY <2>1, RoomForGlobal DEF InvalidateAll
      <3> QED BY <2>1, <3>1, <1>t DEF InvalidateAll, GateTyped, TypeOK
    <2>2. CASE ~InvalidateAll(p)
      BY <2>2 DEF Commit, Writes, Forget, Invalidate, MemoExpires, ApiCrash, GateTyped, TypeOK
    <2> QED BY <2>1, <2>2
  <1>3. writer' \in [Apis -> Writers]
    <2>1. \/ writer' = writer
          \/ \E t \in Writers : writer' = [writer EXCEPT ![p] = t]
      <3>1. CASE Commit(p)
        <4>1. \E pc \in {"one", "all"} :
                writer' = [writer EXCEPT ![p] = [pc |-> pc, gen |-> 0, version |-> flag']]
          BY <3>1 DEF Commit
        <4> QED BY <4>1, <1>1, GateConstants
      <3>2. CASE Forget(p)
        <4>1. \E g \in {gen, 0} :
                writer' = [writer EXCEPT ![p] = [writer[p] EXCEPT !.pc = "key", !.gen = g]]
          BY <3>2, <1>t DEF Forget
        <4> QED BY <4>1, <1>t, GateConstants
      <3>3. CASE Invalidate(p) \/ InvalidateAll(p) \/ ApiCrash(p)
        <4>1. writer' = [writer EXCEPT ![p] = Done] /\ Done \in Writers
          BY <3>3, GateConstants DEF Invalidate, InvalidateAll, ApiCrash, Done
        <4> QED BY <4>1
      <3>4. CASE MemoExpires(p)
        BY <3>4 DEF MemoExpires
      <3> QED BY <3>1, <3>2, <3>3, <3>4 DEF Writes
    <2>2. ASSUME NEW t \in Writers, writer' = [writer EXCEPT ![p] = t]
          PROVE  writer' \in [Apis -> Writers]
      BY <1>t, <2>2
    <2> QED BY <1>t, <2>1, <2>2
  <1>4. /\ epochs' \in [Apis -> [Gens -> Nat]]
        /\ inflight' \in [Apis -> [Gens -> Requests \cup {None}]]
    <2>1. CASE Invalidate(p)
      <3>1. \/ epochs' = epochs
            \/ epochs' = [epochs EXCEPT ![p][writer[p].gen] = @ + 1]
        BY <2>1 DEF Invalidate
      <3>2. epochs' \in [Apis -> [Gens -> Nat]]
        <4>1. epochs[p][writer[p].gen] \in Nat
          BY <1>t
        <4> DEFINE n == epochs[p][writer[p].gen] + 1
        <4>2. n \in Nat /\ (epochs' = epochs \/ epochs' = [epochs EXCEPT ![p][writer[p].gen] = n])
          BY <3>1, <4>1
        <4> HIDE DEF n
        <4>3. writer[p].gen \in Gens /\ epochs \in [Apis -> [Gens -> Nat]]
          BY <1>t
        <4>4. [epochs EXCEPT ![p][writer[p].gen] = n] \in [Apis -> [Gens -> Nat]]
          BY <4>2, <4>3, TableTyped
        <4> QED BY <4>2, <4>3, <4>4
      <3>3. inflight' = [inflight EXCEPT ![p][writer[p].gen] = None]
        BY <2>1 DEF Invalidate
      <3> QED BY <3>2, <3>3, <1>t
    <2>2. CASE ApiCrash(p)
      BY <2>2, <1>t DEF ApiCrash
    <2>3. CASE ~Invalidate(p) /\ ~ApiCrash(p)
      BY <2>3, <1>t DEF Commit, Writes, Forget, InvalidateAll, MemoExpires
    <2> QED BY <2>1, <2>2, <2>3
  <1>5. known' \in [Apis -> [Gens -> Versions]]
    <2>1. CASE Invalidate(p)
      <3>1. \/ known' = known
            \/ \E v \in Versions : known' = [known EXCEPT ![p][writer[p].gen] = v]
        <4>1. Later(known[p][writer[p].gen], writer[p].version) \in Versions
          BY <1>t DEF Later
        <4> QED BY <2>1, <4>1 DEF Invalidate
      <3>2. ASSUME NEW v \in Versions
            PROVE  [known EXCEPT ![p][writer[p].gen] = v] \in [Apis -> [Gens -> Versions]]
        <4>1. writer[p].gen \in Gens /\ known \in [Apis -> [Gens -> Versions]]
          BY <1>t
        <4> QED BY <4>1, TableTyped
      <3>3. ASSUME NEW v \in Versions, known' = [known EXCEPT ![p][writer[p].gen] = v]
            PROVE  known' \in [Apis -> [Gens -> Versions]]
        BY <3>2, <3>3
      <3> QED BY <3>1, <3>3, <1>t
    <2>2. CASE ~Invalidate(p)
      BY <2>2, <1>t DEF Commit, Writes, Forget, InvalidateAll, MemoExpires, ApiCrash
    <2> QED BY <2>1, <2>2
  <1>6. entry' \in [Gens -> [value : Versions, by : Apis] \cup {Empty}]
    <2>1. entry \in [Gens -> [value : Versions, by : Apis] \cup {Empty}]
      BY DEF GateTyped, TypeOK
    <2>2. entry' = entry \/ entry' = [entry EXCEPT ![writer[p].gen] = Empty]
      BY DEF Commit, Writes, Forget, Invalidate, InvalidateAll, MemoExpires, ApiCrash
    <2> QED BY <2>1, <2>2
  <1>7. memo' \in [Apis -> Versions \cup {None}]
    <2>1. memo \in [Apis -> Versions \cup {None}]
      BY DEF GateTyped, TypeOK
    <2>2. memo' = memo \/ memo' = [memo EXCEPT ![p] = None]
      BY DEF Commit, Writes, Forget, Invalidate, InvalidateAll, MemoExpires, ApiCrash
    <2> QED BY <2>1, <2>2
  <1>8. request' \in [Requests -> Records]
    <2>1. request \in [Requests -> Records]
      BY DEF GateTyped
    <2>2. \/ request' = request
          \/ request' = [r \in Requests |-> IF Home[r] = p THEN Absent ELSE request[r]]
      BY DEF Commit, Writes, Forget, Invalidate, InvalidateAll, MemoExpires, ApiCrash
    <2> QED BY <2>1, <2>2, AbsentTyped
  <1> HIDE DEF Works, Break, Either, tier, written
  <1> QED BY <1>1, <1>2, <1>3, <1>4, <1>5, <1>6, <1>7, <1>8 DEF GateTyped, TypeOK

\* How many global writes still have to open their generation.
LEMMA GlobalsKept ==
  ASSUME GateTyped, Bounded, NEW p \in Apis,
         Commit(p) \/ Writes(p) \/ MemoExpires(p) \/ ApiCrash(p)
  PROVE  Globals' <= MaxGlobal
  <1> DEFINE S == {q \in Apis : writer[q].pc = "all"}
             T == {q \in Apis : writer'[q].pc = "all"}
  <1>a. Cardinality(S) \in Nat /\ IsFiniteSet(S) /\ S \subseteq Apis
    BY GateAssumption, FS_Subset, FS_CardinalityType
  <1>b. Globals = gen + Cardinality(S) /\ Globals' = gen' + Cardinality(T)
    BY DEF Globals
  <1>c. \A q \in Apis \ {p} : writer'[q] = writer[q]
    BY DEF Commit, Writes, Forget, Invalidate, InvalidateAll, MemoExpires, ApiCrash, written,
       GateTyped, TypeOK
  <1>d. gen \in Nat /\ MaxGlobal \in Nat /\ gen + Cardinality(S) <= MaxGlobal
    BY <1>b, GateTypes, GateConstants DEF Bounded
  <1>e. DOMAIN writer = Apis
    BY DEF GateTyped, TypeOK
  <1>1. CASE T \subseteq S /\ gen' = gen
    <2>1. Cardinality(T) \in Nat /\ Cardinality(T) <= Cardinality(S)
      BY <1>1, <1>a, FS_Subset, FS_CardinalityType
    <2> QED BY <1>1, <1>a, <1>b, <1>d, <2>1
  <1>2. CASE T \subseteq S \ {p} /\ p \in S /\ gen' = gen + 1
    <2>1. IsFiniteSet(S \ {p}) /\ Cardinality(S \ {p}) = Cardinality(S) - 1
      BY <1>2, <1>a, FS_RemoveElement
    <2>2. Cardinality(T) \in Nat /\ Cardinality(T) <= Cardinality(S \ {p})
          /\ Cardinality(S \ {p}) \in Nat
      BY <1>2, <2>1, FS_Subset, FS_CardinalityType
    <2> QED BY <1>2, <1>a, <1>b, <1>d, <2>1, <2>2
  <1>3. CASE Globals < MaxGlobal /\ T \subseteq S \cup {p} /\ p \notin S /\ gen' = gen
    <2>1. IsFiniteSet(S \cup {p}) /\ Cardinality(S \cup {p}) = Cardinality(S) + 1
      BY <1>3, <1>a, FS_AddElement
    <2>2. Cardinality(T) \in Nat /\ Cardinality(T) <= Cardinality(S \cup {p})
      BY <1>3, <2>1, FS_Subset, FS_CardinalityType
    <2> QED BY <1>3, <1>a, <1>b, <1>d, <2>1, <2>2
  <1>4. CASE Commit(p)
    <2>1. writer[p].pc = "none" /\ gen' = gen
      BY <1>4 DEF Commit
    <2>2. CASE Globals < MaxGlobal
      BY <1>3, <1>c, <2>1, <2>2
    <2>3. CASE ~(Globals < MaxGlobal)
      <3>1. writer'[p].pc = "one"
        BY <1>4, <1>e, <2>3 DEF Commit
      <3> QED BY <1>1, <1>c, <2>1, <3>1
    <2> QED BY <2>2, <2>3
  <1>5. CASE InvalidateAll(p)
    <2>1. writer'[p].pc = "none" /\ writer[p].pc = "all" /\ gen' \in {gen, gen + 1}
      BY <1>5, <1>e DEF InvalidateAll, Done, Either
    <2> QED BY <1>1, <1>2, <1>c, <2>1
  <1>6. CASE Forget(p) \/ Invalidate(p) \/ MemoExpires(p) \/ ApiCrash(p)
    <2>1. gen' = gen /\ (writer'[p].pc # "all" \/ writer' = writer)
      <3>1. CASE Forget(p)
        <4>1. /\ writer[p] \in [pc : {"none", "one", "key", "all"},
                               gen : Gens, version : Versions]
              /\ gen' = gen
          BY <3>1 DEF Forget, GateTyped, TypeOK
        <4>2. \E g \in {gen, 0} : writer' = [writer EXCEPT ![p].pc = "key", ![p].gen = g]
          BY <3>1 DEF Forget
        <4>3. writer'[p].pc = "key"
          BY <4>1, <4>2, <1>e
        <4> QED BY <4>1, <4>3
      <3>2. CASE Invalidate(p) \/ ApiCrash(p)
        <4>1. writer'[p] = Done /\ gen' = gen
          BY <3>2, <1>e DEF Invalidate, ApiCrash
        <4> QED BY <4>1 DEF Done
      <3>3. CASE MemoExpires(p)
        BY <3>3 DEF MemoExpires, written
      <3> QED BY <1>6, <3>1, <3>2, <3>3
    <2> QED BY <1>1, <1>c, <2>1
  <1> QED BY <1>4, <1>5, <1>6 DEF Writes

(***************************************************************************)
(* What a request has read stays as new as it must be.                     *)
(***************************************************************************)
LEMMA InvFacts ==
  ASSUME GateInv
  PROVE  /\ GateTyped /\ Bounded
         /\ \A r \in Requests : Reading(r) /\ Joining(r)
         /\ \A p \in Apis, g \in Gens : Linked(p, g)
         /\ NoStaleWriteBack /\ GenerationsRetire
  BY DEF GateInv

\* A request whose record and whose key's epoch, knowledge and link stay.
LEMMA ReadingStays ==
  ASSUME GateInv, NEW q \in Requests, request'[q] = request[q], gen' \in Nat, gen' >= gen,
         Inside(q) => /\ epochs'[Home[q]][Key(q)] = epochs[Home[q]][Key(q)]
                      /\ known'[Home[q]][Key(q)] = known[Home[q]][Key(q)]
                      /\ opened'[Key(q)] = opened[Key(q)],
         Inside(q) /\ inflight[Home[q]][Key(q)] = q => inflight'[Home[q]][Key(q)] = q
  PROVE  Reading(q)'
  <1>1. Reading(q) /\ gen \in Nat /\ Key(q) \in Nat
    BY InvFacts, GateTypes, GateConstants
  <1> QED BY <1>1 DEF Reading, Inside, At, Key, Loads, AsNew, Unchanged

\* A waiting request whose load's record stays.
LEMMA JoiningStays ==
  ASSUME GateInv, NEW q \in Requests, request'[q] = request[q],
         At(q) = "joined" => request'[request[q].run] = request[request[q].run]
  PROVE  Joining(q)'
  BY InvFacts DEF Joining, At, Key, Loads, AsNew

LEMMA LinkedStays ==
  ASSUME GateInv, NEW p \in Apis, NEW g \in Gens,
         inflight'[p][g] # None =>
           /\ inflight'[p][g] = inflight[p][g] /\ known'[p][g] = known[p][g]
           /\ request'[inflight[p][g]] = request[inflight[p][g]]
  PROVE  Linked(p, g)'
  BY InvFacts DEF Linked, At, Key, Loads, AsNew

\* The shared tier is as good as before where it is as before, or empty.
LEMMA EntriesStay ==
  ASSUME GateInv,
         \A g \in Gens : entry'[g] \in {entry[g], Empty},
         \A g \in Gens : entry'[g] # Empty =>
             opened'[g] = opened[g] /\ \A p \in Apis : known'[p][g] = known[p][g]
  PROVE  NoStaleWriteBack' /\ GenerationsRetire'
  <1>1. Empty.by = None
    BY DEF Empty
  <1> QED BY <1>1, InvFacts, GateConstants DEF NoStaleWriteBack, GenerationsRetire

\* A request moves that neither loads, stores nor leaves.
LEMMA MovesKeep ==
  ASSUME GateInv, GateTyped', NEW r \in Requests, Begin(r) \/ Enter(r) \/ Lookup(r)
  PROVE  GateInv'
  <1>a. GateTyped /\ request \in [Requests -> Records] /\ DOMAIN request = Requests
    BY DEF GateInv, GateTyped
  <1>t. /\ request[r] \in Records /\ Home[r] \in Apis /\ gen \in Nat /\ gen \in Gens
    BY <1>a, GateTypes
  <1>1. /\ \A q \in Requests \ {r} : request'[q] = request[q]
        /\ UNCHANGED <<written, tier>> /\ ~Loads(r)
    <2>1. CASE Begin(r)
      BY <2>1, <1>a DEF Begin, Loads
    <2>2. CASE Enter(r)
      BY <2>2, <1>a DEF Enter, Loads
    <2>3. CASE Lookup(r)
      BY <2>3, <1>a DEF Lookup, Either, Loads
    <2> QED BY <2>1, <2>2, <2>3
  <1>2. Bounded'
    BY <1>1 DEF GateInv, Bounded, Globals, written, tier
  <1>3. Reading(r)'
    <2>1. CASE Begin(r)
      <3>1. request'[r].pc = "gen"
        BY <2>1, <1>a, <1>t DEF Begin, Records
      <3> QED BY <3>1 DEF Reading, Inside, At
    <2>2. CASE Enter(r)
      <3>1. PICK g \in {gen, 0} : request'[r] =
               [Absent EXCEPT !.pc = "lookup", !.gen = g, !.start = epochs[Home[r]][g],
                              !.since = known[Home[r]][g]]
        BY <2>2, <1>a DEF Enter
      <3>2. /\ request'[r].pc = "lookup" /\ request'[r].gen = g /\ request'[r].value = None
            /\ request'[r].start = epochs[Home[r]][g] /\ request'[r].since = known[Home[r]][g]
        BY <3>1 DEF Absent
      <3>3. epochs[Home[r]][g] \in Nat /\ known[Home[r]][g] \in Nat /\ g <= gen
        BY <1>a, <1>t, GateTypes, GateConstants
      <3> QED BY <3>2, <3>3, <1>1 DEF Reading, Inside, At, Key, Loads, AsNew, written, tier
    <2>3. CASE Lookup(r)
      <3>1. /\ request'[r].gen = request[r].gen /\ request'[r].start = request[r].start
            /\ request'[r].since = request[r].since /\ request[r].pc = "lookup"
            /\ \/ request'[r].pc = "missed" /\ request'[r].value = request[r].value
               \/ /\ entry[Key(r)] # Empty /\ request'[r].pc = "answered"
                  /\ request'[r].value = entry[Key(r)].value
                  /\ request'[r].foreign = (entry[Key(r)].by # Home[r])
        BY <2>3, <1>a, <1>t DEF Lookup, Either, Records, At
      <3>2. Reading(r) /\ Inside(r) /\ Key(r) \in Gens
        BY <3>1, <1>a, InvFacts, GateTypes DEF Inside, At
      <3>3. CASE request'[r].pc = "missed" /\ request'[r].value = request[r].value
        BY <3>1, <3>2, <3>3, <1>1 DEF Reading, Inside, At, Key, Loads, AsNew, written, tier
      <3>4. CASE /\ entry[Key(r)] # Empty /\ request'[r].pc = "answered"
                 /\ request'[r].value = entry[Key(r)].value
                 /\ request'[r].foreign = (entry[Key(r)].by # Home[r])
        <4>1. entry[Key(r)].value >= opened[Key(r)]
          BY <3>2, <3>4, InvFacts DEF GenerationsRetire
        <4>2. entry[Key(r)].by = Home[r] => entry[Key(r)].value >= request[r].since
          <5>1. entry[Key(r)].by = Home[r] => entry[Key(r)].value >= known[Home[r]][Key(r)]
            BY <3>2, <1>t, InvFacts DEF NoStaleWriteBack
          <5>2. /\ known[Home[r]][Key(r)] >= request[r].since
                /\ known[Home[r]][Key(r)] \in Nat /\ request[r].since \in Nat
                /\ entry[Key(r)].value \in Int
            BY <3>2, <1>a, <1>t, GateTypes DEF Reading
          <5> QED BY <5>1, <5>2
        <4> QED BY <3>1, <3>2, <3>4, <4>1, <4>2, <1>1
                DEF Reading, Inside, At, Key, Loads, AsNew, written, tier
      <3> QED BY <3>1, <3>3, <3>4
    <2> QED BY <2>1, <2>2, <2>3
  <1>4. request'[r].pc # "joined"
    <2>1. CASE Begin(r)
      BY <2>1, <1>a, <1>t DEF Begin, Records
    <2>2. CASE Enter(r)
      BY <2>2, <1>a DEF Enter, Absent
    <2>3. CASE Lookup(r)
      BY <2>3, <1>a, <1>t DEF Lookup, Either, Records
    <2> QED BY <2>1, <2>2, <2>3
  <1>5. ASSUME NEW q \in Requests PROVE Reading(q)' /\ Joining(q)'
    <2>1. CASE q = r
      BY <2>1, <1>3, <1>4 DEF Joining, At
    <2>2. CASE q # r
      <3>1. Reading(q)'
        BY <2>2, <1>1, <1>t, ReadingStays DEF written, tier
      <3>2. At(q) = "joined" => request[q].run \in Requests /\ request[q].run # r
        BY <1>1, InvFacts DEF Joining
      <3> QED BY <2>2, <3>1, <3>2, <1>1, JoiningStays
    <2> QED BY <2>1, <2>2
  <1>6. ASSUME NEW p \in Apis, NEW g \in Gens PROVE Linked(p, g)'
    <2>1. inflight[p][g] # None => inflight[p][g] \in Requests /\ inflight[p][g] # r
      BY <1>1, InvFacts DEF Linked
    <2> QED BY <2>1, <1>1, LinkedStays DEF written, tier
  <1>7. NoStaleWriteBack' /\ GenerationsRetire'
    BY <1>1, EntriesStay DEF written, tier
  <1> QED BY <1>2, <1>5, <1>6, <1>7 DEF GateInv

\* A request joins a load or begins one.
LEMMA JoinKeeps ==
  ASSUME GateInv, GateTyped', NEW r \in Requests, JoinOrLoad(r)
  PROVE  GateInv'
  <1>a. GateTyped /\ request \in [Requests -> Records] /\ DOMAIN request = Requests
        /\ inflight \in [Apis -> [Gens -> Requests \cup {None}]]
    BY DEF GateInv, GateTyped, TypeOK
  <1>t. /\ request[r] \in Records /\ Home[r] \in Apis /\ Key(r) \in Gens /\ gen \in Nat
        /\ inflight[Home[r]][Key(r)] \in Requests \cup {None}
        /\ request[r].since \in Nat /\ known[Home[r]][Key(r)] \in Nat
    BY <1>a, GateTypes
  <1>1. /\ \A q \in Requests \ {r} : request'[q] = request[q]
        /\ UNCHANGED <<written, entry, epochs>> /\ At(r) = "missed"
        /\ request'[r].gen = request[r].gen /\ request'[r].start = request[r].start
        /\ request'[r].since = request[r].since /\ request'[r].value = request[r].value
    BY <1>a, <1>t DEF JoinOrLoad, Records
  <1>2. Bounded'
    BY <1>1 DEF GateInv, Bounded, Globals, written
  <1>3. Reading(r) /\ Inside(r)
    BY <1>1, InvFacts DEF Inside
  <1>4. CASE inflight[Home[r]][Key(r)] # None
    <2> DEFINE run == inflight[Home[r]][Key(r)]
    <2>1. /\ inflight' = inflight /\ request'[r].pc = "joined" /\ request'[r].run = run
      BY <1>4, <1>a, <1>t DEF JoinOrLoad, Records
    <2>2. /\ run \in Requests /\ Home[run] = Home[r] /\ Key(run) = Key(r) /\ Loads(run)
          /\ AsNew(run, known[Home[r]][Key(r)]) /\ run # r
      BY <1>4, <1>t, <1>1, InvFacts DEF Linked, Loads
    <2> HIDE DEF run
    <2>3. AsNew(run, request[r].since)
      <3>1. request[r].since <= known[Home[r]][Key(r)] /\ request[run].value \in Int
        BY <1>3, <1>a, <2>2, GateTypes DEF Reading
      <3> QED BY <3>1, <2>2, <1>t DEF AsNew
    <2>4. Joining(r)'
      BY <1>1, <2>1, <2>2, <2>3 DEF Joining, At, Key, Loads, AsNew
    <2>5. Reading(r)'
      BY <1>1, <1>3, <2>1 DEF Reading, Inside, At, Key, Loads, AsNew, written
    <2>6. ASSUME NEW q \in Requests PROVE Reading(q)' /\ Joining(q)'
      <3>1. CASE q = r
        BY <2>4, <2>5, <3>1
      <3>2. CASE q # r
        <4>1. Reading(q)'
          BY <3>2, <2>1, <1>1, <1>t, ReadingStays DEF written
        <4>2. At(q) = "joined" => request[q].run \in Requests /\ request[q].run # r
          BY <1>1, InvFacts DEF Joining, Loads
        <4> QED BY <3>2, <4>1, <4>2, <1>1, JoiningStays
      <3> QED BY <3>1, <3>2
    <2>7. ASSUME NEW p \in Apis, NEW g \in Gens PROVE Linked(p, g)'
      <3>1. inflight[p][g] # None => inflight[p][g] \in Requests /\ inflight[p][g] # r
        BY <1>1, InvFacts DEF Linked, Loads
      <3> QED BY <3>1, <2>1, <1>1, LinkedStays DEF written
    <2>8. NoStaleWriteBack' /\ GenerationsRetire'
      BY <1>1, EntriesStay DEF written
    <2> QED BY <1>2, <2>6, <2>7, <2>8 DEF GateInv
  <1>5. CASE inflight[Home[r]][Key(r)] = None
    <2>1. /\ inflight' = [inflight EXCEPT ![Home[r]][Key(r)] = r] /\ request'[r].pc = "load"
      BY <1>5, <1>a, <1>t DEF JoinOrLoad, Records
    <2>2. inflight'[Home[r]][Key(r)] = r
      BY <2>1, <1>a, <1>t
    <2>3. \A p \in Apis, g \in Gens :
             p # Home[r] \/ g # Key(r) => inflight'[p][g] = inflight[p][g]
      BY <2>1, <1>a, <1>t
    <2>5. Reading(r)'
      BY <1>1, <1>3, <2>1, <2>2 DEF Reading, Inside, At, Key, Loads, AsNew, Unchanged, written
    <2>6. ASSUME NEW q \in Requests PROVE Reading(q)' /\ Joining(q)'
      <3>1. CASE q = r
        BY <2>1, <2>5, <3>1 DEF Joining, At
      <3>2. CASE q # r
        <4>0. Inside(q) /\ inflight[Home[q]][Key(q)] = q => inflight'[Home[q]][Key(q)] = q
          <5>1. Home[q] \in Apis /\ Key(q) \in Gens /\ q # None
            BY <1>a, GateTypes, GateConstants
          <5> QED BY <5>1, <1>5, <2>3
        <4>1. Reading(q)'
          BY <3>2, <4>0, <1>1, <1>t, ReadingStays DEF written
        <4>2. At(q) = "joined" => request[q].run \in Requests /\ request[q].run # r
          BY <1>1, InvFacts DEF Joining, Loads
        <4> QED BY <3>2, <4>1, <4>2, <1>1, JoiningStays
      <3> QED BY <3>1, <3>2
    <2>7. ASSUME NEW p \in Apis, NEW g \in Gens PROVE Linked(p, g)'
      <3>1. CASE p = Home[r] /\ g = Key(r)
        BY <3>1, <2>1, <2>2, <1>1 DEF Linked, At, Key, Loads, AsNew
      <3>2. CASE p # Home[r] \/ g # Key(r)
        <4>1. inflight[p][g] # None => inflight[p][g] \in Requests /\ inflight[p][g] # r
          BY <1>1, InvFacts DEF Linked, Loads
        <4> QED BY <3>2, <4>1, <2>3, <1>1, LinkedStays DEF written
      <3> QED BY <3>1, <3>2
    <2>8. NoStaleWriteBack' /\ GenerationsRetire'
      BY <1>1, EntriesStay DEF written
    <2> QED BY <1>2, <2>6, <2>7, <2>8 DEF GateInv
  <1> QED BY <1>4, <1>5

\* A load reads the flag, and nothing is known that is newer.
LEMMA LoadKeeps ==
  ASSUME GateInv, GateTyped', NEW r \in Requests, Load(r)
  PROVE  GateInv'
  <1>a. GateTyped /\ request \in [Requests -> Records] /\ DOMAIN request = Requests
    BY DEF GateInv, GateTyped
  <1>t. /\ request[r] \in Records /\ Home[r] \in Apis /\ Key(r) \in Gens /\ gen \in Nat
        /\ request[r].since \in Nat /\ known[Home[r]][Key(r)] \in Nat /\ flag \in Nat
        /\ opened[Key(r)] \in Nat
    BY <1>a, GateTypes
  <1>1. /\ \A q \in Requests \ {r} : request'[q] = request[q]
        /\ UNCHANGED <<written, tier>> /\ At(r) = "load"
        /\ request'[r].gen = request[r].gen /\ request'[r].start = request[r].start
        /\ request'[r].since = request[r].since /\ request'[r].value = flag
        /\ request'[r].pc = "store"
    BY <1>a, <1>t DEF Load, Records
  <1>2. Bounded'
    BY <1>1 DEF GateInv, Bounded, Globals, written, tier
  <1>b. /\ known[Home[r]][Key(r)] <= flag /\ opened[Key(r)] <= flag
        /\ request[r].since <= known[Home[r]][Key(r)] /\ Reading(r)
    BY <1>1, <1>t, InvFacts DEF Bounded, Reading, Inside
  <1>c. request[r].since <= flag
    BY <1>b, <1>t
  <1>3. Reading(r)'
    BY <1>1, <1>b, <1>c DEF Reading, Inside, At, Key, Loads, AsNew, Unchanged, written, tier
  <1>5. ASSUME NEW q \in Requests PROVE Reading(q)' /\ Joining(q)'
    <2>1. CASE q = r
      BY <2>1, <1>1, <1>3 DEF Joining, At
    <2>2. CASE q # r
      <3>1. Reading(q)'
        BY <2>2, <1>1, <1>t, ReadingStays DEF written, tier
      <3>2. CASE At(q) = "joined" /\ request[q].run = r
        <4>1. /\ Home[r] = Home[q] /\ Key(r) = Key(q)
              /\ request[q].since <= known[Home[q]][Key(q)] /\ request[q].since \in Nat
          BY <3>2, <1>a, InvFacts, GateTypes DEF Joining, Reading, Inside
        <4>2. request[q].since <= flag
          BY <4>1, <1>b, <1>t
        <4> QED BY <3>1, <3>2, <4>1, <4>2, <2>2, <1>1 DEF Joining, At, Key, Loads, AsNew
      <3>3. CASE ~(At(q) = "joined" /\ request[q].run = r)
        <4>1. At(q) = "joined" => request[q].run \in Requests /\ request[q].run # r
          BY <3>3, InvFacts DEF Joining
        <4> QED BY <2>2, <3>1, <4>1, <1>1, JoiningStays
      <3> QED BY <3>2, <3>3
    <2> QED BY <2>1, <2>2
  <1>6. ASSUME NEW p \in Apis, NEW g \in Gens PROVE Linked(p, g)'
    <2>1. CASE inflight[p][g] = r
      <3>1. Home[r] = p /\ Key(r) = g
        BY <2>1, InvFacts, GateConstants DEF Linked
      <3> QED BY <2>1, <3>1, <1>1, <1>b DEF Linked, At, Key, Loads, AsNew, written, tier
    <2>2. CASE inflight[p][g] # r
      <3>1. inflight[p][g] # None => inflight[p][g] \in Requests
        BY InvFacts DEF Linked
      <3> QED BY <2>2, <3>1, <1>1, LinkedStays DEF written, tier
    <2> QED BY <2>1, <2>2
  <1>7. NoStaleWriteBack' /\ GenerationsRetire'
    BY <1>1, EntriesStay DEF written, tier
  <1> QED BY <1>2, <1>5, <1>6, <1>7 DEF GateInv

\* A store writes only what was loaded after the last invalidation of its key.
LEMMA StoreKeeps ==
  ASSUME GateInv, GateTyped', NEW r \in Requests, Store(r)
  PROVE  GateInv'
  <1>a. GateTyped /\ request \in [Requests -> Records] /\ DOMAIN request = Requests
        /\ DOMAIN entry = Gens
    BY DEF GateInv, GateTyped, TypeOK
  <1>t. /\ request[r] \in Records /\ Home[r] \in Apis /\ Key(r) \in Gens /\ gen \in Nat
        /\ Key(r) \in Nat
    BY <1>a, GateTypes, GateConstants
  <1>1. /\ \A q \in Requests \ {r} : request'[q] = request[q]
        /\ UNCHANGED <<written, epochs, inflight>> /\ At(r) = "store"
        /\ request'[r].gen = request[r].gen /\ request'[r].start = request[r].start
        /\ request'[r].since = request[r].since /\ request'[r].value = request[r].value
        /\ request'[r].pc = "stored"
    BY <1>a, <1>t DEF Store, Records
  <1>2. \/ entry' = entry
        \/ /\ Unchanged(r)
           /\ entry' = [entry EXCEPT ![Key(r)] = [value |-> request[r].value, by |-> Home[r]]]
    BY DEF Store, Either
  <1>b. Reading(r) /\ Inside(r) /\ Loads(r)
    BY <1>1, InvFacts DEF Inside, Loads
  <1>3. Bounded'
    <2>1. \A g \in Gens : g > gen => entry'[g] = Empty
      <3>1. Key(r) <= gen
        BY <1>b DEF Reading
      <3> QED BY <1>2, <1>a, <1>t, <3>1, GateConstants, InvFacts DEF Bounded
    <2> QED BY <2>1, <1>1 DEF GateInv, Bounded, Globals, written
  <1>4. Reading(r)'
    BY <1>1, <1>b DEF Reading, Inside, At, Key, Loads, AsNew, Unchanged, written
  <1>5. ASSUME NEW q \in Requests PROVE Reading(q)' /\ Joining(q)'
    <2>1. CASE q = r
      BY <2>1, <1>1, <1>4 DEF Joining, At
    <2>2. CASE q # r
      <3>1. Reading(q)'
        BY <2>2, <1>1, <1>t, ReadingStays DEF written
      <3>2. CASE At(q) = "joined" /\ request[q].run = r
        BY <2>2, <3>1, <3>2, <1>1, InvFacts DEF Joining, At, Key, Loads, AsNew
      <3>3. CASE ~(At(q) = "joined" /\ request[q].run = r)
        <4>1. At(q) = "joined" => request[q].run \in Requests /\ request[q].run # r
          BY <3>3, InvFacts DEF Joining
        <4> QED BY <2>2, <3>1, <4>1, <1>1, JoiningStays
      <3> QED BY <3>2, <3>3
    <2> QED BY <2>1, <2>2
  <1>6. ASSUME NEW p \in Apis, NEW g \in Gens PROVE Linked(p, g)'
    <2>1. CASE inflight[p][g] = r
      BY <2>1, <1>1, InvFacts, GateConstants DEF Linked, At, Key, Loads, AsNew, written
    <2>2. CASE inflight[p][g] # r
      <3>1. inflight[p][g] # None => inflight[p][g] \in Requests
        BY InvFacts DEF Linked
      <3> QED BY <2>2, <3>1, <1>1, LinkedStays DEF written
    <2> QED BY <2>1, <2>2
  <1>7. NoStaleWriteBack' /\ GenerationsRetire'
    <2>1. CASE entry' = entry
      BY <2>1, <1>1, EntriesStay DEF written
    <2>2. CASE /\ Unchanged(r)
               /\ entry' = [entry EXCEPT ![Key(r)] = [value |-> request[r].value, by |-> Home[r]]]
      <3>1. /\ entry'[Key(r)].value = request[r].value /\ entry'[Key(r)].by = Home[r]
            /\ \A g \in Gens \ {Key(r)} : entry'[g] = entry[g]
        BY <2>2, <1>a, <1>t
      <3>2. /\ request[r].value >= known[Home[r]][Key(r)]
            /\ request[r].value >= opened[Key(r)]
        BY <2>2, <1>1, <1>b DEF Reading, AsNew
      <3> QED BY <3>1, <3>2, <1>1, InvFacts DEF NoStaleWriteBack, GenerationsRetire, written
    <2> QED BY <1>2, <2>1, <2>2
  <1> QED BY <1>3, <1>5, <1>6, <1>7 DEF GateInv

\* Requests leave: the last reader of a key drops its epoch, a load its link.
LEMMA LeavesKeep ==
  ASSUME GateInv, GateTyped', NEW r \in Requests, Answer(r) \/ Settle(r) \/ LoadFails(r)
  PROVE  GateInv'
  <1>a. /\ GateTyped /\ epochs \in [Apis -> [Gens -> Nat]]
        /\ inflight \in [Apis -> [Gens -> Requests \cup {None}]]
    BY DEF GateInv, GateTyped, TypeOK
  <1>t. Home[r] \in Apis /\ Key(r) \in Gens /\ gen \in Nat /\ r # None
    BY <1>a, GateTypes, GateConstants
  <1> DEFINE S == IF At(r) = "answered" THEN {r} ELSE Sharing(r)
  <1>1. /\ \A q \in Requests : request'[q] = IF q \in S THEN Absent ELSE request[q]
        /\ epochs' = IF Readers(Home[r], Key(r)) \subseteq S
                     THEN [epochs EXCEPT ![Home[r]][Key(r)] = 0] ELSE epochs
        /\ UNCHANGED <<written, entry>>
        /\ At(r) # "answered" => inflight' = Unlinked(r)
        /\ At(r) = "answered" => inflight' = inflight
    <2>1. CASE Answer(r)
      BY <2>1 DEF Answer, Leave
    <2>2. CASE Settle(r)
      BY <2>2 DEF Settle, Leave
    <2>3. CASE LoadFails(r)
      BY <2>3 DEF LoadFails, Leave
    <2> QED BY <2>1, <2>2, <2>3
  <1>2. \A q \in S : q = r \/ At(q) = "joined"
    BY DEF Sharing
  <1>3. \A q \in Requests : At(q) = "joined" /\ request[q].run = r => q \in S
    <2>1. CASE At(r) = "answered"
      BY <2>1, InvFacts DEF Joining, Loads
    <2>2. CASE At(r) # "answered"
      BY <2>2 DEF Sharing
    <2> QED BY <2>1, <2>2
  <1>4. r \in S
    BY DEF Sharing
  <1> HIDE DEF S
  <1>5. \A q \in Requests : q \notin S /\ Inside(q)
                 => epochs'[Home[q]][Key(q)] = epochs[Home[q]][Key(q)]
    <2> SUFFICES ASSUME NEW q \in Requests, q \notin S, Inside(q)
                 PROVE  epochs'[Home[q]][Key(q)] = epochs[Home[q]][Key(q)]
      OBVIOUS
    <2>1. Home[q] \in Apis /\ Key(q) \in Gens
      BY <1>a, GateTypes
    <2>2. CASE Home[q] = Home[r] /\ Key(q) = Key(r)
      <3>1. q \in Readers(Home[r], Key(r))
        BY <2>2 DEF Readers
      <3> QED BY <3>1, <1>1
    <2>3. CASE ~(Home[q] = Home[r] /\ Key(q) = Key(r))
      BY <2>1, <2>3, <1>1, <1>a, <1>t
    <2> QED BY <2>2, <2>3
  <1>6. \A p \in Apis, g \in Gens :
           /\ inflight'[p][g] \in {inflight[p][g], None}
           /\ inflight[p][g] # r => inflight'[p][g] = inflight[p][g]
           /\ inflight[p][g] = r => inflight'[p][g] = None
    <2> SUFFICES ASSUME NEW p \in Apis, NEW g \in Gens
                 PROVE  /\ inflight'[p][g] \in {inflight[p][g], None}
                        /\ inflight[p][g] # r => inflight'[p][g] = inflight[p][g]
                        /\ inflight[p][g] = r => inflight'[p][g] = None
      OBVIOUS
    <2>1. inflight[p][g] = r => Home[r] = p /\ Key(r) = g /\ At(r) # "answered"
      BY <1>t, InvFacts DEF Linked, Loads
    <2>2. CASE inflight' = inflight
      <3>1. inflight[p][g] # r
        BY <2>1, <2>2, <1>1, <1>a, <1>t DEF Unlinked
      <3> QED BY <2>2, <3>1
    <2>3. CASE /\ inflight[Home[r]][Key(r)] = r
               /\ inflight' = [inflight EXCEPT ![Home[r]][Key(r)] = None]
      BY <2>1, <2>3, <1>a, <1>t
    <2> QED BY <2>2, <2>3, <1>1 DEF Unlinked
  <1>7. ASSUME NEW q \in Requests PROVE Reading(q)' /\ Joining(q)'
    <2>1. CASE q \in S
      BY <2>1, <1>1 DEF Reading, Joining, Inside, At, Absent
    <2>2. CASE q \notin S
      <3>1. request'[q] = request[q] /\ q # r /\ Home[q] \in Apis /\ Key(q) \in Gens
        BY <2>2, <1>1, <1>4, <1>a, GateTypes
      <3>2. Reading(q)'
        BY <2>2, <3>1, <1>1, <1>5, <1>6, <1>t, ReadingStays DEF written
      <3>3. At(q) = "joined" => /\ request[q].run \in Requests /\ request[q].run # r
                                /\ Loads(request[q].run)
        BY <2>2, <1>3, InvFacts DEF Joining
      <3>4. At(q) = "joined" => request[q].run \notin S
        BY <3>3, <1>2 DEF Loads
      <3>5. At(q) = "joined" => request'[request[q].run] = request[request[q].run]
        BY <3>3, <3>4, <1>1
      <3> QED BY <3>1, <3>2, <3>5, JoiningStays
    <2> QED BY <2>1, <2>2
  <1>8. ASSUME NEW p \in Apis, NEW g \in Gens PROVE Linked(p, g)'
    <2>1. inflight[p][g] # None => /\ inflight[p][g] \in Requests /\ Loads(inflight[p][g])
      BY InvFacts DEF Linked
    <2>2. inflight'[p][g] # None => /\ inflight'[p][g] = inflight[p][g]
                                    /\ inflight[p][g] # r
      BY <1>6
    <2>3. inflight'[p][g] # None => inflight[p][g] \notin S
      BY <2>1, <2>2, <1>2 DEF Loads
    <2> QED BY <2>1, <2>2, <2>3, <1>1, LinkedStays DEF written
  <1>9. NoStaleWriteBack' /\ GenerationsRetire'
    BY <1>1, EntriesStay DEF written
  <1>10. Bounded'
    BY <1>1 DEF GateInv, Bounded, Globals, written
  <1> QED BY <1>7, <1>8, <1>9, <1>10 DEF GateInv

\* Steps that leave the requests alone and know nothing new of any key.
LEMMA RestKeeps ==
  ASSUME GateInv, GateTyped', Bounded',
         UNCHANGED <<request, epochs, inflight, known>>, gen' \in Nat, gen' >= gen,
         \A g \in Gens : g <= gen => opened'[g] = opened[g],
         \A g \in Gens : entry'[g] \in {entry[g], Empty}
  PROVE  GateInv'
  <1>1. ASSUME NEW q \in Requests PROVE Reading(q)' /\ Joining(q)'
    <2>1. Inside(q) => Key(q) \in Gens /\ Key(q) <= gen
      BY InvFacts, GateTypes DEF Reading
    <2>2. Reading(q)'
      BY <2>1, ReadingStays
    <2> QED BY <2>2, JoiningStays
  <1>2. ASSUME NEW p \in Apis, NEW g \in Gens PROVE Linked(p, g)'
    BY LinkedStays
  <1>3. \A g \in Gens : entry'[g] # Empty => g <= gen
    <2> SUFFICES ASSUME NEW g \in Gens, entry'[g] # Empty PROVE g <= gen
      OBVIOUS
    <2>1. entry[g] # Empty /\ g \in Nat /\ gen \in Nat
      BY InvFacts, GateTypes, GateConstants
    <2> QED BY <2>1, InvFacts DEF Bounded
  <1>4. NoStaleWriteBack' /\ GenerationsRetire'
    BY <1>3, EntriesStay
  <1> QED BY <1>1, <1>2, <1>4 DEF GateInv

LEMMA WritesKeep ==
  ASSUME GateInv, GateTyped', NEW p \in Apis,
         Commit(p) \/ Forget(p) \/ InvalidateAll(p) \/ MemoExpires(p)
  PROVE  GateInv'
  <1>a. /\ GateTyped /\ gen \in Nat /\ flag \in Nat /\ gen' \in Nat /\ gen' \in Gens
        /\ flag' \in Nat /\ DOMAIN writer = Apis /\ DOMAIN opened = Gens
    BY GateTypes, GateConstants DEF GateInv, GateTyped, TypeOK
  <1>b. Globals' <= MaxGlobal
    BY <1>a, InvFacts, GlobalsKept DEF Writes
  <1>1. /\ UNCHANGED <<request, epochs, inflight, known, entry>>
        /\ \A q \in Apis \ {p} : writer'[q] = writer[q]
    BY <1>a DEF Commit, Forget, InvalidateAll, MemoExpires, written, tier
  <1>2. /\ flag' >= flag /\ gen' >= gen
        /\ writer'[p].version <= flag' /\ writer'[p].gen <= gen'
        /\ \A g \in Gens : g <= gen => opened'[g] = opened[g]
        /\ \A g \in Gens : opened'[g] <= flag'
    <2>w. /\ writer[p].version <= flag /\ writer[p].gen <= gen
          /\ writer[p].version \in Nat /\ writer[p].gen \in Nat
          /\ \A g \in Gens : opened[g] <= flag /\ opened[g] \in Nat
      BY <1>a, InvFacts, GateTypes DEF Bounded
    <2>1. CASE Commit(p)
      <3>1. /\ flag' = flag + 1 /\ gen' = gen /\ opened' = opened
            /\ writer'[p].version = flag' /\ writer'[p].gen = 0
        BY <2>1, <1>a DEF Commit
      <3> QED BY <3>1, <1>a, <2>w
    <2>2. CASE Forget(p)
      <3>1. flag' = flag /\ gen' = gen /\ opened' = opened
        BY <2>2 DEF Forget
      <3>2. PICK g \in {gen, 0} : writer' = [writer EXCEPT ![p].pc = "key", ![p].gen = g]
        BY <2>2 DEF Forget
      <3>3. writer[p] \in [pc : {"none", "one", "key", "all"}, gen : Gens, version : Versions]
        BY <1>a DEF GateTyped, TypeOK
      <3>4. writer'[p].version = writer[p].version /\ writer'[p].gen = g
        BY <3>2, <3>3, <1>a
      <3>5. g \in Nat /\ g <= gen
        BY <1>a
      <3> QED BY <3>1, <3>4, <3>5, <1>a, <2>w
    <2>3. CASE InvalidateAll(p)
      <3>1. /\ flag' = flag /\ writer'[p].version = 0 /\ writer'[p].gen = 0
        BY <2>3, <1>a DEF InvalidateAll, Done
      <3>2. \/ gen' = gen /\ opened' = opened
            \/ /\ gen' = gen + 1
               /\ opened' = [opened EXCEPT ![gen + 1] = writer[p].version]
        BY <2>3 DEF InvalidateAll, Either
      <3>3. \A g \in Gens : g \in Nat
        BY GateConstants
      <3> QED BY <3>1, <3>2, <3>3, <1>a, <2>w
    <2>4. CASE MemoExpires(p)
      <3>1. flag' = flag /\ gen' = gen /\ opened' = opened /\ writer' = writer
        BY <2>4 DEF MemoExpires, written
      <3> QED BY <3>1, <1>a, <2>w
    <2> QED BY <2>1, <2>2, <2>3, <2>4
  <1>3. Bounded'
    <2>1. \A q \in Apis : writer'[q].version <= flag' /\ writer'[q].gen <= gen'
      <3> SUFFICES ASSUME NEW q \in Apis, q # p
                   PROVE  writer'[q].version <= flag' /\ writer'[q].gen <= gen'
        BY <1>2
      <3>1. /\ writer[q].version <= flag /\ writer[q].gen <= gen
            /\ writer[q].version \in Nat /\ writer[q].gen \in Nat
        BY <1>a, InvFacts, GateTypes DEF Bounded
      <3> QED BY <3>1, <1>1, <1>2, <1>a
    <2>2. \A q \in Apis, g \in Gens : known'[q][g] <= flag'
      <3> SUFFICES ASSUME NEW q \in Apis, NEW g \in Gens PROVE known'[q][g] <= flag'
        OBVIOUS
      <3>1. known[q][g] <= flag /\ known[q][g] \in Nat
        BY <1>a, InvFacts, GateTypes DEF Bounded
      <3> QED BY <3>1, <1>1, <1>2, <1>a
    <2>3. \A g \in Gens : g > gen' => entry'[g] = Empty
      <3> SUFFICES ASSUME NEW g \in Gens, g > gen' PROVE entry'[g] = Empty
        OBVIOUS
      <3>1. g \in Nat
        BY GateConstants
      <3> QED BY <3>1, <1>1, <1>2, <1>a, InvFacts DEF Bounded
    <2> QED BY <2>1, <2>2, <2>3, <1>2, <1>b DEF Bounded
  <1> QED BY <1>a, <1>1, <1>2, <1>3, RestKeeps

LEMMA EntryExpiresKeeps ==
  ASSUME GateInv, NEW g \in Gens, EntryExpires(g)
  PROVE  GateInv'
  <1>a. GateTyped /\ gen \in Nat
    BY GateTypes DEF GateInv
  <1>1. UNCHANGED <<written, epochs, inflight, memo, request>>
        /\ entry' = [entry EXCEPT ![g] = Empty]
    BY DEF EntryExpires
  <1>2. entry' \in [Gens -> [value : Versions, by : Apis] \cup {Empty}]
        /\ \A h \in Gens : entry'[h] \in {entry[h], Empty}
    BY <1>1, <1>a DEF GateTyped, TypeOK
  <1>3. GateTyped'
    BY <1>1, <1>2, <1>a DEF GateTyped, TypeOK, written
  <1>4. Bounded'
    BY <1>1, <1>2, InvFacts DEF Bounded, Globals, written
  <1> QED BY <1>a, <1>1, <1>2, <1>3, <1>4, RestKeeps DEF written

\* An invalidation unlinks the load in flight, and moves the epoch of every reader
\* on: what they load they may no longer store.
LEMMA InvalidateKeeps ==
  ASSUME GateInv, GateTyped', NEW p \in Apis, Invalidate(p)
  PROVE  GateInv'
  <1> DEFINE g == writer[p].gen
  <1>a. /\ GateTyped /\ epochs \in [Apis -> [Gens -> Nat]] /\ DOMAIN writer = Apis
        /\ known \in [Apis -> [Gens -> Versions]]
        /\ inflight \in [Apis -> [Gens -> Requests \cup {None}]] /\ DOMAIN entry = Gens
    BY DEF GateInv, GateTyped, TypeOK
  <1>t. /\ gen \in Nat /\ g \in Gens /\ flag \in Nat /\ g \in Nat
        /\ known[p][g] \in Nat /\ epochs[p][g] \in Nat
        /\ writer[p].version \in Nat /\ writer[p].version <= flag
    BY <1>a, GateTypes, InvFacts DEF Bounded
  <1> HIDE DEF g
  <1>1. /\ UNCHANGED <<flag, gen, opened, memo, request>>
        /\ inflight' = [inflight EXCEPT ![p][g] = None]
        /\ epochs' = IF Readers(p, g) = {} THEN epochs
                     ELSE [epochs EXCEPT ![p][g] = epochs[p][g] + 1]
        /\ writer' = [writer EXCEPT ![p] = Done]
        /\ \/ entry' = entry /\ known' = known
           \/ /\ entry' = [entry EXCEPT ![g] = Empty]
              /\ known' = [known EXCEPT ![p][g] = Later(known[p][g], writer[p].version)]
    BY DEF Invalidate, Either, g
  <1>2. \A q \in Apis, h \in Gens :
           /\ q # p \/ h # g => /\ epochs'[q][h] = epochs[q][h]
                                /\ known'[q][h] = known[q][h]
                                /\ inflight'[q][h] = inflight[q][h]
           /\ inflight'[p][g] = None
           /\ Readers(p, g) # {} => epochs'[p][g] = epochs[p][g] + 1
    BY <1>1, <1>a, <1>t
  <1>3. /\ known'[p][g] >= known[p][g] /\ known'[p][g] <= flag /\ known'[p][g] \in Nat
        /\ entry'[g] # Empty => known' = known
        /\ \A h \in Gens : entry'[h] \in {entry[h], Empty}
    <2>0. known[p][g] <= flag
      BY <1>t, InvFacts DEF Bounded
    <2>1. CASE entry' = entry /\ known' = known
      BY <2>0, <2>1, <1>t
    <2>2. CASE /\ entry' = [entry EXCEPT ![g] = Empty]
               /\ known' = [known EXCEPT ![p][g] = Later(known[p][g], writer[p].version)]
      <3>1. known'[p][g] = Later(known[p][g], writer[p].version)
        BY <2>2, <1>a, <1>t
      <3>2. entry'[g] = Empty /\ \A h \in Gens : entry'[h] \in {entry[h], Empty}
        BY <2>2, <1>a, <1>t
      <3> QED BY <3>1, <3>2, <2>0, <1>t DEF Later
    <2> QED BY <1>1, <2>1, <2>2
  <1>4. ASSUME NEW q \in Requests PROVE Reading(q)' /\ Joining(q)'
    <2>0. Home[q] \in Apis /\ Key(q) \in Gens
      BY <1>a, GateTypes
    <2>1. CASE Inside(q) /\ Home[q] = p /\ Key(q) = g
      <3>1. Readers(p, g) # {}
        BY <2>1 DEF Readers
      <3>2. /\ request[q].start <= epochs[p][g] /\ request[q].start \in Nat
            /\ request[q].since <= known[p][g] /\ request[q].since \in Nat /\ Reading(q)
        BY <2>1, <1>a, InvFacts, GateTypes DEF Reading
      <3>3. request[q].start < epochs'[p][g]
        BY <3>1, <3>2, <1>2, <1>t
      <3>4. request[q].since <= known'[p][g]
        BY <3>2, <1>3, <1>t
      <3>6. epochs'[p][g] # request[q].start /\ request[q].start <= epochs'[p][g]
        <4>1. epochs'[p][g] \in Nat
          BY <3>1, <1>2, <1>t
        <4> QED BY <3>2, <3>3, <4>1
      <3>5. Reading(q)'
        BY <2>1, <3>2, <3>4, <3>6, <1>1 DEF Reading, Inside, At, Key, Loads, AsNew, Unchanged
      <3> QED BY <3>5, <1>1, JoiningStays
    <2>2. CASE Inside(q) /\ ~(Home[q] = p /\ Key(q) = g)
      <3>1. Reading(q)'
        BY <2>0, <2>2, <1>1, <1>2, <1>t, ReadingStays
      <3> QED BY <3>1, <1>1, JoiningStays
    <2>3. CASE ~Inside(q)
      <3>1. Reading(q)'
        BY <2>3, <1>1, <1>t, ReadingStays
      <3> QED BY <3>1, <1>1, JoiningStays
    <2> QED BY <2>1, <2>2, <2>3
  <1>5. ASSUME NEW q \in Apis, NEW h \in Gens PROVE Linked(q, h)'
    BY <1>1, <1>2, LinkedStays
  <1>6. NoStaleWriteBack' /\ GenerationsRetire'
    <2>1. \A h \in Gens : entry'[h] # Empty => \A q \in Apis : known'[q][h] = known[q][h]
      BY <1>2, <1>3, <1>t
    <2> QED BY <2>1, <1>1, <1>3, EntriesStay
  <1>7. Bounded'
    <2>1. \A q \in Apis : writer'[q] = IF q = p THEN Done ELSE writer[q]
      BY <1>1, <1>a
    <2>2. \A q \in Apis : writer'[q].version <= flag' /\ writer'[q].gen <= gen'
      BY <2>1, <1>1, <1>t, InvFacts DEF Bounded, Done
    <2>3. \A q \in Apis, h \in Gens : known'[q][h] <= flag'
      BY <1>1, <1>2, <1>3, InvFacts DEF Bounded
    <2>4. Globals' <= MaxGlobal
      BY <1>a, InvFacts, GlobalsKept DEF Writes
    <2> QED BY <2>2, <2>3, <2>4, <1>1, <1>3, InvFacts DEF Bounded
  <1> QED BY <1>4, <1>5, <1>6, <1>7 DEF GateInv

LEMMA CrashKeeps ==
  ASSUME GateInv, GateTyped', NEW p \in Apis, ApiCrash(p)
  PROVE  GateInv'
  <1>a. /\ GateTyped /\ epochs \in [Apis -> [Gens -> Nat]] /\ DOMAIN writer = Apis
        /\ inflight \in [Apis -> [Gens -> Requests \cup {None}]]
        /\ flag \in Nat /\ gen \in Nat
    BY GateTypes DEF GateInv, GateTyped, TypeOK
  <1>1. /\ UNCHANGED <<flag, gen, known, opened, entry>>
        /\ \A q \in Requests : request'[q] = IF Home[q] = p THEN Absent ELSE request[q]
        /\ \A q \in Apis \ {p} : epochs'[q] = epochs[q] /\ inflight'[q] = inflight[q]
        /\ \A g \in Gens : inflight'[p][g] = None
        /\ \A q \in Apis : writer'[q] = IF q = p THEN Done ELSE writer[q]
    BY <1>a DEF ApiCrash
  <1>2. ASSUME NEW q \in Requests PROVE Reading(q)' /\ Joining(q)'
    <2>1. CASE Home[q] = p
      BY <2>1, <1>1 DEF Reading, Joining, Inside, At, Absent
    <2>2. CASE Home[q] # p
      <3>1. Home[q] \in Apis /\ request'[q] = request[q]
        BY <2>2, <1>1, <1>a, GateTypes
      <3>2. Reading(q)'
        BY <2>2, <3>1, <1>1, <1>a, ReadingStays
      <3>3. At(q) = "joined" => request[q].run \in Requests /\ Home[request[q].run] = Home[q]
        BY InvFacts DEF Joining
      <3> QED BY <2>2, <3>1, <3>2, <3>3, <1>1, JoiningStays
    <2> QED BY <2>1, <2>2
  <1>3. ASSUME NEW q \in Apis, NEW g \in Gens PROVE Linked(q, g)'
    <2>1. inflight[q][g] # None => inflight[q][g] \in Requests /\ Home[inflight[q][g]] = q
      BY InvFacts DEF Linked
    <2> QED BY <2>1, <1>1, LinkedStays
  <1>4. NoStaleWriteBack' /\ GenerationsRetire'
    BY <1>1, EntriesStay
  <1>5. Bounded'
    <2>1. \A q \in Apis : writer'[q].version <= flag' /\ writer'[q].gen <= gen'
      BY <1>1, <1>a, InvFacts DEF Bounded, Done
    <2>2. Globals' <= MaxGlobal
      BY <1>a, InvFacts, GlobalsKept
    <2> QED BY <2>1, <2>2, <1>1, InvFacts DEF Bounded
  <1> QED BY <1>2, <1>3, <1>4, <1>5 DEF GateInv

(***************************************************************************)
(* The invariant of every run.                                             *)
(***************************************************************************)
LEMMA GateInit == Init => GateInv
  <1> SUFFICES ASSUME Init PROVE GateInv
    OBVIOUS
  <1>1. GateTyped
    BY AbsentTyped, GateConstants DEF Init, GateTyped, TypeOK, Done
  <1>2. Bounded
    <2>1. {p \in Apis : writer[p].pc = "all"} = {}
      BY DEF Init, Done
    <2>3. Cardinality({p \in Apis : writer[p].pc = "all"}) = 0 /\ gen = 0
      BY <2>1, FS_EmptySet DEF Init
    <2>2. Globals <= MaxGlobal
      BY <2>3, GateConstants DEF Globals
    <2> QED BY <2>2 DEF Init, Bounded, Done
  <1>3. \A r \in Requests : Reading(r) /\ Joining(r)
    BY DEF Init, Reading, Joining, Inside, At, Absent
  <1>4. \A p \in Apis, g \in Gens : Linked(p, g)
    BY DEF Init, Linked
  <1>5. NoStaleWriteBack /\ GenerationsRetire
    BY GateConstants DEF Init, NoStaleWriteBack, GenerationsRetire, Empty
  <1> QED BY <1>1, <1>2, <1>3, <1>4, <1>5 DEF GateInv

LEMMA GateStep == GateInv /\ [Next]_vars => GateInv'
  <1> SUFFICES ASSUME GateInv, [Next]_vars PROVE GateInv'
    OBVIOUS
  <1>1. ASSUME NEW r \in Requests, Begin(r) \/ Goes(r) \/ LoadFails(r) PROVE GateInv'
    <2>1. GateTyped'
      BY <1>1, InvFacts, RequestTypes
    <2> QED BY <1>1, <2>1, MovesKeep, JoinKeeps, LoadKeeps, StoreKeeps, LeavesKeep DEF Goes
  <1>2. ASSUME NEW p \in Apis, Commit(p) \/ Writes(p) \/ MemoExpires(p) \/ ApiCrash(p)
        PROVE  GateInv'
    <2>1. GateTyped'
      BY <1>2, InvFacts, WriteTypes
    <2> QED BY <1>2, <2>1, WritesKeep, InvalidateKeeps, CrashKeeps DEF Writes
  <1>3. CASE UNCHANGED vars
    BY <1>3 DEF vars, written, tier, GateInv, GateTyped, TypeOK, Bounded, Globals, Reading,
       Joining, Linked, NoStaleWriteBack, GenerationsRetire, Inside, At, Key, Loads, AsNew,
       Unchanged
  <1> QED BY <1>1, <1>2, <1>3, EntryExpiresKeeps DEF Next

\* Of two loads of a key that may still store, both are the one that is linked.
LEMMA OneFlight == GateInv => SingleFlight
  <1> SUFFICES ASSUME GateInv, NEW p \in Apis, NEW g \in Gens
               PROVE  Cardinality({r \in Readers(p, g) :
                          At(r) \in {"load", "store"} /\ Unchanged(r)}) <= 1
    BY DEF SingleFlight
  <1> DEFINE S == {r \in Readers(p, g) : At(r) \in {"load", "store"} /\ Unchanged(r)}
  <1>1. S \subseteq {inflight[p][g]}
    BY InvFacts DEF Readers, Reading, Loads
  <1>2. IsFiniteSet({inflight[p][g]}) /\ Cardinality({inflight[p][g]}) = 1
    BY FS_Singleton
  <1>3. Cardinality(S) <= Cardinality({inflight[p][g]})
    BY <1>1, <1>2, FS_Subset
  <1> QED BY <1>2, <1>3

(***************************************************************************)
(* Under every interleaving of loads, stores, invalidations and faults, an *)
(* entry is never older than the last invalidation of its key by the       *)
(* process that stored it, nor than the write that opened its generation,  *)
(* and one load of a key at a time may still store its value.              *)
(***************************************************************************)
THEOREM CacheIsSafe == Spec => []CacheInv
  <1>1. GateInv => CacheInv
    BY OneFlight DEF GateInv, GateTyped, CacheInv
  <1> QED BY <1>1, GateInit, GateStep, PTL DEF Spec

(***************************************************************************)
(* A request that enters the tier after an invalidation gets no value read *)
(* before it, neither from an entry nor from a load it joins, unless       *)
(* another process had stored it.                                          *)
(***************************************************************************)
THEOREM AnswersAreFresh == Spec => FreshAfterInvalidation
  <1> DEFINE Fresh ==
        \A r \in Requests : Answers(r) /\ ~(\E p \in Apis : ApiCrash(p)) /\ Got(r) # None =>
          /\ Got(r) >= opened[Key(r)]
          /\ request[r].foreign \/ Got(r) >= request[r].since
  <1>1. GateInv => Fresh
    <2> SUFFICES ASSUME GateInv, NEW r \in Requests, Answers(r), Got(r) # None
                 PROVE  /\ Got(r) >= opened[Key(r)]
                        /\ request[r].foreign \/ Got(r) >= request[r].since
      OBVIOUS
    <2>1. CASE At(r) \in {"answered", "stored"}
      BY <2>1, InvFacts DEF Reading, Inside, AsNew, Got
    <2>2. CASE At(r) = "joined"
      <3> DEFINE q == request[r].run
      <3>1. q \in Requests /\ Key(q) = Key(r) /\ Loads(q) /\ AsNew(q, request[r].since)
        BY <2>2, InvFacts DEF Joining
      <3>2. Got(r) = request[q].value
        BY <2>2 DEF Got
      <3> HIDE DEF q
      <3>3. Inside(q) /\ Reading(q)
        BY <3>1, InvFacts DEF Loads, Inside
      <3>4. At(q) \in {"store", "stored"}
        BY <3>1, <3>2, <3>3 DEF Reading, Loads
      <3> QED BY <3>1, <3>2, <3>3, <3>4 DEF Reading, AsNew
    <2> QED BY <2>1, <2>2 DEF Answers
  <1>2. GateInv /\ [Next]_vars => [Fresh]_vars
    BY <1>1
  <1>3. Spec => [][Fresh]_vars
    BY <1>2, GateInit, GateStep, PTL DEF Spec
  <1> QED BY <1>3 DEF FreshAfterInvalidation

-----------------------------------------------------------------------------
(***************************************************************************)
(* Sessions.                                                               *)
(***************************************************************************)

(***************************************************************************)
(* The races of the tabs, while nothing happens from outside.              *)
(***************************************************************************)
Peaceful == "outside" \notin hit

Won(t) == tab[t].task.got

\* No request is refused for good, no tab is closed, no password is changed.
Undisturbed ==
  /\ \A t \in Tabs : tab[t].open /\ tab[t].task.pc \notin {"reuse", "clear"}
  /\ \A d \in Devices : account[d] = 0

\* A token in flight was sent in good faith and is not yet past its grace.
InGrace ==
  \A t \in Tabs :
    IF InFlight(t)
    THEN Sent(t) \in Sessions /\ tab[t].task.good /\ session[Sent(t)] \in {"live", "revoked"}
    ELSE Sent(t) = 0

\* A successor or a login's session on its way to a cookie is live, and in nobody
\* else's hands.
Successors ==
  \A t \in Tabs :
    IF TabAt(t, "rotated")
    THEN /\ Won(t) \in Sessions /\ session[Won(t)] = "live"
         /\ \A d \in Devices : Won(t) \notin {cookie[d], login[d].id}
         /\ \A u \in Tabs : Won(t) # Sent(u) /\ (u # t => Won(t) # Won(u))
    ELSE Won(t) = 0

Entrances ==
  \A d \in Devices :
    IF login[d].pc # "none"
    THEN /\ login[d].id \in Sessions /\ session[login[d].id] = "live"
         /\ \A e \in Devices : login[d].id # cookie[e] /\ (e # d => login[d].id # login[e].id)
         /\ \A t \in Tabs : login[d].id # Sent(t)
    ELSE login[d].id = 0

\* A token is one browser's.
Apart ==
  \A d \in Devices : cookie[d] # 0 =>
    /\ \A e \in Devices : cookie[e] = cookie[d] => e = d
    /\ \A t \in Tabs : Sent(t) = cookie[d] => DeviceOf[t] = d

CookiesGood == \A d \in Devices : cookie[d] = 0 \/ Good(d)

PeaceInv == Undisturbed /\ InGrace /\ Successors /\ Entrances /\ Apart /\ CookiesGood

(***************************************************************************)
(* The cap.                                                                *)
(***************************************************************************)
\* The logins that have not listed yet, and the sessions nobody has chosen.
Listing == {d \in Devices : login[d].pc = "list"}
Staying == Live \ Doomed

CapInv ==
  /\ \A d \in Devices : login[d].pc # "evict" => login[d].evict = {}
  /\ Cap > 0 => Cardinality(Staying) <= Cap + over + Cardinality(Listing)

\* A request in flight presents a session's token.
Presented == \A t \in Tabs : InFlight(t) => Sent(t) \in Sessions

RaceInv == SessionsTyped /\ Presented /\ (Peaceful => PeaceInv) /\ CapInv

(***************************************************************************)
(* Numbers and sets.                                                       *)
(***************************************************************************)

\* A nonempty set of numbers has a least one.
LEMMA LowestOf ==
  ASSUME NEW T, T \subseteq Nat, T # {}
  PROVE  \E n \in T : \A m \in T : n <= m
  <1>1. \E x \in T : \A y \in T : ~ (<<y, x>> \in OpToRel(<, Nat))
    BY WFMin, NatLessThanWellFounded
  <1>2. PICK x \in T : \A y \in T : ~ (<<y, x>> \in OpToRel(<, Nat))
    BY <1>1
  <1>3. \A y \in T : ~ (y < x)
    BY <1>2 DEF OpToRel
  <1> QED
    BY <1>3

\* A new session gets an unused number.
LEMMA NextIsUnused ==
  ASSUME Unused # {}
  PROVE  NextId \in Sessions /\ session[NextId] = "none"
  <1>1. Unused \subseteq Nat
    BY DEF Unused, Sessions
  <1>2. \E s \in Unused : \A t \in Unused : s <= t
    BY <1>1, LowestOf
  <1>3. NextId \in Unused
    BY <1>2 DEF NextId
  <1> QED BY <1>3 DEF Unused

\* At least n of a set of n numbers or more are among its n oldest.
LEMMA OldestEnough ==
  ASSUME NEW S, IsFiniteSet(S), S \subseteq Nat, NEW n \in Nat, n <= Cardinality(S)
  PROVE  n <= Cardinality(Oldest(S, n))
  <1> DEFINE Younger == S \ Oldest(S, n)
  <1>1. CASE Younger = {}
    <2>1. Oldest(S, n) = S
      BY <1>1 DEF Oldest
    <2> QED BY <2>1
  <1>2. CASE Younger # {}
    <2>1. PICK m \in Younger : \A k \in Younger : m <= k
      BY <1>2, LowestOf
    <2> DEFINE Before == {r \in S : r < m}
    <2>2. Before \in SUBSET S /\ Oldest(S, n) \in SUBSET S
      BY DEF Oldest
    <2>3. /\ IsFiniteSet(Before) /\ IsFiniteSet(Oldest(S, n))
          /\ Cardinality(Before) \in Nat /\ Cardinality(Oldest(S, n)) \in Nat
      BY <2>2, FS_Subset, FS_CardinalityType
    <2>4. Before \in SUBSET Oldest(S, n)
      <3> SUFFICES ASSUME NEW r \in S, r < m, r \notin Oldest(S, n)
                   PROVE  FALSE
        OBVIOUS
      <3>1. m <= r
        BY <2>1
      <3> QED BY <3>1, <2>1
    <2>5. ~(Cardinality(Before) < n)
      BY <2>1 DEF Oldest
    <2>6. Cardinality(Before) <= Cardinality(Oldest(S, n))
      BY <2>3, <2>4, FS_Subset
    <2> HIDE DEF Before
    <2> QED BY <2>3, <2>5, <2>6
  <1> QED BY <1>1, <1>2

\* The sessions are finitely many, and so is every part of them.
LEMMA SessionsFinite ==
  ASSUME NEW S, S \subseteq Sessions
  PROVE  IsFiniteSet(S) /\ Cardinality(S) \in Nat
  <1>1. MaxSessions \in Nat /\ S \in SUBSET (1 .. MaxSessions)
    BY UserAssumption DEF Sessions
  <1>2. IsFiniteSet(1 .. MaxSessions)
    BY <1>1, FS_Interval
  <1> QED BY <1>1, <1>2, FS_Subset, FS_CardinalityType

\* A part of the sessions has no larger cardinality.
LEMMA FewerSessions ==
  ASSUME NEW S, NEW T, T \subseteq Sessions, S \subseteq T
  PROVE  Cardinality(S) <= Cardinality(T)
  <1>1. IsFiniteSet(T) /\ S \in SUBSET T
    BY SessionsFinite
  <1> QED BY <1>1, FS_Subset

(***************************************************************************)
(* Types.                                                                  *)
(***************************************************************************)

\* A cookie, a token in flight, and the types of what the browsers and the server
\* hold, under the names the steps use.
Tasks == [pc : {"idle", "write", "reread", "sent", "found", "reuse", "rotated",
                "refused", "clear"},
          sent : 0 .. MaxSessions, got : 0 .. MaxSessions, elected : BOOLEAN, good : BOOLEAN]

TabRecords == [task : Tasks, token : {"fresh", "due"}, mail : BOOLEAN, open : BOOLEAN]

Logins == [pc : {"none", "list", "evict", "enter"}, id : 0 .. MaxSessions,
           evict : SUBSET Sessions]

\* What the assumption on the constants says of the bounds and the tabs.
LEMMA Sizes ==
  /\ MaxSessions \in Nat /\ MaxLogins \in Nat /\ MaxDues \in Nat /\ MaxMishaps \in Nat
  /\ Cap \in Nat /\ NoTab \notin Tabs
  /\ \A t \in Tabs : DeviceOf[t] \in Devices
  /\ Sessions \subseteq Nat /\ \A s \in Sessions : s \in 0 .. MaxSessions /\ s # 0
  BY UserAssumption DEF Sessions

\* The first sessions: one for each browser that is signed in.
LEMMA StartIsOneEach ==
  /\ StartOf \in [SignedIn -> 1 .. Cardinality(SignedIn)]
  /\ \A d, e \in SignedIn : StartOf[d] = StartOf[e] => d = e
  <1> DEFINE n == Cardinality(SignedIn)
  <1>1. IsFiniteSet(SignedIn) /\ n \in Nat /\ ExistsBijection(1 .. n, SignedIn)
    BY UserAssumption, FS_CardinalityType
  <1>2. IsFiniteSet(1 .. n) /\ Cardinality(1 .. n) = n
    BY <1>1, FS_Interval
  <1>3. ExistsBijection(SignedIn, 1 .. n)
    BY <1>1, <1>2, FS_SameCardinalityBij
  <1>4. \E f \in [SignedIn -> 1 .. n] : \A d, e \in SignedIn : f[d] = f[e] => d = e
    BY <1>3 DEF ExistsBijection, Bijection, Injection, IsInjective
  <1> QED BY <1>4 DEF StartOf

\* Types, at first.
LEMMA SessionsTypedInit == SessionsInit => SessionsTyped
  <1> SUFFICES ASSUME SessionsInit
               PROVE  SessionsTyped
    OBVIOUS
  <1>1. cookie \in [Devices -> 0 .. MaxSessions]
    <2> SUFFICES ASSUME NEW d \in Devices, d \in SignedIn
                 PROVE  StartOf[d] \in 0 .. MaxSessions
      BY Sizes DEF SessionsInit
    <2>1. Cardinality(SignedIn) \in Nat /\ Cardinality(SignedIn) <= MaxSessions
      BY UserAssumption, FS_CardinalityType
    <2>2. StartOf[d] \in 1 .. Cardinality(SignedIn)
      BY StartIsOneEach
    <2> QED BY <2>1, <2>2, Sizes
  <1>2. tab \in [Tabs -> TabRecords]
    BY Sizes DEF SessionsInit, TabRecords, Tasks, Quiet
  <1>3. login \in [Devices -> Logins]
    BY Sizes DEF SessionsInit, Logins, NoLogin
  <1> QED BY <1>1, <1>2, <1>3, Sizes
          DEF SessionsInit, SessionsTyped, TabRecords, Tasks, Logins

\* What a step counts stays within its bound.
LEMMA MishapBounds ==
  ASSUME SessionsTyped
  PROVE  /\ \A kind : Mishap(kind) => mishaps' \in 0 .. MaxMishaps
         /\ NoMishap => mishaps' \in 0 .. MaxMishaps
  BY Sizes DEF SessionsTyped, Mishap, NoMishap

\* A tab's step keeps its record's type.
LEMMA TabTypes ==
  ASSUME SessionsTyped, NEW t \in Tabs,
         \/ RunsOut(t) \/ OnDemand(t) \/ TabStep(t) \/ ServerStep(t)
         \/ Response(t) \/ ServerFails(t) \/ AnswerLost(t) \/ Close(t)
  PROVE  tab' \in [Tabs -> TabRecords]
  <1>1. /\ tab \in [Tabs -> TabRecords] /\ tab[t] \in TabRecords /\ tab[t].task \in Tasks
        /\ Jar(t) \in 0 .. MaxSessions /\ 0 \in 0 .. MaxSessions
        /\ Quiet \in Tasks
    BY Sizes DEF SessionsTyped, TabRecords, Tasks, Jar, Quiet
  <1>2. ASSUME NEW task \in Tasks, Becomes(t, task)
        PROVE  tab' \in [Tabs -> TabRecords]
    BY <1>1, <1>2 DEF Becomes, TabRecords
  <1>3. ASSUME NEW elected \in BOOLEAN, Fetch(t, elected)
        PROVE  tab' \in [Tabs -> TabRecords]
    <2>1. Good(DeviceOf[t]) \in BOOLEAN
      BY DEF Good
    <2> QED BY <1>1, <1>2, <1>3, <2>1 DEF Fetch, Tasks
  <1>4. \A pc : pc \in {"idle", "write", "reread", "sent", "found", "reuse", "rotated",
                        "refused", "clear"} =>
          /\ [Quiet EXCEPT !.pc = pc] \in Tasks
          /\ [tab[t].task EXCEPT !.pc = pc] \in Tasks
          /\ \A s \in 0 .. MaxSessions : [tab[t].task EXCEPT !.pc = pc, !.got = s] \in Tasks
    BY <1>1 DEF Tasks
  <1>5. CASE TabStep(t)
    <2>1. CASE Check(t)
      BY <1>2, <1>4, <2>1 DEF Check
    <2>2. CASE Write(t)
      BY <1>2, <1>4, <2>2 DEF Write
    <2>3. CASE Win(t)
      BY <1>3, <2>3 DEF Win
    <2>4. CASE StandDown(t)
      BY <1>1, <1>2, <2>4 DEF StandDown
    <2>5. CASE Adopt(t)
      BY <1>1, <2>5 DEF Adopt, TabRecords
    <2> QED BY <1>5, <2>1, <2>2, <2>3, <2>4, <2>5 DEF TabStep
  <1>6. CASE ServerStep(t)
    <2>1. CASE Look(t)
      BY <1>2, <1>4, <2>1 DEF Look
    <2>2. CASE Punish(t)
      BY <1>2, <1>4, <2>2 DEF Punish
    <2>3. CASE Rotate(t)
      BY <1>2, <1>4, <2>3, NextIsUnused, Sizes DEF Rotate
    <2> QED BY <1>6, <2>1, <2>2, <2>3 DEF ServerStep
  <1>7. CASE Response(t)
    <2>1. CASE Served(t)
      <3>1. [tab[t] EXCEPT !.task = Quiet, !.token = "fresh"] \in TabRecords
        BY <1>1 DEF TabRecords
      <3>2. \A u \in Tabs : tab[u] \in TabRecords /\ [tab[u] EXCEPT !.mail = TRUE] \in TabRecords
        BY <1>1 DEF TabRecords
      <3> QED BY <2>1, <3>1, <3>2 DEF Served
    <2>2. CASE Refused(t) \/ Unheard(t)
      BY <1>1, <1>2, <2>2 DEF Refused, Unheard
    <2> QED BY <1>7, <2>1, <2>2 DEF Response
  <1>8. CASE RunsOut(t)
    BY <1>1, <1>8 DEF RunsOut, TabRecords
  <1>9. CASE OnDemand(t)
    BY <1>3, <1>9 DEF OnDemand
  <1>10. CASE ServerFails(t) \/ AnswerLost(t)
    BY <1>1, <1>2, <1>4, <1>10 DEF ServerFails, AnswerLost
  <1>11. CASE Close(t)
    BY <1>1, <1>11 DEF Close, TabRecords
  <1> QED BY <1>5, <1>6, <1>7, <1>8, <1>9, <1>10, <1>11

\* Every step keeps the types.
LEMMA SessionsTypedStep ==
  ASSUME SessionsTyped, [SessionsNext]_sessionVars
  PROVE  SessionsTyped'
  <1> USE Sizes, MishapBounds
  <1>1. SessionsTyped <=>
          /\ session \in [Sessions -> {"none", "live", "revoked", "aged"}]
          /\ cookie \in [Devices -> 0 .. MaxSessions]
          /\ lock \in [Devices -> Tabs \cup {NoTab}]
          /\ tab \in [Tabs -> TabRecords]
          /\ login \in [Devices -> Logins]
          /\ account \in [Devices -> 0 .. MaxSessions] /\ over \in Nat
          /\ logins \in 0 .. MaxLogins /\ dues \in 0 .. MaxDues /\ mishaps \in 0 .. MaxMishaps
    BY DEF SessionsTyped, TabRecords, Tasks, Logins
  <1>2. SessionsTyped' <=>
          /\ session' \in [Sessions -> {"none", "live", "revoked", "aged"}]
          /\ cookie' \in [Devices -> 0 .. MaxSessions]
          /\ lock' \in [Devices -> Tabs \cup {NoTab}]
          /\ tab' \in [Tabs -> TabRecords]
          /\ login' \in [Devices -> Logins]
          /\ account' \in [Devices -> 0 .. MaxSessions] /\ over' \in Nat
          /\ logins' \in 0 .. MaxLogins /\ dues' \in 0 .. MaxDues /\ mishaps' \in 0 .. MaxMishaps
    BY DEF SessionsTyped, TabRecords, Tasks, Logins
  <1>3. \A t \in Tabs : /\ Released(t) \in [Devices -> Tabs \cup {NoTab}]
                        /\ tab[t].task.got \in 0 .. MaxSessions
    BY <1>1 DEF Released, TabRecords, Tasks
  <1>4. ASSUME NEW t \in Tabs,
               \/ RunsOut(t) \/ OnDemand(t) \/ TabStep(t) \/ ServerStep(t)
               \/ Response(t) \/ ServerFails(t) \/ AnswerLost(t) \/ Close(t)
        PROVE  SessionsTyped'
    <2>1. tab' \in [Tabs -> TabRecords]
      BY <1>4, TabTypes
    <2>2. CASE RunsOut(t) \/ OnDemand(t)
      <3>1. dues' \in 0 .. MaxDues /\ NoMishap
        <4>1. CASE RunsOut(t)
          BY <1>1, <4>1 DEF RunsOut
        <4>2. CASE OnDemand(t)
          BY <1>1, <4>2 DEF OnDemand
        <4> QED BY <2>2, <4>1, <4>2
      <3>2. UNCHANGED <<session, cookie, lock, login, account, logins, over>>
        BY <2>2 DEF RunsOut, OnDemand
      <3> QED BY <1>1, <1>2, <2>1, <3>1, <3>2
    <2>3. CASE TabStep(t)
      <3>1. lock' \in [Devices -> Tabs \cup {NoTab}]
        <4>1. UNCHANGED lock \/ lock' = [lock EXCEPT ![DeviceOf[t]] = t]
          BY <2>3 DEF TabStep, Check, Write, Win, StandDown, Adopt
        <4> QED BY <1>1, <4>1
      <3>2. NoMishap /\ UNCHANGED <<session, cookie, login, account, logins, dues, over>>
        BY <2>3 DEF TabStep, Check, Write, Win, StandDown, Adopt
      <3> QED BY <1>1, <1>2, <2>1, <3>1, <3>2
    <2>4. CASE ServerStep(t)
      <3>1. CASE Look(t)
        BY <1>1, <1>2, <2>1, <3>1 DEF Look
      <3>2. CASE Punish(t)
        BY <1>1, <1>2, <2>1, <3>2 DEF Punish
      <3>3. CASE Rotate(t)
        <4>1. session' \in [Sessions -> {"none", "live", "revoked", "aged"}]
          BY <1>1, <3>3 DEF Rotate
        <4>2. over' \in Nat
          BY <1>1, <3>3 DEF Rotate
        <4> QED BY <1>1, <1>2, <2>1, <3>3, <4>1, <4>2 DEF Rotate
      <3> QED BY <2>4, <3>1, <3>2, <3>3 DEF ServerStep
    <2>5. CASE Response(t)
      <3>1. tab[t].task.got \in 0 .. MaxSessions
        BY <1>3
      <3>2. lock' \in {lock, Released(t)} /\ cookie' \in [Devices -> 0 .. MaxSessions]
        <4>1. CASE Served(t)
          BY <1>1, <3>1, <4>1 DEF Served
        <4>2. CASE Refused(t)
          BY <1>1, <4>2 DEF Refused
        <4>3. CASE Unheard(t)
          BY <1>1, <4>3 DEF Unheard
        <4> QED BY <2>5, <4>1, <4>2, <4>3 DEF Response
      <3>3. mishaps' \in 0 .. MaxMishaps
        BY <2>5 DEF Response, Served, Refused, Unheard
      <3>4. UNCHANGED <<session, login, account, logins, dues, over>>
        BY <2>5 DEF Response, Served, Refused, Unheard
      <3> QED BY <1>1, <1>2, <1>3, <2>1, <3>2, <3>3, <3>4
    <2>6. CASE ServerFails(t) \/ AnswerLost(t) \/ Close(t)
      BY <1>1, <1>2, <1>3, <2>1, <2>6 DEF ServerFails, AnswerLost, Close
    <2> QED BY <1>4, <2>2, <2>3, <2>4, <2>5, <2>6
  <1>5. ASSUME NEW d \in Devices, ClaimEnds(d) PROVE SessionsTyped'
    BY <1>1, <1>2, <1>5 DEF ClaimEnds
  <1>6. ASSUME NEW d \in Devices, LogIn(d) PROVE SessionsTyped'
    <2>1. NextId \in 0 .. MaxSessions
      BY <1>6, NextIsUnused DEF LogIn
    <2>2. login' \in [Devices -> Logins]
      BY <1>1, <1>6, <2>1 DEF LogIn, Logins
    <2>3. session' \in [Sessions -> {"none", "live", "revoked", "aged"}]
      BY <1>1, <1>6 DEF LogIn
    <2>4. logins' \in 0 .. MaxLogins /\ mishaps' \in 0 .. MaxMishaps
      BY <1>1, <1>6 DEF LogIn
    <2> QED BY <1>1, <1>2, <1>6, <2>2, <2>3, <2>4 DEF LogIn
  <1>7. ASSUME NEW d \in Devices, LoginStep(d) PROVE SessionsTyped'
    <2>1. CASE List(d)
      <3>1. ToEvict(Live, login[d].id) \in SUBSET Sessions
        BY DEF ToEvict, Oldest, Live
      <3>2. login' \in [Devices -> Logins]
        BY <1>1, <2>1, <3>1 DEF List, Logins
      <3> QED BY <1>1, <1>2, <2>1, <3>2 DEF List
    <2>2. CASE Evict(d)
      <3>1. login' \in [Devices -> Logins]
        BY <1>1, <2>2 DEF Evict, Logins
      <3> QED BY <1>1, <1>2, <2>2, <3>1 DEF Evict
    <2>3. CASE SetCookie(d)
      <3>1. login' \in [Devices -> Logins] /\ login[d].id \in 0 .. MaxSessions
        BY <1>1, <2>3 DEF SetCookie, Logins, NoLogin
      <3> QED BY <1>1, <1>2, <2>3, <3>1 DEF SetCookie
    <2> QED BY <1>7, <2>1, <2>2, <2>3 DEF LoginStep
  <1>8. ASSUME NEW d \in Devices, OpenAccount(d) \/ RevokeOthers(d) PROVE SessionsTyped'
    BY <1>1, <1>2, <1>8 DEF OpenAccount, RevokeOthers, Live
  <1>9. ASSUME NEW s \in Sessions, GraceEnds(s) PROVE SessionsTyped'
    BY <1>1, <1>2, <1>9 DEF GraceEnds
  <1>10. CASE UNCHANGED sessionVars
    BY <1>1, <1>2, <1>10 DEF sessionVars
  <1>11. ASSUME NEW d \in Devices, CapFails(d) PROVE SessionsTyped'
    <2>1. PICK stamped \in SUBSET login[d].evict :
            /\ session' = [s \in Sessions |-> IF s \in stamped THEN "revoked" ELSE session[s]]
            /\ over' = over + (IF login[d].pc = "list" THEN 1
                               ELSE Cardinality(login[d].evict \ stamped))
      BY <1>11 DEF CapFails
    <2>2. login[d].evict \in SUBSET Sessions
      BY <1>1 DEF Logins
    <2>3. Cardinality(login[d].evict \ stamped) \in Nat
      BY <2>2, SessionsFinite
    <2>4. over' \in Nat /\ session' \in [Sessions -> {"none", "live", "revoked", "aged"}]
      BY <1>1, <2>1, <2>3
    <2>5. login' \in [Devices -> Logins]
      <3>1. login' = [login EXCEPT ![d].pc = "enter", ![d].evict = {}]
        BY <1>11 DEF CapFails
      <3>2. {} \in SUBSET Sessions
        OBVIOUS
      <3> QED BY <1>1, <3>1, <3>2 DEF Logins
    <2> QED BY <1>1, <1>2, <1>11, <2>4, <2>5 DEF CapFails
  <1> QED BY <1>4, <1>5, <1>6, <1>7, <1>8, <1>9, <1>10, <1>11 DEF SessionsNext

(***************************************************************************)
(* The races of a browser's tabs, in peace.                                *)
(***************************************************************************)
LEMMA PeaceInit == SessionsInit => PeaceInv
  <1> SUFFICES ASSUME SessionsInit
               PROVE  PeaceInv
    OBVIOUS
  <1>1. \A t \in Tabs : tab[t].open /\ tab[t].task = Quiet
    BY DEF SessionsInit
  <1>2. \A t \in Tabs : /\ ~InFlight(t) /\ Sent(t) = 0 /\ Won(t) = 0 /\ tab[t].task.pc = "idle"
    BY <1>1 DEF InFlight, Sent, Won, Quiet
  <1>3. \A d \in Devices : account[d] = 0 /\ login[d].pc = "none" /\ login[d].id = 0
    BY DEF SessionsInit, NoLogin
  <1>4. ASSUME NEW d \in Devices, cookie[d] # 0
        PROVE  cookie[d] \in Live /\ \A e \in Devices : cookie[e] = cookie[d] => e = d
    <2>1. \A e \in Devices : cookie[e] # 0 => e \in SignedIn /\ cookie[e] = StartOf[e]
      BY DEF SessionsInit
    <2>2. d \in SignedIn /\ cookie[d] = StartOf[d]
      BY <1>4, <2>1
    <2>3. Cardinality(SignedIn) \in Nat /\ Cardinality(SignedIn) <= MaxSessions
      BY UserAssumption, FS_CardinalityType
    <2>4. StartOf[d] \in 1 .. Cardinality(SignedIn)
      BY <2>2, StartIsOneEach
    <2>5. StartOf[d] \in Sessions /\ StartOf[d] <= Cardinality(SignedIn)
      BY <2>3, <2>4, Sizes DEF Sessions
    <2>6. cookie[d] \in Live
      BY <2>2, <2>5 DEF SessionsInit, Live
    <2> QED BY <1>4, <2>1, <2>2, <2>6, StartIsOneEach
  <1> QED BY <1>1, <1>2, <1>3, <1>4
          DEF PeaceInv, Undisturbed, InGrace, Successors, Entrances, Apart, CookiesGood,
              Good, TabAt

\* What a tab's next task says of the others.
LEMMA BecomesOnly ==
  ASSUME SessionsTyped, NEW t \in Tabs, NEW task, Becomes(t, task)
  PROVE  /\ tab'[t].task = task /\ tab'[t].open = tab[t].open
         /\ \A u \in Tabs : u # t => tab'[u] = tab[u]
  BY DEF Becomes, SessionsTyped

\* A step that no request and no session takes part in.
LEMMA PeaceKept ==
  ASSUME PeaceInv, UNCHANGED <<session, cookie, account>>,
         \A d \in Devices : /\ login'[d].id = login[d].id
                            /\ login'[d].pc = "none" <=> login[d].pc = "none",
         \A t \in Tabs :
           /\ tab'[t].open = tab[t].open
           /\ \/ tab'[t].task = tab[t].task
              \/ /\ ~InFlight(t) /\ tab'[t].task.pc \in {"idle", "write", "reread"}
                 /\ tab'[t].task.sent = 0 /\ tab'[t].task.got = 0
  PROVE  PeaceInv'
  <1>1. \A t \in Tabs : /\ Sent(t)' = Sent(t) /\ Won(t)' = Won(t) /\ InFlight(t)' = InFlight(t)
                        /\ InFlight(t) => tab'[t].task = tab[t].task
                        /\ TabAt(t, "rotated")' = TabAt(t, "rotated")
                        /\ tab'[t].task.pc \notin {"reuse", "clear"}
    BY DEF PeaceInv, Undisturbed, InGrace, Successors, Sent, Won, InFlight, TabAt
  <1>2. \A d \in Devices : Good(d)' = Good(d)
    BY <1>1 DEF Good, Live
  <1>3. Undisturbed'
    BY <1>1 DEF PeaceInv, Undisturbed
  <1>4. InGrace' 
    BY <1>1 DEF PeaceInv, InGrace
  <1>5. Successors' /\ Entrances' /\ Apart'
    BY <1>1 DEF PeaceInv, Successors, Entrances, Apart
  <1>6. CookiesGood'
    BY <1>2 DEF PeaceInv, CookiesGood
  <1> QED BY <1>3, <1>4, <1>5, <1>6 DEF PeaceInv

\* A tab sends the cookie of its browser, which is good.
LEMMA PeaceFetch ==
  ASSUME SessionsTyped, PeaceInv, NEW t \in Tabs, NEW elected \in BOOLEAN,
         Fetch(t, elected), Jar(t) # 0, ~InFlight(t),
         UNCHANGED <<session, cookie, login, account>>
  PROVE  PeaceInv'
  <1>1. /\ tab'[t].task = [pc |-> "sent", sent |-> Jar(t), got |-> 0, elected |-> elected,
                           good |-> Good(DeviceOf[t])]
        /\ tab'[t].open = tab[t].open
        /\ \A u \in Tabs : u # t => tab'[u] = tab[u]
    BY BecomesOnly DEF Fetch
  <1>2. /\ Good(DeviceOf[t]) /\ DeviceOf[t] \in Devices /\ Jar(t) = cookie[DeviceOf[t]]
        /\ Won(t) = 0 /\ ~TabAt(t, "rotated")
    BY Sizes DEF PeaceInv, CookiesGood, Successors, Jar, InFlight, TabAt
  <1>3. Jar(t) \in Sessions /\ session[Jar(t)] \in {"live", "revoked"}
    BY <1>2 DEF PeaceInv, Good, Live, InGrace, InFlight, TabAt
  <1>4. \A u \in Tabs :
          /\ Won(u)' = Won(u) /\ TabAt(u, "rotated")' = TabAt(u, "rotated")
          /\ u # t => Sent(u)' = Sent(u) /\ InFlight(u)' = InFlight(u)
          /\ tab'[u].open /\ tab'[u].task.pc \notin {"reuse", "clear"}
    BY <1>1, <1>2 DEF Won, TabAt, Sent, InFlight, PeaceInv, Undisturbed
  <1>5. Sent(t)' = Jar(t) /\ InFlight(t)'
    BY <1>1 DEF Sent, InFlight
  <1>6. InGrace'
    BY <1>1, <1>2, <1>3, <1>4, <1>5 DEF PeaceInv, InGrace
  <1>7. Successors'
    <2>1. \A u \in Tabs : TabAt(u, "rotated") => Won(u) # Jar(t)
      BY <1>2 DEF PeaceInv, Successors
    <2> QED BY <1>4, <1>5, <2>1 DEF PeaceInv, Successors
  <1>8. Entrances'
    <2>1. \A d \in Devices : login[d].pc # "none" => login[d].id # Jar(t)
      BY <1>2 DEF PeaceInv, Entrances
    <2> QED BY <1>4, <1>5, <2>1 DEF PeaceInv, Entrances
  <1>9. Apart'
    <2>1. \A d \in Devices : cookie[d] = Jar(t) => DeviceOf[t] = d
      BY <1>2 DEF PeaceInv, Apart
    <2> QED BY <1>4, <1>5, <2>1 DEF PeaceInv, Apart
  <1>10. CookiesGood'
    <2>1. \A d \in Devices : Good(d) => Good(d)'
      BY <1>2, <1>4 DEF Good, Live, TabAt
    <2> QED BY <2>1 DEF PeaceInv, CookiesGood
  <1>11. Undisturbed'
    BY <1>4 DEF PeaceInv, Undisturbed
  <1> QED BY <1>6, <1>7, <1>8, <1>9, <1>10, <1>11 DEF PeaceInv

\* The server looks a token up, or its refusal reaches the tab.
LEMMA PeaceLook ==
  ASSUME SessionsTyped, PeaceInv, NEW t \in Tabs, Look(t)
  PROVE  PeaceInv'
  <1>1. PICK pc \in {"found", "refused"} : Becomes(t, [tab[t].task EXCEPT !.pc = pc])
    <2>1. session[Sent(t)] \in {"live", "revoked"}
      BY DEF Look, PeaceInv, InGrace, InFlight, TabAt
    <2> QED BY <2>1 DEF Look, Replayed, Clears
  <1>2. /\ tab'[t].task = [tab[t].task EXCEPT !.pc = pc] /\ tab'[t].open = tab[t].open
        /\ \A u \in Tabs : u # t => tab'[u] = tab[u]
    BY <1>1, BecomesOnly
  <1>3. tab[t].task \in Tasks
    BY DEF SessionsTyped, Tasks
  <1>4. /\ tab'[t].task.pc = pc /\ tab'[t].task.sent = Sent(t) /\ tab'[t].task.got = Won(t)
        /\ tab'[t].task.good = tab[t].task.good
    BY <1>2, <1>3 DEF Tasks, Sent, Won
  <1>5. \A u \in Tabs : /\ Sent(u)' = Sent(u) /\ Won(u)' = Won(u) /\ InFlight(u)' = InFlight(u)
                        /\ tab'[u].task.good = tab[u].task.good
                        /\ TabAt(u, "rotated")' = TabAt(u, "rotated")
                        /\ tab'[u].task.pc \notin {"reuse", "clear"} /\ tab'[u].open
    <2> SUFFICES ASSUME NEW u \in Tabs
                 PROVE  /\ Sent(u)' = Sent(u) /\ Won(u)' = Won(u) /\ InFlight(u)' = InFlight(u)
                        /\ tab'[u].task.good = tab[u].task.good
                        /\ TabAt(u, "rotated")' = TabAt(u, "rotated")
                        /\ tab'[u].task.pc \notin {"reuse", "clear"} /\ tab'[u].open
      OBVIOUS
    <2>1. tab[u].open /\ tab[u].task.pc \notin {"reuse", "clear"}
      BY DEF PeaceInv, Undisturbed
    <2>2. CASE u = t
      <3>1. tab[t].task.pc = "sent"
        BY DEF Look, TabAt
      <3>2. tab'[t].task.pc \in {"found", "refused"} /\ tab'[t].open
        BY <1>2, <1>4, <2>1, <2>2
      <3>3. /\ InFlight(t)' = InFlight(t) /\ TabAt(t, "rotated")' = TabAt(t, "rotated")
            /\ tab'[t].task.pc \notin {"reuse", "clear"}
        BY <3>1, <3>2 DEF InFlight, TabAt
      <3>4. Sent(t)' = Sent(t) /\ Won(t)' = Won(t)
        BY <1>4 DEF Sent, Won
      <3> QED BY <1>4, <2>2, <3>2, <3>3, <3>4
    <2>3. CASE u # t
      BY <1>2, <2>1, <2>3 DEF Sent, Won, InFlight, TabAt
    <2> QED BY <2>2, <2>3
  <1>6. UNCHANGED <<session, cookie, login, account>>
    BY DEF Look
  <1>7. \A d \in Devices : Good(d)' = Good(d)
    BY <1>5, <1>6 DEF Good, Live
  <1>8. Undisturbed' /\ InGrace'
    BY <1>5, <1>6 DEF PeaceInv, Undisturbed, InGrace
  <1>9. Successors'
    BY <1>5, <1>6 DEF PeaceInv, Successors
  <1>10. Entrances' /\ Apart' /\ CookiesGood'
    BY <1>5, <1>6, <1>7 DEF PeaceInv, Entrances, Apart, CookiesGood
  <1> QED BY <1>8, <1>9, <1>10 DEF PeaceInv

\* A rotation: the token is revoked, and its successor is on the way.
LEMMA PeaceRotate ==
  ASSUME SessionsTyped, PeaceInv, NEW t \in Tabs, Rotate(t)
  PROVE  PeaceInv'
  <1> DEFINE s == Sent(t)
             n == NextId
  <1>1. n \in Sessions /\ session[n] = "none"
    BY NextIsUnused DEF Rotate
  <1>2. /\ tab'[t].task = [tab[t].task EXCEPT !.pc = "rotated", !.got = n]
        /\ tab'[t].open = tab[t].open
        /\ \A u \in Tabs : u # t => tab'[u] = tab[u]
    BY BecomesOnly DEF Rotate
  <1>3. tab[t].task \in Tasks
    BY DEF SessionsTyped, Tasks
  <1>4. /\ tab'[t].task.pc = "rotated" /\ tab'[t].task.sent = s /\ tab'[t].task.got = n
        /\ tab'[t].task.good = tab[t].task.good
    BY <1>2, <1>3 DEF Tasks, Sent
  <1>5. /\ TabAt(t, "rotated")' /\ Won(t)' = n /\ ~TabAt(t, "rotated") /\ InFlight(t)
        /\ \A u \in Tabs : /\ Sent(u)' = Sent(u) /\ InFlight(u)' = InFlight(u)
                           /\ tab'[u].task.good = tab[u].task.good
                           /\ tab'[u].task.pc \notin {"reuse", "clear"} /\ tab'[u].open
                           /\ u # t => Won(u)' = Won(u)
                                       /\ TabAt(u, "rotated")' = TabAt(u, "rotated")
    <2>1. tab[t].task.pc = "found"
      BY DEF Rotate, TabAt
    <2>2. \A u \in Tabs : tab[u].open /\ tab[u].task.pc \notin {"reuse", "clear"}
      BY DEF PeaceInv, Undisturbed
    <2>3. /\ TabAt(t, "rotated")' /\ Won(t)' = n /\ ~TabAt(t, "rotated") /\ InFlight(t)
          /\ Sent(t)' = Sent(t) /\ InFlight(t)' /\ tab'[t].open
          /\ tab'[t].task.pc \notin {"reuse", "clear"}
      BY <1>2, <1>4, <2>1, <2>2 DEF Sent, Won, InFlight, TabAt
    <2>4. ASSUME NEW u \in Tabs, u # t
          PROVE  /\ Sent(u)' = Sent(u) /\ InFlight(u)' = InFlight(u) /\ Won(u)' = Won(u)
                 /\ tab'[u].task.good = tab[u].task.good
                 /\ tab'[u].task.pc \notin {"reuse", "clear"} /\ tab'[u].open
                 /\ TabAt(u, "rotated")' = TabAt(u, "rotated")
      BY <1>2, <2>2, <2>4 DEF Sent, Won, InFlight, TabAt
    <2>5. InFlight(t)' = InFlight(t)
      BY <2>3 DEF InFlight
    <2> QED BY <1>4, <2>3, <2>4, <2>5
  <1>6. /\ s \in Sessions /\ session[s] \in {"live", "revoked"} /\ s # n
        /\ \A x \in Sessions :
             session'[x] = IF x = n THEN "live" ELSE IF x = s THEN "revoked" ELSE session[x]
    BY <1>1, <1>5 DEF Rotate, PeaceInv, InGrace, SessionsTyped
  <1>7. UNCHANGED <<cookie, login, account>>
    BY DEF Rotate
  <1>8. \A d \in Devices : cookie[d] # n /\ (login[d].id # n \/ login[d].pc = "none")
    BY <1>1 DEF PeaceInv, CookiesGood, Good, Live, InGrace, InFlight, TabAt, Entrances, Sessions
  <1>9. \A u \in Tabs : Sent(u) # n /\ Won(u) # n
    BY <1>1 DEF PeaceInv, InGrace, Successors, Sessions
  <1>10. Undisturbed'
    BY <1>5, <1>7 DEF PeaceInv, Undisturbed
  <1>11. InGrace'
    BY <1>5, <1>6, <1>9 DEF PeaceInv, InGrace
  <1>12. Successors'
    <2>1. \A d \in Devices : login[d].id # n
      BY <1>1, <1>8, Sizes DEF PeaceInv, Entrances
    <2>2. \A u \in Tabs : TabAt(u, "rotated") => Won(u) # s
      BY DEF PeaceInv, Successors
    <2> QED BY <1>1, <1>5, <1>6, <1>7, <1>8, <1>9, <2>1, <2>2 DEF PeaceInv, Successors
  <1>13. Entrances'
    <2>1. \A d \in Devices : login[d].pc # "none" => login[d].id # s
      BY DEF PeaceInv, Entrances
    <2> QED BY <1>5, <1>6, <1>7, <1>8, <2>1 DEF PeaceInv, Entrances
  <1>14. Apart'
    BY <1>5, <1>7 DEF PeaceInv, Apart
  <1>15. CookiesGood'
    <2> SUFFICES ASSUME NEW d \in Devices, cookie[d] # 0
                 PROVE  Good(d)'
      BY <1>7 DEF CookiesGood
    <2>1. CASE cookie[d] = s
      <3>1. DeviceOf[t] = d
        BY <2>1 DEF PeaceInv, Apart
      <3> QED BY <1>5, <1>7, <2>1, <3>1 DEF Good
    <2>2. CASE cookie[d] # s
      BY <1>5, <1>6, <1>7, <2>2 DEF PeaceInv, CookiesGood, Good, Live
    <2> QED BY <2>1, <2>2
  <1> QED BY <1>10, <1>11, <1>12, <1>13, <1>14, <1>15 DEF PeaceInv

\* The successor becomes the browser's cookie.
LEMMA PeaceServed ==
  ASSUME SessionsTyped, PeaceInv, NEW t \in Tabs, Served(t)
  PROVE  PeaceInv'
  <1> DEFINE g == Won(t)
             D == DeviceOf[t]
  <1>1. /\ TabAt(t, "rotated") /\ g \in Sessions /\ session[g] = "live" /\ D \in Devices /\ g # 0
        /\ \A d \in Devices : g \notin {cookie[d], login[d].id}
        /\ \A u \in Tabs : g # Sent(u) /\ (u # t => g # Won(u))
    BY Sizes DEF Served, PeaceInv, Successors
  <1>2. /\ tab'[t].task = Quiet
        /\ \A u \in Tabs : tab'[u].open = tab[u].open /\ (u # t => tab'[u].task = tab[u].task)
    BY DEF Served, SessionsTyped
  <1>3. /\ Sent(t)' = 0 /\ Won(t)' = 0 /\ ~InFlight(t)' /\ ~TabAt(t, "rotated")'
        /\ \A u \in Tabs : /\ u # t => /\ Sent(u)' = Sent(u) /\ Won(u)' = Won(u)
                                       /\ InFlight(u)' = InFlight(u)
                                       /\ TabAt(u, "rotated")' = TabAt(u, "rotated")
                                       /\ tab'[u].task.good = tab[u].task.good
                           /\ tab'[u].task.pc \notin {"reuse", "clear"} /\ tab'[u].open
    BY <1>2 DEF PeaceInv, Undisturbed, Sent, Won, InFlight, TabAt, Quiet
  <1>4. /\ cookie'[D] = g /\ \A d \in Devices : d # D => cookie'[d] = cookie[d]
        /\ UNCHANGED <<session, login, account>>
    BY <1>1 DEF Served, SessionsTyped, Won
  <1>5. Undisturbed' /\ InGrace'
    BY <1>3, <1>4 DEF PeaceInv, Undisturbed, InGrace
  <1>6. Successors'
    BY <1>1, <1>3, <1>4, Sizes DEF PeaceInv, Successors
  <1>7. Entrances'
    BY <1>1, <1>3, <1>4, Sizes DEF PeaceInv, Entrances
  <1>8. Apart'
    BY <1>1, <1>3, <1>4 DEF PeaceInv, Apart
  <1>9. CookiesGood'
    <2> SUFFICES ASSUME NEW d \in Devices, cookie'[d] # 0
                 PROVE  Good(d)'
      BY DEF CookiesGood
    <2>1. CASE d = D
      BY <1>1, <1>4, <2>1 DEF Good, Live
    <2>2. CASE d # D
      BY <1>3, <1>4, <2>2 DEF PeaceInv, CookiesGood, Good, Live
    <2> QED BY <2>1, <2>2
  <1> QED BY <1>5, <1>6, <1>7, <1>8, <1>9 DEF PeaceInv

\* A refusal that clears nothing.
LEMMA PeaceRefused ==
  ASSUME SessionsTyped, PeaceInv, NEW t \in Tabs, Refused(t)
  PROVE  PeaceInv'
  <1>1. TabAt(t, "refused") /\ UNCHANGED <<session, cookie, login, account>>
    BY DEF Refused, PeaceInv, Undisturbed, TabAt
  <1>2. tab'[t].task = Quiet /\ \A u \in Tabs : u # t => tab'[u] = tab[u]
    BY BecomesOnly DEF Refused
  <1>3. /\ Sent(t)' = 0 /\ Won(t)' = 0 /\ ~InFlight(t)' /\ ~TabAt(t, "rotated")'
        /\ ~TabAt(t, "rotated")
        /\ \A u \in Tabs : /\ u # t => /\ Sent(u)' = Sent(u) /\ Won(u)' = Won(u)
                                       /\ InFlight(u)' = InFlight(u)
                                       /\ TabAt(u, "rotated")' = TabAt(u, "rotated")
                                       /\ tab'[u].task.good = tab[u].task.good
                           /\ tab'[u].task.pc \notin {"reuse", "clear"} /\ tab'[u].open
    BY <1>1, <1>2, BecomesOnly
       DEF Refused, PeaceInv, Undisturbed, Sent, Won, InFlight, TabAt, Quiet
  <1>4. Undisturbed' /\ InGrace'
    BY <1>1, <1>3 DEF PeaceInv, Undisturbed, InGrace
  <1>5. Successors'
    BY <1>1, <1>3, Sizes DEF PeaceInv, Successors
  <1>6. Entrances' /\ Apart'
    BY <1>1, <1>3, Sizes DEF PeaceInv, Entrances, Apart
  <1>7. CookiesGood'
    <2>1. \A d \in Devices : Good(d) => Good(d)'
      BY <1>1, <1>3 DEF Good, Live
    <2> QED BY <1>1, <2>1 DEF PeaceInv, CookiesGood
  <1> QED BY <1>4, <1>5, <1>6, <1>7 DEF PeaceInv

\* A login's new session is nobody else's, and becomes the browser's cookie.
LEMMA PeaceLogIn ==
  ASSUME SessionsTyped, PeaceInv, NEW d \in Devices, LogIn(d)
  PROVE  PeaceInv'
  <1> DEFINE n == NextId
  <1>1. n \in Sessions /\ session[n] = "none" /\ n # 0
    BY NextIsUnused, Sizes DEF LogIn
  <1>2. /\ \A x \in Sessions : session'[x] = IF x = n THEN "live" ELSE session[x]
        /\ login'[d].pc = "list" /\ login'[d].id = n
        /\ \A e \in Devices : e # d => login'[e] = login[e]
        /\ UNCHANGED <<cookie, tab, account>>
    BY <1>1 DEF LogIn, SessionsTyped
  <1>3. \A e \in Devices : cookie[e] # n /\ login[e].id # n
    BY <1>1 DEF PeaceInv, CookiesGood, Good, Live, InGrace, InFlight, TabAt, Entrances
  <1>4. \A u \in Tabs : Sent(u) # n /\ Won(u) # n
    BY <1>1 DEF PeaceInv, InGrace, Successors
  <1>5. \A u \in Tabs : /\ Sent(u)' = Sent(u) /\ Won(u)' = Won(u) /\ InFlight(u)' = InFlight(u)
                        /\ TabAt(u, "rotated")' = TabAt(u, "rotated")
    BY <1>2 DEF Sent, Won, InFlight, TabAt
  <1>6. Undisturbed' /\ InGrace'
    BY <1>2, <1>4, <1>5 DEF PeaceInv, Undisturbed, InGrace
  <1>7. Successors'
    BY <1>2, <1>3, <1>4, <1>5 DEF PeaceInv, Successors
  <1>8. Entrances'
    BY <1>1, <1>2, <1>3, <1>4, <1>5 DEF PeaceInv, Entrances
  <1>9. Apart'
    BY <1>2, <1>5 DEF PeaceInv, Apart
  <1>10. CookiesGood'
    BY <1>2, <1>3, <1>5 DEF PeaceInv, CookiesGood, Good, Live
  <1> QED BY <1>6, <1>7, <1>8, <1>9, <1>10 DEF PeaceInv

\* A login hands its session to the cookie of its browser.
LEMMA PeaceSetCookie ==
  ASSUME SessionsTyped, PeaceInv, NEW d \in Devices, SetCookie(d)
  PROVE  PeaceInv'
  <1> DEFINE n == login[d].id
  <1>1. /\ n \in Sessions /\ session[n] = "live" /\ n # 0
        /\ \A e \in Devices : n # cookie[e] /\ (e # d => n # login[e].id)
        /\ \A t \in Tabs : n # Sent(t)
    BY Sizes DEF SetCookie, PeaceInv, Entrances
  <1>2. \A t \in Tabs : n # Won(t)
    BY <1>1 DEF PeaceInv, Successors
  <1>3. /\ cookie'[d] = n /\ \A e \in Devices : e # d => cookie'[e] = cookie[e]
        /\ login'[d].pc = "none" /\ login'[d].id = 0
        /\ \A e \in Devices : e # d => login'[e] = login[e]
        /\ UNCHANGED <<session, tab, account>>
    BY DEF SetCookie, SessionsTyped, NoLogin
  <1>4. \A u \in Tabs : /\ Sent(u)' = Sent(u) /\ Won(u)' = Won(u) /\ InFlight(u)' = InFlight(u)
                        /\ TabAt(u, "rotated")' = TabAt(u, "rotated")
    BY <1>3 DEF Sent, Won, InFlight, TabAt
  <1>5. Undisturbed' /\ InGrace'
    BY <1>3, <1>4 DEF PeaceInv, Undisturbed, InGrace
  <1>6. Successors'
    BY <1>2, <1>3, <1>4, Sizes DEF PeaceInv, Successors
  <1>7. Entrances'
    BY <1>1, <1>3, <1>4, Sizes DEF PeaceInv, Entrances
  <1>8. Apart'
    BY <1>1, <1>3, <1>4 DEF PeaceInv, Apart
  <1>9. CookiesGood'
    <2> SUFFICES ASSUME NEW e \in Devices, cookie'[e] # 0
                 PROVE  Good(e)'
      BY DEF CookiesGood
    <2>1. CASE e = d
      BY <1>1, <1>3, <2>1 DEF Good, Live
    <2>2. CASE e # d
      BY <1>3, <1>4, <2>2 DEF PeaceInv, CookiesGood, Good, Live
    <2> QED BY <2>1, <2>2
  <1> QED BY <1>5, <1>6, <1>7, <1>8, <1>9 DEF PeaceInv

\* The grace of a revoked token ends when nobody sends it any more.
LEMMA PeaceGraceEnds ==
  ASSUME SessionsTyped, PeaceInv, NEW s \in Sessions, GraceEnds(s), NoMishap
  PROVE  PeaceInv'
  <1>1. session[s] = "revoked" /\ UNCHANGED <<cookie, tab, login, account>>
    BY DEF GraceEnds
  <1>2. ~\E t \in Tabs : InFlight(t) /\ Sent(t) = s /\ tab[t].task.good
    <2>1. \A kind : Mishap(kind) => mishaps' # mishaps
      BY Sizes DEF Mishap, SessionsTyped
    <2> QED BY <2>1 DEF GraceEnds, NoMishap
  <1>3. \A t \in Tabs : InFlight(t) => Sent(t) # s
    BY <1>2 DEF PeaceInv, InGrace
  <1>4. \A x \in Sessions : session'[x] = IF x = s THEN "aged" ELSE session[x]
    BY DEF GraceEnds, SessionsTyped
  <1>5. \A u \in Tabs : /\ Sent(u)' = Sent(u) /\ Won(u)' = Won(u) /\ InFlight(u)' = InFlight(u)
                        /\ TabAt(u, "rotated")' = TabAt(u, "rotated")
    BY <1>1 DEF Sent, Won, InFlight, TabAt
  <1>6. Undisturbed' /\ InGrace'
    BY <1>1, <1>3, <1>4, <1>5 DEF PeaceInv, Undisturbed, InGrace
  <1>7. Successors'
    BY <1>1, <1>4, <1>5 DEF PeaceInv, Successors
  <1>8. Entrances' /\ Apart'
    BY <1>1, <1>4, <1>5 DEF PeaceInv, Entrances, Apart
  <1>9. CookiesGood'
    BY <1>1, <1>4, <1>5 DEF PeaceInv, CookiesGood, Good, Live
  <1> QED BY <1>6, <1>7, <1>8, <1>9 DEF PeaceInv

\* A step of a tab or of its request, in peace.
LEMMA PeaceTabStep ==
  ASSUME SessionsTyped, PeaceInv, Peaceful', NEW t \in Tabs,
         \/ RunsOut(t) \/ OnDemand(t) \/ TabStep(t) \/ ServerStep(t)
         \/ Response(t) \/ ServerFails(t) \/ AnswerLost(t) \/ Close(t)
  PROVE  PeaceInv'
  <1>1. \A kind : ~Mishap(kind)
    BY DEF Mishap, Peaceful
  <1>2. tab[t].open /\ tab[t].task.pc \notin {"reuse", "clear"}
    BY DEF PeaceInv, Undisturbed
  <1>3. CASE RunsOut(t) \/ Adopt(t)
    <2>1. UNCHANGED <<session, cookie, account, login>>
      BY <1>3 DEF RunsOut, Adopt
    <2>2. \A u \in Tabs : u # t => tab'[u] = tab[u]
      BY <1>3 DEF RunsOut, Adopt, SessionsTyped
    <2>3. tab'[t].open = tab[t].open /\ tab'[t].task = tab[t].task
      <3>1. CASE RunsOut(t)
        BY <3>1 DEF RunsOut, SessionsTyped
      <3>2. CASE Adopt(t)
        BY <3>2 DEF Adopt, SessionsTyped
      <3> QED BY <1>3, <3>1, <3>2
    <2>4. \A u \in Tabs : tab'[u].open = tab[u].open /\ tab'[u].task = tab[u].task
      BY <2>2, <2>3
    <2> QED BY <2>1, <2>4, PeaceKept
  <1>4. CASE Check(t) \/ Write(t) \/ StandDown(t)
    <2>1. /\ UNCHANGED <<session, cookie, account, login>> /\ ~InFlight(t)
          /\ \E pc \in {"idle", "write", "reread"} : Becomes(t, [Quiet EXCEPT !.pc = pc])
      <3>1. Quiet = [Quiet EXCEPT !.pc = "idle"]
        BY DEF Quiet
      <3>2. CASE Check(t)
        BY <3>2 DEF Check, Wants, TabAt, InFlight
      <3>3. CASE Write(t)
        BY <3>3 DEF Write, TabAt, InFlight
      <3>4. CASE StandDown(t)
        BY <3>1, <3>4 DEF StandDown, TabAt, InFlight
      <3> QED BY <1>4, <3>2, <3>3, <3>4
    <2>2. PICK pc \in {"idle", "write", "reread"} : Becomes(t, [Quiet EXCEPT !.pc = pc])
      BY <2>1
    <2>3. /\ tab'[t].task = [Quiet EXCEPT !.pc = pc] /\ tab'[t].open = tab[t].open
          /\ \A u \in Tabs : u # t => tab'[u] = tab[u]
      BY <2>2, BecomesOnly
    <2>4. tab'[t].task.pc = pc /\ tab'[t].task.sent = 0 /\ tab'[t].task.got = 0
      BY <2>3 DEF Quiet
    <2> QED BY <2>1, <2>2, <2>3, <2>4, PeaceKept
  <1>5. CASE OnDemand(t) \/ Win(t)
    <2>1. /\ Jar(t) # 0 /\ ~InFlight(t) /\ UNCHANGED <<session, cookie, login, account>>
          /\ Fetch(t, TRUE) \/ Fetch(t, FALSE)
      BY <1>5 DEF OnDemand, Win, Wants, Waits, InFlight, TabAt
    <2> QED BY <2>1, PeaceFetch
  <1>6. CASE ServerStep(t)
    BY <1>2, <1>6, PeaceLook, PeaceRotate DEF ServerStep, Punish, TabAt
  <1>7. CASE Response(t)
    BY <1>2, <1>7, PeaceServed, PeaceRefused DEF Response, Unheard
  <1>8. CASE ServerFails(t) \/ AnswerLost(t) \/ Close(t)
    BY <1>1, <1>8 DEF ServerFails, AnswerLost, Close
  <1> QED BY <1>3, <1>4, <1>5, <1>6, <1>7, <1>8 DEF TabStep

\* Every step keeps the peace, unless something happens from outside.
LEMMA PeaceStep ==
  ASSUME SessionsTyped, Peaceful => PeaceInv, [SessionsNext]_sessionVars, Peaceful'
  PROVE  PeaceInv'
  <1>1. Peaceful
    BY DEF SessionsNext, sessionVars, Peaceful, NoMishap, Mishap, RunsOut, OnDemand, TabStep,
           Check, Write, Win, StandDown, Adopt, ServerStep, Look, Punish, Rotate, Response,
           Served, Refused, Unheard, ServerFails, AnswerLost, Close, ClaimEnds, LogIn,
           LoginStep, List, Evict, CapFails, SetCookie, OpenAccount, RevokeOthers, GraceEnds
  <1>2. PeaceInv
    BY <1>1
  <1>3. ASSUME NEW t \in Tabs,
               \/ RunsOut(t) \/ OnDemand(t) \/ TabStep(t) \/ ServerStep(t)
               \/ Response(t) \/ ServerFails(t) \/ AnswerLost(t) \/ Close(t)
        PROVE  PeaceInv'
    BY <1>2, <1>3, PeaceTabStep
  <1>4. ASSUME NEW d \in Devices, ClaimEnds(d) PROVE PeaceInv'
    BY <1>2, <1>4, PeaceKept DEF ClaimEnds
  <1>5. ASSUME NEW d \in Devices, LoginStep(d) PROVE PeaceInv'
    <2>1. CASE List(d)
      <3>1. /\ \A e \in Devices : /\ login'[e].id = login[e].id
                                  /\ login'[e].pc = "none" <=> login[e].pc = "none"
            /\ UNCHANGED <<session, cookie, account, tab>>
        BY <2>1 DEF List, SessionsTyped
      <3> QED BY <1>2, <3>1, PeaceKept
    <2>2. CASE Evict(d)
      <3>1. login[d].evict = {}
        BY <2>2 DEF Evict, Peaceful
      <3>2. UNCHANGED session
        BY <2>2, <3>1 DEF Evict, SessionsTyped
      <3>3. /\ \A e \in Devices : /\ login'[e].id = login[e].id
                                  /\ login'[e].pc = "none" <=> login[e].pc = "none"
            /\ UNCHANGED <<session, cookie, account, tab>>
        BY <2>2, <3>2 DEF Evict, SessionsTyped
      <3> QED BY <1>2, <3>3, PeaceKept
    <2>3. CASE SetCookie(d)
      BY <1>2, <2>3, PeaceSetCookie
    <2> QED BY <1>5, <2>1, <2>2, <2>3 DEF LoginStep
  <1>6. ASSUME NEW d \in Devices, LogIn(d) PROVE PeaceInv'
    BY <1>2, <1>6, PeaceLogIn
  <1>7. ASSUME NEW d \in Devices, OpenAccount(d) \/ RevokeOthers(d) PROVE PeaceInv'
    <2>1. ~RevokeOthers(d)
      BY <1>2 DEF RevokeOthers, PeaceInv, Undisturbed
    <2>2. ~OpenAccount(d)
      BY DEF OpenAccount, Mishap, Peaceful
    <2> QED BY <1>7, <2>1, <2>2
  <1>8. ASSUME NEW s \in Sessions, GraceEnds(s) PROVE PeaceInv'
    <2>1. NoMishap
      BY <1>8 DEF GraceEnds, Mishap, Peaceful
    <2> QED BY <1>2, <1>8, <2>1, PeaceGraceEnds
  <1>9. CASE UNCHANGED sessionVars
    BY <1>2, <1>9, PeaceKept DEF sessionVars
  <1>10. \A d \in Devices : ~CapFails(d)
    BY DEF CapFails, Mishap, Peaceful
  <1> QED BY <1>3, <1>4, <1>5, <1>6, <1>7, <1>8, <1>9, <1>10 DEF SessionsNext

(***************************************************************************)
(* The cap.                                                                *)
(***************************************************************************)
LEMMA CapInit == SessionsInit => CapInv
  <1> SUFFICES ASSUME SessionsInit
               PROVE  CapInv
    OBVIOUS
  <1>1. \A d \in Devices : login[d].evict = {}
    BY DEF SessionsInit, NoLogin
  <1>2. Listing = {} /\ Cardinality(Listing) = 0 /\ over = 0
    BY FS_EmptySet DEF SessionsInit, NoLogin, Listing
  <1>3. ASSUME Cap > 0
        PROVE  Cardinality(Staying) <= Cap
    <2> DEFINE k == Cardinality(SignedIn)
    <2>1. k \in Nat /\ k <= MaxSessions /\ k <= Cap
      BY <1>3, UserAssumption, FS_CardinalityType
    <2>2. Staying \in SUBSET (1 .. k)
      <3>1. \A s \in Live : s \in 1 .. k
        BY <2>1, Sizes DEF SessionsInit, Live, Sessions
      <3> QED BY <3>1 DEF Staying
    <2>3. IsFiniteSet(1 .. k) /\ Cardinality(1 .. k) = k
      BY <2>1, FS_Interval
    <2>4. Cardinality(Staying) <= k /\ Cardinality(Staying) \in Nat
      BY <2>2, <2>3, FS_Subset, FS_CardinalityType
    <2> HIDE DEF k
    <2> QED BY <2>1, <2>4, Sizes
  <1> QED BY <1>1, <1>2, <1>3, Sizes DEF CapInv

\* How many sessions nobody has chosen, and how many logins have not listed.
LEMMA CapNumbers ==
  ASSUME SessionsTyped
  PROVE  /\ Cardinality(Staying) \in Nat /\ IsFiniteSet(Listing) /\ Cardinality(Listing) \in Nat
         /\ over \in Nat /\ Cap \in Nat
  <1>1. Cardinality(Staying) \in Nat
    <2>1. Staying \subseteq Sessions
      BY DEF Live, Staying
    <2> QED BY <2>1, SessionsFinite
  <1>2. IsFiniteSet(Listing) /\ Cardinality(Listing) \in Nat
    <2>1. Listing \in SUBSET Devices /\ IsFiniteSet(Devices)
      BY UserAssumption DEF Listing
    <2> QED BY <2>1, FS_Subset, FS_CardinalityType
  <1> QED BY <1>1, <1>2, Sizes DEF SessionsTyped

\* A set of sessions within two others has at most as many as both.
LEMMA AtMostBoth ==
  ASSUME NEW S, NEW T, NEW U, S \subseteq Sessions, U \subseteq Sessions, T \subseteq S \cup U
  PROVE  Cardinality(T) <= Cardinality(S) + Cardinality(U)
  <1>1. S \cup U \subseteq Sessions /\ T \subseteq Sessions /\ S \cap U \subseteq Sessions
    OBVIOUS
  <1>2. IsFiniteSet(S) /\ IsFiniteSet(U) /\ Cardinality(S) \in Nat /\ Cardinality(U) \in Nat
    BY SessionsFinite
  <1>3. Cardinality(T) <= Cardinality(S \cup U)
    BY <1>1, FewerSessions
  <1>4. Cardinality(S \cup U) = Cardinality(S) + Cardinality(U) - Cardinality(S \cap U)
    BY <1>2, FS_Union
  <1>5. /\ Cardinality(S \cap U) \in Nat /\ Cardinality(T) \in Nat
        /\ Cardinality(S \cup U) \in Nat
    BY <1>1, SessionsFinite
  <1> QED BY <1>2, <1>3, <1>4, <1>5

\* What bounds the sessions that stay, when at most those of U are added, and no
\* login lists or ends.
LEMMA CapGrows ==
  ASSUME SessionsTyped, CapInv, NEW U, U \subseteq Sessions, NEW k \in Nat, Cardinality(U) <= k,
         Staying' \subseteq Staying \cup U, over' = over + k, Listing' = Listing,
         \A d \in Devices : login'[d].pc # "evict" => login'[d].evict = {}
  PROVE  CapInv'
  <1>1. Staying \subseteq Sessions
    BY DEF Live, Staying
  <1>2. Cardinality(Staying') <= Cardinality(Staying) + Cardinality(U)
    BY <1>1, AtMostBoth
  <1>3. Staying' \subseteq Sessions
    BY <1>1
  <1>4. Cardinality(Staying') \in Nat /\ Cardinality(U) \in Nat
    BY <1>3, SessionsFinite
  <1> QED BY <1>2, <1>4, CapNumbers DEF CapInv

\* In particular when none is added.
LEMMA CapKept ==
  ASSUME SessionsTyped, CapInv, Staying' \subseteq Staying, over' = over, Listing' = Listing,
         \A d \in Devices : login'[d].pc # "evict" => login'[d].evict = {}
  PROVE  CapInv'
  <1>1. {} \subseteq Sessions /\ Cardinality({}) = 0 /\ over' = over + 0
    BY CapNumbers, FS_EmptySet
  <1> QED BY <1>1, CapGrows

\* A rotation puts one session in the place of another, or one more beside those
\* that stay.
LEMMA CapRotate ==
  ASSUME SessionsTyped, CapInv, NEW t \in Tabs, Rotate(t)
  PROVE  CapInv'
  <1> DEFINE s == Sent(t)
             n == NextId
  <1>1. n \in Sessions /\ n \notin Live
    BY NextIsUnused DEF Rotate, Live
  <1>2. UNCHANGED login /\ Doomed' = Doomed /\ Listing' = Listing
    BY DEF Rotate, Doomed, Listing
  <1>3. Staying' \subseteq (Staying \ {s}) \cup {n}
    BY <1>1, <1>2 DEF Rotate, Live, SessionsTyped, Staying
  <1>4. {n} \subseteq Sessions /\ Cardinality({n}) = 1
    BY <1>1, FS_Singleton
  <1>5. CASE s \notin Staying
    <2>1. over' = over + 1 /\ Staying' \subseteq Staying \cup {n}
      BY <1>3, <1>5 DEF Rotate, Staying
    <2> HIDE DEF n
    <2> QED BY <1>2, <1>4, <2>1, CapGrows DEF CapInv
  <1>6. CASE s \in Staying
    <2>1. Staying \subseteq Sessions /\ over' = over
      BY <1>6 DEF Live, Staying, Rotate
    <2>2. IsFiniteSet(Staying)
      BY <2>1, SessionsFinite
    <2> HIDE DEF n, s
    <2>3. Cardinality(Staying \ {s}) = Cardinality(Staying) - 1
      BY <1>6, <2>2, FS_RemoveElement
    <2>4. Cardinality(Staying') <= Cardinality(Staying \ {s}) + Cardinality({n})
      <3>1. Staying \ {s} \subseteq Sessions
        BY <2>1
      <3> QED BY <1>3, <1>4, <3>1, AtMostBoth
    <2>5. Cardinality(Staying') \in Nat
      <3>1. Staying' \subseteq Sessions
        BY <1>3, <1>4, <2>1
      <3> QED BY <3>1, SessionsFinite
    <2> QED BY <1>2, <1>4, <2>1, <2>3, <2>4, <2>5, CapNumbers DEF CapInv
  <1> QED BY <1>5, <1>6

\* A login adds its session, and has not listed yet.
LEMMA CapLogIn ==
  ASSUME SessionsTyped, CapInv, NEW d \in Devices, LogIn(d)
  PROVE  CapInv'
  <1> DEFINE n == NextId
  <1>1. n \in Sessions
    BY NextIsUnused DEF LogIn
  <1>2. /\ login'[d].pc = "list" /\ login'[d].evict = {} /\ login[d].pc = "none"
        /\ \A e \in Devices : e # d => login'[e] = login[e]
        /\ over' = over
    BY DEF LogIn, SessionsTyped
  <1>3. login[d].evict = {}
    BY <1>2 DEF CapInv
  <1>4. Doomed' = Doomed
    BY <1>2, <1>3 DEF Doomed
  <1>5. Listing' = Listing \cup {d} /\ d \notin Listing
    BY <1>2 DEF Listing
  <1>6. Staying' \subseteq Staying \cup {n}
    BY <1>1, <1>4 DEF LogIn, Live, SessionsTyped, Staying
  <1>7. Staying \subseteq Sessions /\ {n} \subseteq Sessions /\ Cardinality({n}) = 1
    BY <1>1, FS_Singleton DEF Live, Staying
  <1> HIDE DEF n
  <1>8. Cardinality(Staying') <= Cardinality(Staying) + 1
    BY <1>6, <1>7, AtMostBoth
  <1>9. Cardinality(Staying') \in Nat
    <2>1. Staying' \subseteq Sessions
      BY <1>6, <1>7
    <2> QED BY <2>1, SessionsFinite
  <1>10. Cardinality(Listing') = Cardinality(Listing) + 1
    BY <1>5, CapNumbers, FS_AddElement
  <1>11. \A e \in Devices : login'[e].pc # "evict" => login'[e].evict = {}
    BY <1>2 DEF CapInv
  <1> QED BY <1>2, <1>8, <1>9, <1>10, <1>11, CapNumbers DEF CapInv

\* The catch, before the login has listed.
LEMMA CapFailsListing ==
  ASSUME SessionsTyped, CapInv, NEW d \in Devices, CapFails(d), login[d].pc = "list"
  PROVE  CapInv'
  <1>1. login[d].evict = {}
    BY DEF CapInv
  <1>2. PICK stamped \in SUBSET login[d].evict :
          /\ session' = [s \in Sessions |-> IF s \in stamped THEN "revoked" ELSE session[s]]
          /\ over' = over + 1
    BY DEF CapFails
  <1>3. Live' = Live
    BY <1>1, <1>2 DEF Live
  <1>4. /\ login'[d].pc = "enter" /\ login'[d].evict = {}
        /\ \A e \in Devices : e # d => login'[e] = login[e]
    BY DEF CapFails, SessionsTyped
  <1>5. Doomed' = Doomed
    BY <1>1, <1>4 DEF Doomed
  <1>6. Staying' = Staying
    BY <1>3, <1>5 DEF Staying
  <1>7. Listing' = Listing \ {d} /\ d \in Listing
    BY <1>4 DEF Listing
  <1>8. Cardinality(Listing') = Cardinality(Listing) - 1
    BY <1>7, CapNumbers, FS_RemoveElement
  <1>9. \A e \in Devices : login'[e].pc # "evict" => login'[e].evict = {}
    BY <1>4 DEF CapInv
  <1> QED BY <1>2, <1>6, <1>8, <1>9, CapNumbers DEF CapInv

\* The catch, when some of the revocations have failed.
LEMMA CapFailsEvicting ==
  ASSUME SessionsTyped, CapInv, NEW d \in Devices, CapFails(d), login[d].pc = "evict"
  PROVE  CapInv'
  <1>1. PICK stamped \in SUBSET login[d].evict :
          /\ session' = [s \in Sessions |-> IF s \in stamped THEN "revoked" ELSE session[s]]
          /\ over' = over + Cardinality(login[d].evict \ stamped)
    BY DEF CapFails
  <1> DEFINE U == login[d].evict \ stamped
  <1>2. /\ login'[d].pc = "enter" /\ login'[d].evict = {}
        /\ \A e \in Devices : e # d => login'[e] = login[e]
    BY DEF CapFails, SessionsTyped
  <1>3. U \subseteq Sessions
    BY DEF SessionsTyped
  <1>4. /\ \A s \in Live' : s \in Live /\ s \notin stamped
        /\ \A s \in Doomed : s \in login[d].evict \/ s \in Doomed'
    <2>1. \A s \in Live' : s \in Live /\ s \notin stamped
      BY <1>1 DEF Live
    <2>2. \A s \in Doomed : s \in login[d].evict \/ s \in Doomed'
      BY <1>2 DEF Doomed
    <2> QED BY <2>1, <2>2
  <1>5. Staying' \subseteq Staying \cup U
    BY <1>4 DEF Staying
  <1>6. Listing' = Listing
    BY <1>2 DEF Listing
  <1>7. \A e \in Devices : login'[e].pc # "evict" => login'[e].evict = {}
    BY <1>2 DEF CapInv
  <1>8. Cardinality(U) \in Nat
    BY <1>3, SessionsFinite
  <1>9. over' = over + Cardinality(U)
    BY <1>1
  <1> HIDE DEF U
  <1> QED BY <1>3, <1>5, <1>6, <1>7, <1>8, <1>9, CapGrows

\* A login that lists after its insert chooses enough sessions to meet the cap.
LEMMA EnoughEvicted ==
  ASSUME Cap > 0, NEW keep
  PROVE  Cardinality(Live \ ToEvict(Live, keep)) <= Cap
  <1> DEFINE L == Live
             n == Cardinality(L) - Cap
             E == Oldest(L \ {keep}, n)
  <1>1. IsFiniteSet(L) /\ Cardinality(L) \in Nat /\ L \subseteq Nat /\ Cap \in Nat
    BY SessionsFinite, Sizes DEF Live
  <1> HIDE DEF L
  <1>2. CASE Cardinality(L) <= Cap
    BY <1>1, <1>2, FewerSessions DEF ToEvict, L, Live
  <1>3. CASE Cardinality(L) > Cap
    <2>1. /\ IsFiniteSet(L \ {keep}) /\ Cardinality(L \ {keep}) \in Nat
          /\ Cardinality(L \ {keep}) >= Cardinality(L) - 1
      <3>1. CASE keep \in L
        <4>1. /\ IsFiniteSet(L \ {keep})
              /\ Cardinality(L \ {keep}) = Cardinality(L) - 1
          BY <1>1, <3>1, FS_RemoveElement
        <4> QED BY <1>1, <4>1, FS_CardinalityType
      <3>2. CASE keep \notin L
        <4>1. L \ {keep} = L
          BY <3>2
        <4> QED BY <1>1, <4>1
      <3> QED BY <3>1, <3>2
    <2>2. n \in Nat /\ n <= Cardinality(L \ {keep})
      BY <1>1, <1>3, <2>1
    <2>3. E \in SUBSET L /\ n <= Cardinality(E)
      <3>1. n <= Cardinality(E)
        BY <1>1, <2>1, <2>2, OldestEnough
      <3> QED BY <3>1 DEF Oldest
    <2>4. ToEvict(L, keep) = E
      BY <1>1, <1>3 DEF ToEvict
    <2> HIDE DEF E, n
    <2>5. /\ IsFiniteSet(E) /\ Cardinality(E) \in Nat
          /\ Cardinality(L \ E) = Cardinality(L) - Cardinality(L \cap E)
      BY <1>1, <2>3, FS_Subset, FS_CardinalityType, FS_Difference
    <2>6. L \cap E = E
      BY <2>3
    <2>7. Cardinality(L \ E) <= Cap
      <3>1. Cardinality(L \ E) = Cardinality(L) - Cardinality(E)
        BY <2>5, <2>6
      <3> DEFINE c == Cardinality(L)
                 e == Cardinality(E)
      <3>2. c \in Nat /\ e \in Nat /\ Cap \in Nat /\ c - Cap <= e
        BY <1>1, <2>3, <2>5 DEF n
      <3> HIDE DEF c, e
      <3>3. c - e <= Cap
        BY <3>2
      <3> QED BY <3>1, <3>3 DEF c, e
    <2> QED BY <2>4, <2>7 DEF L
  <1> QED BY <1>1, <1>2, <1>3

\* A login that lists dooms all but the newest sessions.
LEMMA CapList ==
  ASSUME SessionsTyped, CapInv, NEW d \in Devices, List(d)
  PROVE  CapInv'
  <1> DEFINE E == ToEvict(Live, login[d].id)
  <1>1. /\ login'[d].pc = "evict" /\ login'[d].evict = E
        /\ \A e \in Devices : e # d => login'[e] = login[e]
        /\ UNCHANGED session /\ over' = 0
    BY DEF List, SessionsTyped
  <1>2. Live' = Live /\ E \subseteq Doomed'
    BY <1>1 DEF Live, Doomed
  <1>3. ASSUME Cap > 0
        PROVE  Cardinality(Staying') <= Cap /\ Cardinality(Staying') \in Nat
    <2>1. Cardinality(Live \ E) <= Cap
      BY <1>3, EnoughEvicted
    <2> HIDE DEF E
    <2>2. Staying' \subseteq Live \ E
      BY <1>2 DEF Staying
    <2>3. Live \ E \subseteq Sessions /\ Staying' \subseteq Sessions
      BY <2>2 DEF Live
    <2>4. Cardinality(Staying') <= Cardinality(Live \ E)
      BY <2>2, <2>3, FewerSessions
    <2>5. Cardinality(Staying') \in Nat /\ Cardinality(Live \ E) \in Nat
      BY <2>3, SessionsFinite
    <2> QED BY <2>1, <2>4, <2>5, Sizes
  <1>4. \A e \in Devices : login'[e].pc # "evict" => login'[e].evict = {}
    BY <1>1 DEF CapInv
  <1>5. Cardinality(Listing') \in Nat
    <2>1. Listing' \in SUBSET Devices /\ IsFiniteSet(Devices)
      BY UserAssumption DEF Listing
    <2> QED BY <2>1, FS_Subset, FS_CardinalityType
  <1> QED BY <1>1, <1>3, <1>4, <1>5, Sizes DEF CapInv

\* The steps that leave every login as it is and make no session live.
LEMMA CapUntouched ==
  ASSUME SessionsTyped, CapInv, Live' \subseteq Live, UNCHANGED <<login, over>>
  PROVE  CapInv'
  <1>1. Staying' \subseteq Staying /\ Listing' = Listing
    BY DEF Staying, Doomed, Listing
  <1> QED BY <1>1, CapKept DEF CapInv

\* Every step of a login, of a rotation and of a revocation against the cap.
LEMMA CapStep ==
  ASSUME SessionsTyped, CapInv, [SessionsNext]_sessionVars
  PROVE  CapInv'
  <1>1. UNCHANGED session => Live' \subseteq Live
    BY DEF Live
  <1>2. ASSUME NEW t \in Tabs,
               \/ RunsOut(t) \/ OnDemand(t) \/ TabStep(t) \/ ServerStep(t)
               \/ Response(t) \/ ServerFails(t) \/ AnswerLost(t) \/ Close(t)
        PROVE  CapInv'
    <2>1. CASE Rotate(t)
      BY <2>1, CapRotate
    <2>2. CASE Punish(t)
      <3>1. UNCHANGED <<login, over>> /\ Live' \subseteq Live
        BY <2>2 DEF Punish, Live, SessionsTyped
      <3> QED BY <3>1, CapUntouched
    <2>3. CASE ~Rotate(t) /\ ~Punish(t)
      <3>1. UNCHANGED <<session, login, over>>
        BY <1>2, <2>3 DEF RunsOut, OnDemand, TabStep, Check, Write, Win, StandDown, Adopt,
           ServerStep, Look, Response, Served, Refused, Unheard, ServerFails, AnswerLost, Close
      <3> QED BY <1>1, <3>1, CapUntouched
    <2> QED BY <2>1, <2>2, <2>3
  <1>3. ASSUME NEW d \in Devices, ClaimEnds(d) \/ OpenAccount(d) PROVE CapInv'
    <2>1. UNCHANGED <<session, login, over>>
      BY <1>3 DEF ClaimEnds, OpenAccount
    <2> QED BY <1>1, <2>1, CapUntouched
  <1>4. ASSUME NEW d \in Devices, Evict(d) PROVE CapInv'
    <2>1. /\ login'[d].pc = "enter" /\ login'[d].evict = {}
          /\ \A e \in Devices : e # d => login'[e] = login[e]
          /\ login[d].pc = "evict" /\ over' = over
      BY <1>4 DEF Evict, SessionsTyped
    <2>2. /\ \A s \in Live' : s \in Live /\ s \notin login[d].evict
          /\ \A s \in Doomed : s \in login[d].evict \/ s \in Doomed'
      <3>1. \A s \in Live' : s \in Live /\ s \notin login[d].evict
        BY <1>4 DEF Evict, Live
      <3>2. \A s \in Doomed : s \in login[d].evict \/ s \in Doomed'
        BY <2>1 DEF Doomed
      <3> QED BY <3>1, <3>2
    <2>3. Staying' \subseteq Staying
      BY <2>2 DEF Staying
    <2>4. Listing' = Listing
      BY <2>1 DEF Listing
    <2> QED BY <2>1, <2>3, <2>4, CapKept DEF CapInv
  <1>5. ASSUME NEW d \in Devices, SetCookie(d) PROVE CapInv'
    <2>1. /\ login'[d].pc = "none" /\ login'[d].evict = {} /\ login[d].pc = "enter"
          /\ \A e \in Devices : e # d => login'[e] = login[e]
          /\ UNCHANGED <<session, over>>
      BY <1>5 DEF SetCookie, SessionsTyped, NoLogin
    <2>2. login[d].evict = {}
      BY <2>1 DEF CapInv
    <2>3. Live' = Live /\ \A s \in Doomed : s \in Doomed'
      BY <2>1, <2>2 DEF Live, Doomed
    <2>4. Staying' \subseteq Staying
      BY <2>3 DEF Staying
    <2>5. Listing' = Listing
      BY <2>1 DEF Listing
    <2> QED BY <2>1, <2>4, <2>5, CapKept DEF CapInv
  <1>6. ASSUME NEW d \in Devices, RevokeOthers(d) PROVE CapInv'
    <2>1. UNCHANGED <<login, over>> /\ Live' \subseteq Live
      BY <1>6 DEF RevokeOthers, Live, SessionsTyped
    <2> QED BY <2>1, CapUntouched
  <1>7. ASSUME NEW s \in Sessions, GraceEnds(s) PROVE CapInv'
    <2>1. UNCHANGED <<login, over>> /\ Live' \subseteq Live
      BY <1>7 DEF GraceEnds, Live, SessionsTyped
    <2> QED BY <2>1, CapUntouched
  <1>8. CASE UNCHANGED sessionVars
    BY <1>1, <1>8, CapUntouched DEF sessionVars
  <1>9. ASSUME NEW d \in Devices, CapFails(d) PROVE CapInv'
    BY <1>9, CapFailsListing, CapFailsEvicting DEF CapFails
  <1> QED BY <1>2, <1>3, <1>4, <1>5, <1>6, <1>7, <1>8, <1>9, CapList, CapLogIn
          DEF SessionsNext, LoginStep

\* A request in flight presents a session.
LEMMA PresentedStep ==
  ASSUME SessionsTyped, Presented, [SessionsNext]_sessionVars
  PROVE  Presented'
  <1>1. ASSUME NEW t \in Tabs,
               \/ RunsOut(t) \/ OnDemand(t) \/ TabStep(t) \/ ServerStep(t)
               \/ Response(t) \/ ServerFails(t) \/ AnswerLost(t) \/ Close(t)
        PROVE  Presented'
    <2>1. \A u \in Tabs : u # t => tab'[u].task = tab[u].task
      <3>1. CASE Served(t)
        BY <3>1 DEF Served, SessionsTyped
      <3>2. CASE ~Served(t)
        <4>1. \A u \in Tabs : u # t => tab'[u] = tab[u]
          BY <1>1, <3>2 DEF SessionsTyped, RunsOut, OnDemand, Fetch, TabStep, Check, Write, Win,
             StandDown, Adopt, ServerStep, Look, Punish, Rotate, Response, Refused, Unheard,
             ServerFails, AnswerLost, Close, Becomes
        <4> QED BY <4>1
      <3> QED BY <3>1, <3>2
    <2>2. Jar(t) # 0 => Jar(t) \in Sessions
      BY Sizes DEF SessionsTyped, Jar, Sessions
    <2>3. \/ tab'[t].task.pc \notin {"sent", "found", "reuse", "rotated", "refused", "clear"}
          \/ Sent(t)' \in Sessions
      <3>1. CASE RunsOut(t) \/ Adopt(t) \/ Close(t)
        <4>1. CASE RunsOut(t) \/ Adopt(t)
          BY <4>1 DEF RunsOut, Adopt, SessionsTyped, Presented, InFlight, Sent
        <4>2. CASE Close(t)
          BY <4>2 DEF Close, SessionsTyped, Presented, InFlight, Sent, Quiet
        <4> QED BY <3>1, <4>1, <4>2
      <3>2. CASE Check(t) \/ Write(t) \/ StandDown(t)
        BY <3>2 DEF Check, Write, StandDown, Becomes, SessionsTyped, Quiet
      <3>3. CASE OnDemand(t) \/ Win(t)
        BY <2>2, <3>3 DEF OnDemand, Win, Wants, Waits, Fetch, Becomes, SessionsTyped, Sent
      <3>4. CASE ServerStep(t) \/ ServerFails(t)
        <4>1. InFlight(t)
          BY <3>4 DEF ServerStep, ServerFails, Look, Punish, Rotate, TabAt, InFlight
        <4>2. PICK task : /\ Becomes(t, task) /\ task.sent = Sent(t)
          <5>1. tab[t].task \in Tasks
            BY DEF SessionsTyped, Tasks
          <5>2. \A pc : [tab[t].task EXCEPT !.pc = pc].sent = Sent(t)
            BY <5>1 DEF Sent, Tasks
          <5>3. \A pc, got : [tab[t].task EXCEPT !.pc = pc, !.got = got].sent = Sent(t)
            BY <5>1 DEF Sent, Tasks
          <5>4. CASE Look(t)
            BY <5>2, <5>4 DEF Look
          <5>5. CASE Punish(t)
            BY <5>2, <5>5 DEF Punish
          <5>6. CASE Rotate(t)
            BY <5>3, <5>6 DEF Rotate
          <5>7. CASE ServerFails(t)
            BY <5>2, <5>7 DEF ServerFails
          <5> QED BY <3>4, <5>4, <5>5, <5>6, <5>7 DEF ServerStep
        <4>3. Sent(t)' = Sent(t)
          BY <4>2, BecomesOnly DEF Sent
        <4> QED BY <4>1, <4>3 DEF Presented
      <3>5. CASE Response(t) \/ AnswerLost(t)
        <4>1. Quiet.pc = "idle"
          BY DEF Quiet
        <4>2. tab'[t].task = Quiet
          <5>1. CASE Served(t)
            BY <5>1 DEF Served, SessionsTyped
          <5>2. CASE ~Served(t)
            <6>1. Becomes(t, Quiet)
              BY <3>5, <5>2 DEF Response, Refused, Unheard, AnswerLost
            <6> QED BY <6>1, BecomesOnly
          <5> QED BY <5>1, <5>2
        <4> QED BY <4>1, <4>2
      <3> QED BY <1>1, <3>1, <3>2, <3>3, <3>4, <3>5 DEF TabStep
    <2> QED BY <2>1, <2>3 DEF Presented, InFlight, Sent
  <1>2. CASE UNCHANGED tab
    BY <1>2 DEF Presented, InFlight, Sent
  <1> QED BY <1>1, <1>2 DEF SessionsNext, sessionVars, ClaimEnds, LogIn, LoginStep, List, Evict,
          CapFails, SetCookie, OpenAccount, RevokeOthers, GraceEnds

(***************************************************************************)
(* The theorems.                                                           *)
(***************************************************************************)
LEMMA RaceInit == SessionsInit => RaceInv
  <1> SUFFICES ASSUME SessionsInit
               PROVE  RaceInv
    OBVIOUS
  <1>1. Presented
    BY DEF SessionsInit, Presented, InFlight, Quiet
  <1> QED BY <1>1, SessionsTypedInit, PeaceInit, CapInit DEF RaceInv

\* Every step keeps the three parts; the pardon for races only while nothing happens
\* from outside.
LEMMA RaceStep == RaceInv /\ [SessionsNext]_sessionVars => RaceInv'
  <1> SUFFICES ASSUME RaceInv, [SessionsNext]_sessionVars
               PROVE  RaceInv'
    OBVIOUS
  <1>1. SessionsTyped /\ Presented /\ CapInv /\ (Peaceful => PeaceInv)
    BY DEF RaceInv
  <1>2. Peaceful' => PeaceInv'
    BY <1>1, PeaceStep
  <1> QED BY <1>1, <1>2, SessionsTypedStep, PresentedStep, CapStep DEF RaceInv

\* The inductive invariant of the sessions: in whose hands each live session is, and
\* which sessions the cap still has to reach.
THEOREM RacesAlways == SessionsSpec => []RaceInv
  <1>1. QED BY RaceInit, RaceStep, PTL DEF SessionsSpec

\* A browser's cookie is live or its successor is on the way, and no tab is taken
\* for a thief, however many tabs and browsers race.
THEOREM RacesForgiven == SessionsSpec => []SessionsInv
  <1>1. RaceInv => SessionsInv
    BY DEF RaceInv, SessionsInv, RacesAreForgiven, Peaceful, PeaceInv, Undisturbed, CookiesGood
  <1> QED BY <1>1, RacesAlways, PTL

\* The cap, however many logins overlap, fail open, or race with a rotation: what
\* stands above it is counted, and the next login that lists makes up for it.
THEOREM CapIsKept == SessionsSpec => []SessionCapHolds
  <1>1. RaceInv => SessionCapHolds
    <2> SUFFICES ASSUME RaceInv, Cap > 0,
                        \A d \in Devices : login[d].pc \notin {"list", "evict"}
                 PROVE  Cardinality(Live) <= Cap + over
      BY DEF SessionCapHolds
    <2>1. Doomed = {} /\ Listing = {}
      BY DEF RaceInv, CapInv, Doomed, Listing
    <2>2. Cardinality(Staying) <= Cap + over + 0
      BY <2>1, FS_EmptySet DEF RaceInv, CapInv
    <2>3. Staying = Live /\ over \in Nat /\ Cap \in Nat
      BY <2>1, Sizes DEF Staying, RaceInv, SessionsTyped
    <2> QED BY <2>2, <2>3
  <1> QED BY <1>1, RacesAlways, PTL

=============================================================================
