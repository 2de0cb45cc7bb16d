------------------------------ MODULE JobQueue ------------------------------
(***************************************************************************)
(* A BullMQ queue as the workers use it: one record per stable job id.     *)
(* `add` with the id of a record that is still kept does nothing; a failed *)
(* attempt is retried while attempts are left; a job whose worker is lost  *)
(* is redelivered, without spending an attempt, maxStalledCount times.     *)
(***************************************************************************)
EXTENDS Naturals

CONSTANTS
  Ids,         \* the stable job ids
  MaxStalled   \* maxStalledCount: redeliveries before a record fails

Absent == [st |-> "absent", tries |-> 0, stalls |-> 0, kept |-> FALSE]

Records == [st : {"absent", "waiting", "active", "completed", "failed"},
            tries : Nat, stalls : Nat, kept : BOOLEAN]

Live(r) == r.st \in {"waiting", "active"}

\* A record with `tries` attempts; `kept` says that its failure is never removed.
NewRecord(tries, kept) ==
  [st |-> "waiting", tries |-> tries, stalls |-> 0, kept |-> kept]

\* queue.add of every id in S.
Added(q, S, tries, kept) ==
  [i \in Ids |-> IF i \in S /\ q[i].st = "absent" THEN NewRecord(tries, kept)
                 ELSE q[i]]

Retried(r) ==
  IF r.tries > 1 THEN [r EXCEPT !.st = "waiting", !.tries = @ - 1]
  ELSE [r EXCEPT !.st = "failed"]

Redelivered(r) ==
  IF r.stalls < MaxStalled THEN [r EXCEPT !.st = "waiting", !.stalls = @ + 1]
  ELSE [r EXCEPT !.st = "failed"]

\* Retention removes a settled record, except a failure that is kept for ever.
Expires(r) == \/ r.st = "completed"
              \/ r.st = "failed" /\ ~r.kept

=============================================================================
