---------------------------- MODULE LeaseContract ----------------------------
(***************************************************************************)
(* What a bulk job's lease promises its tenant (ADR-0029): one reservation *)
(* when the job is admitted, one settlement when it ends, and after it the *)
(* job has cost no more than was reserved and no more than the work that   *)
(* was done is worth.                                                      *)
(***************************************************************************)
EXTENDS Naturals

VARIABLES
  phase,   \* "open", "held" or "closed"
  paid,    \* what the job has taken from the tenant
  worth    \* the prices of the contacts it has revealed

vars == <<phase, paid, worth>>

Init == phase = "open" /\ paid = 0 /\ worth = 0

Hold ==
  /\ phase = "open"
  /\ phase' = "held"
  /\ paid' \in Nat
  /\ UNCHANGED worth

Work ==
  /\ worth' > worth
  /\ UNCHANGED <<phase, paid>>

Close ==
  /\ phase = "held"
  /\ phase' = "closed"
  /\ paid' <= paid
  /\ paid' <= worth
  /\ UNCHANGED worth

Abandon ==
  /\ phase = "open"
  /\ phase' = "closed"
  /\ UNCHANGED <<paid, worth>>

Next == Hold \/ Work \/ Close \/ Abandon

Spec == Init /\ [][Next]_vars

=============================================================================
