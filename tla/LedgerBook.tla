----------------------------- MODULE LedgerBook -----------------------------
(***************************************************************************)
(* What the credit ledger promises (docs/planning/decisions/ADR-0029): the *)
(* counter is a derived cache of an append-only ledger.  It moves only in  *)
(* a transaction that also appends entries, and by exactly their deltas;   *)
(* it is never overdrawn; no entry disappears.                             *)
(***************************************************************************)
EXTENDS Integers

VARIABLES
  total,    \* the counter
  sum,      \* SUM(delta)
  keys      \* the entries posted so far

vars == <<total, sum, keys>>

Init ==
  /\ total >= 0
  /\ total = sum

Move ==
  /\ keys \subseteq keys'
  /\ keys' # keys
  /\ total' - total = sum' - sum
  /\ total' >= 0

Spec == Init /\ [][Move]_vars

=============================================================================
