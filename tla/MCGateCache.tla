---------------------------- MODULE MCGateCache -----------------------------
(* GateCache on a small instance: one process with two requests at once and   *)
(* one with a single request.                                                 *)
EXTENDS GateCache

CONSTANTS p1, p2, r1, r2, r3

Homes == [r \in Requests |-> IF r = r3 THEN p2 ELSE p1]

=============================================================================
