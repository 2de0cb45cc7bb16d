---------------------------- MODULE MCEnrichRun ----------------------------
(* EnrichRun on a small instance: a run whose ceiling binds, and one whose   *)
(* day binds unless a contact fails.                                         *)
EXTENDS EnrichRun

RunLimits == {[cap |-> 1, daily |-> 3], [cap |-> 3, daily |-> 2]}

=============================================================================
