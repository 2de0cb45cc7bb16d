---------------------------- MODULE MCBulkReveal ----------------------------
(***************************************************************************)
(* Instances of BulkReveal for TLC.  Workers are interchangeable, except   *)
(* in the liveness runs.                                                   *)
(***************************************************************************)
EXTENDS BulkReveal, TLC

Symmetric == Permutations(Workers)

=============================================================================
