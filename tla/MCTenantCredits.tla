--------------------------- MODULE MCTenantCredits ---------------------------
(***************************************************************************)
(* Instances of TenantCredits for TLC: two billing cycles, and staff       *)
(* corrections that take more than was purchased and that add credits.     *)
(***************************************************************************)
EXTENDS TenantCredits

StaffDeltas == {-2, 3}

TwoCycles == 1..2

=============================================================================
