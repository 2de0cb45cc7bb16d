---------------------------- MODULE MCContactReveal ----------------------------
(***************************************************************************)
(* Instances of ContactReveal for TLC: prices (they are settings of        *)
(* packages/config) that tell the fields and the bundle apart.             *)
(***************************************************************************)
EXTENDS ContactReveal

Prices == [t \in Types |->
            CASE t = "email" -> 1 [] t = "phone" -> 3 [] t = "full_profile" -> 4]

=============================================================================
