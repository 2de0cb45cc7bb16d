---------------------------- MODULE MCBulkImport ----------------------------
(* Instances of BulkImport for TLC: which rows of the file repeat a person. *)
EXTENDS BulkImport

\* Every row names a person of its own.
NoneRepeats == [b \in 1 .. MaxBands |-> b]

\* The last row names the person of the first.
LastRepeatsFirst == [b \in 1 .. MaxBands |-> IF b = MaxBands THEN 1 ELSE b]

=============================================================================
