--------------------------- MODULE MCOutreachSend ---------------------------
(* OutreachSend on a small instance: sequences of two steps.                  *)
EXTENDS OutreachSend

SequenceSteps == [l \in Logs |-> 2]

=============================================================================
