--------------------------- MODULE MCAdminGuidance ---------------------------
(* Instances of AdminGuidance for TLC: the values of its set-valued constants. *)
EXTENDS AdminGuidance

CONSTANTS r1, e1, e2

OneRun == {r1}
TwoExecutors == {e1, e2}
=============================================================================
