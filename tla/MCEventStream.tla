---------------------------- MODULE MCEventStream ----------------------------
(* Instances of EventStream for TLC: the values of its set-valued constants. *)
EXTENDS EventStream, TLC

CONSTANTS w1, w2

TwoWriters == {w1, w2}
=============================================================================
