---------------------------- MODULE MCSimpleLoop ----------------------------
(* Instances of SimpleLoop for TLC: the values of its set-valued constants. *)
EXTENDS SimpleLoop, TLC

CONSTANTS r1, w1, w2

OneRun == {r1}
OneWorker == {w1}
TwoWorkers == {w1, w2}

\* The workers are interchangeable: nothing compares or orders them.
WorkerSymmetry == Permutations(TwoWorkers)

EmailSkills == {"communication_assistant"}
BothSkills == {"communication_assistant", "report_assistant"}
SyncSkills == {"calculator_assistant"}
=============================================================================
