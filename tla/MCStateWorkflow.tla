-------------------------- MODULE MCStateWorkflow --------------------------
(* Instances of StateWorkflow for TLC: the values of its set-valued constants. *)
EXTENDS StateWorkflow, TLC

CONSTANTS r1, s1, s2

OneRun == {r1}
OneSlot == {s1}
TwoSlots == {s1, s2}

\* The slots are interchangeable.
SlotSymmetry == Permutations(TwoSlots)

EmailSkills == {"communication_assistant"}
ReportSkills == {"report_assistant"}
BothSkills == {"communication_assistant", "report_assistant"}
=============================================================================
