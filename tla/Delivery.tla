------------------------------ MODULE Delivery ------------------------------
(***************************************************************************)
(* What a subscription to a run's events promises: from the cursor of the  *)
(* snapshot on, the subscriber receives every event it may see, in the     *)
(* order of the log, each once, and none of the others.                    *)
(***************************************************************************)
EXTENDS Naturals, Sequences

VARIABLES
    log,       \* the events of the run: "shown" or "hidden" from the subscriber
    start,     \* the position of the snapshot's cursor in the log
    received   \* the positions of the events received

-----------------------------------------------------------------------------

Kinds == {"shown", "hidden"}
Last == IF received = <<>> THEN start ELSE received[Len(received)]
Later == {p \in 1..Len(log) : log[p] = "shown" /\ p > Last}

Init ==
    /\ log \in Seq(Kinds)
    /\ start \in 0..Len(log)
    /\ received = <<>>

\* A transaction appends its events.
Record ==
    /\ log' \in Seq(Kinds)
    /\ Len(log) <= Len(log')
    /\ \A i \in 1..Len(log) : log'[i] = log[i]
    /\ UNCHANGED <<start, received>>

Deliver ==
    /\ \E p \in Later : /\ \A q \in Later : p <= q
                        /\ received' = Append(received, p)
    /\ UNCHANGED <<log, start>>

vars == <<log, start, received>>
Next == Record \/ Deliver

Spec == Init /\ [][Next]_vars
FairSpec == Spec /\ WF_vars(Deliver)
=============================================================================
