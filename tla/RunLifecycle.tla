---------------------------- MODULE RunLifecycle ----------------------------
(***************************************************************************)
(* What a run promises its user, its administrator and its model,          *)
(* whichever runtime drives it, whoever crashes, and however stale the one *)
(* that writes: it takes its model steps one by one within the budget; of  *)
(* its calls one at most is outstanding, and it waits for that one and     *)
(* nothing else; the message of a call leaves while the run waits for it,  *)
(* approved, and once; the run goes on when the call has its answer, which *)
(* the model is then told, and only then; and a run that has ended stays   *)
(* so, unless reports revive.                                              *)
(***************************************************************************)
EXTENDS Contracts, Naturals

CONSTANTS
    Runs,
    StepBudget,
    ReportsRevive   \* a run may be failed while it waits for its report, and the
                    \* report brings it back

VARIABLES
    status,    \* status[r]: a run's status
    steps,     \* steps[r]: model steps taken
    waitsFor,  \* waitsFor[r]: the call that is outstanding, 0 if none is
    answer,    \* answer[r][c]: what has become of call c, if it is a deferred one
    sent,      \* sent[r][c]: how often its message left
    told       \* told[r][c]: how often the model was told of its outcome

vars == <<status, steps, waitsFor, answer, sent, told>>

-----------------------------------------------------------------------------

\* A call is named by the step that makes it.
Calls == 1..StepBudget
Reports == {"ordered", "made"}

Init ==
    /\ status = [r \in Runs |-> "queued"]
    /\ steps = [r \in Runs |-> 0]
    /\ waitsFor = [r \in Runs |-> 0]
    /\ answer = [r \in Runs |-> [c \in Calls |-> "none"]]
    /\ sent = [r \in Runs |-> [c \in Calls |-> 0]]
    /\ told = [r \in Runs |-> [c \in Calls |-> 0]]

\* A model step, paid for.
Step(r) ==
    /\ status[r] \in {"queued", "running"}
    /\ steps[r] < StepBudget
    /\ status' = [status EXCEPT ![r] = "running"]
    /\ steps' = [steps EXCEPT ![r] = @ + 1]
    /\ UNCHANGED <<waitsFor, answer, sent, told>>

\* The step's call does not answer at once.
Defer(r, waiting, first) ==
    /\ status[r] = "running"
    /\ steps[r] \in Calls
    /\ answer[r][steps[r]] = "none"
    /\ status' = [status EXCEPT ![r] = waiting]
    /\ waitsFor' = [waitsFor EXCEPT ![r] = steps[r]]
    /\ answer' = [answer EXCEPT ![r][steps[r]] = first]
    /\ UNCHANGED <<steps, sent, told>>

AskApproval(r) == Defer(r, "waiting_for_admin", "pending")

\* A run has one report.
OrderReport(r) ==
    /\ \A c \in Calls : answer[r][c] \notin Reports
    /\ Defer(r, "waiting_for_tool", "ordered")

\* The call the run waits for gets on.
Answer(r, old, new) ==
    /\ waitsFor[r] \in Calls
    /\ answer[r][waitsFor[r]] = old
    /\ answer' = [answer EXCEPT ![r][waitsFor[r]] = new]
    /\ UNCHANGED <<status, steps, waitsFor, sent, told>>

Decide(r) ==
    /\ status[r] = "waiting_for_admin"
    /\ \E decision \in {"approved", "rejected", "expired"} : Answer(r, "pending", decision)

MakeReport(r) == Answer(r, "ordered", "made")

Send(r) ==
    /\ status[r] = "waiting_for_admin"
    /\ answer[r][waitsFor[r]] = "approved"
    /\ sent[r][waitsFor[r]] = 0
    /\ sent' = [sent EXCEPT ![r][waitsFor[r]] = 1]
    /\ UNCHANGED <<status, steps, waitsFor, answer, told>>

IsAnswered(r, c) ==
    \/ answer[r][c] = "approved" /\ sent[r][c] = 1
    \/ answer[r][c] = "rejected" /\ sent[r][c] = 0
    \/ answer[r][c] = "made"

\* The model is told, and the run goes on.
Tell(r) ==
    /\ waitsFor[r] \in Calls
    /\ status[r] \in Waiting \/ (ReportsRevive /\ status[r] = "failed"
                                 /\ answer[r][waitsFor[r]] = "made")
    /\ IsAnswered(r, waitsFor[r])
    /\ told[r][waitsFor[r]] = 0
    /\ told' = [told EXCEPT ![r][waitsFor[r]] = 1]
    /\ status' = [status EXCEPT ![r] = "running"]
    /\ waitsFor' = [waitsFor EXCEPT ![r] = 0]
    /\ UNCHANGED <<steps, answer, sent>>

\* A run that has taken no step yet can only fail.
End(r) ==
    /\ \E verdict \in Terminal :
        /\ status[r] = "running" \/ (status[r] = "queued" /\ verdict = "failed")
        /\ status' = [status EXCEPT ![r] = verdict]
    /\ UNCHANGED <<steps, waitsFor, answer, sent, told>>

\* The run is given up while its report is under way.
GiveUp(r) ==
    /\ ReportsRevive
    /\ status[r] = "waiting_for_tool"
    /\ status' = [status EXCEPT ![r] = "failed"]
    /\ UNCHANGED <<steps, waitsFor, answer, sent, told>>

Next ==
    \E r \in Runs :
        \/ Step(r) \/ AskApproval(r) \/ OrderReport(r)
        \/ Decide(r) \/ MakeReport(r) \/ Send(r) \/ Tell(r)
        \/ End(r) \/ GiveUp(r)

Spec == Init /\ [][Next]_vars
=============================================================================
