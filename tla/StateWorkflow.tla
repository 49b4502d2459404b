---------------------------- MODULE StateWorkflow ----------------------------
(***************************************************************************)
(* The state-workflow runtime: a Temporal workflow per run that calls      *)
(* activities, and a reconciliation loop that starts workflows and signals *)
(* them from intents in the database.  There is no lease: an activity      *)
(* attempt may be timed out and retried while it still runs, and only the  *)
(* run's version, checked by every transaction, keeps the attempts apart.  *)
(*                                                                         *)
(* The workflow keeps a status and a wait of its own, beside the ones in   *)
(* the run's row, and correlates a signal with its own.  One action is one *)
(* database transaction, one external call, or one workflow activation;    *)
(* the worker is one process, as it is composed: its reconciliation loop   *)
(* and its activity slots die together.                                    *)
(***************************************************************************)
EXTENDS Contracts, Naturals, Sequences

CONSTANTS
    Runs,             \* runs admitted with the state_workflow runtime
    Slots,            \* activity slots of the worker process
    None,             \* no run, no skill
    Skills,           \* the skills the model may load, of SkillNames
    StepBudget,       \* LOOP_STEP_BUDGET
    ActivityAttempts, \* maximumAttempts of the activity options
    MaxFaults,        \* bound: faults in a behaviour
    ApprovalsExpire   \* whether the approval TTL can pass

ASSUME ConstantsAssumption ==
    /\ Skills \subseteq SkillNames
    /\ None \notin Runs \cup SkillNames
    /\ StepBudget \in Nat \ {0}
    /\ ActivityAttempts \in Nat \ {0}
    /\ MaxFaults \in Nat
    /\ ApprovalsExpire \in BOOLEAN

VARIABLES
    run,         \* row of runs: status, version, budget, skill, continuation
    toolCalls,   \* toolCalls[r][c]: status of the call the model made at step c
    approvals,   \* approvals[r][c]: status of the approval request of call c
    overdue,     \* pairs <<r, c>> whose approval's expiresAt has passed
    sends,       \* sends[r][c]: row of simulated_sends
    emails,      \* emails[r][c]: times executeApprovedSend ran for the call
    results,     \* results[r][c]: tool_result messages of a deferred call
    job,         \* the run's report job, and whether the queue was given it
    starts,      \* starts[r]: status of the state_workflow.start intent
    outbox,      \* pending state_workflow.signal intents, oldest first
    workflow,    \* workflow[r]: the workflow execution and its current activity
    reconciler,  \* where the reconciliation loop is
    session,     \* session[s]: the activity attempt that runs in slot s
    faults       \* faults so far (bounded by MaxFaults)

ledger == <<toolCalls, approvals, sends, job>>
dbVars == <<run, ledger, results, starts, outbox>>
vars == <<dbVars, overdue, emails, workflow, reconciler, session, faults>>

-----------------------------------------------------------------------------
(* Values.                                                                 *)

\* A call is named by the step that made it.
Calls == 1..StepBudget

NoWait == [kind |-> "none", call |-> 0]
Waits == {NoWait} \cup [kind: {"report", "approval"}, call: Calls]

\* "job_completion" and "admin_decision" signals, by the wait they answer; the
\* outcome of a job is always "completed".
NoSignal == [kind |-> "none", call |-> 0, decision |-> "none"]
Signals ==
    {NoSignal}
    \cup [kind: {"report"}, call: Calls, decision: {"completed"}]
    \cup [kind: {"approval"}, call: Calls, decision: {"approved", "rejected"}]

\* terminalError of the stored continuation is "fatal".
RunRows ==
    [status: Statuses, version: Nat, consumedSteps: 0..StepBudget,
     skill: SkillNames \cup {None}, wait: Waits, fatal: BOOLEAN]

JobRows ==
    [status: {"none", "queued", "running", "completed"}, call: 0..StepBudget,
     delivered: BOOLEAN]

NoJob == [status |-> "none", call |-> 0, delivered |-> FALSE]

\* phase is where stateWorkflow awaits; task is its activity on the server.
Workflows ==
    [phase: {"absent", "start", "advance", "wait", "apply", "returned", "failed"},
     status: Statuses, wait: Waits, accepted: Signals, input: Signals,
     task: {"none", "scheduled", "started"}, attemptsLeft: 0..ActivityAttempts]

Absent == [phase |-> "absent", status |-> "queued", wait |-> NoWait,
           accepted |-> NoSignal, input |-> NoSignal, task |-> "none",
           attemptsLeft |-> 0]

Results == {"none", "reconciled", "wait", "complete", "fail", "applied", "ignored"}

Sessions ==
    [pc: {"idle", "start", "advance", "prompt", "model", "enqueue", "mark", "finish",
          "apply", "reserve", "send", "sent", "settle", "return"},
     run: Runs \cup {None}, awaited: BOOLEAN, signal: Signals, version: Nat,
     wait: Waits, fatal: BOOLEAN, result: Results]

\* awaited: the server still takes this attempt's answer.
Idle == [pc |-> "idle", run |-> None, awaited |-> FALSE, signal |-> NoSignal,
         version |-> 0, wait |-> NoWait, fatal |-> FALSE, result |-> "none"]

TypeOK ==
    /\ run \in [Runs -> RunRows]
    /\ toolCalls \in [Runs -> [Calls -> CallStatuses]]
    /\ approvals \in [Runs -> [Calls -> ApprovalStatuses]]
    /\ overdue \subseteq Runs \X Calls
    /\ sends \in [Runs -> [Calls -> {"none", "reserved", "sent"}]]
    /\ emails \in [Runs -> [Calls -> Nat]]
    /\ results \in [Runs -> [Calls -> Nat]]
    /\ job \in [Runs -> JobRows]
    /\ starts \in [Runs -> {"pending", "dispatched"}]
    /\ outbox \in Seq([run: Runs, signal: Signals \ {NoSignal}])
    /\ workflow \in [Runs -> Workflows]
    /\ reconciler \in {"idle", "mark"}
    /\ session \in [Slots -> Sessions]
    /\ faults \in 0..MaxFaults
    /\ \A s \in Slots : session[s].pc # "idle" => session[s].run \in Runs

Init ==
    /\ run = [r \in Runs |->
                [status |-> "queued", version |-> 1, consumedSteps |-> 0,
                 skill |-> None, wait |-> NoWait, fatal |-> FALSE]]
    /\ toolCalls = [r \in Runs |-> [c \in Calls |-> "none"]]
    /\ approvals = [r \in Runs |-> [c \in Calls |-> "none"]]
    /\ overdue = {}
    /\ sends = [r \in Runs |-> [c \in Calls |-> "none"]]
    /\ emails = [r \in Runs |-> [c \in Calls |-> 0]]
    /\ results = [r \in Runs |-> [c \in Calls |-> 0]]
    /\ job = [r \in Runs |-> NoJob]
    /\ starts = [r \in Runs |-> "pending"]
    /\ outbox = <<>>
    /\ workflow = [r \in Runs |-> Absent]
    /\ reconciler = "idle"
    /\ session = [s \in Slots |-> Idle]
    /\ faults = 0

-----------------------------------------------------------------------------
(* Helpers.                                                                *)

At(s, pc) == session[s].pc = pc
Becomes(s, next) == session' = [session EXCEPT ![s] = next]
Go(s, pc) == Becomes(s, [session[s] EXCEPT !.pc = pc])
Answer(s, result) == Becomes(s, [session[s] EXCEPT !.pc = "return", !.result = result])
Fault == faults < MaxFaults /\ faults' = faults + 1

Open(r) == workflow[r].phase \notin {"absent", "returned", "failed"}

\* lockStateWorkflowRun: the version is the only fence.
Current(s) == run[session[s].run].version = session[s].version

\* Mutant: the version is not checked.
PersistUnfenced(s, row) ==
    run' = [run EXCEPT ![session[s].run] = [row EXCEPT !.version = row.version + 1]]

\* A transaction of the attempt; the continuation carries its fatal error.
Persist(s, row) ==
    /\ Current(s)
    /\ run' = [run EXCEPT ![session[s].run] =
                [row EXCEPT !.version = row.version + 1]]

Call(wf, phase) ==
    [wf EXCEPT !.phase = phase, !.task = "scheduled", !.attemptsLeft = ActivityAttempts]

\* The condition of the wait loop: a signal that was accepted is taken at once.
Resume(wf) ==
    IF wf.phase = "wait" /\ wf.accepted # NoSignal
    THEN [Call(wf, "apply") EXCEPT !.input = wf.accepted, !.accepted = NoSignal]
    ELSE wf

\* The attempt is over without an answer: the server schedules the next one, or
\* the activity fails and the workflow with it.
Retried(wf) ==
    IF wf.attemptsLeft > 1
    THEN [wf EXCEPT !.task = "scheduled", !.attemptsLeft = wf.attemptsLeft - 1]
    ELSE [wf EXCEPT !.phase = "failed", !.task = "none", !.attemptsLeft = 0]

WaitStatus(wait) == IF wait.kind = "report" THEN "waiting_for_tool" ELSE "waiting_for_admin"

-----------------------------------------------------------------------------
(* The workflow.                                                           *)

\* receiveSignal and acceptCorrelatedSignal: a signal that is not the answer to
\* the workflow's own current wait is dropped.
AcceptCorrelatedSignal(wf, signal) ==
    /\ wf.accepted = NoSignal
    /\ wf.wait = [kind |-> signal.kind, call |-> signal.call]

\* What stateWorkflow does with the answer of its activity.
Advanced(wf, s) ==
    LET running == [Call(wf, "advance") EXCEPT !.status = "running", !.wait = NoWait,
                                               !.input = NoSignal]
        returned == [wf EXCEPT !.phase = "returned", !.task = "none", !.attemptsLeft = 0]
    IN CASE session[s].result \in {"reconciled", "applied"} -> running
         [] session[s].result = "wait" ->
                [wf EXCEPT !.phase = "wait", !.task = "none", !.attemptsLeft = 0,
                           !.status = WaitStatus(session[s].wait), !.wait = session[s].wait]
         [] session[s].result = "ignored" ->
                [wf EXCEPT !.phase = "wait", !.task = "none", !.attemptsLeft = 0,
                           !.input = NoSignal]
         [] session[s].result = "complete" -> [returned EXCEPT !.status = "completed"]
         [] OTHER -> [returned EXCEPT !.status = "failed"]

\* The attempt answers; an answer the server no longer awaits is dropped.
CompleteActivity(s) ==
    /\ At(s, "return")
    /\ workflow' = IF session[s].awaited
                   THEN [workflow EXCEPT ![session[s].run] = Resume(Advanced(@, s))]
                   ELSE workflow
    /\ Becomes(s, Idle)
    /\ UNCHANGED <<dbVars, overdue, emails, reconciler, faults>>

\* A slot takes a scheduled attempt.
StartAttempt(s) ==
    /\ At(s, "idle")
    /\ \E r \in Runs :
        /\ workflow[r].task = "scheduled"
        /\ workflow' = [workflow EXCEPT ![r].task = "started"]
        /\ Becomes(s, [Idle EXCEPT !.pc = workflow[r].phase, !.run = r, !.awaited = TRUE,
                                    !.signal = workflow[r].input])
    /\ UNCHANGED <<dbVars, overdue, emails, reconciler, faults>>

\* The attempt throws.
FailAttempt(s) ==
    /\ workflow' = IF session[s].awaited
                   THEN [workflow EXCEPT ![session[s].run] = Retried(@)]
                   ELSE workflow
    /\ Becomes(s, Idle)

\* startToCloseTimeout passes; the attempt goes on, but is not awaited.
AttemptTimesOut(s) ==
    /\ session[s].awaited
    /\ Fault
    /\ workflow' = [workflow EXCEPT ![session[s].run] = Retried(@)]
    /\ Becomes(s, [session[s] EXCEPT !.awaited = FALSE])
    /\ UNCHANGED <<dbVars, overdue, emails, reconciler>>

\* The timeout of an attempt that died with its process.
AttemptLost(r) ==
    /\ workflow[r].task = "started"
    /\ \A s \in Slots : ~(session[s].awaited /\ session[s].run = r)
    /\ workflow' = [workflow EXCEPT ![r] = Retried(@)]
    /\ UNCHANGED <<dbVars, overdue, emails, reconciler, session, faults>>

-----------------------------------------------------------------------------
(* The activities reconcileStart and advanceRun.                           *)

ReconcileStart(s) ==
    /\ At(s, "start")
    /\ starts' = [starts EXCEPT ![session[s].run] = "dispatched"]
    /\ Answer(s, "reconciled")
    /\ UNCHANGED <<run, ledger, results, outbox, overdue, emails, workflow,
                   reconciler, faults>>

\* runStateWorkflowActivity's read: a run that has ended or waits is answered
\* with what it already is (canonicalWaitDirective).
ReadRun(s) ==
    /\ At(s, "advance")
    /\ LET row == run[session[s].run]
           result == CASE row.status = "completed" -> "complete"
                       [] row.status = "failed" -> "fail"
                       [] row.wait # NoWait /\ row.status \notin Terminal \cup {"running"} -> "wait"
                       [] OTHER -> "none"
       IN Becomes(s, [session[s] EXCEPT
                        !.version = row.version, !.wait = row.wait, !.fatal = row.fatal,
                        !.pc = IF result = "none" THEN "prompt" ELSE "return",
                        !.result = result])
    /\ UNCHANGED <<dbVars, overdue, emails, workflow, reconciler, faults>>

\* Mutant: the budget is not looked at.
ConsumeWithoutBudget(s) ==
    /\ At(s, "prompt")
    /\ LET row == run[session[s].run] IN
       Persist(s, [row EXCEPT !.status = "running", !.fatal = session[s].fatal,
                              !.consumedSteps = row.consumedSteps + 1])
    /\ Becomes(s, [session[s] EXCEPT !.pc = "model", !.version = session[s].version + 1])
    /\ UNCHANGED <<ledger, results, starts, outbox, overdue, emails, workflow,
                   reconciler, faults>>

\* consumeStateWorkflowStep
ConsumeStateWorkflowStep(s) ==
    /\ At(s, "prompt")
    /\ LET row == run[session[s].run] IN
       /\ row.consumedSteps < StepBudget
       /\ Persist(s, [row EXCEPT !.status = "running", !.fatal = session[s].fatal,
                                 !.consumedSteps = row.consumedSteps + 1])
    /\ Becomes(s, [session[s] EXCEPT !.pc = "model", !.version = session[s].version + 1])
    /\ UNCHANGED <<ledger, results, starts, outbox, overdue, emails, workflow,
                   reconciler, faults>>

\* The attempt goes on to completeStateWorkflowRun with an error, which is part of
\* the continuation from then on.
FailRun(s, version) ==
    Becomes(s, [session[s] EXCEPT !.pc = "finish", !.version = version, !.fatal = TRUE])

\* LoopStepLimitExceededError out of the same transaction.
BudgetExhausted(s) ==
    /\ At(s, "prompt")
    /\ Current(s)
    /\ run[session[s].run].consumedSteps >= StepBudget
    /\ FailRun(s, session[s].version)
    /\ UNCHANGED <<dbVars, overdue, emails, workflow, reconciler, faults>>

\* A call that beforeGenerate makes fails, the guidance's or the step's transaction:
\* the loop catches the error and fails the run, which may be queued still.
FailBeforeStep(s) ==
    /\ At(s, "prompt")
    /\ Current(s)
    /\ Fault
    /\ FailRun(s, session[s].version)
    /\ UNCHANGED <<dbVars, overdue, emails, workflow, reconciler>>

\* After a tool result the loop prompts again, unless the last step was taken:
\* then the run fails for want of an answer.
AfterTool(s, version, fatal) ==
    IF run[session[s].run].consumedSteps < StepBudget
    THEN Becomes(s, [session[s] EXCEPT !.pc = "prompt", !.version = version, !.fatal = fatal])
    ELSE FailRun(s, version)

\* The tools the model is offered (prepareStep).
Offered(s, tool) ==
    LET skill == run[session[s].run].skill IN
    skill # None /\ tool \in AllowedTools[skill]

PersistStateWorkflowSkill(s) ==
    /\ At(s, "model")
    /\ run[session[s].run].skill = None
    /\ \E skill \in Skills :
        Persist(s, [run[session[s].run] EXCEPT !.skill = skill, !.fatal = session[s].fatal])
    /\ AfterTool(s, session[s].version + 1, session[s].fatal)
    /\ UNCHANGED <<ledger, results, starts, outbox, overdue, emails, workflow,
                   reconciler, faults>>

\* An unknown skill is fatal, and the loop goes on.
SkillRefused(s) ==
    /\ At(s, "model")
    /\ Current(s)
    /\ run[session[s].run].skill = None
    /\ AfterTool(s, session[s].version, TRUE)
    /\ UNCHANGED <<dbVars, overdue, emails, workflow, reconciler, faults>>

\* persistStateWorkflowToolOutcome: the call of the step just taken.
RecordCall(s, outcome, fatal) ==
    LET r == session[s].run  c == run[r].consumedSteps IN
    /\ toolCalls[r][c] = "none"
    /\ Persist(s, [run[r] EXCEPT !.fatal = fatal])
    /\ toolCalls' = [toolCalls EXCEPT ![r][c] = outcome]

\* A tool the worker executed.
PersistToolOutcome(s, outcome) ==
    /\ At(s, "model")
    /\ Offered(s, "sync")
    /\ RecordCall(s, outcome, session[s].fatal)
    /\ AfterTool(s, session[s].version + 1, session[s].fatal)
    /\ UNCHANGED <<approvals, sends, job, results, starts, outbox, overdue, emails,
                   workflow, reconciler, faults>>

\* The provider's call is invalid or not allowed: the failure is recorded as a
\* call of its own before the run fails.
PersistMappedToolFailure(s, outcome) ==
    /\ At(s, "model")
    /\ RecordCall(s, outcome, TRUE)
    /\ FailRun(s, session[s].version + 1)
    /\ UNCHANGED <<approvals, sends, job, results, starts, outbox, overdue, emails,
                   workflow, reconciler, faults>>

\* The model answers, or the provider fails and no tool is to blame.
EndGeneration(s) ==
    /\ At(s, "model")
    /\ Current(s)
    /\ \/ Go(s, "finish")
       \/ FailRun(s, session[s].version)
    /\ UNCHANGED <<dbVars, overdue, emails, workflow, reconciler, faults>>

\* persistStateWorkflowReportWait
PersistReportWait(s) ==
    /\ At(s, "model")
    /\ Offered(s, "report")
    /\ LET r == session[s].run
           c == run[r].consumedSteps
           wait == [kind |-> "report", call |-> c] IN
       /\ job[r] = NoJob
       /\ toolCalls[r][c] = "none"
       /\ Persist(s, [run[r] EXCEPT !.status = "waiting_for_tool", !.wait = wait,
                                    !.fatal = session[s].fatal])
       /\ toolCalls' = [toolCalls EXCEPT ![r][c] = "waiting_job"]
       /\ job' = [job EXCEPT ![r] = [NoJob EXCEPT !.status = "queued", !.call = c]]
       /\ Becomes(s, [session[s] EXCEPT !.pc = "enqueue", !.wait = wait,
                                        !.version = session[s].version + 1])
    /\ UNCHANGED <<approvals, sends, results, starts, outbox, overdue, emails,
                   workflow, reconciler, faults>>

\* A second report of the run meets the unique job id, and the run fails with
\* the wait the handler had already put in its continuation.
ReportRefused(s) ==
    /\ At(s, "model")
    /\ Current(s)
    /\ Offered(s, "report")
    /\ job[session[s].run] # NoJob
    /\ Becomes(s, [session[s] EXCEPT
                    !.pc = "finish", !.fatal = TRUE,
                    !.wait = [kind |-> "report", call |-> run[session[s].run].consumedSteps]])
    /\ UNCHANGED <<dbVars, overdue, emails, workflow, reconciler, faults>>

\* reportQueue.enqueue, after the commit; then markReportDispatched.
EnqueueReport(s) ==
    /\ At(s, "enqueue")
    /\ job' = [job EXCEPT ![session[s].run] =
                [job[session[s].run] EXCEPT !.delivered = TRUE]]
    /\ Go(s, "mark")
    /\ UNCHANGED <<run, toolCalls, approvals, sends, results, starts, outbox, overdue,
                   emails, workflow, reconciler, faults>>

MarkReportDispatched(s) ==
    /\ At(s, "mark")
    /\ Answer(s, "wait")
    /\ UNCHANGED <<dbVars, overdue, emails, workflow, reconciler, faults>>

\* Either of them throws inside the agent loop's try: the run, which already
\* waits for the report, is failed.
HandOverFails(s) ==
    /\ session[s].pc \in {"enqueue", "mark"}
    /\ Fault
    /\ FailRun(s, session[s].version)
    /\ UNCHANGED <<dbVars, overdue, emails, workflow, reconciler>>

\* persistStateWorkflowApprovalWait
PersistApprovalWait(s) ==
    /\ At(s, "model")
    /\ Offered(s, "email")
    /\ LET r == session[s].run
           c == run[r].consumedSteps
           wait == [kind |-> "approval", call |-> c] IN
       /\ toolCalls[r][c] = "none"
       /\ Persist(s, [run[r] EXCEPT !.status = "waiting_for_admin", !.wait = wait,
                                    !.fatal = session[s].fatal])
       /\ toolCalls' = [toolCalls EXCEPT ![r][c] = "approval_required"]
       /\ approvals' = [approvals EXCEPT ![r][c] = "pending"]
       /\ Becomes(s, [session[s] EXCEPT !.pc = "return", !.result = "wait", !.wait = wait,
                                        !.version = session[s].version + 1])
    /\ UNCHANGED <<sends, job, results, starts, outbox, overdue, emails, workflow,
                   reconciler, faults>>

\* Mutant: the workflow is told that the run completed even if it failed.
CompleteSaysComplete(s) ==
    /\ At(s, "finish")
    /\ Persist(s, [run[session[s].run] EXCEPT
                    !.status = IF session[s].fatal THEN "failed" ELSE "completed",
                    !.wait = session[s].wait, !.fatal = session[s].fatal])
    /\ Answer(s, "complete")
    /\ UNCHANGED <<ledger, results, starts, outbox, overdue, emails, workflow,
                   reconciler, faults>>

\* completeStateWorkflowRun: the run's status is not looked at.
CompleteStateWorkflowRun(s) ==
    /\ At(s, "finish")
    /\ LET verdict == IF session[s].fatal THEN "failed" ELSE "completed" IN
       /\ Persist(s, [run[session[s].run] EXCEPT
                        !.status = verdict, !.wait = session[s].wait,
                        !.fatal = session[s].fatal])
       /\ Becomes(s, [session[s] EXCEPT
                        !.pc = "return",
                        !.result = IF verdict = "completed" THEN "complete" ELSE "fail"])
    /\ UNCHANGED <<ledger, results, starts, outbox, overdue, emails, workflow,
                   reconciler, faults>>

\* A transaction of an attempt whose version has been passed throws, and so does
\* the completion the attempt then tries.
AbandonStale(s) ==
    /\ session[s].pc \in {"prompt", "model", "finish", "settle"}
    /\ ~Current(s)
    /\ FailAttempt(s)
    /\ UNCHANGED <<dbVars, overdue, emails, reconciler, faults>>

-----------------------------------------------------------------------------
(* The activity applySignal.                                               *)

\* Mutant: of the decisions only an approval answers.
OnlyApprovalAnswers(r, signal) ==
    /\ run[r].wait = [kind |-> signal.kind, call |-> signal.call]
    /\ \/ signal.kind = "report" /\ job[r].status = "completed"
       \/ signal.kind = "approval" /\ approvals[r][signal.call] = "approved"

\* The signal answers the wait the run is in.
Answers(r, signal) ==
    /\ run[r].wait = [kind |-> signal.kind, call |-> signal.call]
    /\ \/ signal.kind = "report" /\ job[r].status = "completed"
       \/ signal.kind = "approval" /\ approvals[r][signal.call] = signal.decision

\* Mutants: a signal that was applied before is ignored; a reserved send is taken
\* for one that was made.
AlwaysIgnored(row) == "ignored"

SendIfNotReserved(r, signal) ==
    IF signal.decision = "approved" /\ sends[r][signal.call] = "none"
    THEN "reserve" ELSE "settle"

\* A signal that does not answer anything was applied by an earlier attempt, if
\* the run is running.
AppliedBefore(row) ==
    IF row.wait = NoWait /\ row.status = "running" THEN "applied" ELSE "ignored"

Execution(r, signal) == IF signal.decision = "approved" THEN "reserve" ELSE "settle"

\* The reads.  What they are compared with, a decision or a completed job, never
\* changes once it is there, so that they are one step.
ReadWait(s) ==
    /\ At(s, "apply")
    /\ LET r == session[s].run
           read == [session[s] EXCEPT !.version = run[r].version, !.wait = run[r].wait,
                                      !.fatal = run[r].fatal]
       IN Becomes(s, IF Answers(r, session[s].signal)
                     THEN [read EXCEPT !.pc = Execution(r, session[s].signal)]
                     ELSE [read EXCEPT !.pc = "return", !.result = AppliedBefore(run[r])])
    /\ UNCHANGED <<dbVars, overdue, emails, workflow, reconciler, faults>>

\* Mutant: the reservation may be made again.
MayReserveAgain(r, c) ==
    /\ approvals[r][c] = "approved"
    /\ <<r, c>> \notin overdue
    /\ run[r].status \notin Terminal

\* reserveSimulatedSend
MayReserve(r, c) ==
    /\ approvals[r][c] = "approved"
    /\ <<r, c>> \notin overdue
    /\ run[r].status \notin Terminal
    /\ sends[r][c] = "none"

ReserveSimulatedSend(s) ==
    /\ At(s, "reserve")
    /\ LET r == session[s].run
           c == session[s].wait.call IN
       /\ MayReserve(r, c)
       /\ sends' = [sends EXCEPT ![r][c] = "reserved"]
    /\ Go(s, "send")
    /\ UNCHANGED <<run, toolCalls, approvals, job, results, starts, outbox, overdue,
                   emails, workflow, reconciler, faults>>

\* InvalidApprovalError or DuplicateError.
ReserveRefused(s) ==
    /\ At(s, "reserve")
    /\ ~MayReserve(session[s].run, session[s].wait.call)
    /\ FailAttempt(s)
    /\ UNCHANGED <<dbVars, overdue, emails, reconciler, faults>>

ExecuteApprovedSend(s) ==
    /\ At(s, "send")
    /\ emails' = [emails EXCEPT ![session[s].run][session[s].wait.call] = @ + 1]
    /\ Go(s, "sent")
    /\ UNCHANGED <<dbVars, overdue, workflow, reconciler, faults>>

CompleteSimulatedSend(s) ==
    /\ At(s, "sent")
    /\ sends' = [sends EXCEPT ![session[s].run][session[s].wait.call] = "sent"]
    /\ Go(s, "settle")
    /\ UNCHANGED <<run, toolCalls, approvals, job, results, starts, outbox, overdue,
                   emails, workflow, reconciler, faults>>

\* Mutants: the continuation keeps its wait; a rejected call comes back completed.
ResolveKeepsWait(s) ==
    /\ At(s, "settle")
    /\ LET r == session[s].run
           c == session[s].wait.call IN
       /\ Persist(s, [run[r] EXCEPT !.status = "running", !.fatal = session[s].fatal])
       /\ toolCalls' = [toolCalls EXCEPT ![r][c] =
                            IF session[s].signal.decision = "rejected" THEN "rejected"
                            ELSE "completed"]
       /\ results' = [results EXCEPT ![r][c] = @ + 1]
    /\ Answer(s, "applied")
    /\ UNCHANGED <<approvals, sends, job, starts, outbox, overdue, emails, workflow,
                   reconciler, faults>>

ResolveCompletes(s) ==
    /\ At(s, "settle")
    /\ LET r == session[s].run
           c == session[s].wait.call IN
       /\ Persist(s, [run[r] EXCEPT !.status = "running", !.wait = NoWait,
                                    !.fatal = session[s].fatal])
       /\ toolCalls' = [toolCalls EXCEPT ![r][c] = "completed"]
       /\ results' = [results EXCEPT ![r][c] = @ + 1]
    /\ Answer(s, "applied")
    /\ UNCHANGED <<approvals, sends, job, starts, outbox, overdue, emails, workflow,
                   reconciler, faults>>

\* resolveStateWorkflowWait
ResolveStateWorkflowWait(s) ==
    /\ At(s, "settle")
    /\ LET r == session[s].run
           c == session[s].wait.call IN
       /\ Persist(s, [run[r] EXCEPT !.status = "running", !.wait = NoWait,
                                    !.fatal = session[s].fatal])
       /\ toolCalls' = [toolCalls EXCEPT ![r][c] =
                            IF session[s].signal.decision = "rejected" THEN "rejected"
                            ELSE "completed"]
       /\ results' = [results EXCEPT ![r][c] = @ + 1]
    /\ Answer(s, "applied")
    /\ UNCHANGED <<approvals, sends, job, starts, outbox, overdue, emails, workflow,
                   reconciler, faults>>

-----------------------------------------------------------------------------
(* The reconciliation loop.                                                *)

\* reconcileWorkflowStarts.  An identity that was used is an existing workflow.
StartWorkflow(r) ==
    /\ starts[r] = "pending"
    /\ workflow[r].phase = "absent"
    /\ workflow' = [workflow EXCEPT ![r] = Call(@, "start")]
    /\ UNCHANGED <<dbVars, overdue, emails, reconciler, session, faults>>

\* Mutant: a signal is delivered only to a workflow that takes it.
SignalWhenAwaited ==
    /\ reconciler = "idle"
    /\ outbox # <<>>
    /\ LET r == Head(outbox).run  signal == Head(outbox).signal IN
       /\ Open(r)
       /\ AcceptCorrelatedSignal(workflow[r], signal)
       /\ workflow' = [workflow EXCEPT ![r] = Resume([@ EXCEPT !.accepted = signal])]
    /\ reconciler' = "mark"
    /\ UNCHANGED <<dbVars, overdue, emails, session, faults>>

\* reconcileStateWorkflowSignals, the oldest intent first: the signal is
\* delivered, and then the intent is marked.
SignalWorkflow ==
    /\ reconciler = "idle"
    /\ outbox # <<>>
    /\ LET r == Head(outbox).run  signal == Head(outbox).signal IN
       /\ Open(r)
       /\ workflow' = IF AcceptCorrelatedSignal(workflow[r], signal)
                      THEN [workflow EXCEPT ![r] = Resume([@ EXCEPT !.accepted = signal])]
                      ELSE workflow
    /\ reconciler' = "mark"
    /\ UNCHANGED <<dbVars, overdue, emails, session, faults>>

MarkSignalDispatched ==
    /\ reconciler = "mark"
    /\ outbox' = Tail(outbox)
    /\ reconciler' = "idle"
    /\ UNCHANGED <<run, ledger, results, starts, overdue, emails, workflow, session, faults>>

ProcessDies ==
    /\ session' = [s \in Slots |-> Idle]
    /\ reconciler' = "idle"
    /\ UNCHANGED <<dbVars, overdue, emails, workflow>>

\* A workflow that is closed refuses the signal: the error leaves the loop, and
\* the process with it.
SignalRefused ==
    /\ reconciler = "idle"
    /\ outbox # <<>>
    /\ ~Open(Head(outbox).run)
    /\ ProcessDies
    /\ UNCHANGED faults

Crash ==
    /\ reconciler # "idle" \/ \E s \in Slots : ~At(s, "idle")
    /\ Fault
    /\ ProcessDies

-----------------------------------------------------------------------------
(* The administrator, the report worker, and time.                         *)

\* decideApproval.  The decision and the intent that signals it commit together.
DecideApproval(r, c, decision) ==
    /\ approvals[r][c] = "pending"
    /\ <<r, c>> \notin overdue
    /\ run[r].status \notin Terminal
    /\ toolCalls[r][c] = "approval_required"
    /\ approvals' = [approvals EXCEPT ![r][c] = decision]
    /\ toolCalls' = [toolCalls EXCEPT ![r][c] =
                        IF decision = "approved" THEN "running" ELSE "rejected"]
    /\ outbox' = IF run[r].status = "waiting_for_admin"
                 THEN Append(outbox, [run |-> r, signal |->
                        [kind |-> "approval", call |-> c, decision |-> decision]])
                 ELSE outbox
    /\ UNCHANGED <<run, sends, job, results, starts, overdue, emails, workflow,
                   reconciler, session, faults>>

\* A decision that comes too late only records that it did.
ExpireOnDecide(r, c) ==
    /\ approvals[r][c] = "pending"
    /\ <<r, c>> \in overdue
    /\ approvals' = [approvals EXCEPT ![r][c] = "expired"]
    /\ UNCHANGED <<run, toolCalls, sends, job, results, starts, outbox, overdue,
                   emails, workflow, reconciler, session, faults>>

ApprovalDeadline(r, c) ==
    /\ ApprovalsExpire
    /\ approvals[r][c] \in {"pending", "approved"}
    /\ overdue' = overdue \cup {<<r, c>>}
    /\ UNCHANGED <<dbVars, emails, workflow, reconciler, session, faults>>

\* recordReportProgress.  The delivery and its repeats are SimpleLoop's.
RecordReportProgress(r) ==
    /\ job[r].delivered
    /\ job[r].status = "queued"
    /\ job' = [job EXCEPT ![r] = [job[r] EXCEPT !.status = "running"]]
    /\ UNCHANGED <<run, toolCalls, approvals, sends, results, starts, outbox, overdue,
                   emails, workflow, reconciler, session, faults>>

\* completeReportJob
CompleteReportJob(r) ==
    LET c == job[r].call IN
    /\ job[r].status = "running"
    /\ job' = [job EXCEPT ![r] = [job[r] EXCEPT !.status = "completed"]]
    /\ toolCalls' = [toolCalls EXCEPT ![r][c] = IF @ = "waiting_job" THEN "completed" ELSE @]
    /\ outbox' = IF run[r].status = "waiting_for_tool"
                 THEN Append(outbox, [run |-> r, signal |->
                        [kind |-> "report", call |-> c, decision |-> "completed"]])
                 ELSE outbox
    /\ UNCHANGED <<run, approvals, sends, results, starts, overdue, emails, workflow,
                   reconciler, session, faults>>

-----------------------------------------------------------------------------

AgentLoop(s) ==
    \/ ReadRun(s) \/ ConsumeStateWorkflowStep(s) \/ BudgetExhausted(s)
    \/ PersistStateWorkflowSkill(s) \/ SkillRefused(s)
    \/ \E outcome \in {"completed", "failed"} : PersistToolOutcome(s, outcome)
    \/ \E outcome \in {"failed", "rejected"} : PersistMappedToolFailure(s, outcome)
    \/ EndGeneration(s) \/ PersistReportWait(s) \/ ReportRefused(s)
    \/ EnqueueReport(s) \/ MarkReportDispatched(s) \/ PersistApprovalWait(s)
    \/ CompleteStateWorkflowRun(s) \/ AbandonStale(s)

ApplySignal(s) ==
    \/ ReadWait(s) \/ ReserveSimulatedSend(s) \/ ReserveRefused(s)
    \/ ExecuteApprovedSend(s) \/ CompleteSimulatedSend(s) \/ ResolveStateWorkflowWait(s)

SlotStep(s) ==
    StartAttempt(s) \/ ReconcileStart(s) \/ AgentLoop(s) \/ ApplySignal(s) \/ CompleteActivity(s)

Reconcile ==
    (\E r \in Runs : StartWorkflow(r)) \/ SignalWorkflow \/ MarkSignalDispatched \/ SignalRefused

ReportStep(r) == RecordReportProgress(r) \/ CompleteReportJob(r)

AdminStep(r) ==
    \E c \in Calls :
        \/ \E decision \in {"approved", "rejected"} : DecideApproval(r, c, decision)
        \/ ExpireOnDecide(r, c)

Next ==
    \/ \E s \in Slots :
        SlotStep(s) \/ AttemptTimesOut(s) \/ FailBeforeStep(s) \/ HandOverFails(s)
    \/ Reconcile
    \/ Crash
    \/ \E r \in Runs :
        \/ AttemptLost(r) \/ ReportStep(r) \/ AdminStep(r)
        \/ \E c \in Calls : ApprovalDeadline(r, c)

Spec == Init /\ [][Next]_vars

\* The process keeps running its loop and its slots, the server notices an
\* attempt that died, and the report worker keeps taking deliveries.  Nobody owes
\* a decision, and faults need not happen.
Fairness ==
    /\ \A s \in Slots : WF_vars(SlotStep(s))
    /\ WF_vars(Reconcile)
    /\ \A r \in Runs : WF_vars(AttemptLost(r)) /\ WF_vars(ReportStep(r))

FairSpec == Spec /\ Fairness

-----------------------------------------------------------------------------
(* Properties.                                                             *)

\* A message that needs approval leaves at most once for its call, however often
\* applySignal is retried and signalled, beside an attempt that still runs, and
\* only if the administrator approved that call.
OneEmailPerApproval ==
    \A r \in Runs, c \in Calls :
        /\ emails[r][c] <= 1
        /\ emails[r][c] = 1 => approvals[r][c] = "approved"

\* The model is told the outcome of a deferred call once, and what it is told is
\* true, although signals repeat and come late.
ResultsTold ==
    \A r \in Runs, c \in Calls :
        /\ results[r][c] <= 1
        /\ results[r][c] = 1 =>
            \/ toolCalls[r][c] = "completed" /\ emails[r][c] = 1 /\ sends[r][c] = "sent"
            \/ toolCalls[r][c] = "rejected" /\ approvals[r][c] = "rejected" /\ emails[r][c] = 0
            \/ toolCalls[r][c] = "completed" /\ job[r].call = c /\ job[r].status = "completed"

\* A run that waits names a call that is really deferred, and no other run has a
\* wait, but one that was failed over a report.
WaitAgreement ==
    \A r \in Runs :
        LET row == run[r]  c == row.wait.call IN
        /\ row.status = "waiting_for_tool" =>
            /\ row.wait.kind = "report"
            /\ job[r].call = c
            /\ toolCalls[r][c] = IF job[r].status = "completed" THEN "completed"
                                 ELSE "waiting_job"
        /\ row.status = "waiting_for_admin" =>
            /\ row.wait.kind = "approval"
            /\ <<approvals[r][c], toolCalls[r][c]>> \in
                    {<<"pending", "approval_required">>, <<"approved", "running">>,
                     <<"rejected", "rejected">>, <<"expired", "approval_required">>}
        /\ row.status \in {"queued", "running", "completed"} => row.wait = NoWait

\* The workflow's status and wait and the row's, which different transactions
\* write, agree whenever no activity is under way: a workflow that awaits a signal
\* awaits what the row waits for, although an attempt that was timed out may still
\* be writing; one that returned says how the run ended.  One fault does not part
\* them.  Two do: an attempt that was timed out puts the run to wait for a report,
\* cannot hand the report over, and fails a run its successor found waiting.
WorkflowFollowsRun ==
    \A r \in Runs :
        /\ workflow[r].phase = "wait" =>
            run[r].wait = workflow[r].wait /\ run[r].status = workflow[r].status
        /\ workflow[r].phase = "returned" => workflow[r].status = run[r].status

\* completeStateWorkflowRun and resolveStateWorkflowWait write a status without a
\* look at the one they replace: the version alone must keep the attempts that
\* overlap to the transition table.
LegalRunTransitions ==
    [][\A r \in Runs :
        run'[r].status # run[r].status =>
            <<run[r].status, run'[r].status>> \in RunTransitions]_vars

\* One step leaves the table: a run that was failed while it waited for its report
\* is brought back by that report.  No other attempt does, however late it writes.
OnlyAnswersRevive ==
    [][\A r \in Runs :
        run'[r].status # run[r].status =>
            \/ <<run[r].status, run'[r].status>> \in RunTransitions
            \/ /\ run[r].status = "failed" /\ run'[r].status = "running"
               /\ run[r].wait.kind = "report"
               /\ job[r].status = "completed" /\ job[r].call = run[r].wait.call]_vars

\* The transition tables of the ledger's calls, the approvals and the jobs.
LegalCallTransitions ==
    [][\A r \in Runs :
        /\ job'[r].status # job[r].status =>
            <<job[r].status, job'[r].status>> \in JobTransitions
        /\ \A c \in Calls :
            /\ toolCalls'[r][c] # toolCalls[r][c] =>
                <<toolCalls[r][c], toolCalls'[r][c]>> \in ToolCallTransitions
            /\ approvals'[r][c] # approvals[r][c] =>
                <<approvals[r][c], approvals'[r][c]>> \in ApprovalTransitions]_vars

\* A signal the workflow accepted is not lost any more: it brings the run out of
\* the wait it answers, or the activity fails and the workflow with it.
AcceptedSignalsApplied ==
    \A r \in Runs, signal \in Signals \ {NoSignal} :
        workflow[r].input = signal
            ~> \/ run[r].wait # [kind |-> signal.kind, call |-> signal.call]
               \/ workflow[r].phase = "failed"

\* The loop keeps delivering and marking signal intents; nothing can hold it up
\* but an intent for a workflow that is closed, behind which all others wait.
SignalsDispatched == []<>(outbox = <<>> \/ ~Open(Head(outbox).run))

\* A run that could go on is brought to its end or to a wait, and the workflow of
\* a run that ended is closed: retries and lost answers leave neither behind, as
\* long as the workflow itself does not fail.
RunsAdvance ==
    \A r \in Runs :
        /\ run[r].status \in {"queued", "running"}
            ~> run[r].status \in Waiting \cup Terminal \/ workflow[r].phase = "failed"
        /\ run[r].status \in Terminal ~> workflow[r].phase \in {"returned", "failed"}

\* "the completed tool result is delivered to the AI once"
\* (docs/agentic-chat-mvp-validation-test-plan.md): a report that was completed is
\* told to the model, or the run has ended.
CompletedReportsAreTold ==
    \A r \in Runs, c \in Calls :
        job[r].status = "completed" /\ job[r].call = c
            ~> results[r][c] = 1 \/ run[r].status \in Terminal

\* The run as its user, its administrator and its model see it.  One that was failed
\* over its report still waits for it, in its continuation.
WaitsFor(r) ==
    IF \/ run[r].status \in Waiting
       \/ /\ run[r].status = "failed"
          /\ run[r].wait.kind = "report" /\ job[r].call = run[r].wait.call
    THEN run[r].wait.call ELSE 0
AnswerTo(r, c) ==
    IF approvals[r][c] # "none" THEN approvals[r][c]
    ELSE IF job[r].call # c THEN "none"
    ELSE IF job[r].status = "completed" THEN "made" ELSE "ordered"

Promise == INSTANCE RunLifecycle WITH
    ReportsRevive <- TRUE,
    status <- [r \in Runs |-> run[r].status],
    steps <- [r \in Runs |-> run[r].consumedSteps],
    waitsFor <- [r \in Runs |-> WaitsFor(r)],
    answer <- [r \in Runs |-> [c \in Calls |-> AnswerTo(r, c)]],
    sent <- emails,
    told <- results

\* Without a lease, too, a run lives as RunLifecycle says, but for the report that
\* revives a run which was failed over it; no other overlap of attempts shows.
RunPromise == Promise!Spec
=============================================================================
