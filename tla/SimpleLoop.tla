----------------------------- MODULE SimpleLoop -----------------------------
(***************************************************************************)
(* The simple-loop runtime: workers that poll durable dispatch intents,    *)
(* take a fenced lease on a run, and drive a model/tool loop whose every   *)
(* step is one database transaction guarded by the run's version, the      *)
(* lease owner, the fencing version and the lease's expiry.  Two tools do  *)
(* not answer at once: report.generate hands a job to a queue, and         *)
(* notification.send_email waits for an administrator.  Both persist the   *)
(* wait in the run, give the lease up, and are resumed by an intent that   *)
(* the job's completion or the decision writes.                            *)
(*                                                                         *)
(* One action is one database transaction (or one external call); the      *)
(* program's position between two of them is session[w].pc.  A crash, a    *)
(* lease that runs out under a slow worker, and a failed queue call can    *)
(* happen between any two of them.                                         *)
(***************************************************************************)
EXTENDS Contracts, Naturals, FiniteSets

CONSTANTS
    Runs,            \* runs admitted with the simple_loop runtime
    Workers,         \* worker processes; a restarted worker keeps its name
    None,            \* no run, no owner, no skill
    Skills,          \* the skills the model may load, of SkillNames
    StepBudget,      \* LOOP_STEP_BUDGET
    MaxAttempts,     \* BullMQ attempts of a report job
    MaxFaults,       \* bound: faults in a behaviour
    MaxLapses,       \* bound: fencing version up to which a lease lapses
    ApprovalsExpire  \* whether the approval TTL can pass

ASSUME ConstantsAssumption ==
    /\ Skills \subseteq SkillNames
    /\ None \notin Runs \cup Workers
    /\ StepBudget \in Nat \ {0}
    /\ MaxAttempts \in Nat \ {0}
    /\ MaxFaults \in Nat
    /\ MaxLapses \in Nat
    /\ ApprovalsExpire \in BOOLEAN

ASSUME NoneIsNoSkill == None \notin SkillNames

VARIABLES
    run,         \* row of runs: status, version, lease, budget, continuation
    toolCalls,   \* toolCalls[r][c]: status of the call the model made at step c
    approvals,   \* approvals[r][c]: status of the approval request of call c
    overdue,     \* pairs <<r, c>> whose approval's expiresAt has passed
    sends,       \* sends[r][c]: row of simulated_sends
    emails,      \* emails[r][c]: times executeApprovedSend ran for the call
    results,     \* results[r][c]: tool_result messages of a deferred call
    job,         \* the run's report job, its dispatch intent and its delivery
    intents,     \* intents[r][i]: simple_loop.execute intents of the run
    batch,       \* batch[w]: intents of the worker's last listing, to be done
    session,     \* session[w]: what the worker's stack holds
    faults       \* faults so far (bounded by MaxFaults)

dbVars == <<run, toolCalls, approvals, sends, results, job, intents>>
vars == <<run, toolCalls, approvals, overdue, sends, emails, results, job,
          intents, batch, session, faults>>

-----------------------------------------------------------------------------
(* Values.                                                                 *)

\* A call is named by the step that made it: the provider's call identifiers
\* are unique, and parallel calls are disabled.
Calls == 1..StepBudget

\* 0 is the admission's intent; c the one that resumes the run after call c.
Intents == 0..StepBudget

NoWait == [kind |-> "none", call |-> 0]
Waits == {NoWait} \cup [kind: {"report", "approval"}, call: Calls]

RunRows ==
    [status: Statuses, version: Nat, leaseOwner: Workers \cup {None},
     leaseExpired: BOOLEAN, fencingVersion: Nat, consumedSteps: 0..StepBudget,
     skill: SkillNames \cup {None}, wait: Waits]

NoJob == [status |-> "none", call |-> 0, intent |-> "none",
          delivery |-> "none", attempts |-> 0]

JobRows ==
    [status: {"none", "queued", "running", "completed"}, call: Intents,
     intent: {"none", "pending", "dispatched"},
     delivery: {"none", "queued", "active", "repeat", "done", "failed"},
     attempts: 0..MaxAttempts]

Locations == {"idle", "read", "check", "assign", "claim", "restore", "resolve",
              "reserve", "send", "sent", "settle", "prompt", "model", "enqueue",
              "mark", "finish", "ack", "stale"}

Sessions ==
    [pc: Locations, run: Runs \cup {None}, intent: Intents, version: Nat,
     fencing: Nat, wait: Waits, fatal: BOOLEAN,
     verdict: {"none", "completed", "failed"}]

Idle == [pc |-> "idle", run |-> None, intent |-> 0, version |-> 0,
         fencing |-> 0, wait |-> NoWait, fatal |-> FALSE, verdict |-> "none"]

\* Locations reached only with a lease that was granted to the session.
Leased == {"restore", "resolve", "reserve", "send", "sent", "settle",
           "prompt", "model", "finish"}

TypeOK ==
    /\ run \in [Runs -> RunRows]
    /\ toolCalls \in [Runs -> [Calls -> CallStatuses]]
    /\ approvals \in [Runs -> [Calls -> ApprovalStatuses]]
    /\ overdue \subseteq Runs \X Calls
    /\ sends \in [Runs -> [Calls -> {"none", "reserved", "sent"}]]
    /\ emails \in [Runs -> [Calls -> Nat]]
    /\ results \in [Runs -> [Calls -> Nat]]
    /\ job \in [Runs -> JobRows]
    /\ intents \in [Runs -> [Intents -> {"none", "pending", "dispatched"}]]
    /\ batch \in [Workers -> SUBSET (Runs \X Intents)]
    /\ session \in [Workers -> Sessions]
    /\ faults \in 0..MaxFaults
    /\ \A w \in Workers : session[w].pc # "idle" => session[w].run \in Runs

Init ==
    /\ run = [r \in Runs |->
                [status |-> "queued", version |-> 1, leaseOwner |-> None,
                 leaseExpired |-> FALSE, fencingVersion |-> 0,
                 consumedSteps |-> 0, skill |-> None, wait |-> NoWait]]
    /\ toolCalls = [r \in Runs |-> [c \in Calls |-> "none"]]
    /\ approvals = [r \in Runs |-> [c \in Calls |-> "none"]]
    /\ overdue = {}
    /\ sends = [r \in Runs |-> [c \in Calls |-> "none"]]
    /\ emails = [r \in Runs |-> [c \in Calls |-> 0]]
    /\ results = [r \in Runs |-> [c \in Calls |-> 0]]
    /\ job = [r \in Runs |-> NoJob]
    /\ intents = [r \in Runs |-> [i \in Intents |->
                    IF i = 0 THEN "pending" ELSE "none"]]
    /\ batch = [w \in Workers |-> {}]
    /\ session = [w \in Workers |-> Idle]
    /\ faults = 0

-----------------------------------------------------------------------------
(* Helpers.                                                                *)

At(w, pc) == session[w].pc = pc
Becomes(w, s) == session' = [session EXCEPT ![w] = s]
Go(w, pc) == Becomes(w, [session[w] EXCEPT !.pc = pc])
EndSession(w) == Becomes(w, Idle)
Fault == faults < MaxFaults /\ faults' = faults + 1

\* Only the intent matters once the executor has returned.
Returned(w) == [Idle EXCEPT !.pc = "ack", !.run = session[w].run,
                            !.intent = session[w].intent]

\* lockSimpleLoopLease: version first, then owner, fencing and expiry.
LeaseHeld(w) ==
    LET row == run[session[w].run] IN
    /\ row.version = session[w].version
    /\ row.leaseOwner = w
    /\ row.fencingVersion = session[w].fencing
    /\ ~row.leaseExpired

\* A transaction that the session's lease covers, and that moves the version.
Persist(w, row) ==
    /\ LeaseHeld(w)
    /\ run' = [run EXCEPT ![session[w].run] = [row EXCEPT !.version = row.version + 1]]

\* Mutant: a job that exists is taken for a report that exists.
ReadyOnceAccepted(r, wait) ==
    \/ wait.kind = "report" /\ job[r].status # "none"
    \/ wait.kind = "approval" /\ approvals[r][wait.call] \in {"approved", "rejected"}

\* waitIsReady: a completed job, or a decision.  Job identifiers are one
\* constant per run, so the wait's job is the run's job.
WaitIsReady(r, wait) ==
    \/ wait.kind = "report" /\ job[r].status = "completed"
    \/ wait.kind = "approval" /\ approvals[r][wait.call] \in {"approved", "rejected"}

\* The session is still the one its run's version was last written by.
IsCurrent(w) ==
    /\ session[w].pc \in Leased
    /\ session[w].version = run[session[w].run].version

-----------------------------------------------------------------------------
(* The poll loop and the dispatch handler.                                 *)

\* listPendingDispatches: the loop works through one listing before the next.
ListPending(w) ==
    /\ At(w, "idle")
    /\ batch[w] = {}
    /\ batch' = [batch EXCEPT ![w] =
                    {x \in Runs \X Intents : intents[x[1]][x[2]] = "pending"}]
    /\ UNCHANGED <<dbVars, overdue, emails, session, faults>>

\* The intent is executed as listed: it is not read again first.
PickIntent(w) ==
    /\ At(w, "idle")
    /\ \E x \in batch[w] :
        /\ batch' = [batch EXCEPT ![w] = @ \ {x}]
        /\ Becomes(w, [Idle EXCEPT !.pc = "read", !.run = x[1], !.intent = x[2]])
    /\ UNCHANGED <<dbVars, overdue, emails, faults>>

\* acknowledgeSimpleLoopDispatch, after the executor returned.
AcknowledgeSimpleLoopDispatch(w) ==
    /\ At(w, "ack")
    /\ intents' = [intents EXCEPT ![session[w].run][session[w].intent] = "dispatched"]
    /\ EndSession(w)
    /\ UNCHANGED <<run, toolCalls, approvals, overdue, sends, emails, results,
                   job, batch, faults>>

\* acknowledgeStaleSimpleLoopDispatch, after a ConflictError: only a durable
\* run state is evidence, otherwise the error escapes and the intent stays.
AcknowledgeStaleDispatch(w) ==
    /\ At(w, "stale")
    /\ intents' = IF run[session[w].run].status \in Waiting \cup Terminal
                  THEN [intents EXCEPT ![session[w].run][session[w].intent] = "dispatched"]
                  ELSE intents
    /\ EndSession(w)
    /\ UNCHANGED <<run, toolCalls, approvals, overdue, sends, emails, results,
                   job, batch, faults>>

-----------------------------------------------------------------------------
(* execute: the read before the claim, the claim, and the resumption.      *)

ReadRun(w) ==
    /\ At(w, "read")
    /\ LET wait == run[session[w].run].wait IN
       Becomes(w, [session[w] EXCEPT !.pc = IF wait = NoWait THEN "assign" ELSE "check",
                                     !.wait = wait])
    /\ UNCHANGED <<dbVars, overdue, emails, batch, faults>>

\* A wait that is not ready is the result (pendingResult), and is acknowledged.
CheckWait(w) ==
    /\ At(w, "check")
    /\ Becomes(w, IF WaitIsReady(session[w].run, session[w].wait)
                  THEN [session[w] EXCEPT !.pc = "assign", !.wait = NoWait]
                  ELSE Returned(w))
    /\ UNCHANGED <<dbVars, overdue, emails, batch, faults>>

\* readRunAssignment: the version the claim will insist on.
ReadAssignment(w) ==
    /\ At(w, "assign")
    /\ Becomes(w, [session[w] EXCEPT !.pc = "claim",
                                     !.version = run[session[w].run].version])
    /\ UNCHANGED <<dbVars, overdue, emails, batch, faults>>

\* Mutant: the expiry of a lease is not looked at.
FreeOnlyIfReleased(row) == row.leaseOwner = None

LeaseFree(row) == row.leaseOwner = None \/ row.leaseExpired

\* Mutant: the claim takes a new fencing version but not a new row version.
ClaimKeepsVersion(w) ==
    /\ At(w, "claim")
    /\ LET r == session[w].run
           row == run[r]
           fencing == row.fencingVersion + 1 IN
       /\ row.version = session[w].version
       /\ row.status \notin Terminal
       /\ LeaseFree(row)
       /\ run' = [run EXCEPT ![r] = [row EXCEPT !.leaseOwner = w, !.leaseExpired = FALSE,
                                               !.fencingVersion = fencing]]
       /\ Becomes(w, [session[w] EXCEPT !.pc = "restore", !.fencing = fencing])
    /\ UNCHANGED <<toolCalls, approvals, overdue, sends, emails, results, job,
                   intents, batch, faults>>

\* Mutant: a run that has ended can be claimed.
ClaimTerminal(w) ==
    /\ At(w, "claim")
    /\ LET r == session[w].run
           row == run[r]
           version == row.version + 1
           fencing == row.fencingVersion + 1 IN
       /\ row.version = session[w].version
       /\ LeaseFree(row)
       /\ run' = [run EXCEPT ![r] =
                    [row EXCEPT !.leaseOwner = w, !.leaseExpired = FALSE,
                                !.fencingVersion = fencing, !.version = version]]
       /\ Becomes(w, [session[w] EXCEPT !.pc = "restore", !.version = version,
                                        !.fencing = fencing])
    /\ UNCHANGED <<toolCalls, approvals, overdue, sends, emails, results, job,
                   intents, batch, faults>>

ClaimRunLease(w) ==
    /\ At(w, "claim")
    /\ LET r == session[w].run
           row == run[r]
           version == row.version + 1
           fencing == row.fencingVersion + 1 IN
       /\ row.version = session[w].version
       /\ row.status \notin Terminal
       /\ LeaseFree(row)
       /\ run' = [run EXCEPT ![r] =
                    [row EXCEPT !.leaseOwner = w, !.leaseExpired = FALSE,
                                !.fencingVersion = fencing, !.version = version]]
       /\ Becomes(w, [session[w] EXCEPT !.pc = "restore", !.version = version,
                                        !.fencing = fencing])
    /\ UNCHANGED <<toolCalls, approvals, overdue, sends, emails, results, job,
                   intents, batch, faults>>

\* Mutant: a claim that lost the race is acknowledged.
ClaimRefusedAcks(w) ==
    /\ At(w, "claim")
    /\ \/ run[session[w].run].version # session[w].version
       \/ run[session[w].run].status \in Terminal
       \/ ~LeaseFree(run[session[w].run])
    /\ Becomes(w, Returned(w))
    /\ UNCHANGED <<dbVars, overdue, emails, batch, faults>>

\* Mutant: the ConflictError of a run that has ended escapes, too.
ClaimRefusedEscapes(w) ==
    /\ At(w, "claim")
    /\ \/ run[session[w].run].version # session[w].version
       \/ run[session[w].run].status \in Terminal
       \/ ~LeaseFree(run[session[w].run])
    /\ EndSession(w)
    /\ UNCHANGED <<dbVars, overdue, emails, batch, faults>>

\* A stale version or a live lease escapes to the poll loop, which goes on with
\* the next intent; a terminal run is a ConflictError, which is acknowledged.
ClaimRefused(w) ==
    /\ At(w, "claim")
    /\ LET row == run[session[w].run] IN
       \/ /\ row.version # session[w].version \/ ~LeaseFree(row)
          /\ ~(row.version = session[w].version /\ row.status \in Terminal)
          /\ EndSession(w)
       \/ /\ row.version = session[w].version
          /\ row.status \in Terminal
          /\ Go(w, "stale")
    /\ UNCHANGED <<dbVars, overdue, emails, batch, faults>>

\* The second read of the run: the continuation the session goes on from.
RestoreSession(w) ==
    /\ At(w, "restore")
    /\ LET wait == run[session[w].run].wait IN
       Becomes(w, [session[w] EXCEPT !.pc = IF wait = NoWait THEN "prompt" ELSE "resolve",
                                     !.wait = wait])
    /\ UNCHANGED <<dbVars, overdue, emails, batch, faults>>

\* Mutant: a wait that is not ready after all fails the run.
ResolveFailsRun(w) ==
    /\ At(w, "resolve")
    /\ LET r == session[w].run
           wait == session[w].wait IN
       IF WaitIsReady(r, wait)
       THEN Go(w, IF wait.kind = "approval" /\ approvals[r][wait.call] = "approved"
                  THEN "reserve" ELSE "settle")
       ELSE Becomes(w, [session[w] EXCEPT !.pc = "finish", !.verdict = "failed"])
    /\ UNCHANGED <<dbVars, overdue, emails, batch, faults>>

\* resolveDeferredCall's read: a wait that is not ready after all is a
\* TypeError, which escapes with the lease still held.
ResolveDeferredCall(w) ==
    /\ At(w, "resolve")
    /\ LET r == session[w].run
           wait == session[w].wait IN
       IF WaitIsReady(r, wait)
       THEN Go(w, IF wait.kind = "approval" /\ approvals[r][wait.call] = "approved"
                  THEN "reserve" ELSE "settle")
       ELSE EndSession(w)
    /\ UNCHANGED <<dbVars, overdue, emails, batch, faults>>

\* Mutants: the reservation may be made again; it may be made late; it insists on
\* a running run.
MayReserveAgain(r, c) ==
    /\ approvals[r][c] = "approved"
    /\ <<r, c>> \notin overdue
    /\ run[r].status \notin Terminal

MayReserveLate(r, c) ==
    /\ approvals[r][c] = "approved"
    /\ run[r].status \notin Terminal
    /\ sends[r][c] = "none"

MayReserveRunning(r, c) ==
    /\ approvals[r][c] = "approved"
    /\ <<r, c>> \notin overdue
    /\ run[r].status = "running"
    /\ sends[r][c] = "none"

\* reserveSimulatedSend: guarded by the approval, its expiry and the run's
\* status, not by the lease.
MayReserve(r, c) ==
    /\ approvals[r][c] = "approved"
    /\ <<r, c>> \notin overdue
    /\ run[r].status \notin Terminal
    /\ sends[r][c] = "none"

ReserveSimulatedSend(w) ==
    /\ At(w, "reserve")
    /\ LET r == session[w].run
           c == session[w].wait.call IN
       /\ MayReserve(r, c)
       /\ sends' = [sends EXCEPT ![r][c] = "reserved"]
    /\ Go(w, "send")
    /\ UNCHANGED <<run, toolCalls, approvals, overdue, emails, results, job,
                   intents, batch, faults>>

\* InvalidApprovalError or DuplicateError: escapes with the lease still held.
ReserveRefused(w) ==
    /\ At(w, "reserve")
    /\ ~MayReserve(session[w].run, session[w].wait.call)
    /\ EndSession(w)
    /\ UNCHANGED <<dbVars, overdue, emails, batch, faults>>

ExecuteApprovedSend(w) ==
    /\ At(w, "send")
    /\ emails' = [emails EXCEPT ![session[w].run][session[w].wait.call] = @ + 1]
    /\ Go(w, "sent")
    /\ UNCHANGED <<dbVars, overdue, batch, faults>>

CompleteSimulatedSend(w) ==
    /\ At(w, "sent")
    /\ sends' = [sends EXCEPT ![session[w].run][session[w].wait.call] = "sent"]
    /\ Go(w, "settle")
    /\ UNCHANGED <<run, toolCalls, approvals, overdue, emails, results, job,
                   intents, batch, faults>>

\* Mutant: every deferred call comes back completed.
ResolveCompletes(w) ==
    /\ At(w, "settle")
    /\ LET r == session[w].run
           c == session[w].wait.call IN
       /\ Persist(w, [run[r] EXCEPT !.status = "running", !.wait = NoWait])
       /\ toolCalls' = [toolCalls EXCEPT ![r][c] = "completed"]
       /\ results' = [results EXCEPT ![r][c] = @ + 1]
    /\ Becomes(w, [session[w] EXCEPT !.pc = "prompt", !.wait = NoWait,
                                     !.version = session[w].version + 1])
    /\ UNCHANGED <<approvals, overdue, sends, emails, job, intents, batch, faults>>

\* The call's outcome, its result message and the end of the wait.
ResolveSimpleLoopWait(w) ==
    /\ At(w, "settle")
    /\ LET r == session[w].run
           c == session[w].wait.call IN
       /\ Persist(w, [run[r] EXCEPT !.status = "running", !.wait = NoWait])
       /\ toolCalls' = [toolCalls EXCEPT ![r][c] =
                            IF approvals[r][c] = "rejected" THEN "rejected" ELSE "completed"]
       /\ results' = [results EXCEPT ![r][c] = @ + 1]
    /\ Becomes(w, [session[w] EXCEPT !.pc = "prompt", !.wait = NoWait,
                                     !.version = session[w].version + 1])
    /\ UNCHANGED <<approvals, overdue, sends, emails, job, intents, batch, faults>>

-----------------------------------------------------------------------------
(* The agent loop.  Each model step is paid for before it is taken.        *)

\* Mutant: the budget is not looked at.
ConsumeWithoutBudget(w) ==
    /\ At(w, "prompt")
    /\ LET row == run[session[w].run] IN
       Persist(w, [row EXCEPT !.status = "running", !.consumedSteps = row.consumedSteps + 1])
    /\ Becomes(w, [session[w] EXCEPT !.pc = "model", !.version = session[w].version + 1])
    /\ UNCHANGED <<toolCalls, approvals, overdue, sends, emails, results, job,
                   intents, batch, faults>>

\* consumeSimpleLoopStep
ConsumeSimpleLoopStep(w) ==
    /\ At(w, "prompt")
    /\ LET row == run[session[w].run] IN
       /\ row.consumedSteps < StepBudget
       /\ Persist(w, [row EXCEPT !.status = "running",
                                 !.consumedSteps = row.consumedSteps + 1])
    /\ Becomes(w, [session[w] EXCEPT !.pc = "model", !.version = session[w].version + 1])
    /\ UNCHANGED <<toolCalls, approvals, overdue, sends, emails, results, job,
                   intents, batch, faults>>

Finish(w, verdict, version) ==
    Becomes(w, [session[w] EXCEPT !.pc = "finish", !.version = version, !.verdict = verdict])

\* LoopStepLimitExceededError out of the same transaction.
BudgetExhausted(w) ==
    /\ At(w, "prompt")
    /\ LeaseHeld(w)
    /\ run[session[w].run].consumedSteps >= StepBudget
    /\ Finish(w, "failed", session[w].version)
    /\ UNCHANGED <<dbVars, overdue, emails, batch, faults>>

\* A call that beforeGenerate makes fails, the guidance's or the step's transaction:
\* the loop catches the error and fails the run, which may be queued still.
FailBeforeStep(w) ==
    /\ At(w, "prompt")
    /\ LeaseHeld(w)
    /\ Fault
    /\ Finish(w, "failed", session[w].version)
    /\ UNCHANGED <<dbVars, overdue, emails, batch>>

\* After a tool result the loop prompts again, unless the last step was taken:
\* then the run fails for want of an answer.
AfterTool(w, version, fatal) ==
    IF run[session[w].run].consumedSteps < StepBudget
    THEN Becomes(w, [session[w] EXCEPT !.pc = "prompt", !.version = version, !.fatal = fatal])
    ELSE Finish(w, "failed", version)

\* The tools the model is offered (prepareStep).
Offered(w, tool) ==
    LET skill == run[session[w].run].skill IN
    skill # None /\ tool \in AllowedTools[skill]

PersistSimpleLoopSkill(w) ==
    /\ At(w, "model")
    /\ run[session[w].run].skill = None
    /\ \E skill \in Skills :
        Persist(w, [run[session[w].run] EXCEPT !.skill = skill])
    /\ AfterTool(w, session[w].version + 1, session[w].fatal)
    /\ UNCHANGED <<toolCalls, approvals, overdue, sends, emails, results, job,
                   intents, batch, faults>>

\* An unknown skill is remembered as fatal in memory only, and the loop goes on.
SkillRefused(w) ==
    /\ At(w, "model")
    /\ LeaseHeld(w)
    /\ run[session[w].run].skill = None
    /\ AfterTool(w, session[w].version, TRUE)
    /\ UNCHANGED <<dbVars, overdue, emails, batch, faults>>

\* persistSimpleLoopToolOutcome, for a tool the worker executed.
PersistToolOutcome(w, outcome) ==
    /\ At(w, "model")
    /\ Offered(w, "sync")
    /\ LET r == session[w].run IN
       /\ Persist(w, run[r])
       /\ toolCalls[r][run[r].consumedSteps] = "none"
       /\ toolCalls' = [toolCalls EXCEPT ![r][run[r].consumedSteps] = outcome]
    /\ AfterTool(w, session[w].version + 1, session[w].fatal)
    /\ UNCHANGED <<approvals, overdue, sends, emails, results, job, intents,
                   batch, faults>>

\* The model answers: generation ends.
EndGeneration(w) ==
    /\ At(w, "model")
    /\ LeaseHeld(w)
    /\ Finish(w, IF session[w].fatal THEN "failed" ELSE "completed", session[w].version)
    /\ UNCHANGED <<dbVars, overdue, emails, batch, faults>>

\* The provider fails; no tool is to blame (mapAgentFailure without toolName).
FailAgent(w) ==
    /\ At(w, "model")
    /\ LeaseHeld(w)
    /\ Finish(w, "failed", session[w].version)
    /\ UNCHANGED <<dbVars, overdue, emails, batch, faults>>

\* The provider's call is invalid or not allowed: the failure is recorded as a
\* call of its own before the run fails.
PersistMappedToolFailure(w, outcome) ==
    /\ At(w, "model")
    /\ LET r == session[w].run IN
       /\ Persist(w, run[r])
       /\ toolCalls[r][run[r].consumedSteps] = "none"
       /\ toolCalls' = [toolCalls EXCEPT ![r][run[r].consumedSteps] = outcome]
    /\ Finish(w, "failed", session[w].version + 1)
    /\ UNCHANGED <<approvals, overdue, sends, emails, results, job, intents,
                   batch, faults>>

-----------------------------------------------------------------------------
(* The deferred calls.                                                     *)

\* releaseForSimpleLoopWait: status, continuation, version and the lease.
Released(row, status, wait) ==
    [row EXCEPT !.status = status, !.wait = wait, !.leaseOwner = None,
                !.leaseExpired = FALSE]

\* persistSimpleLoopReportWait: call, job, its dispatch intent and the wait.
PersistReportWait(w) ==
    /\ At(w, "model")
    /\ Offered(w, "report")
    /\ LET r == session[w].run
           c == run[r].consumedSteps
           wait == [kind |-> "report", call |-> c] IN
       /\ job[r] = NoJob
       /\ toolCalls[r][c] = "none"
       /\ Persist(w, Released(run[r], "waiting_for_tool", wait))
       /\ toolCalls' = [toolCalls EXCEPT ![r][c] = "waiting_job"]
       /\ job' = [job EXCEPT ![r] = [NoJob EXCEPT !.status = "queued", !.call = c,
                                                  !.intent = "pending"]]
       /\ Becomes(w, [session[w] EXCEPT !.pc = "enqueue", !.wait = wait,
                                        !.version = session[w].version + 1])
    /\ UNCHANGED <<approvals, overdue, sends, emails, results, intents, batch, faults>>

\* jobs are unique on (namespace, run, id) and every report job of a run has
\* the same id: a second report rolls back and the run fails, with the wait
\* the handler had already put in its continuation.
ReportRefused(w) ==
    /\ At(w, "model")
    /\ LeaseHeld(w)
    /\ Offered(w, "report")
    /\ job[session[w].run] # NoJob
    /\ Becomes(w, [session[w] EXCEPT
                    !.pc = "finish", !.verdict = "failed",
                    !.wait = [kind |-> "report", call |-> run[session[w].run].consumedSteps]])
    /\ UNCHANGED <<dbVars, overdue, emails, batch, faults>>

\* reportQueue.enqueue, after the commit.
EnqueueReport(w) ==
    /\ At(w, "enqueue")
    /\ job' = [job EXCEPT ![session[w].run] =
                [job[session[w].run] EXCEPT !.delivery = "queued", !.attempts = MaxAttempts]]
    /\ Go(w, "mark")
    /\ UNCHANGED <<run, toolCalls, approvals, overdue, sends, emails, results,
                   intents, batch, faults>>

\* The queue refuses: completeSimpleLoopRun is tried and meets the lease that
\* was just given up, so the error escapes and the session ends.
EnqueueFails(w) ==
    /\ At(w, "enqueue")
    /\ Fault
    /\ EndSession(w)
    /\ UNCHANGED <<dbVars, overdue, emails, batch>>

MarkReportDispatched(w) ==
    /\ At(w, "mark")
    /\ job' = [job EXCEPT ![session[w].run] =
                [job[session[w].run] EXCEPT !.intent = "dispatched"]]
    /\ Becomes(w, Returned(w))
    /\ UNCHANGED <<run, toolCalls, approvals, overdue, sends, emails, results,
                   intents, batch, faults>>

\* persistSimpleLoopApprovalWait: call, approval request and the wait.
PersistApprovalWait(w) ==
    /\ At(w, "model")
    /\ Offered(w, "email")
    /\ LET r == session[w].run
           c == run[r].consumedSteps IN
       /\ toolCalls[r][c] = "none"
       /\ Persist(w, Released(run[r], "waiting_for_admin",
                              [kind |-> "approval", call |-> c]))
       /\ toolCalls' = [toolCalls EXCEPT ![r][c] = "approval_required"]
       /\ approvals' = [approvals EXCEPT ![r][c] = "pending"]
    /\ Becomes(w, Returned(w))
    /\ UNCHANGED <<overdue, sends, emails, results, job, intents, batch, faults>>

\* completeSimpleLoopRun: the verdict, the continuation and the lease.
CompleteSimpleLoopRun(w) ==
    /\ At(w, "finish")
    /\ Persist(w, Released(run[session[w].run], session[w].verdict, session[w].wait))
    /\ Becomes(w, Returned(w))
    /\ UNCHANGED <<toolCalls, approvals, overdue, sends, emails, results, job,
                   intents, batch, faults>>

\* A transaction of a session that no longer holds the lease throws; the agent
\* loop ends in completeSimpleLoopRun, which throws too, and the error escapes.
AbandonStale(w) ==
    /\ session[w].pc \in {"settle", "prompt", "model", "finish"}
    /\ ~LeaseHeld(w)
    /\ EndSession(w)
    /\ UNCHANGED <<dbVars, overdue, emails, batch, faults>>

-----------------------------------------------------------------------------
(* The administrator, the report worker, and time.                         *)

\* Mutant: the decision does not bring the run's worker back.
DecideWithoutIntent(r, c, decision) ==
    /\ approvals[r][c] = "pending"
    /\ <<r, c>> \notin overdue
    /\ run[r].status \notin Terminal
    /\ toolCalls[r][c] = "approval_required"
    /\ approvals' = [approvals EXCEPT ![r][c] = decision]
    /\ toolCalls' = [toolCalls EXCEPT ![r][c] =
                        IF decision = "approved" THEN "running" ELSE "rejected"]
    /\ UNCHANGED <<run, overdue, sends, emails, results, job, intents, batch,
                   session, faults>>

\* decideApproval.  The decision and the intent that resumes the run commit
\* together.
DecideApproval(r, c, decision) ==
    /\ approvals[r][c] = "pending"
    /\ <<r, c>> \notin overdue
    /\ run[r].status \notin Terminal
    /\ toolCalls[r][c] = "approval_required"
    /\ approvals' = [approvals EXCEPT ![r][c] = decision]
    /\ toolCalls' = [toolCalls EXCEPT ![r][c] =
                        IF decision = "approved" THEN "running" ELSE "rejected"]
    /\ intents' = IF run[r].status = "waiting_for_admin"
                  THEN [intents EXCEPT ![r][c] = "pending"]
                  ELSE intents
    /\ UNCHANGED <<run, overdue, sends, emails, results, job, batch, session, faults>>

\* A decision that comes too late only records that it did.
ExpireOnDecide(r, c) ==
    /\ approvals[r][c] = "pending"
    /\ <<r, c>> \in overdue
    /\ approvals' = [approvals EXCEPT ![r][c] = "expired"]
    /\ UNCHANGED <<run, toolCalls, overdue, sends, emails, results, job, intents,
                   batch, session, faults>>

\* The approval's TTL passes (whether or not it has been decided).
ApprovalDeadline(r, c) ==
    /\ ApprovalsExpire
    /\ approvals[r][c] \in {"pending", "approved"}
    /\ overdue' = overdue \cup {<<r, c>>}
    /\ UNCHANGED <<dbVars, emails, batch, session, faults>>

\* recordReportProgress: a job past queued is returned as it is.
RecordReportProgress(r) ==
    /\ job[r].delivery = "queued"
    /\ job' = [job EXCEPT ![r] =
                [job[r] EXCEPT !.delivery = "active",
                               !.status = IF job[r].status = "queued" THEN "running"
                                          ELSE job[r].status]]
    /\ UNCHANGED <<run, toolCalls, approvals, overdue, sends, emails, results,
                   intents, batch, session, faults>>

\* Mutant: the completed job leaves the ledger to the resumed run.
CompleteForgetsCall(r) ==
    /\ job[r].delivery \in {"active", "repeat"}
    /\ job' = [job EXCEPT ![r] =
                [job[r] EXCEPT !.status = "completed",
                               !.delivery = IF job[r].delivery = "active" THEN "repeat"
                                            ELSE "done"]]
    /\ intents' = IF job[r].status # "completed" /\ run[r].status = "waiting_for_tool"
                  THEN [intents EXCEPT ![r][job[r].call] = "pending"]
                  ELSE intents
    /\ UNCHANGED <<run, toolCalls, approvals, overdue, sends, emails, results, batch,
                   session, faults>>

\* completeReportJob, which the composed worker calls twice for every delivery.
CompleteReportJob(r) ==
    /\ job[r].delivery \in {"active", "repeat"}
    /\ job' = [job EXCEPT ![r] =
                [job[r] EXCEPT !.status = "completed",
                               !.delivery = IF job[r].delivery = "active" THEN "repeat"
                                            ELSE "done"]]
    /\ IF job[r].status = "completed"
       THEN UNCHANGED <<toolCalls, intents>>
       ELSE /\ toolCalls' = [toolCalls EXCEPT ![r][job[r].call] =
                                IF @ = "waiting_job" THEN "completed" ELSE @]
            /\ intents' = IF run[r].status = "waiting_for_tool"
                          THEN [intents EXCEPT ![r][job[r].call] = "pending"]
                          ELSE intents
    /\ UNCHANGED <<run, approvals, overdue, sends, emails, results, batch, session,
                   faults>>

\* A delivery fails part way; BullMQ delivers again until the attempts are used.
ReportAttemptFails(r) ==
    /\ job[r].delivery \in {"active", "repeat"}
    /\ job' = [job EXCEPT ![r] =
                [job[r] EXCEPT !.attempts = job[r].attempts - 1,
                               !.delivery = IF job[r].attempts > 1 THEN "queued"
                                            ELSE "failed"]]
    /\ UNCHANGED <<run, toolCalls, approvals, overdue, sends, emails, results,
                   intents, batch, session, faults>>

\* A worker that holds the current lease is still working under it.
HolderAlive(r) ==
    \E w \in Workers : /\ run[r].leaseOwner = w
                       /\ session[w].run = r
                       /\ IsCurrent(w)

\* The lease of a worker that is gone runs out.
LeaseLapses(r) ==
    /\ run[r].leaseOwner # None
    /\ ~run[r].leaseExpired
    /\ ~HolderAlive(r)
    /\ run[r].fencingVersion < MaxLapses
    /\ run' = [run EXCEPT ![r] = [run[r] EXCEPT !.leaseExpired = TRUE]]
    /\ UNCHANGED <<toolCalls, approvals, overdue, sends, emails, results, job,
                   intents, batch, session, faults>>

\* The lease runs out under a worker that is only slow (it is never renewed).
LeaseOutrun(r) ==
    /\ run[r].leaseOwner # None
    /\ ~run[r].leaseExpired
    /\ HolderAlive(r)
    /\ Fault
    /\ run' = [run EXCEPT ![r] = [run[r] EXCEPT !.leaseExpired = TRUE]]
    /\ UNCHANGED <<toolCalls, approvals, overdue, sends, emails, results, job,
                   intents, batch, session>>

\* The worker process dies; what was on its stack and in its listing is gone.
Crash(w) ==
    /\ ~At(w, "idle")
    /\ Fault
    /\ EndSession(w)
    /\ batch' = [batch EXCEPT ![w] = {}]
    /\ UNCHANGED <<dbVars, overdue, emails>>

-----------------------------------------------------------------------------

Resumption(w) ==
    \/ ReadRun(w) \/ CheckWait(w) \/ ReadAssignment(w)
    \/ ClaimRunLease(w) \/ ClaimRefused(w)
    \/ RestoreSession(w) \/ ResolveDeferredCall(w)
    \/ ReserveSimulatedSend(w) \/ ReserveRefused(w)
    \/ ExecuteApprovedSend(w) \/ CompleteSimulatedSend(w)
    \/ ResolveSimpleLoopWait(w)

AgentLoop(w) ==
    \/ ConsumeSimpleLoopStep(w) \/ BudgetExhausted(w)
    \/ PersistSimpleLoopSkill(w) \/ SkillRefused(w)
    \/ \E outcome \in {"completed", "failed"} : PersistToolOutcome(w, outcome)
    \/ \E outcome \in {"failed", "rejected"} : PersistMappedToolFailure(w, outcome)
    \/ EndGeneration(w) \/ FailAgent(w)
    \/ PersistReportWait(w) \/ ReportRefused(w) \/ EnqueueReport(w)
    \/ MarkReportDispatched(w) \/ PersistApprovalWait(w)
    \/ CompleteSimpleLoopRun(w) \/ AbandonStale(w)

WorkerStep(w) ==
    \/ ListPending(w) \/ PickIntent(w)
    \/ AcknowledgeSimpleLoopDispatch(w) \/ AcknowledgeStaleDispatch(w)
    \/ Resumption(w) \/ AgentLoop(w)

ReportStep(r) == RecordReportProgress(r) \/ CompleteReportJob(r)

AdminStep(r) ==
    \E c \in Calls :
        \/ \E decision \in {"approved", "rejected"} : DecideApproval(r, c, decision)
        \/ ExpireOnDecide(r, c)

Next ==
    \/ \E w \in Workers : WorkerStep(w) \/ FailBeforeStep(w) \/ EnqueueFails(w) \/ Crash(w)
    \/ \E r \in Runs :
        \/ ReportStep(r) \/ AdminStep(r)
        \/ ReportAttemptFails(r) \/ LeaseLapses(r) \/ LeaseOutrun(r)
        \/ \E c \in Calls : ApprovalDeadline(r, c)

Spec == Init /\ [][Next]_vars

\* A worker process keeps running its loop, the report worker keeps taking
\* deliveries, and time passes.  Nobody owes a decision, and faults need not
\* happen.
Fairness ==
    /\ \A w \in Workers : WF_vars(WorkerStep(w))
    /\ \A r \in Runs : WF_vars(ReportStep(r)) /\ WF_vars(LeaseLapses(r))

FairSpec == Spec /\ Fairness
-----------------------------------------------------------------------------
(* Properties.                                                             *)

\* A message that needs approval leaves at most once for its call, whoever
\* retries it and however stale the retrying worker is, and only if the
\* administrator approved that call (reserveSimulatedSend, executeApprovedSend).
OneEmailPerApproval ==
    \A r \in Runs, c \in Calls :
        /\ emails[r][c] <= 1
        /\ emails[r][c] = 1 => approvals[r][c] = "approved"

\* At most one session can write a run: a session whose version is still the
\* run's own holds the lease and the newest fencing version, and no other
\* session has that version (claimRunLease, lockSimpleLoopLease).
SingleWriter ==
    \A w \in Workers : IsCurrent(w) =>
        /\ run[session[w].run].leaseOwner = w
        /\ run[session[w].run].fencingVersion = session[w].fencing
        /\ \A u \in Workers \ {w} : IsCurrent(u) => session[u].run # session[w].run

\* A run that waits names a call that is really deferred, in the ledger and in
\* the table of jobs or approvals, and a run that does not wait has none left:
\* the status, the continuation, the ledger and the side tables, written by
\* four different handlers, never disagree.
WaitAgreement ==
    \A r \in Runs :
        LET row == run[r]  c == row.wait.call IN
        /\ row.status = "waiting_for_tool" =>
            /\ row.wait.kind = "report"
            /\ job[r].call = c
            /\ toolCalls[r][c] = IF job[r].status = "completed" THEN "completed"
                                 ELSE "waiting_job"
        /\ row.status = "waiting_for_admin" =>
            /\ row.wait.kind = "approval"
            /\ <<approvals[r][c], toolCalls[r][c]>> \in
                    {<<"pending", "approval_required">>, <<"approved", "running">>,
                     <<"rejected", "rejected">>, <<"expired", "approval_required">>}
        /\ row.status \in {"queued", "running", "completed"} => row.wait = NoWait

\* A run that somebody could work on has an intent that will bring a worker to
\* it: it is never acknowledged away while the run is queued, running, or
\* waiting for something that has already happened (acknowledge, the
\* pendingResult path, decideApproval, completeReportJob).
NoLostWakeup ==
    \A r \in Runs :
        \/ run[r].status \in {"queued", "running"}
        \/ run[r].status \in Waiting /\ WaitIsReady(r, run[r].wait)
        => \E i \in Intents : intents[r][i] = "pending"

\* The model is told the outcome of a deferred call once, and what it is told
\* is true: a send reported as completed was sent, one reported as rejected was
\* not, and a report reported as completed exists.
ResultsTold ==
    \A r \in Runs, c \in Calls :
        /\ results[r][c] <= 1
        /\ results[r][c] = 1 =>
            \/ toolCalls[r][c] = "completed" /\ emails[r][c] = 1 /\ sends[r][c] = "sent"
            \/ toolCalls[r][c] = "rejected" /\ approvals[r][c] = "rejected" /\ emails[r][c] = 0
            \/ toolCalls[r][c] = "completed" /\ job[r].call = c /\ job[r].status = "completed"

\* Most updates of a run or a call do not consult the transition tables of the
\* contracts (consumeSimpleLoopStep sets "running" over whatever was there);
\* their guards must keep to the tables all the same, also when a stale worker
\* or a late decision runs them.
LegalRunTransitions ==
    [][\A r \in Runs :
        run'[r].status # run[r].status =>
            <<run[r].status, run'[r].status>> \in RunTransitions]_vars

\* The same of the ledger's calls, the approvals and the jobs, which the agent loop,
\* the decision, the report's deliveries and the resumption write without looking
\* at each other.
LegalCallTransitions ==
    [][\A r \in Runs :
        /\ job'[r].status # job[r].status =>
            <<job[r].status, job'[r].status>> \in JobTransitions
        /\ \A c \in Calls :
            /\ toolCalls'[r][c] # toolCalls[r][c] =>
                <<toolCalls[r][c], toolCalls'[r][c]>> \in ToolCallTransitions
            /\ approvals'[r][c] # approvals[r][c] =>
                <<approvals[r][c], approvals'[r][c]>> \in ApprovalTransitions]_vars

\* completeSimpleLoopRun announces the change as one from "running" whatever the
\* row said.  The row says so, too, but for a run whose very first step met a call
\* that failed: that one is failed out of the queue, and never out of a wait.
EndsAnnounced ==
    [][\A r \in Runs :
        run[r].status \notin Terminal /\ run'[r].status \in Terminal =>
            \/ run[r].status = "running"
            \/ /\ run[r].status = "queued"
               /\ run'[r].status = "failed"
               /\ faults > 0]_vars

\* A run whose approved send can no longer be made and recorded: it was reserved
\* by a session that has lost the run, or its time has passed.
SendStranded(r) ==
    LET c == run[r].wait.call IN
    /\ run[r].status = "waiting_for_admin"
    /\ approvals[r][c] = "approved"
    /\ sends[r][c] # "none" \/ <<r, c>> \in overdue
    /\ \A w \in Workers :
        ~(session[w].run = r /\ session[w].pc \in {"send", "sent", "settle"} /\ LeaseHeld(w))

\* A run that waits for a report nobody will make: the job was accepted and never
\* handed to the queue, or the queue has given it up.
ReportStranded(r) ==
    /\ run[r].status = "waiting_for_tool"
    /\ job[r].status \in {"queued", "running"}
    /\ \/ job[r].delivery = "failed"
       \/ /\ job[r].delivery = "none"
          /\ \A w \in Workers : session[w].pc = "enqueue" => session[w].run # r

\* There is no way out of either: every retry of a send claims the lease again and
\* is refused by reserveSimulatedSend, no pending report.generate intent is ever
\* read, and nobody else can move the run.
StrandedForever ==
    [][\A r \in Runs :
        /\ SendStranded(r) => SendStranded(r)'
        /\ ReportStranded(r) => ReportStranded(r)']_vars

\* "Approving the request executes the protected action once." (README.md:72)
ApprovedIsExecuted ==
    \A r \in Runs, c \in Calls : approvals[r][c] = "approved" ~> emails[r][c] = 1

\* Every admitted run ends, whatever crashes on the way.
RunsEnd == \A r \in Runs : <>(run[r].status \in Terminal)

\* Every intent is acknowledged in the end.
IntentsDispatched ==
    \A r \in Runs, i \in Intents :
        intents[r][i] = "pending" ~> intents[r][i] = "dispatched"

\* A decided approval and a completed report bring the run on.
WaitsResume ==
    \A r \in Runs :
        run[r].status \in Waiting /\ WaitIsReady(r, run[r].wait)
            ~> run[r].status \notin Waiting

\* The run as its user, its administrator and its model see it: the call it waits
\* for, and what has become of a deferred call.
WaitsFor(r) == IF run[r].status \in Waiting THEN run[r].wait.call ELSE 0
AnswerTo(r, c) ==
    IF approvals[r][c] # "none" THEN approvals[r][c]
    ELSE IF job[r].call # c THEN "none"
    ELSE IF job[r].status = "completed" THEN "made" ELSE "ordered"

Promise == INSTANCE RunLifecycle WITH
    ReportsRevive <- FALSE,
    status <- [r \in Runs |-> run[r].status],
    steps <- [r \in Runs |-> run[r].consumedSteps],
    waitsFor <- [r \in Runs |-> WaitsFor(r)],
    answer <- [r \in Runs |-> [c \in Calls |-> AnswerTo(r, c)]],
    sent <- emails,
    told <- results

\* Whatever the workers, the administrator and the queue do to a run, in whatever
\* order, it lives as RunLifecycle says: a message leaves only while the run still
\* waits for it, though its sender may have lost the lease, and a decision meets
\* only a run that waits for it.
RunPromise == Promise!Spec
=============================================================================
