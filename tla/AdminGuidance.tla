---------------------------- MODULE AdminGuidance ----------------------------
(***************************************************************************)
(* The administrator's hidden commands.  A command waits in its            *)
(* conversation until a run of it comes to a model step: the executor      *)
(* claims the oldest one at that boundary, in a transaction of its own,    *)
(* pays for the step in a second one, which stores the claimed command in  *)
(* the run's continuation, and puts the instruction before the messages of *)
(* the model call.                                                         *)
(*                                                                         *)
(* The claim is guarded by the run's status and by the boundary's key, not *)
(* by the lease or the version that guard every other transaction of an    *)
(* executor.  An executor is a session of the simple loop or an attempt of *)
(* the workflow's activity; how leases, deferred calls and attempts work   *)
(* is the matter of SimpleLoop and StateWorkflow.                          *)
(***************************************************************************)
EXTENDS Naturals, FiniteSets

CONSTANTS
    Runs,          \* runs of the conversation
    Executors,     \* sessions or attempts that can be under way at a time
    None,          \* no run, no command
    Submissions,   \* commands the administrator submits, by idempotency key
    StepBudget,    \* LOOP_STEP_BUDGET
    MaxFaults,     \* bound: executors that die, and calls of theirs that fail
    MaxOverlaps    \* bound: executors superseded while they still run

\* A command is named by its createdAt, which orders the queue; its idempotency
\* key makes a repeated submission return the stored command.
Commands == 1..Submissions

ASSUME ConstantsAssumption ==
    /\ None \notin Runs \cup Nat
    /\ Submissions \in Nat
    /\ StepBudget \in Nat \ {0}
    /\ MaxFaults \in Nat
    /\ MaxOverlaps \in Nat

VARIABLES
    command,   \* row of admin_commands: status and the boundary that took it
    overdue,   \* commands whose expiresAt has passed
    run,       \* row of runs: runtime, status, version, steps, stored guidance
    executor,  \* executor[e]: what the session or attempt holds in memory
    heard,     \* heard[c]: model calls <<run, step>> made with the instruction
    faults,    \* executors that died, calls that failed (bounded by MaxFaults)
    overlaps   \* executors superseded (bounded by MaxOverlaps)

vars == <<command, overdue, run, executor, heard, faults, overlaps>>

-----------------------------------------------------------------------------

Active == {"queued", "running"}
Terminal == {"completed", "failed"}
Steps == 1..(StepBudget + 1)

\* The boundary's key is run and step; NoBoundary until the command is applied.
NoBoundary == <<None, 0>>
CommandRows ==
    [status: {"none", "accepted", "applied", "expired"},
     boundary: {NoBoundary} \cup (Runs \X Steps)]

RunRows ==
    [runtime: {"simple_loop", "state_workflow"},
     status: Active \cup {"waiting"} \cup Terminal, version: Nat,
     consumedSteps: 0..StepBudget, guidance: Commands \cup {None}]

Memories ==
    [pc: {"idle", "restore", "resolve", "prompt", "consume", "call", "tool", "fail"},
     run: Runs \cup {None}, version: Nat, consumedSteps: 0..StepBudget,
     guidance: Commands \cup {None}]

Idle == [pc |-> "idle", run |-> None, version |-> 0, consumedSteps |-> 0, guidance |-> None]

TypeOK ==
    /\ command \in [Commands -> CommandRows]
    /\ overdue \subseteq Commands
    /\ run \in [Runs -> RunRows]
    /\ executor \in [Executors -> Memories]
    /\ heard \in [Commands -> SUBSET (Runs \X Steps)]
    /\ faults \in 0..MaxFaults
    /\ overlaps \in 0..MaxOverlaps

Init ==
    /\ command = [c \in Commands |-> [status |-> "none", boundary |-> NoBoundary]]
    /\ overdue = {}
    /\ \E runtime \in [Runs -> {"simple_loop", "state_workflow"}] :
        run = [r \in Runs |-> [runtime |-> runtime[r], status |-> "queued", version |-> 0,
                               consumedSteps |-> 0, guidance |-> None]]
    /\ executor = [e \in Executors |-> Idle]
    /\ heard = [c \in Commands |-> {}]
    /\ faults = 0
    /\ overlaps = 0

\* A run of the simple loop; an activity of the other runtime has no lease.
Leased(r) == run[r].runtime = "simple_loop"

At(e, pc) == executor[e].pc = pc
Becomes(e, memory) == executor' = [executor EXCEPT ![e] = memory]
Go(e, pc) == Becomes(e, [executor[e] EXCEPT !.pc = pc])
Ends(e) == Becomes(e, Idle)

Current(e) == run[executor[e].run].version = executor[e].version

\* A transaction of the executor: its version is checked, and moved.
Persist(e, row) ==
    /\ Current(e)
    /\ run' = [run EXCEPT ![executor[e].run] = [row EXCEPT !.version = row.version + 1]]

\* What an executor that goes on holds after such a transaction.
Advanced(e, pc) == [executor[e] EXCEPT !.pc = pc, !.version = executor[e].version + 1]

-----------------------------------------------------------------------------
(* The administrator.                                                      *)

\* submitAdminCommand
SubmitAdminCommand(c) ==
    /\ command[c].status = "none"
    /\ command' = [command EXCEPT ![c].status = "accepted"]
    /\ UNCHANGED <<overdue, run, executor, heard, faults, overlaps>>

\* The command's expiresAt passes; nothing is written until the next claim.
Deadline(c) ==
    /\ command[c].status = "accepted"
    /\ overdue' = overdue \cup {c}
    /\ UNCHANGED <<command, run, executor, heard, faults, overlaps>>

-----------------------------------------------------------------------------
(* An executor takes a run.                                                *)

\* A session's claim of the lease moves the version, an attempt only reads it.
Take(e, r) ==
    LET version == IF Leased(r) THEN run[r].version + 1 ELSE run[r].version IN
    /\ At(e, "idle")
    /\ run[r].status \notin Terminal
    /\ run' = [run EXCEPT ![r].version = version]
    /\ Becomes(e, [Idle EXCEPT !.pc = "restore", !.run = r, !.version = version])
    /\ UNCHANGED <<command, overdue, heard, faults>>

StartExecutor(e, r) ==
    /\ \A f \in Executors : executor[f].run # r
    /\ Take(e, r)
    /\ UNCHANGED overlaps

\* The lease ran out, or the attempt was timed out, under an executor that goes on.
SupersedeExecutor(e, r) ==
    /\ overlaps < MaxOverlaps
    /\ \E f \in Executors : executor[f].run = r
    /\ Take(e, r)
    /\ overlaps' = overlaps + 1

\* Mutant: the stored guidance is not read back.
RestoreForgets(e) ==
    /\ At(e, "restore")
    /\ LET row == run[executor[e].run] IN
       IF row.status \in Terminal
       THEN Ends(e)
       ELSE Becomes(e, [executor[e] EXCEPT
                !.pc = IF row.status = "waiting" THEN "resolve" ELSE "prompt",
                !.consumedSteps = row.consumedSteps,
                !.version = IF Leased(executor[e].run) THEN @ ELSE row.version])
    /\ UNCHANGED <<command, overdue, run, heard, faults, overlaps>>

\* The continuation, with the guidance stored in it.  The simple loop reads it
\* after its claim, with the version the claim returned.
Restore(e) ==
    /\ At(e, "restore")
    /\ LET row == run[executor[e].run] IN
       IF row.status \in Terminal
       THEN Ends(e)
       ELSE Becomes(e, [executor[e] EXCEPT
                !.pc = IF row.status = "waiting" THEN "resolve" ELSE "prompt",
                !.consumedSteps = row.consumedSteps, !.guidance = row.guidance,
                !.version = IF Leased(executor[e].run) THEN @ ELSE row.version])
    /\ UNCHANGED <<command, overdue, run, heard, faults, overlaps>>

\* The deferred call is answered.  In the workflow this is an activity of its own.
ResolveWait(e) ==
    /\ At(e, "resolve")
    /\ Persist(e, [run[executor[e].run] EXCEPT !.status = "running"])
    /\ IF Leased(executor[e].run)
       THEN Becomes(e, Advanced(e, "prompt"))
       ELSE Ends(e)
    /\ UNCHANGED <<command, overdue, heard, faults, overlaps>>

-----------------------------------------------------------------------------
(* Before the model call: the boundary and the step.                       *)

Boundary(e) == <<executor[e].run, executor[e].consumedSteps + 1>>

AppliedAt(boundary) == {c \in Commands : command[c].boundary = boundary}

Oldest(commands) == CHOOSE c \in commands : \A d \in commands : c <= d

\* Mutant: a command that was applied can be claimed again.
ClaimAppliedToo(e) ==
    /\ At(e, "prompt")
    /\ executor[e].guidance = None
    /\ run[executor[e].run].status \in Active
    /\ LET pending == {c \in Commands : command[c].status \in {"accepted", "applied"}}
           guidance == IF pending = {} THEN None ELSE Oldest(pending)
       IN /\ command' = [command EXCEPT ![IF guidance = None THEN 1 ELSE guidance] =
                            IF guidance = None THEN @
                            ELSE [status |-> "applied", boundary |-> Boundary(e)]]
          /\ Becomes(e, [executor[e] EXCEPT !.pc = "consume", !.guidance = guidance])
    /\ UNCHANGED <<overdue, run, heard, faults, overlaps>>

\* Mutant: the boundary's own command is not looked up first.
ClaimAgain(e) ==
    /\ At(e, "prompt")
    /\ executor[e].guidance = None
    /\ run[executor[e].run].status \in Active
    /\ LET late == {c \in overdue : command[c].status = "accepted"}
           pending == {c \in Commands : command[c].status = "accepted"} \ late
           guidance == IF pending = {} THEN None ELSE Oldest(pending)
       IN /\ command' = [c \in Commands |->
                IF c \in late THEN [command[c] EXCEPT !.status = "expired"]
                ELSE IF c = guidance
                     THEN [status |-> "applied", boundary |-> Boundary(e)]
                     ELSE command[c]]
          /\ Becomes(e, [executor[e] EXCEPT !.pc = "consume", !.guidance = guidance])
    /\ UNCHANGED <<overdue, run, heard, faults, overlaps>>

\* claimAdminCommandAtBoundary: the command this boundary has taken before, or
\* else the oldest that waits, after those whose time has passed are expired.
ClaimAdminCommandAtBoundary(e) ==
    /\ At(e, "prompt")
    /\ executor[e].guidance = None
    /\ run[executor[e].run].status \in Active
    /\ LET replay == AppliedAt(Boundary(e))
           late == {c \in overdue : command[c].status = "accepted"}
           pending == {c \in Commands : command[c].status = "accepted"} \ late
           guidance == IF replay # {} THEN Oldest(replay)
                       ELSE IF pending # {} THEN Oldest(pending)
                       ELSE None
       IN /\ IF replay # {}
             THEN UNCHANGED command
             ELSE command' = [c \in Commands |->
                    IF c \in late THEN [command[c] EXCEPT !.status = "expired"]
                    ELSE IF c = guidance
                         THEN [status |-> "applied", boundary |-> Boundary(e)]
                         ELSE command[c]]
          /\ Becomes(e, [executor[e] EXCEPT !.pc = "consume", !.guidance = guidance])
    /\ UNCHANGED <<overdue, run, heard, faults, overlaps>>

\* InvalidAdminCommandError: the run has been brought to a wait or its end by
\* somebody else, and the failure that follows is refused, too.
ClaimRefused(e) ==
    /\ At(e, "prompt")
    /\ executor[e].guidance = None
    /\ run[executor[e].run].status \notin Active
    /\ Ends(e)
    /\ UNCHANGED <<command, overdue, run, heard, faults, overlaps>>

\* Guidance that is in hand already is only read again (readAdminCommand).
KeepGuidance(e) ==
    /\ At(e, "prompt")
    /\ executor[e].guidance # None
    /\ Go(e, "consume")
    /\ UNCHANGED <<command, overdue, run, heard, faults, overlaps>>

\* Mutant: the step budget is not looked at.
ConsumeWithoutBudget(e) ==
    /\ At(e, "consume")
    /\ LET row == run[executor[e].run] IN
       /\ Persist(e, [row EXCEPT !.status = "running", !.guidance = executor[e].guidance,
                                 !.consumedSteps = row.consumedSteps + 1])
       /\ Becomes(e, [Advanced(e, "call") EXCEPT !.consumedSteps = row.consumedSteps + 1])
    /\ UNCHANGED <<command, overdue, heard, faults, overlaps>>

\* Mutant: the step is paid for with the continuation of the last one.
ConsumeKeepsContext(e) ==
    /\ At(e, "consume")
    /\ LET row == run[executor[e].run] IN
       /\ row.consumedSteps < StepBudget
       /\ Persist(e, [row EXCEPT !.status = "running",
                                 !.consumedSteps = row.consumedSteps + 1])
       /\ Becomes(e, [Advanced(e, "call") EXCEPT !.consumedSteps = row.consumedSteps + 1])
    /\ UNCHANGED <<command, overdue, heard, faults, overlaps>>

\* consumeSimpleLoopStep, consumeStateWorkflowStep
ConsumeStep(e) ==
    /\ At(e, "consume")
    /\ LET row == run[executor[e].run] IN
       /\ row.consumedSteps < StepBudget
       /\ Persist(e, [row EXCEPT !.status = "running", !.guidance = executor[e].guidance,
                                 !.consumedSteps = row.consumedSteps + 1])
       /\ Becomes(e, [Advanced(e, "call") EXCEPT !.consumedSteps = row.consumedSteps + 1])
    /\ UNCHANGED <<command, overdue, heard, faults, overlaps>>

BudgetExhausted(e) ==
    /\ At(e, "consume")
    /\ Current(e)
    /\ run[executor[e].run].consumedSteps >= StepBudget
    /\ Go(e, "fail")
    /\ UNCHANGED <<command, overdue, run, heard, faults, overlaps>>

\* The claim or the step's transaction fails, and with it the run.
FailBeforeStep(e) ==
    /\ executor[e].pc \in {"prompt", "consume"}
    /\ faults < MaxFaults
    /\ faults' = faults + 1
    /\ Go(e, "fail")
    /\ UNCHANGED <<command, overdue, run, heard, overlaps>>

-----------------------------------------------------------------------------
(* The model call and what follows it.                                     *)

Hears(e) ==
    heard' = [c \in Commands |->
                IF c = executor[e].guidance
                THEN heard[c] \cup {<<executor[e].run, executor[e].consumedSteps>>}
                ELSE heard[c]]

\* Mutant: the guidance stays in hand after the call.
CallKeepsGuidance(e) ==
    /\ At(e, "call")
    /\ Hears(e)
    /\ Go(e, "tool")
    /\ UNCHANGED <<command, overdue, run, faults, overlaps>>

\* The provider answers (afterGenerate forgets the guidance), or returns one of its
\* errors, thrown at once: nothing is tried again here, and the guidance is kept.
Generated(e) == Becomes(e, [executor[e] EXCEPT !.pc = "tool", !.guidance = None])
GenerationFails(e) == Go(e, "fail")

CallModel(e) ==
    /\ At(e, "call")
    /\ Hears(e)
    /\ Generated(e) \/ GenerationFails(e)
    /\ UNCHANGED <<command, overdue, run, faults, overlaps>>

\* A loaded skill or a tool's outcome is stored with the continuation, an unknown
\* skill is not; the loop prompts again while it has steps left.
AnswerTool(e) ==
    /\ At(e, "tool")
    /\ LET next == IF executor[e].consumedSteps < StepBudget THEN "prompt" ELSE "fail" IN
       \/ /\ Persist(e, [run[executor[e].run] EXCEPT !.guidance = executor[e].guidance])
          /\ Becomes(e, Advanced(e, next))
       \/ /\ Go(e, next)
          /\ UNCHANGED run
    /\ UNCHANGED <<command, overdue, heard, faults, overlaps>>

\* The run waits for a deferred call, or ends with the model's answer.
LeaveRun(e, status) ==
    /\ At(e, "tool")
    /\ Persist(e, [run[executor[e].run] EXCEPT !.status = status,
                                               !.guidance = executor[e].guidance])
    /\ Ends(e)
    /\ UNCHANGED <<command, overdue, heard, faults, overlaps>>

FailRun(e) ==
    /\ At(e, "fail")
    /\ Persist(e, [run[executor[e].run] EXCEPT !.status = "failed",
                                               !.guidance = executor[e].guidance])
    /\ Ends(e)
    /\ UNCHANGED <<command, overdue, heard, faults, overlaps>>

\* Every other transaction of an executor that was superseded throws.
AbandonStale(e) ==
    /\ executor[e].pc \in {"resolve", "consume", "tool", "fail"}
    /\ ~Current(e)
    /\ Ends(e)
    /\ UNCHANGED <<command, overdue, run, heard, faults, overlaps>>

Crash(e) ==
    /\ ~At(e, "idle")
    /\ faults < MaxFaults
    /\ faults' = faults + 1
    /\ Ends(e)
    /\ UNCHANGED <<command, overdue, run, heard, overlaps>>

-----------------------------------------------------------------------------

ExecutorStep(e) ==
    \/ \E r \in Runs : StartExecutor(e, r)
    \/ Restore(e) \/ ResolveWait(e)
    \/ ClaimAdminCommandAtBoundary(e) \/ ClaimRefused(e) \/ KeepGuidance(e)
    \/ ConsumeStep(e) \/ BudgetExhausted(e) \/ CallModel(e) \/ AnswerTool(e)
    \/ \E status \in {"waiting", "completed"} : LeaveRun(e, status)
    \/ FailRun(e) \/ AbandonStale(e)

Next ==
    \/ \E c \in Commands : SubmitAdminCommand(c) \/ Deadline(c)
    \/ \E e \in Executors :
        \/ ExecutorStep(e) \/ FailBeforeStep(e) \/ Crash(e)
        \/ \E r \in Runs : SupersedeExecutor(e, r)

Spec == Init /\ [][Next]_vars

-----------------------------------------------------------------------------
(* Properties.                                                             *)

\* Guidance in an executor's hands or in a continuation is a command that was
\* applied to that run, although the claim is not fenced; and a boundary never has
\* two commands, so that a repeated claim gets the first one's answer.
GuidanceIsBound ==
    /\ \A e \in Executors : executor[e].guidance # None =>
        command[executor[e].guidance].boundary[1] = executor[e].run
    /\ \A r \in Runs : run[r].guidance # None =>
        command[run[r].guidance].boundary[1] = r
    /\ \A c, d \in Commands :
        command[c].status = "applied" /\ command[c].boundary = command[d].boundary => c = d

\* The model hears a command at one step, and at one more for every executor that
\* was lost with the answer of a step it had paid for.
HeardOncePerLoss == \A c \in Commands : Cardinality(heard[c]) <= 1 + faults + overlaps

\* The step a boundary belongs to is paid for with the boundary's command in the
\* continuation, also after a crash between the two transactions, unless the
\* continuation has held an earlier command since such a crash, or an executor was
\* superseded: then the boundary's command is applied and passed over.
GuidanceGoesWithItsStep ==
    [][\A r \in Runs, c \in Commands :
        /\ overlaps = 0
        /\ run'[r].consumedSteps > run[r].consumedSteps
        /\ command[c].boundary = <<r, run'[r].consumedSteps>>
        => run'[r].guidance = c \/ (faults > 0 /\ run[r].guidance # None)]_vars

\* Guidance leaves the run's continuation only after the model has heard it,
\* whichever executor crashed or was superseded in between.
StoredGuidanceIsHeard ==
    [][\A r \in Runs, c \in Commands :
        run[r].guidance = c /\ run'[r].guidance # c => heard[c] # {}]_vars

\* A command that is recorded as applied and was not heard: its run has ended or
\* has paid for the boundary's step with another command, and no executor can say
\* it any more.
Lost(c) ==
    LET r == command[c].boundary[1]  step == command[c].boundary[2] IN
    /\ command[c].status = "applied"
    /\ heard[c] = {}
    /\ \/ run[r].status \in Terminal
       \/ run[r].consumedSteps >= step /\ run[r].guidance # c
    /\ \A e \in Executors : executor[e].guidance = c => ~At(e, "call") /\ ~Current(e)

\* There is no way out of it, for the run or another one, crash or no crash:
\* "apply it once at the next safe run boundary"
\* (docs/agentic-chat-mvp-development-blueprint.md:182) is what the command's
\* record says and not what happened.
LostForGood == [][\A c \in Commands : Lost(c) => Lost(c)']_vars
=============================================================================
