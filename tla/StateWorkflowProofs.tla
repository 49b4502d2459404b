------------------------- MODULE StateWorkflowProofs --------------------------
(*****************************************************************************)
(* Theorems about StateWorkflow, for every number of runs, slots, attempts   *)
(* and faults.  No attempt ever holds a run for itself: one that was timed   *)
(* out goes on beside its successor.  Two things keep them apart, the run's  *)
(* version and the row of a reservation, and the invariants follow these.    *)
(* At the end, the run is shown to live as RunLifecycle promises.            *)
(*****************************************************************************)
EXTENDS StateWorkflow, FiniteSets, TLAPS

(*****************************************************************************)
(* The invariants.                                                           *)
(*****************************************************************************)

\* Locations at which an attempt holds a version it will insist on, and those at
\* which it applies a signal.
Applying == {"reserve", "send", "sent", "settle"}
Fenced == {"prompt", "model", "enqueue", "mark", "finish"} \cup Applying

WaitOf(signal) == [kind |-> signal.kind, call |-> signal.call]

\* What an attempt that applies a signal carries.
SignalledOK(s) ==
    /\ s.awaited => s.pc # "idle"
    /\ s.pc \in Applying => s.signal # NoSignal /\ s.wait = WaitOf(s.signal)
    /\ s.pc \in {"reserve", "send", "sent"} => s.signal.decision = "approved"

RunOK == run \in [Runs -> RunRows]

SessionOK ==
    /\ session \in [Slots -> Sessions]
    /\ \A x \in Slots :
        /\ session[x].pc # "idle" => session[x].run \in Runs
        /\ SignalledOK(session[x])

\* An activity is retried only where the workflow calls one.
CalledOK(wf) ==
    (wf.task = "scheduled" \/ wf.attemptsLeft > 0) => wf.phase \in {"start", "advance", "apply"}

WorkflowOK == workflow \in [Runs -> Workflows] /\ \A r \in Runs : CalledOK(workflow[r])

JobOK ==
    /\ job \in [Runs -> JobRows]
    /\ \A r \in Runs : job[r].status # "none" => job[r].call \in Calls

OutboxOK == outbox \in Seq([run: Runs, signal: Signals \ {NoSignal}])

LedgerOK ==
    /\ toolCalls \in [Runs -> [Calls -> CallStatuses]]
    /\ approvals \in [Runs -> [Calls -> ApprovalStatuses]]
    /\ overdue \subseteq Runs \X Calls
    /\ sends \in [Runs -> [Calls -> {"none", "reserved", "sent"}]]
    /\ emails \in [Runs -> [Calls -> Nat]]
    /\ results \in [Runs -> [Calls -> Nat]]
    /\ starts \in [Runs -> {"pending", "dispatched"}]
    /\ reconciler \in {"idle", "mark"}
    /\ faults \in 0..MaxFaults

\* A call of the model was paid for with a step.
StepPaid == \A x \in Slots : session[x].pc = "model" => run[session[x].run].consumedSteps >= 1

\* A signal that is being delivered is still in the outbox.
Delivering == reconciler = "mark" => outbox # <<>>

TypeInv ==
    /\ RunOK /\ SessionOK /\ WorkflowOK /\ JobOK /\ OutboxOK /\ LedgerOK
    /\ StepPaid /\ Delivering

\* A version is never ahead of the row's.
Behind ==
    \A x \in Slots : session[x].pc \in Fenced => session[x].version <= run[session[x].run].version

\* Only an attempt that fails the run leaves it a wait, and then one for a report.
CarriesOK(s) ==
    /\ s.pc \in {"prompt", "model"} => s.wait = NoWait
    /\ s.pc \in {"enqueue", "mark"} => s.wait.kind = "report"
    /\ s.pc = "finish" => s.wait = NoWait \/ (s.fatal /\ s.wait.kind = "report")

Carries == \A x \in Slots : CarriesOK(session[x])

\* What the row is to an attempt that has its version.
MeetsOK(s, row, call, result) ==
    /\ s.pc = "prompt" => row.status \in {"queued", "running"}
    /\ s.pc = "model" => row.status = "running" /\ call[row.consumedSteps] = "none"
    /\ s.pc \in {"enqueue", "mark"} => row.status = "waiting_for_tool" /\ row.wait = s.wait
    /\ s.pc = "finish" =>
        /\ \/ row.status = "running" /\ (s.wait # NoWait => call[s.wait.call] = "none")
           \/ row.status = "queued" /\ s.fatal /\ s.wait = NoWait
           \/ row.status = "waiting_for_tool" /\ s.fatal /\ row.wait = s.wait
        /\ s.wait # NoWait => result[s.wait.call] = 0
    /\ s.pc \in Applying => row.wait = s.wait

Meets(x) ==
    (session[x].pc \in Fenced /\ Current(x)) =>
        MeetsOK(session[x], run[session[x].run], toolCalls[session[x].run],
                results[session[x].run])

Met == \A x \in Slots : Meets(x)

\* A row's wait belongs to its status and has not been answered, and the calls of
\* a run are numbered by the steps it took.
RowOK(row, call, result) ==
    /\ row.status = "queued" => row.consumedSteps = 0
    /\ row.status \in {"queued", "running", "completed"} => row.wait = NoWait
    /\ row.status = "waiting_for_tool" => row.wait.kind = "report"
    /\ row.status = "waiting_for_admin" => row.wait.kind = "approval"
    /\ row.status = "failed" => row.wait = NoWait \/ row.wait.kind = "report"
    /\ row.wait # NoWait => result[row.wait.call] = 0
    /\ \A c \in Calls : call[c] # "none" => c <= row.consumedSteps

Rows == \A r \in Runs : RowOK(run[r], toolCalls[r], results[r])

FenceInv == Behind /\ Carries /\ Met /\ Rows

\* The status of a call follows that of its approval.
AnswerOf(approval, call) ==
    \/ approval = "none" /\ call \notin {"approval_required", "running"}
    \/ approval \in {"pending", "expired"} /\ call = "approval_required"
    \/ approval = "approved" /\ call \in {"running", "completed"}
    \/ approval = "rejected" /\ call = "rejected"

Answered == \A r \in Runs, c \in Calls : AnswerOf(approvals[r][c], toolCalls[r][c])

JobAgrees(r) ==
    /\ job[r].status \in {"queued", "running"} => toolCalls[r][job[r].call] = "waiting_job"
    /\ job[r].status = "completed" => toolCalls[r][job[r].call] = "completed"

Reported == \A r \in Runs : JobAgrees(r)

WaitAgrees(r) ==
    LET c == run[r].wait.call IN
    /\ run[r].status = "waiting_for_tool" => job[r].status # "none" /\ job[r].call = c
    /\ run[r].status = "waiting_for_admin" =>
        approvals[r][c] # "none" /\ toolCalls[r][c] # "completed"

Awaited == \A r \in Runs : WaitAgrees(r)

\* A signal under way says what has happened.
IsTrue(r, signal) ==
    \/ signal = NoSignal
    \/ signal.kind = "report" /\ job[r].status = "completed" /\ job[r].call = signal.call
    \/ signal.kind = "approval" /\ approvals[r][signal.call] = signal.decision

TrueWorkflow(r, wf) == IsTrue(r, wf.accepted) /\ IsTrue(r, wf.input)

TrueSignals ==
    /\ \A i \in 1..Len(outbox) : IsTrue(outbox[i].run, outbox[i].signal)
    /\ \A r \in Runs : TrueWorkflow(r, workflow[r])
    /\ \A x \in Slots : session[x].pc # "idle" => IsTrue(session[x].run, session[x].signal)

\* The body of ResultsTold, for one call.
ToldTruly(r, c) ==
    /\ results[r][c] <= 1
    /\ results[r][c] = 1 =>
        \/ toolCalls[r][c] = "completed" /\ emails[r][c] = 1 /\ sends[r][c] = "sent"
        \/ toolCalls[r][c] = "rejected" /\ approvals[r][c] = "rejected" /\ emails[r][c] = 0
        \/ toolCalls[r][c] = "completed" /\ job[r].call = c /\ job[r].status = "completed"

Told == \A r \in Runs, c \in Calls : ToldTruly(r, c)

BooksInv == Answered /\ Reported /\ Awaited /\ TrueSignals /\ Told

\* A call's email was reserved, and a reservation was approved; an attempt about to
\* send holds the call's only reservation, whatever attempts run beside it.
SentOnce ==
    \A r \in Runs, c \in Calls :
        /\ emails[r][c] \in {0, 1}
        /\ emails[r][c] = 1 => sends[r][c] # "none"
        /\ sends[r][c] # "none" => approvals[r][c] = "approved"

Cell(x) == <<session[x].run, session[x].wait.call>>

Sends(x) ==
    LET r == session[x].run
        c == session[x].wait.call IN
    /\ session[x].pc = "send" =>
        /\ sends[r][c] = "reserved" /\ emails[r][c] = 0
        /\ \A y \in Slots \ {x} : session[y].pc = "send" => Cell(y) # Cell(x)
    /\ session[x].pc = "sent" => emails[r][c] = 1
    /\ (session[x].pc = "settle" /\ session[x].signal.decision = "approved") =>
        emails[r][c] = 1 /\ sends[r][c] = "sent"

AboutToSend == \A x \in Slots : Sends(x)

EmailInv == SentOnce /\ AboutToSend

Inv == TypeInv /\ FenceInv /\ BooksInv /\ EmailInv

(*****************************************************************************)
(* Types of what the actions read and write.                                 *)
(*****************************************************************************)

LEMMA ConstantFacts ==
    /\ StepBudget \in Nat /\ StepBudget >= 1
    /\ ActivityAttempts \in Nat /\ ActivityAttempts >= 1
    /\ MaxFaults \in Nat
    /\ Skills \subseteq SkillNames
  BY ConstantsAssumption

LEMMA CallFacts == Calls \subseteq Nat \ {0} /\ Calls \subseteq 0..StepBudget
  BY ConstantFacts DEF Calls

LEMMA IdleFacts ==
    /\ NoWait \in Waits /\ NoSignal \in Signals
    /\ Idle \in Sessions /\ Idle.pc = "idle" /\ ~Idle.awaited /\ Idle.signal = NoSignal
    /\ NoJob \in JobRows
  BY ConstantFacts DEF NoWait, Waits, NoSignal, Signals, Idle, Sessions, Results, NoJob, JobRows

LEMMA SessionTypes ==
    ASSUME TypeInv, NEW x \in Slots
    PROVE  /\ session[x] \in Sessions
           /\ session[x].version \in Nat /\ session[x].wait \in Waits
           /\ session[x].signal \in Signals /\ session[x].fatal \in BOOLEAN
           /\ session[x].awaited \in BOOLEAN
           /\ session[x].pc # "idle" =>
                session[x].run \in Runs /\ run[session[x].run] \in RunRows
  BY DEF TypeInv, SessionOK, RunOK, Sessions

LEMMA RowTypes ==
    ASSUME NEW row \in RunRows
    PROVE  /\ row.status \in Statuses /\ row.version \in Nat
           /\ row.consumedSteps \in 0..StepBudget /\ row.consumedSteps \in Nat
           /\ row.wait \in Waits /\ row.fatal \in BOOLEAN
  BY ConstantFacts DEF RunRows

LEMMA WaitCalls ==
    ASSUME NEW wait \in Waits
    PROVE  wait # NoWait => wait.call \in Calls /\ wait.kind \in {"report", "approval"}
  BY DEF Waits

LEMMA SignalCalls ==
    ASSUME NEW signal \in Signals
    PROVE  /\ signal # NoSignal =>
                /\ signal.call \in Calls /\ WaitOf(signal) \in Waits /\ WaitOf(signal) # NoWait
                /\ \/ signal.kind = "report" /\ signal.decision = "completed"
                   \/ signal.kind = "approval" /\ signal.decision \in {"approved", "rejected"}
           /\ signal = NoSignal => signal.kind = "none" /\ signal.decision = "none"
<1>1. CASE signal = NoSignal
  BY <1>1 DEF NoSignal
<1>2. CASE signal # NoSignal
  <2>1. /\ signal.call \in Calls
        /\ \/ signal.kind = "report" /\ signal.decision = "completed"
           \/ signal.kind = "approval" /\ signal.decision \in {"approved", "rejected"}
    BY <1>2 DEF Signals
  <2>2. WaitOf(signal) \in Waits
    BY <2>1 DEF WaitOf, Waits
  <2>3. WaitOf(signal) # NoWait
    BY <2>1 DEF WaitOf, NoWait
  <2> QED
    BY <1>2, <2>1, <2>2, <2>3
<1> QED
  BY <1>1, <1>2

\* The model's call is a call of the ledger.
LEMMA ModelCall ==
    ASSUME TypeInv, NEW x \in Slots, session[x].pc = "model"
    PROVE  /\ session[x].run \in Runs /\ run[session[x].run].consumedSteps \in Calls
           /\ \A kind \in {"report", "approval"} :
                [kind |-> kind, call |-> run[session[x].run].consumedSteps] \in Waits \ {NoWait}
<1>1. session[x].run \in Runs /\ run[session[x].run].consumedSteps \in Calls
  BY SessionTypes, RowTypes DEF TypeInv, StepPaid, Calls
<1> QED
  BY <1>1 DEF Waits, NoWait

(*****************************************************************************)
(* What a step does to an attempt and to its run's row.                      *)
(*****************************************************************************)

OnlySession(x) ==
    /\ session' \in [Slots -> Sessions]
    /\ \A y \in Slots \ {x} : session'[y] = session[y]

OnlyRun(r) ==
    /\ run' \in [Runs -> RunRows]
    /\ \A q \in Runs \ {r} : run'[q] = run[q]

SameAttempt(s, t) == s.pc # "idle" /\ t.run = s.run /\ t.signal = s.signal

\* A step from one place that insists on a version to the next, without a write.
GoesOn(s, t, row) ==
    /\ s.pc \in Fenced /\ t.pc \in Fenced /\ t.version = s.version
    /\ \/ t.pc = s.pc /\ t.wait = s.wait /\ t.fatal = s.fatal
       \/ /\ s.pc = "prompt" /\ t.pc = "finish" /\ t.wait = s.wait /\ t.fatal
          /\ s.version = row.version
       \/ /\ s.pc = "model" /\ t.pc \in {"prompt", "finish"} /\ t.wait = s.wait
          /\ s.version = row.version
       \/ /\ s.pc = "model" /\ t.pc = "finish" /\ t.fatal
          /\ t.wait = [kind |-> "report", call |-> row.consumedSteps]
          /\ s.version = row.version
       \/ s.pc = "enqueue" /\ t.pc = "mark" /\ t.wait = s.wait
       \/ s.pc \in {"enqueue", "mark"} /\ t.pc = "finish" /\ t.wait = s.wait /\ t.fatal
       \/ /\ s.pc \in {"reserve", "send", "sent"} /\ t.pc \in {"send", "sent", "settle"}
          /\ t.wait = s.wait

Sending(x) == ReserveSimulatedSend(x) \/ ExecuteApprovedSend(x) \/ CompleteSimulatedSend(x)

\* An attempt moves, and nothing the version guards is written.
SoftMove(x) ==
    LET s == session[x]
        t == session'[x]
        row == run[session[x].run] IN
    /\ OnlySession(x)
    /\ UNCHANGED <<run, toolCalls, results>>
    /\ t.pc # "idle" => t.run \in Runs
    /\ SignalledOK(t)
    /\ \/ t.pc = "idle"
       \/ StartAttempt(x) /\ t.pc \in {"start", "advance", "apply"}
       \/ SameAttempt(s, t) /\ t.pc \in {"start", "advance", "apply", "return"}
       \/ /\ SameAttempt(s, t) /\ s.pc = "advance" /\ t.pc = "prompt"
          /\ t.version = row.version /\ t.wait = row.wait
          /\ row.status \notin Terminal /\ (row.wait = NoWait \/ row.status = "running")
       \/ /\ SameAttempt(s, t) /\ s.pc = "apply" /\ t.pc \in {"reserve", "settle"}
          /\ t.version = row.version /\ t.wait = row.wait
          /\ Answers(s.run, s.signal) /\ t.pc = Execution(s.run, s.signal)
       \/ /\ SameAttempt(s, t) /\ GoesOn(s, t, row)
          /\ (s.pc \in {"reserve", "send", "sent"} /\ t.pc # s.pc) => Sending(x)

LEMMA SessionUpdate ==
    ASSUME TypeInv, NEW x \in Slots, NEW t \in Sessions, Becomes(x, t)
    PROVE  OnlySession(x) /\ session'[x] = t
  BY DEF TypeInv, SessionOK, Becomes, OnlySession

LEMMA IdleMove ==
    ASSUME TypeInv, NEW x \in Slots, Becomes(x, Idle), UNCHANGED <<run, toolCalls, results>>
    PROVE  SoftMove(x)
<1>1. OnlySession(x) /\ session'[x] = Idle
  BY IdleFacts, SessionUpdate
<1>2. SignalledOK(Idle)
  BY IdleFacts DEF SignalledOK, Applying
<1> QED
  BY <1>1, <1>2, IdleFacts DEF SoftMove

LEMMA GoFacts ==
    ASSUME TypeInv, NEW x \in Slots, session[x].pc # "idle",
           NEW pc \in {"mark", "finish", "send", "sent", "settle"}, Go(x, pc)
    PROVE  /\ OnlySession(x) /\ SameAttempt(session[x], session'[x])
           /\ session'[x].pc = pc /\ session'[x].run \in Runs
           /\ session'[x].wait = session[x].wait /\ session'[x].fatal = session[x].fatal
           /\ session'[x].version = session[x].version /\ session'[x].awaited = session[x].awaited
<1>1. PICK t : t = [session[x] EXCEPT !.pc = pc] /\ Becomes(x, t)
  BY DEF Go
<1>2. /\ t \in Sessions /\ t.pc = pc /\ t.run = session[x].run /\ t.signal = session[x].signal
      /\ t.wait = session[x].wait /\ t.fatal = session[x].fatal
      /\ t.version = session[x].version /\ t.awaited = session[x].awaited
  BY <1>1, SessionTypes DEF Sessions
<1> QED
  BY <1>1, <1>2, SessionTypes, SessionUpdate DEF SameAttempt

LEMMA AnswerMove ==
    ASSUME TypeInv, NEW x \in Slots, session[x].pc # "idle", NEW result \in Results,
           Answer(x, result)
    PROVE  /\ OnlySession(x) /\ SameAttempt(session[x], session'[x])
           /\ session'[x].pc = "return" /\ session'[x].run \in Runs
           /\ SignalledOK(session'[x])
<1>1. PICK t : t = [session[x] EXCEPT !.pc = "return", !.result = result] /\ Becomes(x, t)
  BY DEF Answer
<1>2. /\ t \in Sessions /\ t.pc = "return" /\ t.run = session[x].run /\ t.signal = session[x].signal
  BY <1>1, SessionTypes DEF Sessions
<1> QED
  BY <1>1, <1>2, SessionTypes, SessionUpdate DEF SameAttempt, SignalledOK, Applying

LEMMA FailRunFacts ==
    ASSUME TypeInv, NEW x \in Slots, session[x].pc # "idle", NEW version \in Nat,
           FailRun(x, version)
    PROVE  /\ OnlySession(x) /\ SameAttempt(session[x], session'[x])
           /\ session'[x].pc = "finish" /\ session'[x].run \in Runs
           /\ session'[x].wait = session[x].wait /\ session'[x].fatal
           /\ session'[x].version = version /\ session'[x].awaited = session[x].awaited
           /\ SignalledOK(session'[x])
<1>1. PICK t : /\ t = [session[x] EXCEPT !.pc = "finish", !.version = version, !.fatal = TRUE]
               /\ Becomes(x, t)
  BY DEF FailRun
<1>2. /\ t \in Sessions /\ t.pc = "finish" /\ t.run = session[x].run /\ t.signal = session[x].signal
      /\ t.wait = session[x].wait /\ t.fatal
      /\ t.version = version /\ t.awaited = session[x].awaited
  BY <1>1, SessionTypes DEF Sessions
<1> QED
  BY <1>1, <1>2, SessionTypes, SessionUpdate DEF SameAttempt, SignalledOK, Applying

LEMMA ToolFacts ==
    ASSUME TypeInv, NEW x \in Slots, session[x].pc # "idle", NEW version \in Nat,
           NEW fatal \in BOOLEAN, AfterTool(x, version, fatal)
    PROVE  /\ OnlySession(x) /\ SameAttempt(session[x], session'[x])
           /\ session'[x].pc \in {"prompt", "finish"} /\ session'[x].run \in Runs
           /\ session'[x].wait = session[x].wait
           /\ session'[x].pc = "finish" => session'[x].fatal
           /\ session'[x].version = version /\ session'[x].awaited = session[x].awaited
           /\ SignalledOK(session'[x])
<1>1. CASE FailRun(x, version)
  BY <1>1, FailRunFacts
<1>2. CASE ~FailRun(x, version)
  <2>1. PICK t : /\ t = [session[x] EXCEPT !.pc = "prompt", !.version = version, !.fatal = fatal]
                 /\ Becomes(x, t)
    BY <1>2 DEF AfterTool
  <2>2. /\ t \in Sessions /\ t.pc = "prompt" /\ t.run = session[x].run
        /\ t.signal = session[x].signal /\ t.wait = session[x].wait
        /\ t.version = version /\ t.awaited = session[x].awaited
    BY <2>1, SessionTypes DEF Sessions
  <2> QED
    BY <2>1, <2>2, SessionTypes, SessionUpdate DEF SameAttempt, SignalledOK, Applying
<1> QED
  BY <1>1, <1>2

(*****************************************************************************)
(* The soft moves.                                                           *)
(*****************************************************************************)

LEMMA LeavingMoves ==
    ASSUME TypeInv, NEW x \in Slots, CompleteActivity(x) \/ ReserveRefused(x) \/ AbandonStale(x)
    PROVE  SoftMove(x)
  BY IdleMove DEF CompleteActivity, ReserveRefused, AbandonStale, FailAttempt, dbVars, ledger

LEMMA StartAttemptMove ==
    ASSUME TypeInv, NEW x \in Slots, StartAttempt(x)
    PROVE  SoftMove(x)
<1>1. PICK r \in Runs :
          /\ workflow[r].task = "scheduled"
          /\ Becomes(x, [Idle EXCEPT !.pc = workflow[r].phase, !.run = r, !.awaited = TRUE,
                                      !.signal = workflow[r].input])
  BY DEF StartAttempt
<1>2. workflow[r] \in Workflows /\ workflow[r].phase \in {"start", "advance", "apply"}
  BY <1>1 DEF TypeInv, WorkflowOK, CalledOK
<1>3. workflow[r].input \in Signals
  BY <1>2 DEF Workflows
<1>4. PICK t : /\ t = [Idle EXCEPT !.pc = workflow[r].phase, !.run = r, !.awaited = TRUE,
                                    !.signal = workflow[r].input]
               /\ Becomes(x, t)
  BY <1>1
<1>5. t \in Sessions /\ t.pc = workflow[r].phase /\ t.run = r
  BY <1>2, <1>3, <1>4, IdleFacts DEF Sessions
<1>6. OnlySession(x) /\ session'[x] = t
  BY <1>4, <1>5, SessionUpdate
<1>7. SignalledOK(t)
  BY <1>2, <1>5 DEF SignalledOK, Applying
<1>8. UNCHANGED <<run, toolCalls, results>>
  BY DEF StartAttempt, dbVars, ledger
<1> QED
  BY <1>2, <1>5, <1>6, <1>7, <1>8 DEF SoftMove

LEMMA TimesOutMove ==
    ASSUME TypeInv, NEW x \in Slots, AttemptTimesOut(x)
    PROVE  SoftMove(x)
<1>1. session[x].pc # "idle" /\ UNCHANGED <<run, toolCalls, results>>
  BY DEF AttemptTimesOut, TypeInv, SessionOK, SignalledOK, dbVars, ledger
<1>2. PICK t : t = [session[x] EXCEPT !.awaited = FALSE] /\ Becomes(x, t)
  BY DEF AttemptTimesOut
<1>3. /\ t \in Sessions /\ t.pc = session[x].pc /\ t.run = session[x].run /\ ~t.awaited
      /\ t.signal = session[x].signal /\ t.wait = session[x].wait
      /\ t.version = session[x].version /\ t.fatal = session[x].fatal
  BY <1>2, SessionTypes DEF Sessions
<1>4. OnlySession(x) /\ session'[x] = t /\ SameAttempt(session[x], t)
  BY <1>1, <1>2, <1>3, SessionUpdate DEF SameAttempt
<1>5. SignalledOK(t)
  BY <1>3 DEF SignalledOK, TypeInv, SessionOK
<1>6. t.run \in Runs
  BY <1>1, <1>3, SessionTypes
<1>7. t.pc \in Fenced \/ t.pc \in {"idle", "start", "advance", "apply", "return"}
  BY <1>3 DEF Sessions, Fenced, Applying
<1> QED
  BY <1>1, <1>3, <1>4, <1>5, <1>6, <1>7 DEF SoftMove, GoesOn

LEMMA ReadRunMove ==
    ASSUME TypeInv, NEW x \in Slots, ReadRun(x)
    PROVE  SoftMove(x)
<1> DEFINE row == run[session[x].run]
<1>1. /\ session[x].pc = "advance" /\ UNCHANGED <<run, toolCalls, results>>
      /\ session[x].run \in Runs /\ row \in RunRows
  BY SessionTypes DEF ReadRun, At, dbVars, ledger
<1>2. PICK result \in {"complete", "fail", "wait", "none"} :
        /\ result = "none" =>
            row.status \notin Terminal /\ (row.wait = NoWait \/ row.status = "running")
        /\ Becomes(x, [session[x] EXCEPT
                        !.version = row.version, !.wait = row.wait, !.fatal = row.fatal,
                        !.pc = IF result = "none" THEN "prompt" ELSE "return",
                        !.result = result])
  BY DEF ReadRun, Terminal
<1>3. PICK t : /\ t = [session[x] EXCEPT
                        !.version = row.version, !.wait = row.wait, !.fatal = row.fatal,
                        !.pc = IF result = "none" THEN "prompt" ELSE "return",
                        !.result = result]
               /\ Becomes(x, t)
  BY <1>2
<1>4. row.version \in Nat /\ row.wait \in Waits /\ row.fatal \in BOOLEAN /\ result \in Results
  BY <1>1, <1>2, RowTypes DEF Results
<1> HIDE DEF row
<1>5. /\ t \in Sessions /\ t.version = row.version /\ t.wait = row.wait
      /\ t.run = session[x].run /\ t.signal = session[x].signal
      /\ t.pc = IF result = "none" THEN "prompt" ELSE "return"
  BY <1>3, <1>4, SessionTypes DEF Sessions
<1>6. OnlySession(x) /\ session'[x] = t /\ SameAttempt(session[x], t) /\ SignalledOK(t)
  BY <1>1, <1>3, <1>5, SessionUpdate DEF SameAttempt, SignalledOK, Applying
<1> QED
  BY <1>1, <1>2, <1>5, <1>6 DEF SoftMove, row

LEMMA ReadWaitMove ==
    ASSUME TypeInv, NEW x \in Slots, ReadWait(x)
    PROVE  SoftMove(x)
<1> DEFINE r == session[x].run
           row == run[session[x].run]
           signal == session[x].signal
<1>1. /\ session[x].pc = "apply" /\ UNCHANGED <<run, toolCalls, results>>
      /\ r \in Runs /\ row \in RunRows /\ signal \in Signals
  BY SessionTypes DEF ReadWait, At, dbVars, ledger
<1>2. PICK pc \in {"reserve", "settle", "return"}, result \in Results :
        /\ pc # "return" => Answers(r, signal) /\ pc = Execution(r, signal)
        /\ Becomes(x, [session[x] EXCEPT !.version = row.version, !.wait = row.wait,
                                         !.fatal = row.fatal, !.pc = pc, !.result = result])
  <2>1. CASE Answers(r, signal)
    <3>1. Execution(r, signal) \in {"reserve", "settle"} /\ session[x].result \in Results
      BY SessionTypes DEF Execution, Sessions
    <3>2. [session[x] EXCEPT !.version = row.version, !.wait = row.wait,
                             !.fatal = row.fatal, !.pc = Execution(r, signal),
                             !.result = session[x].result]
            = [[session[x] EXCEPT !.version = row.version, !.wait = row.wait, !.fatal = row.fatal]
                EXCEPT !.pc = Execution(r, signal)]
      BY SessionTypes DEF Sessions
    <3> QED
      BY <2>1, <3>1, <3>2 DEF ReadWait
  <2>2. CASE ~Answers(r, signal)
    <3>1. AppliedBefore(row) \in Results
      BY DEF AppliedBefore, Results
    <3>2. [session[x] EXCEPT !.version = row.version, !.wait = row.wait,
                             !.fatal = row.fatal, !.pc = "return", !.result = AppliedBefore(row)]
            = [[session[x] EXCEPT !.version = row.version, !.wait = row.wait, !.fatal = row.fatal]
                EXCEPT !.pc = "return", !.result = AppliedBefore(row)]
      BY SessionTypes DEF Sessions
    <3> QED
      BY <2>2, <3>1, <3>2 DEF ReadWait
  <2> QED
    BY <2>1, <2>2
<1>3. PICK t : /\ t = [session[x] EXCEPT !.version = row.version, !.wait = row.wait,
                                         !.fatal = row.fatal, !.pc = pc, !.result = result]
               /\ Becomes(x, t)
  BY <1>2
<1>4. row.version \in Nat /\ row.wait \in Waits /\ row.fatal \in BOOLEAN
  BY <1>1, RowTypes
<1>5. pc # "return" => /\ row.wait = WaitOf(signal) /\ signal # NoSignal
                       /\ pc = "reserve" => signal.decision = "approved"
  BY <1>2 DEF Answers, Execution, WaitOf, NoSignal
<1> HIDE DEF row, r, signal
<1>6. /\ t \in Sessions /\ t.version = row.version /\ t.wait = row.wait
      /\ t.run = session[x].run /\ t.signal = session[x].signal /\ t.pc = pc
  BY <1>3, <1>4, SessionTypes DEF Sessions
<1>7. OnlySession(x) /\ session'[x] = t /\ SameAttempt(session[x], t)
  BY <1>1, <1>3, <1>6, SessionUpdate DEF SameAttempt
<1>8. SignalledOK(t)
  BY <1>5, <1>6 DEF SignalledOK, Applying, signal
<1> QED
  BY <1>1, <1>2, <1>6, <1>7, <1>8 DEF SoftMove, row, r, signal

LEMMA AnswerMoves ==
    ASSUME TypeInv, NEW x \in Slots, ReconcileStart(x) \/ MarkReportDispatched(x)
    PROVE  SoftMove(x)
<1>1. /\ session[x].pc # "idle" /\ UNCHANGED <<run, toolCalls, results>>
      /\ \E result \in Results : Answer(x, result)
  BY DEF ReconcileStart, MarkReportDispatched, At, Results, dbVars, ledger
<1> QED
  BY <1>1, AnswerMove DEF SoftMove

LEMMA LoopMoves ==
    ASSUME TypeInv, NEW x \in Slots,
           \/ BudgetExhausted(x) \/ FailBeforeStep(x) \/ SkillRefused(x)
           \/ EndGeneration(x) \/ HandOverFails(x)
    PROVE  SoftMove(x)
<1>1. UNCHANGED <<run, toolCalls, results>> /\ session[x].version \in Nat
  BY SessionTypes DEF BudgetExhausted, FailBeforeStep, SkillRefused, EndGeneration,
                      HandOverFails, dbVars, ledger
<1>2. CASE BudgetExhausted(x) \/ FailBeforeStep(x) \/ HandOverFails(x)
  BY <1>1, <1>2, FailRunFacts
     DEF BudgetExhausted, FailBeforeStep, HandOverFails, At, Current, SoftMove, GoesOn, Fenced
<1>3. CASE SkillRefused(x)
  BY <1>1, <1>3, ToolFacts DEF SkillRefused, At, Current, SoftMove, GoesOn, Fenced
<1>4. CASE EndGeneration(x)
  <2>1. CASE FailRun(x, session[x].version)
    BY <1>1, <1>4, <2>1, FailRunFacts DEF EndGeneration, At, Current, SoftMove, GoesOn, Fenced
  <2>2. CASE Go(x, "finish")
    <3>1. SignalledOK(session'[x])
      BY <1>4, <2>2, GoFacts DEF EndGeneration, At, SignalledOK, Applying
    <3> QED
      BY <1>1, <1>4, <2>2, <3>1, GoFacts DEF EndGeneration, At, Current, SoftMove, GoesOn, Fenced
  <2> QED
    BY <1>4, <2>1, <2>2 DEF EndGeneration
<1> QED
  BY <1>2, <1>3, <1>4

LEMMA ReportRefusedMove ==
    ASSUME TypeInv, NEW x \in Slots, ReportRefused(x)
    PROVE  SoftMove(x)
<1> DEFINE wait == [kind |-> "report", call |-> run[session[x].run].consumedSteps]
<1>1. /\ session[x].pc = "model" /\ UNCHANGED <<run, toolCalls, results>> /\ Current(x)
      /\ wait \in Waits
  BY ModelCall DEF ReportRefused, At, dbVars, ledger
<1>2. PICK t : /\ t = [session[x] EXCEPT !.pc = "finish", !.fatal = TRUE, !.wait = wait]
               /\ Becomes(x, t)
  BY DEF ReportRefused
<1> HIDE DEF wait
<1>3. /\ t \in Sessions /\ t.pc = "finish" /\ t.run = session[x].run /\ t.fatal
      /\ t.signal = session[x].signal /\ t.wait = wait /\ t.version = session[x].version
  BY <1>1, <1>2, SessionTypes DEF Sessions
<1>4. OnlySession(x) /\ session'[x] = t /\ SameAttempt(session[x], t) /\ SignalledOK(t)
  BY <1>1, <1>2, <1>3, SessionUpdate DEF SameAttempt, SignalledOK, Applying
<1>5. t.run \in Runs
  BY <1>1, <1>3, SessionTypes
<1>6. GoesOn(session[x], t, run[session[x].run])
  BY <1>1, <1>3 DEF GoesOn, Fenced, Current, wait
<1> QED
  BY <1>1, <1>3, <1>4, <1>5, <1>6 DEF SoftMove

LEMMA HandOverMoves ==
    ASSUME TypeInv, NEW x \in Slots,
           \/ EnqueueReport(x) \/ ReserveSimulatedSend(x)
           \/ ExecuteApprovedSend(x) \/ CompleteSimulatedSend(x)
    PROVE  SoftMove(x)
<1>1. UNCHANGED <<run, toolCalls, results>>
  BY DEF EnqueueReport, ReserveSimulatedSend, ExecuteApprovedSend, CompleteSimulatedSend,
     dbVars, ledger
<1>2. CASE EnqueueReport(x)
  <2>1. SignalledOK(session'[x])
    BY <1>2, GoFacts DEF EnqueueReport, At, SignalledOK, Applying
  <2> QED
    BY <1>1, <1>2, <2>1, GoFacts DEF EnqueueReport, At, SoftMove, GoesOn, Fenced
<1>3. ASSUME NEW pc \in {"send", "sent", "settle"}, session[x].pc \in {"reserve", "send", "sent"},
             Go(x, pc), Sending(x)
      PROVE  SoftMove(x)
  <2>1. SignalledOK(session[x])
    BY DEF TypeInv, SessionOK
  <2>2. SignalledOK(session'[x])
    BY <1>3, <2>1, GoFacts DEF SignalledOK, Applying, SameAttempt
  <2> QED
    BY <1>1, <1>3, <2>2, GoFacts DEF SoftMove, GoesOn, Fenced, Applying
<1> QED
  BY <1>2, <1>3 DEF ReserveSimulatedSend, ExecuteApprovedSend, CompleteSimulatedSend, At, Sending

(*****************************************************************************)
(* The moves that write a row, and the others.                               *)
(*****************************************************************************)

\* Writing one cell of a table of tables.
OneCell(new, old, r, c, value) ==
    \A q \in Runs, d \in Calls : new[q][d] = IF q = r /\ d = c THEN value ELSE old[q][d]

ElseSame(new, old, r, c) ==
    \A q \in Runs, d \in Calls : (q # r \/ d # c) => new[q][d] = old[q][d]

LEMMA CellWritten ==
    ASSUME NEW V, NEW old \in [Runs -> [Calls -> V]], NEW r \in Runs, NEW c, NEW value,
           c \in Calls => value \in V, NEW new, new = [old EXCEPT ![r][c] = value]
    PROVE  /\ new \in [Runs -> [Calls -> V]]
           /\ OneCell(new, old, r, c, value) /\ ElseSame(new, old, r, c)
  BY DEF OneCell, ElseSame

\* A transaction that the version let pass.
WriteMove(x) ==
    LET s == session[x]
        t == session'[x]
        r == session[x].run
        row == run[session[x].run]
        new == run'[session[x].run] IN
    /\ OnlySession(x) /\ OnlyRun(r) /\ r \in Runs
    /\ s.pc \in Fenced /\ Current(x) /\ new.version = row.version + 1
    /\ t.run = r /\ t.signal = s.signal /\ SignalledOK(t)
    /\ t.pc \in Fenced => t.version = s.version + 1
    /\ \/ /\ s.pc = "prompt" /\ t.pc = "model" /\ t.wait = s.wait
          /\ new.status = "running" /\ new.wait = row.wait
          /\ new.consumedSteps = row.consumedSteps + 1
          /\ UNCHANGED <<toolCalls, results>>
       \/ /\ s.pc = "model" /\ t.pc \in {"prompt", "finish"} /\ t.wait = s.wait
          /\ new.status = row.status /\ new.wait = row.wait
          /\ new.consumedSteps = row.consumedSteps
          /\ ElseSame(toolCalls', toolCalls, r, row.consumedSteps) /\ UNCHANGED results
       \/ /\ s.pc = "model" /\ toolCalls[r][row.consumedSteps] = "none"
          /\ \/ /\ PersistReportWait(x) /\ t.pc = "enqueue"
                /\ new.status = "waiting_for_tool" /\ new.wait.kind = "report"
             \/ /\ PersistApprovalWait(x) /\ t.pc = "return"
                /\ new.status = "waiting_for_admin" /\ new.wait.kind = "approval"
          /\ t.wait = new.wait /\ new.wait # NoWait /\ new.wait.call = row.consumedSteps
          /\ new.consumedSteps = row.consumedSteps
          /\ ElseSame(toolCalls', toolCalls, r, row.consumedSteps) /\ UNCHANGED results
       \/ /\ s.pc = "finish" /\ t.pc = "return"
          /\ new.status = IF s.fatal THEN "failed" ELSE "completed"
          /\ new.wait = s.wait /\ new.consumedSteps = row.consumedSteps
          /\ UNCHANGED <<toolCalls, results>>
       \/ /\ s.pc = "settle" /\ t.pc = "return" /\ ResolveStateWorkflowWait(x)
          /\ new.status = "running" /\ new.wait = NoWait
          /\ new.consumedSteps = row.consumedSteps
          /\ ElseSame(toolCalls', toolCalls, r, s.wait.call)
          /\ ElseSame(results', results, r, s.wait.call)

RestMove ==
    /\ UNCHANGED <<run, session, results>>
    /\ \A r \in Runs, c \in Calls : toolCalls'[r][c] = "none" <=> toolCalls[r][c] = "none"

DieMove == UNCHANGED <<run, toolCalls, results>> /\ session' = [x \in Slots |-> Idle]

Move == (\E x \in Slots : SoftMove(x) \/ WriteMove(x)) \/ RestMove \/ DieMove

\* The row a transaction writes, field by field.
LEMMA NewRow ==
    ASSUME TypeInv, NEW x \in Slots, session[x].run \in Runs,
           NEW row \in RunRows, row.version = run[session[x].run].version, Persist(x, row)
    PROVE  /\ OnlyRun(session[x].run) /\ Current(x)
           /\ run'[session[x].run].version = run[session[x].run].version + 1
           /\ run'[session[x].run].status = row.status
           /\ run'[session[x].run].consumedSteps = row.consumedSteps
           /\ run'[session[x].run].wait = row.wait
<1>1. PICK new : /\ new = [row EXCEPT !.version = row.version + 1]
                 /\ Current(x) /\ run' = [run EXCEPT ![session[x].run] = new]
  BY DEF Persist
<1>2. /\ new \in RunRows /\ new.version = row.version + 1 /\ new.status = row.status
      /\ new.consumedSteps = row.consumedSteps /\ new.wait = row.wait
  BY <1>1 DEF RunRows
<1> QED
  BY <1>1, <1>2 DEF OnlyRun, TypeInv, RunOK

LEMMA SkillField ==
    ASSUME NEW row \in RunRows
    PROVE  row.skill \in SkillNames \cup {None}
  BY DEF RunRows

LEMMA ConsumeMove ==
    ASSUME TypeInv, NEW x \in Slots, ConsumeStateWorkflowStep(x)
    PROVE  WriteMove(x)
<1> DEFINE r == session[x].run
           old == run[session[x].run]
<1>1. /\ session[x].pc = "prompt" /\ UNCHANGED <<toolCalls, results>> /\ r \in Runs
      /\ old \in RunRows /\ session[x].fatal \in BOOLEAN /\ session[x].version \in Nat
  BY SessionTypes DEF ConsumeStateWorkflowStep, At, ledger
<1>2. /\ old.consumedSteps + 1 \in 0..StepBudget /\ "running" \in Statuses
  BY <1>1, RowTypes, ConstantFacts DEF ConsumeStateWorkflowStep, Statuses
<1>3. PICK row : /\ row = [old EXCEPT !.status = "running", !.fatal = session[x].fatal,
                                      !.consumedSteps = old.consumedSteps + 1]
                 /\ Persist(x, row)
  BY DEF ConsumeStateWorkflowStep
<1> HIDE DEF old
<1>4. /\ row \in RunRows /\ row.version = old.version /\ row.status = "running"
      /\ row.consumedSteps = old.consumedSteps + 1 /\ row.wait = old.wait
  BY <1>1, <1>2, <1>3 DEF RunRows
<1>5. /\ OnlyRun(r) /\ Current(x)
      /\ run'[r].version = old.version + 1 /\ run'[r].status = "running"
      /\ run'[r].consumedSteps = old.consumedSteps + 1 /\ run'[r].wait = old.wait
  BY <1>1, <1>3, <1>4, NewRow DEF old
<1>a. PICK version \in Nat : version = session[x].version + 1
  BY <1>1
<1>6. PICK t : t = [session[x] EXCEPT !.pc = "model", !.version = version] /\ Becomes(x, t)
  BY <1>a DEF ConsumeStateWorkflowStep
<1>7. /\ t \in Sessions /\ t.pc = "model" /\ t.run = r /\ t.signal = session[x].signal
      /\ t.wait = session[x].wait /\ t.version = version
  BY <1>1, <1>6, SessionTypes DEF Sessions
<1>8. OnlySession(x) /\ session'[x] = t /\ SignalledOK(t)
  BY <1>6, <1>7, SessionUpdate DEF SignalledOK, Applying
<1> QED
  BY <1>1, <1>5, <1>7, <1>8, <1>a DEF WriteMove, Fenced, old

LEMMA CallWritten ==
    ASSUME TypeInv, NEW r \in Runs, NEW c, NEW value \in CallStatuses,
           toolCalls' = [toolCalls EXCEPT ![r][c] = value]
    PROVE  /\ toolCalls' \in [Runs -> [Calls -> CallStatuses]]
           /\ OneCell(toolCalls', toolCalls, r, c, value)
           /\ ElseSame(toolCalls', toolCalls, r, c)
<1>1. PICK old, new : /\ old \in [Runs -> [Calls -> CallStatuses]]
                      /\ old = toolCalls /\ new = toolCalls'
  BY DEF TypeInv, LedgerOK
<1>2. new = [old EXCEPT ![r][c] = value] /\ old \in [Runs -> [Calls -> CallStatuses]]
  BY <1>1
<1>3. /\ new \in [Runs -> [Calls -> CallStatuses]]
      /\ OneCell(new, old, r, c, value) /\ ElseSame(new, old, r, c)
  BY <1>2 DEF OneCell, ElseSame
<1> QED
  BY <1>1, <1>3

LEMMA ResultWritten ==
    ASSUME TypeInv, NEW r \in Runs, NEW c,
           results' = [results EXCEPT ![r][c] = results[r][c] + 1]
    PROVE  /\ results' \in [Runs -> [Calls -> Nat]]
           /\ OneCell(results', results, r, c, results[r][c] + 1)
           /\ ElseSame(results', results, r, c)
<1>1. PICK old, new, value :
        /\ old \in [Runs -> [Calls -> Nat]]
        /\ old = results /\ new = results' /\ value = results[r][c] + 1
  BY DEF TypeInv, LedgerOK
<1>2. /\ new = [old EXCEPT ![r][c] = value] /\ (c \in Calls => value \in Nat)
      /\ old \in [Runs -> [Calls -> Nat]]
  BY <1>1
<1>3. /\ new \in [Runs -> [Calls -> Nat]]
      /\ OneCell(new, old, r, c, value) /\ ElseSame(new, old, r, c)
  BY <1>2 DEF OneCell, ElseSame
<1> QED
  BY <1>1, <1>3

\* A transaction that records what the model did and leaves the row's status.
LEMMA RecordMove ==
    ASSUME TypeInv, NEW x \in Slots, session[x].pc = "model",
           NEW row \in RunRows, row.version = run[session[x].run].version,
           row.status = run[session[x].run].status, row.wait = run[session[x].run].wait,
           row.consumedSteps = run[session[x].run].consumedSteps, Persist(x, row),
           NEW fatal \in BOOLEAN,
           \/ AfterTool(x, session[x].version + 1, fatal)
           \/ FailRun(x, session[x].version + 1),
           ElseSame(toolCalls', toolCalls, session[x].run, run[session[x].run].consumedSteps),
           UNCHANGED results
    PROVE  WriteMove(x)
<1>1. session[x].run \in Runs /\ session[x].version + 1 \in Nat
  BY SessionTypes
<1>2. /\ OnlyRun(session[x].run) /\ Current(x)
      /\ run'[session[x].run].version = run[session[x].run].version + 1
      /\ run'[session[x].run].status = row.status
      /\ run'[session[x].run].consumedSteps = row.consumedSteps
      /\ run'[session[x].run].wait = row.wait
  BY <1>1, NewRow
<1>3. /\ OnlySession(x) /\ SameAttempt(session[x], session'[x])
      /\ session'[x].pc \in {"prompt", "finish"}
      /\ session'[x].wait = session[x].wait
      /\ session'[x].version = session[x].version + 1
      /\ SignalledOK(session'[x])
  BY <1>1, ToolFacts, FailRunFacts
<1> QED
  BY <1>1, <1>2, <1>3 DEF WriteMove, Fenced, SameAttempt

LEMMA SkillMove ==
    ASSUME TypeInv, NEW x \in Slots, PersistStateWorkflowSkill(x)
    PROVE  WriteMove(x)
<1>1. /\ session[x].pc = "model" /\ session[x].fatal \in BOOLEAN
      /\ run[session[x].run] \in RunRows /\ UNCHANGED <<toolCalls, results>>
  BY SessionTypes DEF PersistStateWorkflowSkill, At, ledger
<1>2. PICK old : old = run[session[x].run]
  OBVIOUS
<1>3. PICK skill, row :
        /\ skill \in SkillNames
        /\ row = [old EXCEPT !.skill = skill, !.fatal = session[x].fatal] /\ Persist(x, row)
  BY <1>2, ConstantFacts DEF PersistStateWorkflowSkill
<1>4. /\ row \in RunRows /\ row.version = old.version /\ row.status = old.status
      /\ row.wait = old.wait /\ row.consumedSteps = old.consumedSteps
  BY <1>1, <1>2, <1>3 DEF RunRows
<1>5. AfterTool(x, session[x].version + 1, session[x].fatal)
  BY DEF PersistStateWorkflowSkill
<1>6. ElseSame(toolCalls', toolCalls, session[x].run, run[session[x].run].consumedSteps)
  BY <1>1 DEF ElseSame
<1> QED
  BY <1>1, <1>2, <1>3, <1>4, <1>5, <1>6, RecordMove

LEMMA CallMove ==
    ASSUME TypeInv, NEW x \in Slots,
           \/ \E outcome \in {"completed", "failed"} : PersistToolOutcome(x, outcome)
           \/ \E outcome \in {"failed", "rejected"} : PersistMappedToolFailure(x, outcome)
    PROVE  WriteMove(x)
<1>1. /\ session[x].pc = "model" /\ session[x].fatal \in BOOLEAN
      /\ run[session[x].run] \in RunRows /\ UNCHANGED results
      /\ session[x].run \in Runs
  BY SessionTypes DEF PersistToolOutcome, PersistMappedToolFailure, At
<1>2. PICK old : old = run[session[x].run]
  OBVIOUS
<1>3. PICK outcome \in CallStatuses, fatal \in BOOLEAN :
        /\ RecordCall(x, outcome, fatal)
        /\ \/ AfterTool(x, session[x].version + 1, fatal)
           \/ FailRun(x, session[x].version + 1)
  BY <1>1 DEF PersistToolOutcome, PersistMappedToolFailure, CallStatuses
<1>4. PICK row : row = [old EXCEPT !.fatal = fatal] /\ Persist(x, row)
  BY <1>2, <1>3 DEF RecordCall
<1>5. /\ row \in RunRows /\ row.version = old.version /\ row.status = old.status
      /\ row.wait = old.wait /\ row.consumedSteps = old.consumedSteps
  BY <1>1, <1>2, <1>4 DEF RunRows
<1>6. ElseSame(toolCalls', toolCalls, session[x].run, run[session[x].run].consumedSteps)
  BY <1>1, <1>3, CallWritten DEF RecordCall
<1> QED
  BY <1>1, <1>2, <1>3, <1>4, <1>5, <1>6, RecordMove

\* The transaction that puts the run to wait for its model's call.
LEMMA DeferMove ==
    ASSUME TypeInv, NEW x \in Slots, PersistReportWait(x) \/ PersistApprovalWait(x)
    PROVE  WriteMove(x)
<1>1. /\ session[x].pc = "model" /\ session[x].fatal \in BOOLEAN
      /\ run[session[x].run] \in RunRows /\ UNCHANGED results
      /\ session[x].run \in Runs /\ session[x].version \in Nat
  BY SessionTypes DEF PersistReportWait, PersistApprovalWait, At
<1>2. PICK old, r, c : old = run[session[x].run] /\ r = session[x].run /\ c = old.consumedSteps
  OBVIOUS
<1>3. PICK kind, wait, status, row :
        /\ kind \in {"report", "approval"} /\ wait \in Waits /\ status \in Statuses
        /\ wait = [kind |-> kind, call |-> c] /\ wait # NoWait
        /\ \/ PersistReportWait(x) /\ kind = "report" /\ status = "waiting_for_tool"
           \/ PersistApprovalWait(x) /\ kind = "approval" /\ status = "waiting_for_admin"
        /\ row = [old EXCEPT !.status = status, !.wait = wait, !.fatal = session[x].fatal]
        /\ Persist(x, row)
  <2>1. CASE PersistReportWait(x)
    BY <1>1, <1>2, <2>1, ModelCall DEF PersistReportWait, Statuses, Waiting
  <2>2. CASE PersistApprovalWait(x)
    BY <1>1, <1>2, <2>2, ModelCall DEF PersistApprovalWait, Statuses, Waiting
  <2> QED
    BY <2>1, <2>2
<1>4. /\ row \in RunRows /\ row.version = old.version /\ row.status = status
      /\ row.wait = wait /\ row.consumedSteps = old.consumedSteps
  BY <1>1, <1>2, <1>3 DEF RunRows
<1>5. /\ OnlyRun(r) /\ Current(x) /\ run'[r].version = old.version + 1
      /\ run'[r].status = status /\ run'[r].consumedSteps = c /\ run'[r].wait = wait
  <2>1. session[x].run \in Runs /\ row.version = run[session[x].run].version /\ Persist(x, row)
    BY <1>1, <1>2, <1>3, <1>4
  <2>2. /\ OnlyRun(session[x].run) /\ Current(x)
        /\ run'[session[x].run].version = run[session[x].run].version + 1
        /\ run'[session[x].run].status = row.status
        /\ run'[session[x].run].consumedSteps = row.consumedSteps
        /\ run'[session[x].run].wait = row.wait
    BY <1>4, <2>1, NewRow
  <2> QED
    BY <1>2, <1>4, <2>2
<1>6. PICK version \in Nat : version = session[x].version + 1
  BY <1>1
<1>7. PICK pc \in {"enqueue", "return"}, result \in Results :
        /\ pc = IF kind = "report" THEN "enqueue" ELSE "return"
        /\ \/ Becomes(x, [session[x] EXCEPT !.pc = pc, !.wait = wait, !.version = version])
           \/ Becomes(x, [session[x] EXCEPT !.pc = pc, !.result = "wait", !.wait = wait,
                                            !.version = version])
  <2>1. CASE PersistReportWait(x) /\ kind = "report"
    BY <1>2, <1>3, <1>6, <2>1 DEF PersistReportWait, Results
  <2>2. CASE PersistApprovalWait(x) /\ kind = "approval"
    BY <1>2, <1>3, <1>6, <2>2 DEF PersistApprovalWait, Results
  <2> QED
    BY <1>3, <2>1, <2>2
<1>8. PICK t : /\ \/ t = [session[x] EXCEPT !.pc = pc, !.wait = wait, !.version = version]
                  \/ t = [session[x] EXCEPT !.pc = pc, !.result = "wait", !.wait = wait,
                                            !.version = version]
               /\ Becomes(x, t)
  BY <1>7
<1>9. /\ t \in Sessions /\ t.pc = pc /\ t.run = r /\ t.signal = session[x].signal
      /\ t.wait = wait /\ t.version = version
  <2>1. wait \in Waits
    BY <1>3
  <2> QED
    BY <1>1, <1>2, <1>7, <1>8, <2>1, SessionTypes DEF Sessions, Results
<1>10. OnlySession(x) /\ session'[x] = t /\ SignalledOK(t)
  BY <1>7, <1>8, <1>9, SessionUpdate DEF SignalledOK, Applying
<1>11. toolCalls[r][c] = "none" /\ ElseSame(toolCalls', toolCalls, r, c)
  <2>1. PICK value \in CallStatuses : toolCalls' = [toolCalls EXCEPT ![r][c] = value]
    BY <1>2, <1>3 DEF PersistReportWait, PersistApprovalWait, CallStatuses
  <2>2. toolCalls[r][c] = "none"
    BY <1>2, <1>3 DEF PersistReportWait, PersistApprovalWait
  <2> QED
    BY <1>1, <1>2, <2>1, <2>2, CallWritten
<1>12. wait.kind = kind /\ wait.call = c
  BY <1>3
<1> QED
  BY <1>1, <1>2, <1>3, <1>5, <1>6, <1>7, <1>9, <1>10, <1>11, <1>12 DEF WriteMove, Fenced

LEMMA CompleteMove ==
    ASSUME TypeInv, NEW x \in Slots, CompleteStateWorkflowRun(x)
    PROVE  WriteMove(x)
<1>1. /\ session[x].pc = "finish" /\ session[x].fatal \in BOOLEAN /\ session[x].wait \in Waits
      /\ run[session[x].run] \in RunRows /\ UNCHANGED <<toolCalls, results>>
      /\ session[x].run \in Runs
  BY SessionTypes DEF CompleteStateWorkflowRun, At, ledger
<1>2. PICK old : old = run[session[x].run]
  OBVIOUS
<1>3. PICK verdict \in Statuses : verdict = IF session[x].fatal THEN "failed" ELSE "completed"
  BY DEF Statuses, Terminal
<1>4. PICK row : /\ row = [old EXCEPT !.status = verdict, !.wait = session[x].wait,
                                      !.fatal = session[x].fatal]
                 /\ Persist(x, row)
  BY <1>2, <1>3 DEF CompleteStateWorkflowRun
<1>5. /\ row \in RunRows /\ row.version = old.version /\ row.status = verdict
      /\ row.wait = session[x].wait /\ row.consumedSteps = old.consumedSteps
  BY <1>1, <1>2, <1>3, <1>4 DEF RunRows
<1>6. PICK result \in Results : Answer(x, result)
  BY DEF CompleteStateWorkflowRun, Results, Answer
<1>7. /\ OnlySession(x) /\ SameAttempt(session[x], session'[x]) /\ session'[x].pc = "return"
      /\ SignalledOK(session'[x])
  BY <1>1, <1>6, AnswerMove
<1>8. /\ OnlyRun(session[x].run) /\ Current(x)
      /\ run'[session[x].run].version = old.version + 1 /\ run'[session[x].run].status = verdict
      /\ run'[session[x].run].consumedSteps = old.consumedSteps
      /\ run'[session[x].run].wait = session[x].wait
  BY <1>1, <1>2, <1>4, <1>5, NewRow
<1> QED
  BY <1>1, <1>2, <1>3, <1>7, <1>8 DEF WriteMove, Fenced, SameAttempt, Applying

LEMMA ResolveMove ==
    ASSUME TypeInv, NEW x \in Slots, ResolveStateWorkflowWait(x)
    PROVE  WriteMove(x)
<1>1. /\ session[x].pc = "settle" /\ session[x].fatal \in BOOLEAN
      /\ run[session[x].run] \in RunRows /\ session[x].run \in Runs
  BY SessionTypes DEF ResolveStateWorkflowWait, At
<1>2. PICK old, r, c : old = run[session[x].run] /\ r = session[x].run /\ c = session[x].wait.call
  OBVIOUS
<1>4. PICK row : /\ row = [old EXCEPT !.status = "running", !.wait = NoWait,
                                      !.fatal = session[x].fatal]
                 /\ Persist(x, row)
  BY <1>2 DEF ResolveStateWorkflowWait
<1>5. /\ row \in RunRows /\ row.version = old.version /\ row.status = "running"
      /\ row.wait = NoWait /\ row.consumedSteps = old.consumedSteps
  BY <1>1, <1>2, <1>4, IdleFacts DEF RunRows, Statuses
<1>6. "applied" \in Results /\ Answer(x, "applied")
  BY DEF ResolveStateWorkflowWait, Results
<1>7. /\ OnlySession(x) /\ SameAttempt(session[x], session'[x]) /\ session'[x].pc = "return"
      /\ SignalledOK(session'[x])
  BY <1>1, <1>6, AnswerMove
<1>8. /\ OnlyRun(r) /\ Current(x) /\ run'[r].version = old.version + 1
      /\ run'[r].status = "running" /\ run'[r].consumedSteps = old.consumedSteps
      /\ run'[r].wait = NoWait
  <2>1. session[x].run \in Runs /\ row.version = run[session[x].run].version /\ Persist(x, row)
    BY <1>1, <1>2, <1>4, <1>5
  <2>2. /\ OnlyRun(session[x].run) /\ Current(x)
        /\ run'[session[x].run].version = run[session[x].run].version + 1
        /\ run'[session[x].run].status = row.status
        /\ run'[session[x].run].consumedSteps = row.consumedSteps
        /\ run'[session[x].run].wait = row.wait
    BY <1>5, <2>1, NewRow
  <2> QED
    BY <1>2, <1>5, <2>2
<1>9. ElseSame(toolCalls', toolCalls, r, c) /\ ElseSame(results', results, r, c)
  <2>1. PICK outcome \in CallStatuses : toolCalls' = [toolCalls EXCEPT ![r][c] = outcome]
    BY <1>2 DEF ResolveStateWorkflowWait, CallStatuses
  <2>2. results' = [results EXCEPT ![r][c] = results[r][c] + 1]
    BY <1>2 DEF ResolveStateWorkflowWait
  <2> QED
    BY <1>1, <1>2, <2>1, <2>2, CallWritten, ResultWritten
<1> QED
  BY <1>1, <1>2, <1>7, <1>8, <1>9 DEF WriteMove, Fenced, SameAttempt, Applying

LEMMA OtherMoves ==
    ASSUME TypeInv,
           \/ Reconcile \/ Crash
           \/ \E r \in Runs :
                \/ AttemptLost(r) \/ ReportStep(r) \/ AdminStep(r)
                \/ \E c \in Calls : ApprovalDeadline(r, c)
    PROVE  Move
<1> USE DEF RestMove, Move
<1>1. CASE Crash \/ SignalRefused
  BY <1>1 DEF Crash, SignalRefused, ProcessDies, DieMove, dbVars, ledger
<1>2. CASE (\E r \in Runs : StartWorkflow(r)) \/ SignalWorkflow \/ MarkSignalDispatched
  BY <1>2 DEF StartWorkflow, SignalWorkflow, MarkSignalDispatched, dbVars, ledger
<1>3. ASSUME NEW r \in Runs,
             \/ AttemptLost(r) \/ RecordReportProgress(r) \/ \E c \in Calls : ApprovalDeadline(r, c)
      PROVE  Move
  BY <1>3 DEF AttemptLost, RecordReportProgress, ApprovalDeadline, dbVars, ledger
<1>4. ASSUME NEW r \in Runs, CompleteReportJob(r)
      PROVE  Move
  <2>0. PICK c \in Calls : c = job[r].call
    BY <1>4 DEF CompleteReportJob, TypeInv, JobOK
  <2>1. PICK value :
          /\ value = IF toolCalls[r][c] = "waiting_job" THEN "completed" ELSE toolCalls[r][c]
          /\ toolCalls' = [toolCalls EXCEPT ![r][c] = value]
    BY <1>4, <2>0 DEF CompleteReportJob
  <2>2. toolCalls[r][c] \in CallStatuses /\ "completed" \in CallStatuses
    BY DEF CallStatuses, TypeInv, LedgerOK
  <2>3. OneCell(toolCalls', toolCalls, r, c, value)
    BY <2>1, <2>2, CallWritten
  <2> QED
    BY <1>4, <2>1, <2>3 DEF CompleteReportJob, OneCell
<1>5. ASSUME NEW r \in Runs, NEW c \in Calls, NEW decision \in {"approved", "rejected"},
             DecideApproval(r, c, decision)
      PROVE  Move
  <2>1. PICK value \in {"running", "rejected"} : toolCalls' = [toolCalls EXCEPT ![r][c] = value]
    BY <1>5 DEF DecideApproval
  <2>2. OneCell(toolCalls', toolCalls, r, c, value) /\ toolCalls[r][c] = "approval_required"
    <3>1. value \in CallStatuses
      BY DEF CallStatuses
    <3> QED
      BY <1>5, <2>1, <3>1, CallWritten DEF DecideApproval
  <2> QED
    BY <1>5, <2>1, <2>2 DEF DecideApproval, OneCell
<1>6. ASSUME NEW r \in Runs, NEW c \in Calls, ExpireOnDecide(r, c)
      PROVE  Move
  BY <1>6 DEF ExpireOnDecide
<1> QED
  BY <1>1, <1>2, <1>3, <1>4, <1>5, <1>6 DEF Reconcile, ReportStep, AdminStep

LEMMA StepMove ==
    ASSUME TypeInv, Next
    PROVE  Move
<1>1. ASSUME NEW x \in Slots, AgentLoop(x)
      PROVE  SoftMove(x) \/ WriteMove(x)
  BY <1>1, ReadRunMove, ConsumeMove, LoopMoves, SkillMove, CallMove, DeferMove, ReportRefusedMove,
     HandOverMoves, AnswerMoves, CompleteMove, LeavingMoves DEF AgentLoop
<1>2. ASSUME NEW x \in Slots, ApplySignal(x)
      PROVE  SoftMove(x) \/ WriteMove(x)
  BY <1>2, ReadWaitMove, HandOverMoves, LeavingMoves, ResolveMove DEF ApplySignal
<1>3. ASSUME NEW x \in Slots,
             SlotStep(x) \/ AttemptTimesOut(x) \/ FailBeforeStep(x) \/ HandOverFails(x)
      PROVE  SoftMove(x) \/ WriteMove(x)
  BY <1>1, <1>2, <1>3, StartAttemptMove, AnswerMoves, LeavingMoves, TimesOutMove, LoopMoves
     DEF SlotStep
<1> QED
  BY <1>3, OtherMoves DEF Next, Move

(*****************************************************************************)
(* Types and the fence are kept by every move.                               *)
(*****************************************************************************)

LEMMA RunKept ==
    ASSUME TypeInv, Move
    PROVE  RunOK' /\ SessionOK'
<1> USE DEF RunOK, SessionOK
<1>1. ASSUME NEW x \in Slots, SoftMove(x)
      PROVE  RunOK' /\ SessionOK'
  BY <1>1 DEF SoftMove, OnlySession, TypeInv
<1>2. ASSUME NEW x \in Slots, WriteMove(x)
      PROVE  RunOK' /\ SessionOK'
  BY <1>2 DEF WriteMove, OnlySession, OnlyRun, TypeInv
<1>3. CASE RestMove
  BY <1>3 DEF RestMove, TypeInv
<1>4. CASE DieMove
  <2>1. \A x \in Slots : session'[x] = Idle
    BY <1>4 DEF DieMove
  <2>2. SignalledOK(Idle) /\ Idle \in Sessions /\ Idle.pc = "idle"
    BY IdleFacts DEF SignalledOK, Applying
  <2> QED
    BY <1>4, <2>1, <2>2 DEF DieMove, TypeInv
<1> QED
  BY <1>1, <1>2, <1>3, <1>4 DEF Move

\* A write takes the row's version one further, and nothing takes it back.
LEMMA WrittenRow ==
    ASSUME TypeInv, NEW x \in Slots, WriteMove(x), NEW q \in Runs
    PROVE  /\ q # session[x].run => run'[q] = run[q]
           /\ run[q].version \in Nat /\ run'[q].version \in Nat
           /\ run[q].version <= run'[q].version
           /\ q = session[x].run => run'[q].version = run[q].version + 1
           /\ run[q].consumedSteps \in Nat /\ run'[q].consumedSteps \in Nat
           /\ run[q].consumedSteps <= run'[q].consumedSteps
<1>1. run[q] \in RunRows /\ run'[q] \in RunRows
  BY DEF WriteMove, OnlyRun, TypeInv, RunOK
<1>2. run[q].version \in Nat /\ run[q].consumedSteps \in Nat
  BY <1>1, RowTypes
<1>3. run'[q].version \in Nat /\ run'[q].consumedSteps \in Nat
  BY <1>1, RowTypes
<1>4. CASE q # session[x].run
  BY <1>2, <1>4 DEF WriteMove, OnlyRun
<1>5. CASE q = session[x].run
  BY <1>2, <1>3, <1>5 DEF WriteMove
<1> QED
  BY <1>2, <1>3, <1>4, <1>5

LEMMA StepPaidKept ==
    ASSUME TypeInv, Move
    PROVE  StepPaid'
<1> SUFFICES ASSUME NEW y \in Slots, session'[y].pc = "model"
             PROVE  run'[session'[y].run].consumedSteps >= 1
  BY DEF StepPaid
<1> USE DEF TypeInv, StepPaid
<1>1. ASSUME NEW x \in Slots, SoftMove(x)
      PROVE  run'[session'[y].run].consumedSteps >= 1
  BY <1>1 DEF SoftMove, OnlySession, GoesOn, SameAttempt
<1>2. ASSUME NEW x \in Slots, WriteMove(x)
      PROVE  run'[session'[y].run].consumedSteps >= 1
  <2>1. CASE y # x
    <3>1. session'[y] = session[y] /\ session[y].run \in Runs
      BY <1>2, <2>1 DEF WriteMove, OnlySession, SessionOK
    <3>2. run[session[y].run].consumedSteps >= 1
      BY <3>1
    <3>3. run[session[y].run].consumedSteps <= run'[session[y].run].consumedSteps
          /\ run[session[y].run].consumedSteps \in Nat /\ run'[session[y].run].consumedSteps \in Nat
      BY <1>2, <3>1, WrittenRow
    <3> QED
      BY <3>1, <3>2, <3>3
  <2>2. CASE y = x
    <3>1. /\ session[x].pc = "prompt" /\ session'[x].run = session[x].run
          /\ run'[session[x].run].consumedSteps = run[session[x].run].consumedSteps + 1
          /\ session[x].run \in Runs
      BY <1>2, <2>2 DEF WriteMove
    <3>2. run[session[x].run].consumedSteps \in Nat
      BY <1>2, <3>1, WrittenRow
    <3> QED
      BY <2>2, <3>1, <3>2
  <2> QED
    BY <2>1, <2>2
<1>3. CASE RestMove
  BY <1>3 DEF RestMove
<1>4. CASE DieMove
  BY <1>4, IdleFacts DEF DieMove
<1> QED
  BY <1>1, <1>2, <1>3, <1>4 DEF Move

LEMMA BehindKept ==
    ASSUME TypeInv, Behind, Move
    PROVE  Behind'
<1> SUFFICES ASSUME NEW y \in Slots, session'[y].pc \in Fenced
             PROVE  session'[y].version <= run'[session'[y].run].version
  BY DEF Behind
<1> USE DEF Behind
<1>1. ASSUME NEW x \in Slots, SoftMove(x)
      PROVE  session'[y].version <= run'[session'[y].run].version
  <2>1. CASE y # x
    BY <1>1, <2>1 DEF SoftMove, OnlySession
  <2>2. CASE y = x
    <3>1. /\ UNCHANGED run /\ session'[x].run = session[x].run /\ session[x].pc # "idle"
          /\ \/ session'[x].version = run[session[x].run].version
             \/ session[x].pc \in Fenced /\ session'[x].version = session[x].version
      BY <1>1, <2>2 DEF SoftMove, SameAttempt, GoesOn, Fenced, Applying
    <3>2. run[session[x].run].version \in Nat
      BY <3>1, SessionTypes, RowTypes
    <3> QED
      BY <2>2, <3>1, <3>2
  <2> QED
    BY <2>1, <2>2
<1>2. ASSUME NEW x \in Slots, WriteMove(x)
      PROVE  session'[y].version <= run'[session'[y].run].version
  <2>1. CASE y # x
    <3>1. session'[y] = session[y] /\ session[y].run \in Runs /\ session[y].version \in Nat
      BY <1>2, <2>1, SessionTypes DEF WriteMove, OnlySession, Fenced, Applying
    <3>2. /\ session[y].version <= run[session[y].run].version
          /\ run[session[y].run].version <= run'[session[y].run].version
          /\ run[session[y].run].version \in Nat /\ run'[session[y].run].version \in Nat
      BY <1>2, <3>1, WrittenRow
    <3> QED
      BY <3>1, <3>2
  <2>2. CASE y = x
    <3>1. /\ session'[x].run = session[x].run /\ session[x].run \in Runs
          /\ session'[x].version = session[x].version + 1
          /\ run[session[x].run].version = session[x].version
          /\ run'[session[x].run].version = run[session[x].run].version + 1
      BY <1>2, <2>2 DEF WriteMove, Current
    <3>2. session[x].version \in Nat
      BY SessionTypes
    <3> QED
      BY <2>2, <3>1, <3>2
  <2> QED
    BY <2>1, <2>2
<1>3. CASE RestMove
  BY <1>3 DEF RestMove
<1>4. CASE DieMove
  BY <1>4, IdleFacts DEF DieMove, Fenced, Applying
<1> QED
  BY <1>1, <1>2, <1>3, <1>4 DEF Move

LEMMA CarriesKept ==
    ASSUME TypeInv, Carries, Rows, Move
    PROVE  Carries'
<1> SUFFICES ASSUME NEW y \in Slots
             PROVE  CarriesOK(session'[y])
  BY DEF Carries
<1>1. ASSUME NEW x \in Slots, SoftMove(x)
      PROVE  CarriesOK(session'[y])
  <2>1. CASE y # x
    BY <1>1, <2>1 DEF SoftMove, OnlySession, Carries
  <2>2. CASE y = x /\ session'[x].pc = "prompt" /\ session[x].pc = "advance"
    <3>1. /\ session'[x].wait = run[session[x].run].wait
          /\ run[session[x].run].status \notin Terminal
          /\ run[session[x].run].wait = NoWait \/ run[session[x].run].status = "running"
      BY <1>1, <2>2 DEF SoftMove, GoesOn, Fenced, Applying
    <3>2. session[x].run \in Runs
      BY <2>2, SessionTypes
    <3> QED
      BY <2>2, <3>1, <3>2 DEF Rows, RowOK, CarriesOK
  <2>3. CASE y = x /\ GoesOn(session[x], session'[x], run[session[x].run])
    BY <2>3 DEF GoesOn, Carries, CarriesOK, Fenced, Applying
  <2>4. CASE y = x /\ session'[x].pc \notin {"prompt", "model", "enqueue", "mark", "finish"}
    BY <2>4 DEF CarriesOK
  <2> QED
    BY <1>1, <2>1, <2>2, <2>3, <2>4 DEF SoftMove
<1>2. ASSUME NEW x \in Slots, WriteMove(x)
      PROVE  CarriesOK(session'[y])
  <2>1. CASE y # x
    BY <1>2, <2>1 DEF WriteMove, OnlySession, Carries
  <2>2. CASE y = x
    BY <1>2, <2>2 DEF WriteMove, Carries, CarriesOK
  <2> QED
    BY <2>1, <2>2
<1>3. CASE RestMove
  BY <1>3 DEF RestMove, Carries
<1>4. CASE DieMove
  BY <1>4, IdleFacts DEF DieMove, CarriesOK
<1> QED
  BY <1>1, <1>2, <1>3, <1>4 DEF Move

\* The model has been told nothing of a call it has not made.
LEMMA Untold ==
    ASSUME TypeInv, Told, NEW r \in Runs, NEW c \in Calls, toolCalls[r][c] = "none"
    PROVE  results[r][c] = 0
<1>1. results[r][c] \in Nat /\ ToldTruly(r, c)
  BY DEF TypeInv, LedgerOK, Told
<1>2. results[r][c] <= 1 /\ results[r][c] # 1
  BY <1>1 DEF ToldTruly
<1> QED
  BY <1>1, <1>2

LEMMA MeetsSame ==
    ASSUME TypeInv, NEW y \in Slots, Meets(y), session'[y] = session[y],
           session[y].pc \in Fenced => run'[session[y].run] = run[session[y].run],
           \A c \in Calls : session[y].pc \in Fenced =>
                /\ toolCalls[session[y].run][c] = "none" => toolCalls'[session[y].run][c] = "none"
                /\ results'[session[y].run][c] = results[session[y].run][c]
    PROVE  Meets(y)'
<1>1. SUFFICES ASSUME session[y].pc \in Fenced, Current(y)
               PROVE  MeetsOK(session[y], run[session[y].run], toolCalls'[session[y].run],
                              results'[session[y].run])
  BY DEF Meets, Current
<1>2. MeetsOK(session[y], run[session[y].run], toolCalls[session[y].run],
              results[session[y].run])
  BY <1>1 DEF Meets
<1>3. session[y].wait # NoWait => session[y].wait.call \in Calls
  BY SessionTypes, WaitCalls
<1>4. session[y].pc = "model" => run[session[y].run].consumedSteps \in Calls
  BY ModelCall
<1> QED
  BY <1>1, <1>2, <1>3, <1>4 DEF MeetsOK

LEMMA MetGoesOn ==
    ASSUME TypeInv, Carries, Met, Rows, Told, NEW x \in Slots, SoftMove(x),
           SameAttempt(session[x], session'[x]),
           GoesOn(session[x], session'[x], run[session[x].run])
    PROVE  Meets(x)'
<1> DEFINE s == session[x]
           t == session'[x]
           r == session[x].run
           row == run[session[x].run]
<1>1. /\ UNCHANGED <<run, toolCalls, results>> /\ t.run = r /\ r \in Runs
      /\ s.pc \in Fenced /\ t.version = s.version
  BY SessionTypes DEF SoftMove, GoesOn, SameAttempt
<1>2. SUFFICES ASSUME Current(x)
               PROVE  MeetsOK(t, row, toolCalls[r], results[r])
  BY <1>1 DEF Meets, Current
<1>3. MeetsOK(s, row, toolCalls[r], results[r])
  BY <1>1, <1>2 DEF Met, Meets
<1>4. CarriesOK(s) /\ RowOK(row, toolCalls[r], results[r]) /\ row \in RunRows
  BY <1>1 DEF Carries, Rows, TypeInv, RunOK
<1>5. CASE t.pc = s.pc /\ t.wait = s.wait /\ t.fatal = s.fatal
  BY <1>3, <1>5 DEF MeetsOK
<1>6. CASE s.pc = "prompt" /\ t.pc = "finish" /\ t.wait = s.wait /\ t.fatal
  BY <1>3, <1>4, <1>6, ConstantFacts DEF MeetsOK, CarriesOK, RowOK, Fenced, Applying
<1>7. CASE s.pc = "model" /\ t.pc \in {"prompt", "finish"} /\ t.wait = s.wait
  BY <1>3, <1>4, <1>7 DEF MeetsOK, CarriesOK, Applying
<1>8. CASE /\ s.pc = "model" /\ t.pc = "finish" /\ t.fatal
           /\ t.wait = [kind |-> "report", call |-> row.consumedSteps]
  <2>1. row.consumedSteps \in Calls /\ toolCalls[r][row.consumedSteps] = "none"
    BY <1>3, <1>8, ModelCall DEF MeetsOK
  <2>2. results[r][row.consumedSteps] = 0
    BY <1>1, <2>1, Untold
  <2> QED
    BY <1>3, <1>8, <2>1, <2>2 DEF MeetsOK, Applying
<1>9. CASE s.pc = "enqueue" /\ t.pc = "mark" /\ t.wait = s.wait
  BY <1>3, <1>9 DEF MeetsOK, Applying
<1>10. CASE s.pc \in {"enqueue", "mark"} /\ t.pc = "finish" /\ t.wait = s.wait /\ t.fatal
  BY <1>3, <1>4, <1>10 DEF MeetsOK, RowOK, Applying
<1>11. CASE /\ s.pc \in {"reserve", "send", "sent"} /\ t.pc \in {"send", "sent", "settle"}
            /\ t.wait = s.wait
  BY <1>3, <1>11 DEF MeetsOK, Applying
<1> QED
  BY <1>5, <1>6, <1>7, <1>8, <1>9, <1>10, <1>11 DEF GoesOn

LEMMA MetSoft ==
    ASSUME TypeInv, Carries, Met, Rows, Told, NEW x \in Slots, SoftMove(x), NEW y \in Slots
    PROVE  Meets(y)'
<1>0. UNCHANGED <<run, toolCalls, results>>
  BY DEF SoftMove
<1>1. CASE y # x
  BY <1>0, <1>1, MeetsSame DEF SoftMove, OnlySession, Met
<1>2. CASE y = x /\ session'[x].pc \notin Fenced
  BY <1>2 DEF Meets
<1>3. CASE y = x /\ session[x].pc = "advance" /\ session'[x].pc = "prompt"
  <2>1. /\ session'[x].run = session[x].run /\ session[x].run \in Runs
        /\ run[session[x].run].status \notin Terminal
        /\ run[session[x].run].wait = NoWait \/ run[session[x].run].status = "running"
    BY <1>3, SessionTypes DEF SoftMove, GoesOn, Fenced, Applying, SameAttempt
  <2>2. run[session[x].run] \in RunRows
    BY <2>1 DEF TypeInv, RunOK
  <2>3. run[session[x].run].status \in Statuses
    BY <2>2 DEF RunRows
  <2>4. run[session[x].run].status \in {"queued", "running"}
    BY <2>1, <2>3 DEF Rows, RowOK, NoWait, Statuses, Waiting
  <2> QED
    BY <1>0, <1>3, <2>1, <2>4 DEF Meets, MeetsOK, Applying
<1>4. CASE /\ y = x /\ SameAttempt(session[x], session'[x]) /\ session'[x].pc \in Applying
           /\ session'[x].wait = run[session[x].run].wait
  BY <1>0, <1>4 DEF Meets, MeetsOK, Applying, SameAttempt
<1>5. CASE /\ y = x /\ SameAttempt(session[x], session'[x])
           /\ GoesOn(session[x], session'[x], run[session[x].run])
  BY <1>5, MetGoesOn
<1>6. session'[x].pc \in Fenced =>
        \/ session[x].pc = "advance" /\ session'[x].pc = "prompt"
        \/ /\ SameAttempt(session[x], session'[x]) /\ session'[x].pc \in Applying
           /\ session'[x].wait = run[session[x].run].wait
        \/ /\ SameAttempt(session[x], session'[x])
           /\ GoesOn(session[x], session'[x], run[session[x].run])
  BY DEF SoftMove, Fenced, Applying
<1> QED
  BY <1>1, <1>2, <1>3, <1>4, <1>5, <1>6

\* What a write leaves alone: the cells of other runs, and the run's other calls.
LEMMA WrittenCells ==
    ASSUME TypeInv, NEW x \in Slots, WriteMove(x), NEW q \in Runs, q # session[x].run,
           NEW c \in Calls
    PROVE  toolCalls'[q][c] = toolCalls[q][c] /\ results'[q][c] = results[q][c]
  BY DEF WriteMove, ElseSame

LEMMA MetWrite ==
    ASSUME TypeInv, FenceInv, NEW x \in Slots, WriteMove(x), NEW y \in Slots
    PROVE  Meets(y)'
<1>1. CASE y # x /\ session[y].pc \notin Fenced
  BY <1>1 DEF WriteMove, OnlySession, Meets
<1>2. CASE y # x /\ session[y].pc \in Fenced /\ session[y].run # session[x].run
  <2>1. session[y].run \in Runs /\ session'[y] = session[y]
    BY <1>2, SessionTypes DEF WriteMove, OnlySession, Fenced, Applying
  <2> QED
    BY <1>2, <2>1, MeetsSame, WrittenRow, WrittenCells DEF FenceInv, Met
<1>3. CASE y # x /\ session[y].pc \in Fenced /\ session[y].run = session[x].run
  <2>1. session[y].run \in Runs /\ session'[y] = session[y] /\ session[y].version \in Nat
    BY <1>3, SessionTypes DEF WriteMove, OnlySession, Fenced, Applying
  <2>2. /\ session[y].version <= run[session[y].run].version
        /\ run'[session[y].run].version = run[session[y].run].version + 1
        /\ run[session[y].run].version \in Nat
    BY <1>3, <2>1, WrittenRow DEF FenceInv, Behind
  <2>3. run'[session'[y].run].version # session'[y].version
    BY <2>1, <2>2
  <2> QED
    BY <2>3 DEF Meets, Current
<1>4. CASE y = x
  <2>1. /\ session'[x].run = session[x].run /\ session[x].run \in Runs
        /\ MeetsOK(session[x], run[session[x].run], toolCalls[session[x].run],
                   results[session[x].run])
        /\ CarriesOK(session[x])
    BY DEF WriteMove, FenceInv, Met, Meets, Carries
  <2>2. CASE session'[x].pc \notin Fenced
    BY <1>4, <2>2 DEF Meets
  <2>3. CASE session[x].pc = "prompt"
    <3>1. /\ session'[x].pc = "model" /\ run'[session[x].run].status = "running"
          /\ run'[session[x].run].consumedSteps = run[session[x].run].consumedSteps + 1
          /\ UNCHANGED toolCalls
      BY <2>3 DEF WriteMove
    <3>2. /\ run[session[x].run].consumedSteps + 1 \in Nat \ {0}
          /\ run[session[x].run].consumedSteps \in Nat
          /\ run'[session[x].run] \in RunRows
      BY <2>1 DEF WriteMove, OnlyRun, TypeInv, RunOK, RunRows
    <3>3. run'[session[x].run].consumedSteps \in Calls
      BY <3>1, <3>2, RowTypes DEF Calls
    <3>4. toolCalls[session[x].run][run'[session[x].run].consumedSteps] = "none"
      BY <2>1, <3>1, <3>2, <3>3 DEF FenceInv, Rows, RowOK
    <3> QED
      BY <1>4, <2>1, <3>1, <3>4 DEF Meets, MeetsOK, Applying
  <2>4. CASE session[x].pc = "model" /\ session'[x].pc \in {"prompt", "finish"}
    <3>1. /\ session'[x].wait = session[x].wait
          /\ run'[session[x].run].status = run[session[x].run].status
      BY <2>4 DEF WriteMove, PersistReportWait, PersistApprovalWait
    <3> QED
      BY <1>4, <2>1, <2>4, <3>1 DEF Meets, MeetsOK, CarriesOK, Applying
  <2>5. CASE session[x].pc = "model" /\ session'[x].pc \notin {"prompt", "finish", "return"}
    <3>1. /\ session'[x].pc = "enqueue" /\ session'[x].wait = run'[session[x].run].wait
          /\ run'[session[x].run].status = "waiting_for_tool"
      BY <2>5 DEF WriteMove
    <3> QED
      BY <1>4, <2>1, <3>1 DEF Meets, MeetsOK, Applying
  <2> QED
    BY <2>2, <2>3, <2>4, <2>5 DEF WriteMove, Fenced, Applying
<1> QED
  BY <1>1, <1>2, <1>3, <1>4

LEMMA MetKept ==
    ASSUME TypeInv, FenceInv, Told, Move
    PROVE  Met'
<1> SUFFICES ASSUME NEW y \in Slots
             PROVE  Meets(y)'
  BY DEF Met
<1>1. CASE \E x \in Slots : SoftMove(x) \/ WriteMove(x)
  BY <1>1, MetSoft, MetWrite DEF FenceInv
<1>2. CASE RestMove
  <2>1. \A c \in Calls : session[y].pc \in Fenced =>
          /\ toolCalls[session[y].run][c] = "none" => toolCalls'[session[y].run][c] = "none"
          /\ results'[session[y].run][c] = results[session[y].run][c]
    BY <1>2, SessionTypes DEF RestMove, Fenced, Applying
  <2> QED
    BY <1>2, <2>1, MeetsSame DEF RestMove, FenceInv, Met
<1>3. CASE DieMove
  BY <1>3, IdleFacts DEF DieMove, Meets, Fenced, Applying
<1> QED
  BY <1>1, <1>2, <1>3 DEF Move

\* The call an attempt settles is in the ledger: its signal says what became of it.
LEMMA SettledCall ==
    ASSUME TypeInv, FenceInv, Answered, Reported, TrueSignals, NEW x \in Slots,
           session[x].pc = "settle", Current(x)
    PROVE  /\ session[x].wait.call \in Calls /\ session[x].wait.kind = session[x].signal.kind
           /\ session[x].signal.call = session[x].wait.call
           /\ run[session[x].run].wait = session[x].wait /\ session[x].wait # NoWait
           /\ toolCalls[session[x].run][session[x].wait.call] # "none"
<1> DEFINE r == session[x].run
           c == session[x].wait.call
           signal == session[x].signal
<1>1. /\ r \in Runs /\ signal \in Signals /\ signal # NoSignal /\ session[x].wait = WaitOf(signal)
      /\ IsTrue(r, signal)
  BY SessionTypes DEF TypeInv, SessionOK, SignalledOK, Applying, TrueSignals
<1>2. /\ signal.call \in Calls /\ WaitOf(signal) # NoWait /\ c = signal.call
      /\ session[x].wait.kind = signal.kind
      /\ \/ signal.kind = "report" /\ signal.decision = "completed"
         \/ signal.kind = "approval" /\ signal.decision \in {"approved", "rejected"}
  BY <1>1, SignalCalls DEF WaitOf
<1>3. run[r].wait = session[x].wait
  BY DEF FenceInv, Met, Meets, MeetsOK, Fenced, Applying
<1>4. CASE signal.kind = "report"
  <2>1. job[r].status = "completed" /\ job[r].call = c
    BY <1>1, <1>2, <1>4 DEF IsTrue
  <2>2. toolCalls[r][c] = "completed"
    BY <1>1, <2>1 DEF Reported, JobAgrees
  <2> QED
    BY <1>1, <1>2, <1>3, <2>2
<1>5. CASE signal.kind = "approval"
  <2>1. approvals[r][c] \in {"approved", "rejected"}
    BY <1>1, <1>2, <1>5 DEF IsTrue
  <2>2. toolCalls[r][c] # "none"
    BY <1>1, <1>2, <2>1 DEF Answered, AnswerOf
  <2> QED
    BY <1>1, <1>2, <1>3, <2>2
<1> QED
  BY <1>2, <1>4, <1>5

LEMMA RowWritten ==
    ASSUME TypeInv, FenceInv, Answered, Reported, TrueSignals, Told, NEW x \in Slots, WriteMove(x)
    PROVE  RowOK(run'[session[x].run], toolCalls'[session[x].run], results'[session[x].run])
<1> DEFINE s == session[x]
           r == session[x].run
           row == run[session[x].run]
           new == run'[session[x].run]
<1>1. r \in Runs /\ s.pc \in Fenced /\ Current(x) /\ row \in RunRows /\ new \in RunRows
  BY DEF WriteMove, OnlyRun, TypeInv, RunOK
<1>2. /\ MeetsOK(s, row, toolCalls[r], results[r]) /\ CarriesOK(s)
      /\ RowOK(row, toolCalls[r], results[r])
  BY <1>1 DEF FenceInv, Met, Meets, Carries, Rows
<1>3. row.consumedSteps \in Nat /\ Calls \subseteq Nat
  BY <1>1, RowTypes, CallFacts
<1>4. CASE s.pc = "prompt"
  <2>1. /\ new.status = "running" /\ new.wait = row.wait
        /\ new.consumedSteps = row.consumedSteps + 1 /\ UNCHANGED <<toolCalls, results>>
    BY <1>4 DEF WriteMove
  <2>2. row.wait = NoWait
    BY <1>2, <1>4 DEF MeetsOK, RowOK
  <2>3. \A c \in Calls : toolCalls[r][c] # "none" => c <= row.consumedSteps + 1
    BY <1>2, <1>3 DEF RowOK
  <2> QED
    BY <2>1, <2>2, <2>3 DEF RowOK
<1>5. CASE s.pc = "model" /\ session'[x].pc \in {"prompt", "finish"}
  <2>1. /\ new.status = row.status /\ new.wait = row.wait /\ new.consumedSteps = row.consumedSteps
        /\ ElseSame(toolCalls', toolCalls, r, row.consumedSteps) /\ UNCHANGED results
    BY <1>5 DEF WriteMove
  <2>2. row.status = "running" /\ row.wait = NoWait
    BY <1>2, <1>5 DEF MeetsOK, RowOK
  <2>3. \A c \in Calls : toolCalls'[r][c] # "none" => c <= row.consumedSteps
    BY <1>1, <1>2, <1>3, <2>1 DEF RowOK, ElseSame
  <2> QED
    BY <2>1, <2>2, <2>3 DEF RowOK
<1>6. CASE s.pc = "model" /\ session'[x].pc \notin {"prompt", "finish"}
  <2>1. /\ toolCalls[r][row.consumedSteps] = "none"
        /\ \/ new.status = "waiting_for_tool" /\ new.wait.kind = "report"
           \/ new.status = "waiting_for_admin" /\ new.wait.kind = "approval"
        /\ new.wait # NoWait /\ new.wait.call = row.consumedSteps
        /\ new.consumedSteps = row.consumedSteps
        /\ ElseSame(toolCalls', toolCalls, r, row.consumedSteps) /\ UNCHANGED results
    BY <1>6 DEF WriteMove
  <2>2. results[r][row.consumedSteps] = 0
    BY <1>1, <1>6, <2>1, ModelCall, Untold
  <2>3. \A c \in Calls : toolCalls'[r][c] # "none" => c <= row.consumedSteps
    BY <1>1, <1>2, <1>3, <2>1 DEF RowOK, ElseSame
  <2> QED
    BY <2>1, <2>2, <2>3 DEF RowOK
<1>7. CASE s.pc = "finish"
  <2>1. /\ new.status = IF s.fatal THEN "failed" ELSE "completed"
        /\ new.wait = s.wait /\ new.consumedSteps = row.consumedSteps
        /\ UNCHANGED <<toolCalls, results>>
    BY <1>7 DEF WriteMove
  <2>2. /\ s.wait = NoWait \/ (s.fatal /\ s.wait.kind = "report")
        /\ s.wait # NoWait => results[r][s.wait.call] = 0
    BY <1>2, <1>7 DEF MeetsOK, CarriesOK
  <2> QED
    BY <1>2, <2>1, <2>2 DEF RowOK
<1>8. CASE s.pc = "settle"
  <2>1. /\ new.status = "running" /\ new.wait = NoWait /\ new.consumedSteps = row.consumedSteps
        /\ ElseSame(toolCalls', toolCalls, r, s.wait.call)
    BY <1>8 DEF WriteMove
  <2>2. s.wait.call \in Calls /\ toolCalls[r][s.wait.call] # "none"
    BY <1>1, <1>8, SettledCall
  <2>3. \A c \in Calls : toolCalls'[r][c] # "none" => c <= row.consumedSteps
    BY <1>1, <1>2, <2>1, <2>2 DEF RowOK, ElseSame
  <2> QED
    BY <2>1, <2>3 DEF RowOK
<1> QED
  BY <1>4, <1>5, <1>6, <1>7, <1>8 DEF WriteMove

LEMMA RowsKept ==
    ASSUME TypeInv, FenceInv, Answered, Reported, TrueSignals, Told, Move
    PROVE  Rows'
<1> SUFFICES ASSUME NEW q \in Runs
             PROVE  RowOK(run'[q], toolCalls'[q], results'[q])
  BY DEF Rows
<1>1. RowOK(run[q], toolCalls[q], results[q])
  BY DEF FenceInv, Rows
<1>2. ASSUME NEW x \in Slots, SoftMove(x)
      PROVE  RowOK(run'[q], toolCalls'[q], results'[q])
  BY <1>1, <1>2 DEF SoftMove
<1>3. ASSUME NEW x \in Slots, WriteMove(x)
      PROVE  RowOK(run'[q], toolCalls'[q], results'[q])
  <2>1. CASE q = session[x].run
    BY <1>3, <2>1, RowWritten
  <2>2. CASE q # session[x].run
    <3>1. run'[q] = run[q]
      BY <1>3, <2>2, WrittenRow
    <3>2. run[q].wait # NoWait => run[q].wait.call \in Calls
      BY WaitCalls, RowTypes DEF TypeInv, RunOK
    <3>3. \A c \in Calls : toolCalls'[q][c] = toolCalls[q][c] /\ results'[q][c] = results[q][c]
      BY <1>3, <2>2, WrittenCells
    <3> QED
      BY <1>1, <3>1, <3>2, <3>3 DEF RowOK
  <2> QED
    BY <2>1, <2>2
<1>4. CASE RestMove
  BY <1>1, <1>4 DEF RestMove, RowOK
<1>5. CASE DieMove
  BY <1>1, <1>5 DEF DieMove
<1> QED
  BY <1>2, <1>3, <1>4, <1>5 DEF Move

\* Every move keeps the fence, as long as the books are true.
LEMMA FenceKept ==
    ASSUME TypeInv, FenceInv, BooksInv, Move
    PROVE  FenceInv'
<1> USE DEF FenceInv, BooksInv
<1>1. Behind'
  BY BehindKept
<1>2. Carries'
  BY CarriesKept
<1>3. Met'
  BY MetKept
<1>4. Rows'
  BY RowsKept
<1> QED
  BY <1>1, <1>2, <1>3, <1>4

(*****************************************************************************)
(* The workflow executions.                                                  *)
(*****************************************************************************)

LEMMA WorkflowTypes ==
    ASSUME NEW wf \in Workflows
    PROVE  /\ wf.accepted \in Signals /\ wf.input \in Signals /\ wf.wait \in Waits
           /\ wf.attemptsLeft \in 0..ActivityAttempts /\ wf.attemptsLeft \in Nat
           /\ wf.status \in Statuses
  BY ConstantFacts DEF Workflows

\* What the workflow makes of itself stays a workflow, and has no signal from
\* elsewhere.
SoundWorkflow(r, wf) == wf \in Workflows /\ CalledOK(wf) /\ TrueWorkflow(r, wf)

LEMMA Called ==
    ASSUME NEW wf \in Workflows, NEW phase \in {"start", "advance", "apply"}
    PROVE  /\ Call(wf, phase) \in Workflows /\ CalledOK(Call(wf, phase))
           /\ Call(wf, phase).accepted = wf.accepted /\ Call(wf, phase).input = wf.input
<1>1. PICK next : next = [wf EXCEPT !.phase = phase, !.task = "scheduled",
                                    !.attemptsLeft = ActivityAttempts]
  OBVIOUS
<1>2. ActivityAttempts \in 0..ActivityAttempts
  BY ConstantFacts
<1>3. /\ next \in Workflows /\ next.phase = phase
      /\ next.accepted = wf.accepted /\ next.input = wf.input
  BY <1>1, <1>2 DEF Workflows
<1> QED
  BY <1>1, <1>3 DEF Call, CalledOK

LEMMA Resumed ==
    ASSUME NEW r \in Runs, NEW wf, SoundWorkflow(r, wf)
    PROVE  SoundWorkflow(r, Resume(wf))
<1>1. CASE wf.phase = "wait" /\ wf.accepted # NoSignal
  <2>1. PICK called \in Workflows : /\ called = Call(wf, "apply") /\ CalledOK(called)
                                    /\ called.accepted = wf.accepted /\ called.input = wf.input
    BY Called DEF SoundWorkflow
  <2>2. PICK next : next = [called EXCEPT !.input = wf.accepted, !.accepted = NoSignal]
    OBVIOUS
  <2>3. /\ next \in Workflows /\ next.input = wf.accepted /\ next.accepted = NoSignal
        /\ next.phase = called.phase /\ next.task = called.task
        /\ next.attemptsLeft = called.attemptsLeft
    BY <2>1, <2>2, WorkflowTypes, IdleFacts DEF Workflows, SoundWorkflow
  <2>4. Resume(wf) = next
    BY <1>1, <2>1, <2>2 DEF Resume
  <2> QED
    BY <2>1, <2>3, <2>4 DEF SoundWorkflow, CalledOK, TrueWorkflow, IsTrue
<1>2. CASE ~(wf.phase = "wait" /\ wf.accepted # NoSignal)
  BY <1>2 DEF Resume
<1> QED
  BY <1>1, <1>2

LEMMA RetriedSound ==
    ASSUME NEW r \in Runs, NEW wf, SoundWorkflow(r, wf)
    PROVE  SoundWorkflow(r, Retried(wf))
<1>1. wf.attemptsLeft \in 0..ActivityAttempts /\ wf \in Workflows
  BY WorkflowTypes DEF SoundWorkflow
<1>2. CASE wf.attemptsLeft > 1
  <2>1. PICK left \in 0..ActivityAttempts : left = wf.attemptsLeft - 1
    BY <1>1, <1>2, ConstantFacts
  <2>2. PICK next : next = [wf EXCEPT !.task = "scheduled", !.attemptsLeft = left]
    OBVIOUS
  <2>3. /\ next \in Workflows /\ next.phase = wf.phase
        /\ next.accepted = wf.accepted /\ next.input = wf.input
    BY <1>1, <2>2 DEF Workflows
  <2>4. wf.phase \in {"start", "advance", "apply"}
    BY <1>1, <1>2, ConstantFacts DEF SoundWorkflow, CalledOK
  <2> QED
    BY <1>2, <2>1, <2>2, <2>3, <2>4 DEF Retried, SoundWorkflow, CalledOK, TrueWorkflow
<1>3. CASE ~(wf.attemptsLeft > 1)
  <2>1. PICK next : next = [wf EXCEPT !.phase = "failed", !.task = "none", !.attemptsLeft = 0]
    OBVIOUS
  <2>2. 0 \in 0..ActivityAttempts
    BY ConstantFacts
  <2>3. /\ next \in Workflows /\ next.task = "none" /\ next.attemptsLeft = 0
        /\ next.accepted = wf.accepted /\ next.input = wf.input
    BY <1>1, <2>1, <2>2 DEF Workflows
  <2>4. CalledOK(next)
    BY <2>3 DEF CalledOK
  <2> QED
    BY <1>3, <2>1, <2>3, <2>4 DEF Retried, SoundWorkflow, TrueWorkflow
<1> QED
  BY <1>2, <1>3

LEMMA AdvancedSound ==
    ASSUME TypeInv, NEW x \in Slots, NEW r \in Runs, NEW wf, SoundWorkflow(r, wf)
    PROVE  SoundWorkflow(r, Advanced(wf, x))
<1>1. PICK wait \in Waits, status \in Statuses, result \in Results :
        wait = session[x].wait /\ status = WaitStatus(wait) /\ result = session[x].result
  BY SessionTypes DEF WaitStatus, Statuses, Waiting, Sessions
<1>2. wf \in Workflows /\ wf.accepted \in Signals /\ 0 \in 0..ActivityAttempts
  BY WorkflowTypes, ConstantFacts DEF SoundWorkflow
<1>3. CASE result \in {"reconciled", "applied"}
  <2>1. PICK called \in Workflows : called = Call(wf, "advance") /\ CalledOK(called)
                                    /\ called.accepted = wf.accepted
    BY <1>2, Called
  <2>2. PICK next : next = [called EXCEPT !.status = "running", !.wait = NoWait, !.input = NoSignal]
    OBVIOUS
  <2>3. /\ next \in Workflows /\ next.input = NoSignal /\ next.accepted = wf.accepted
        /\ next.phase = called.phase /\ next.task = called.task
        /\ next.attemptsLeft = called.attemptsLeft
    BY <2>1, <2>2, IdleFacts DEF Workflows, Statuses
  <2>4. Advanced(wf, x) = next
    BY <1>1, <1>3, <2>1, <2>2 DEF Advanced
  <2> QED
    BY <2>1, <2>3, <2>4 DEF SoundWorkflow, CalledOK, TrueWorkflow, IsTrue
<1>4. CASE result = "wait"
  <2>1. PICK next : next = [wf EXCEPT !.phase = "wait", !.task = "none", !.attemptsLeft = 0,
                                      !.status = status, !.wait = wait]
    OBVIOUS
  <2>2. /\ next \in Workflows /\ next.input = wf.input /\ next.accepted = wf.accepted
        /\ next.task = "none" /\ next.attemptsLeft = 0
    BY <1>2, <2>1 DEF Workflows
  <2>3. Advanced(wf, x) = next
    BY <1>1, <1>4, <2>1 DEF Advanced
  <2>4. CalledOK(next)
    BY <2>2 DEF CalledOK
  <2> QED
    BY <2>2, <2>3, <2>4 DEF SoundWorkflow, TrueWorkflow
<1>5. CASE result = "ignored"
  <2>1. PICK next : next = [wf EXCEPT !.phase = "wait", !.task = "none", !.attemptsLeft = 0,
                                      !.input = NoSignal]
    OBVIOUS
  <2>2. /\ next \in Workflows /\ next.input = NoSignal /\ next.accepted = wf.accepted
        /\ next.task = "none" /\ next.attemptsLeft = 0
    BY <1>2, <2>1, IdleFacts DEF Workflows
  <2>3. Advanced(wf, x) = next
    BY <1>1, <1>5, <2>1 DEF Advanced
  <2>4. CalledOK(next)
    BY <2>2 DEF CalledOK
  <2> QED
    BY <2>2, <2>3, <2>4 DEF SoundWorkflow, TrueWorkflow, IsTrue
<1>6. CASE result \notin {"reconciled", "applied", "wait", "ignored"}
  <2>1. PICK returned : returned = [wf EXCEPT !.phase = "returned", !.task = "none",
                                              !.attemptsLeft = 0]
    OBVIOUS
  <2>0. PICK verdict \in {"completed", "failed"} :
          Advanced(wf, x) = [returned EXCEPT !.status = verdict]
    BY <1>1, <1>6, <2>1 DEF Advanced
  <2>2. PICK next : next = [returned EXCEPT !.status = verdict] /\ Advanced(wf, x) = next
    BY <2>0
  <2>3. verdict \in Statuses
    BY DEF Statuses, Terminal
  <2>4. returned \in Workflows /\ returned.input = wf.input /\ returned.accepted = wf.accepted
        /\ returned.task = "none" /\ returned.attemptsLeft = 0
    BY <1>2, <2>1 DEF Workflows
  <2>5. next \in Workflows /\ next.input = wf.input /\ next.accepted = wf.accepted
        /\ next.task = "none" /\ next.attemptsLeft = 0
    BY <2>2, <2>3, <2>4 DEF Workflows
  <2>6. CalledOK(next)
    BY <2>5 DEF CalledOK
  <2> QED
    BY <2>2, <2>5, <2>6 DEF SoundWorkflow, TrueWorkflow
<1> QED
  BY <1>3, <1>4, <1>5, <1>6

Intents == [run: Runs, signal: Signals \ {NoSignal}]

LEMMA HeadOf ==
    ASSUME NEW S, NEW queue \in Seq(S), queue # <<>>
    PROVE  Head(queue) = queue[1] /\ 1 \in 1..Len(queue) /\ queue[1] \in S
  OBVIOUS

\* The steps that move a workflow.
WorkflowMove ==
    \/ \E x \in Slots : CompleteActivity(x) \/ StartAttempt(x) \/ ReserveRefused(x)
                        \/ AbandonStale(x) \/ AttemptTimesOut(x)
    \/ \E r \in Runs : AttemptLost(r) \/ StartWorkflow(r)
    \/ SignalWorkflow

LEMMA WorkflowStep ==
    ASSUME TypeInv, TrueSignals, NEW r \in Runs, NEW new, SoundWorkflow(r, new),
           workflow' = [workflow EXCEPT ![r] = new]
    PROVE  WorkflowOK' /\ \A q \in Runs : TrueWorkflow(q, workflow'[q])
  BY DEF TypeInv, WorkflowOK, TrueSignals, SoundWorkflow

LEMMA WorkflowKept ==
    ASSUME TypeInv, TrueSignals, WorkflowMove
    PROVE  WorkflowOK' /\ \A q \in Runs : TrueWorkflow(q, workflow'[q])
<1>0. \A q \in Runs : SoundWorkflow(q, workflow[q])
  BY DEF TypeInv, WorkflowOK, TrueSignals, SoundWorkflow
<1>1. ASSUME workflow' = workflow
      PROVE  WorkflowOK' /\ \A q \in Runs : TrueWorkflow(q, workflow'[q])
  BY <1>1 DEF TypeInv, WorkflowOK, TrueSignals
<1>2. ASSUME NEW x \in Slots, CompleteActivity(x)
      PROVE  WorkflowOK' /\ \A q \in Runs : TrueWorkflow(q, workflow'[q])
  <2>1. PICK r \in Runs : r = session[x].run
    BY <1>2, SessionTypes DEF CompleteActivity, At
  <2>2. SoundWorkflow(r, Resume(Advanced(workflow[r], x)))
    BY <1>0, AdvancedSound, Resumed
  <2> QED
    BY <1>1, <1>2, <2>1, <2>2, WorkflowStep DEF CompleteActivity
<1>3. ASSUME NEW x \in Slots, ReserveRefused(x) \/ AbandonStale(x) \/ AttemptTimesOut(x)
      PROVE  WorkflowOK' /\ \A q \in Runs : TrueWorkflow(q, workflow'[q])
  <2>0. session[x].pc # "idle"
    BY <1>3 DEF ReserveRefused, AbandonStale, AttemptTimesOut, At, TypeInv, SessionOK, SignalledOK
  <2>1. PICK r \in Runs : r = session[x].run
    BY <2>0, SessionTypes
  <2>2. SoundWorkflow(r, Retried(workflow[r]))
    BY <1>0, RetriedSound
  <2> QED
    BY <1>1, <1>3, <2>1, <2>2, WorkflowStep
       DEF ReserveRefused, AbandonStale, AttemptTimesOut, FailAttempt
<1>4. ASSUME NEW x \in Slots, StartAttempt(x)
      PROVE  WorkflowOK' /\ \A q \in Runs : TrueWorkflow(q, workflow'[q])
  <2>1. PICK r \in Runs : workflow[r].task = "scheduled"
                          /\ workflow' = [workflow EXCEPT ![r].task = "started"]
    BY <1>4 DEF StartAttempt
  <2>2. PICK wf : wf = workflow[r] /\ SoundWorkflow(r, wf)
    BY <1>0
  <2>3. PICK new : new = [wf EXCEPT !.task = "started"]
    OBVIOUS
  <2>4. /\ new \in Workflows /\ new.accepted = wf.accepted /\ new.input = wf.input
        /\ new.phase = wf.phase
    BY <2>2, <2>3 DEF SoundWorkflow, Workflows
  <2>5. SoundWorkflow(r, new)
    BY <2>1, <2>2, <2>4 DEF SoundWorkflow, CalledOK, TrueWorkflow
  <2>6. workflow' = [workflow EXCEPT ![r] = new]
    BY <2>1, <2>2, <2>3
  <2> QED
    BY <2>5, <2>6, WorkflowStep
<1>5. ASSUME NEW r \in Runs, AttemptLost(r)
      PROVE  WorkflowOK' /\ \A q \in Runs : TrueWorkflow(q, workflow'[q])
  BY <1>0, <1>5, RetriedSound, WorkflowStep DEF AttemptLost
<1>6. ASSUME NEW r \in Runs, StartWorkflow(r)
      PROVE  WorkflowOK' /\ \A q \in Runs : TrueWorkflow(q, workflow'[q])
  <2>1. SoundWorkflow(r, Call(workflow[r], "start"))
    BY <1>0, Called DEF SoundWorkflow, TrueWorkflow
  <2> QED
    BY <1>6, <2>1, WorkflowStep DEF StartWorkflow
<1>7. ASSUME SignalWorkflow
      PROVE  WorkflowOK' /\ \A q \in Runs : TrueWorkflow(q, workflow'[q])
  <2>1. /\ Head(outbox) = outbox[1] /\ 1 \in 1..Len(outbox)
        /\ Head(outbox).run \in Runs /\ Head(outbox).signal \in Signals
    <3>1. outbox \in Seq(Intents) /\ outbox # <<>>
      BY <1>7 DEF SignalWorkflow, TypeInv, OutboxOK, Intents
    <3>2. Head(outbox) = outbox[1] /\ 1 \in 1..Len(outbox) /\ outbox[1] \in Intents
      BY <3>1, HeadOf
    <3> QED
      BY <3>2 DEF Intents
  <2>2. PICK r, signal, wf :
          /\ r \in Runs /\ signal \in Signals
          /\ r = Head(outbox).run /\ signal = Head(outbox).signal /\ IsTrue(r, signal)
          /\ wf = workflow[r] /\ SoundWorkflow(r, wf)
    BY <1>0, <2>1 DEF TrueSignals
  <2>3. PICK heard : heard = [wf EXCEPT !.accepted = signal]
    OBVIOUS
  <2>4. /\ heard \in Workflows /\ heard.accepted = signal /\ heard.input = wf.input
        /\ heard.phase = wf.phase /\ heard.task = wf.task /\ heard.attemptsLeft = wf.attemptsLeft
    BY <2>2, <2>3 DEF SoundWorkflow, Workflows
  <2>5. SoundWorkflow(r, Resume(heard))
    BY <2>2, <2>4, Resumed DEF SoundWorkflow, CalledOK, TrueWorkflow
  <2>6. workflow' = workflow \/ workflow' = [workflow EXCEPT ![r] = Resume(heard)]
    BY <1>7, <2>2, <2>3 DEF SignalWorkflow
  <2> QED
    BY <1>1, <2>2, <2>5, <2>6, WorkflowStep
<1> QED
  BY <1>2, <1>3, <1>4, <1>5, <1>6, <1>7 DEF WorkflowMove

(*****************************************************************************)
(* The tables.                                                               *)
(*****************************************************************************)

TablesOK == WorkflowOK /\ JobOK /\ OutboxOK /\ LedgerOK

LEMMA JobCell ==
    ASSUME TypeInv, NEW r \in Runs, NEW new \in JobRows, new.status # "none" => new.call \in Calls,
           job' = [job EXCEPT ![r] = new]
    PROVE  JobOK' /\ job'[r] = new /\ \A q \in Runs \ {r} : job'[q] = job[q]
  BY DEF TypeInv, JobOK

LEMMA JobFields ==
    ASSUME TypeInv, NEW r \in Runs
    PROVE  /\ job[r] \in JobRows /\ job[r].call \in 0..StepBudget /\ job[r].delivered \in BOOLEAN
           /\ job[r].status \in {"none", "queued", "running", "completed"}
           /\ job[r].status # "none" => job[r].call \in Calls
  BY DEF TypeInv, JobOK, JobRows

LEMMA AppendOf ==
    ASSUME NEW S, NEW queue \in Seq(S), NEW e \in S
    PROVE  /\ Append(queue, e) \in Seq(S)
           /\ \A i \in 1..Len(Append(queue, e)) :
                \/ i \in 1..Len(queue) /\ Append(queue, e)[i] = queue[i]
                \/ Append(queue, e)[i] = e
  OBVIOUS

LEMMA TailOf ==
    ASSUME NEW S, NEW queue \in Seq(S), queue # <<>>
    PROVE  /\ Tail(queue) \in Seq(S)
           /\ \A i \in 1..Len(Tail(queue)) :
                i + 1 \in 1..Len(queue) /\ Tail(queue)[i] = queue[i + 1]
  OBVIOUS

LEMMA RecordChange ==
    ASSUME TypeInv, NEW x \in Slots,
           \/ \E outcome \in {"completed", "failed"} : PersistToolOutcome(x, outcome)
           \/ \E outcome \in {"failed", "rejected"} : PersistMappedToolFailure(x, outcome)
    PROVE  \E r \in Runs, c \in Calls, outcome \in {"completed", "failed", "rejected"} :
             /\ r = session[x].run /\ c = run[r].consumedSteps /\ session[x].pc = "model"
             /\ toolCalls[r][c] = "none" /\ OneCell(toolCalls', toolCalls, r, c, outcome)
             /\ UNCHANGED <<approvals, sends, job, results, outbox, emails, workflow>>
             /\ TablesOK'
<1>1. PICK outcome \in {"completed", "failed", "rejected"}, fatal \in BOOLEAN :
        RecordCall(x, outcome, fatal)
  BY SessionTypes DEF PersistToolOutcome, PersistMappedToolFailure
<1>2. /\ session[x].pc = "model"
      /\ UNCHANGED <<approvals, sends, job, results, starts, outbox, overdue, emails,
                     workflow, reconciler, faults>>
  BY DEF PersistToolOutcome, PersistMappedToolFailure, At
<1>3. PICK r \in Runs, c \in Calls : r = session[x].run /\ c = run[r].consumedSteps
  BY <1>2, ModelCall
<1>4. toolCalls[r][c] = "none" /\ toolCalls' = [toolCalls EXCEPT ![r][c] = outcome]
  BY <1>1, <1>3 DEF RecordCall
<1>5. outcome \in CallStatuses
  BY DEF CallStatuses
<1>6. /\ toolCalls' \in [Runs -> [Calls -> CallStatuses]]
      /\ OneCell(toolCalls', toolCalls, r, c, outcome)
  BY <1>4, <1>5, CallWritten
<1>7. TablesOK'
  BY <1>2, <1>6 DEF TablesOK, TypeInv, WorkflowOK, JobOK, OutboxOK, LedgerOK
<1> QED
  BY <1>2, <1>3, <1>4, <1>6, <1>7

LEMMA ReportChange ==
    ASSUME TypeInv, NEW x \in Slots, PersistReportWait(x)
    PROVE  \E r \in Runs, c \in Calls :
             /\ r = session[x].run /\ c = run[r].consumedSteps /\ session[x].pc = "model"
             /\ toolCalls[r][c] = "none" /\ OneCell(toolCalls', toolCalls, r, c, "waiting_job")
             /\ job[r] = NoJob /\ job'[r].status = "queued" /\ job'[r].call = c
             /\ \A q \in Runs \ {r} : job'[q] = job[q]
             /\ UNCHANGED <<approvals, sends, results, outbox, emails, workflow>>
             /\ TablesOK'
<1>1. /\ session[x].pc = "model"
      /\ UNCHANGED <<approvals, sends, results, starts, outbox, overdue, emails,
                     workflow, reconciler, faults>>
  BY DEF PersistReportWait, At
<1>2. PICK r \in Runs, c \in Calls : r = session[x].run /\ c = run[r].consumedSteps
  BY <1>1, ModelCall
<1>3. PICK new : /\ new = [NoJob EXCEPT !.status = "queued", !.call = c]
                 /\ job' = [job EXCEPT ![r] = new] /\ job[r] = NoJob
                 /\ toolCalls[r][c] = "none"
                 /\ toolCalls' = [toolCalls EXCEPT ![r][c] = "waiting_job"]
  BY <1>2 DEF PersistReportWait
<1>4. new \in JobRows /\ new.status = "queued" /\ new.call = c
  BY <1>3, CallFacts DEF NoJob, JobRows
<1>5. JobOK' /\ job'[r] = new /\ \A q \in Runs \ {r} : job'[q] = job[q]
  <2>1. job' = [job EXCEPT ![r] = new] /\ new \in JobRows /\ new.call \in Calls
    BY <1>3, <1>4
  <2> QED
    BY <2>1, JobCell
<1>6. /\ toolCalls' \in [Runs -> [Calls -> CallStatuses]]
      /\ OneCell(toolCalls', toolCalls, r, c, "waiting_job")
  <2>1. "waiting_job" \in CallStatuses
    BY DEF CallStatuses
  <2> QED
    BY <1>3, <2>1, CallWritten
<1>7. TablesOK'
  BY <1>1, <1>5, <1>6 DEF TablesOK, TypeInv, WorkflowOK, OutboxOK, LedgerOK
<1> QED
  BY <1>1, <1>2, <1>3, <1>4, <1>5, <1>6, <1>7

\* A cell of the approvals, like one of the calls.
LEMMA ApprovalWritten ==
    ASSUME TypeInv, NEW r \in Runs, NEW c \in Calls, NEW value \in ApprovalStatuses,
           approvals' = [approvals EXCEPT ![r][c] = value]
    PROVE  /\ approvals' \in [Runs -> [Calls -> ApprovalStatuses]]
           /\ OneCell(approvals', approvals, r, c, value)
<1>1. PICK old, new : /\ old \in [Runs -> [Calls -> ApprovalStatuses]]
                      /\ old = approvals /\ new = approvals'
  BY DEF TypeInv, LedgerOK
<1>2. new = [old EXCEPT ![r][c] = value]
  BY <1>1
<1>3. /\ new \in [Runs -> [Calls -> ApprovalStatuses]]
      /\ OneCell(new, old, r, c, value)
  BY <1>1, <1>2 DEF OneCell
<1> QED
  BY <1>1, <1>3

LEMMA SendWritten ==
    ASSUME TypeInv, NEW r \in Runs, NEW c \in Calls, NEW value \in {"reserved", "sent"},
           sends' = [sends EXCEPT ![r][c] = value]
    PROVE  /\ sends' \in [Runs -> [Calls -> {"none", "reserved", "sent"}]]
           /\ OneCell(sends', sends, r, c, value)
<1>1. PICK old, new : /\ old \in [Runs -> [Calls -> {"none", "reserved", "sent"}]]
                      /\ old = sends /\ new = sends'
  BY DEF TypeInv, LedgerOK
<1>2. new = [old EXCEPT ![r][c] = value]
  BY <1>1
<1>3. /\ new \in [Runs -> [Calls -> {"none", "reserved", "sent"}]]
      /\ OneCell(new, old, r, c, value)
  BY <1>1, <1>2 DEF OneCell
<1> QED
  BY <1>1, <1>3

LEMMA EmailWritten ==
    ASSUME TypeInv, NEW r \in Runs, NEW c \in Calls,
           emails' = [emails EXCEPT ![r][c] = emails[r][c] + 1]
    PROVE  /\ emails' \in [Runs -> [Calls -> Nat]]
           /\ OneCell(emails', emails, r, c, emails[r][c] + 1)
<1>1. PICK old, new, value :
        /\ old \in [Runs -> [Calls -> Nat]]
        /\ old = emails /\ new = emails' /\ value = emails[r][c] + 1
  BY DEF TypeInv, LedgerOK
<1>2. new = [old EXCEPT ![r][c] = value] /\ value \in Nat
  BY <1>1
<1>3. /\ new \in [Runs -> [Calls -> Nat]]
      /\ OneCell(new, old, r, c, value)
  BY <1>1, <1>2 DEF OneCell
<1> QED
  BY <1>1, <1>3

LEMMA ApprovalChange ==
    ASSUME TypeInv, NEW x \in Slots, PersistApprovalWait(x)
    PROVE  \E r \in Runs, c \in Calls :
             /\ r = session[x].run /\ c = run[r].consumedSteps /\ session[x].pc = "model"
             /\ toolCalls[r][c] = "none"
             /\ OneCell(toolCalls', toolCalls, r, c, "approval_required")
             /\ OneCell(approvals', approvals, r, c, "pending")
             /\ UNCHANGED <<sends, job, results, outbox, emails, workflow>>
             /\ TablesOK'
<1>1. /\ session[x].pc = "model"
      /\ UNCHANGED <<sends, job, results, starts, outbox, overdue, emails,
                     workflow, reconciler, faults>>
  BY DEF PersistApprovalWait, At
<1>2. PICK r \in Runs, c \in Calls : r = session[x].run /\ c = run[r].consumedSteps
  BY <1>1, ModelCall
<1>3. /\ toolCalls[r][c] = "none"
      /\ toolCalls' = [toolCalls EXCEPT ![r][c] = "approval_required"]
      /\ approvals' = [approvals EXCEPT ![r][c] = "pending"]
  BY <1>2 DEF PersistApprovalWait
<1>4. "approval_required" \in CallStatuses /\ "pending" \in ApprovalStatuses
  BY DEF CallStatuses, ApprovalStatuses
<1>5. /\ toolCalls' \in [Runs -> [Calls -> CallStatuses]]
      /\ OneCell(toolCalls', toolCalls, r, c, "approval_required")
  BY <1>3, <1>4, CallWritten
<1>6. /\ approvals' \in [Runs -> [Calls -> ApprovalStatuses]]
      /\ OneCell(approvals', approvals, r, c, "pending")
  BY <1>3, <1>4, ApprovalWritten
<1>7. TablesOK'
  BY <1>1, <1>5, <1>6 DEF TablesOK, TypeInv, WorkflowOK, JobOK, OutboxOK, LedgerOK
<1> QED
  BY <1>1, <1>2, <1>3, <1>5, <1>6, <1>7

LEMMA ResolveChange ==
    ASSUME TypeInv, NEW x \in Slots, session[x].wait.call \in Calls, ResolveStateWorkflowWait(x)
    PROVE  \E r \in Runs, c \in Calls, value \in {"rejected", "completed"} :
             /\ r = session[x].run /\ c = session[x].wait.call /\ session[x].pc = "settle"
             /\ value = IF session[x].signal.decision = "rejected" THEN "rejected"
                        ELSE "completed"
             /\ OneCell(toolCalls', toolCalls, r, c, value)
             /\ OneCell(results', results, r, c, results[r][c] + 1)
             /\ UNCHANGED <<approvals, sends, job, outbox, emails, workflow>>
             /\ TablesOK'
<1>1. /\ session[x].pc = "settle" /\ session[x].run \in Runs
      /\ UNCHANGED <<approvals, sends, job, starts, outbox, overdue, emails, workflow,
                     reconciler, faults>>
  BY SessionTypes DEF ResolveStateWorkflowWait, At
<1>2. PICK r \in Runs, c \in Calls, value \in {"rejected", "completed"} :
        /\ r = session[x].run /\ c = session[x].wait.call
        /\ value = IF session[x].signal.decision = "rejected" THEN "rejected" ELSE "completed"
  BY <1>1
<1>3. /\ toolCalls' = [toolCalls EXCEPT ![r][c] = value]
      /\ results' = [results EXCEPT ![r][c] = results[r][c] + 1]
  BY <1>2 DEF ResolveStateWorkflowWait
<1>4. value \in CallStatuses
  BY DEF CallStatuses
<1>5. /\ toolCalls' \in [Runs -> [Calls -> CallStatuses]]
      /\ OneCell(toolCalls', toolCalls, r, c, value)
  BY <1>3, <1>4, CallWritten
<1>6. /\ results' \in [Runs -> [Calls -> Nat]]
      /\ OneCell(results', results, r, c, results[r][c] + 1)
  BY <1>3, ResultWritten
<1>7. TablesOK'
  BY <1>1, <1>5, <1>6 DEF TablesOK, TypeInv, WorkflowOK, JobOK, OutboxOK, LedgerOK
<1> QED
  BY <1>1, <1>2, <1>5, <1>6, <1>7

\* The hand-over of the report and the first delivery change the job alone.
LEMMA QueueChange ==
    ASSUME TypeInv,
           \/ \E x \in Slots : EnqueueReport(x)
           \/ \E r \in Runs : RecordReportProgress(r)
    PROVE  /\ \A q \in Runs :
                /\ job'[q].call = job[q].call
                /\ \/ job'[q].status = job[q].status
                   \/ job[q].status = "queued" /\ job'[q].status = "running"
           /\ UNCHANGED <<run, toolCalls, approvals, sends, results, outbox, emails, workflow>>
           /\ TablesOK'
<1>1. UNCHANGED <<run, toolCalls, approvals, sends, results, starts, outbox, overdue, emails,
                  workflow, reconciler, faults>>
  BY DEF EnqueueReport, RecordReportProgress
<1>2. ASSUME NEW x \in Slots, EnqueueReport(x)
      PROVE  /\ JobOK'
             /\ \A q \in Runs : job'[q].call = job[q].call /\ job'[q].status = job[q].status
  <2>1. PICK r \in Runs : r = session[x].run
    BY <1>2, SessionTypes DEF EnqueueReport, At
  <2>2. PICK old, new : /\ old = job[r] /\ new = [old EXCEPT !.delivered = TRUE]
                        /\ job' = [job EXCEPT ![r] = new]
    BY <1>2, <2>1 DEF EnqueueReport
  <2>3. new \in JobRows /\ new.status = old.status /\ new.call = old.call
    BY <2>2, JobFields DEF JobRows
  <2>4. new.status # "none" => new.call \in Calls
    BY <2>2, <2>3, JobFields
  <2>5. JobOK' /\ job'[r] = new /\ \A q \in Runs \ {r} : job'[q] = job[q]
    BY <2>2, <2>3, <2>4, JobCell
  <2> QED
    BY <2>2, <2>3, <2>5
<1>3. ASSUME NEW r \in Runs, RecordReportProgress(r)
      PROVE  /\ JobOK'
             /\ \A q \in Runs :
                  /\ job'[q].call = job[q].call
                  /\ \/ job'[q].status = job[q].status
                     \/ job[q].status = "queued" /\ job'[q].status = "running"
  <2>2. PICK old, new : /\ old = job[r] /\ new = [old EXCEPT !.status = "running"]
                        /\ old.status = "queued" /\ job' = [job EXCEPT ![r] = new]
    BY <1>3 DEF RecordReportProgress
  <2>3. new \in JobRows /\ new.status = "running" /\ new.call = old.call
    BY <2>2, JobFields DEF JobRows
  <2>4. new.status # "none" => new.call \in Calls
    BY <2>2, <2>3, JobFields
  <2>5. JobOK' /\ job'[r] = new /\ \A q \in Runs \ {r} : job'[q] = job[q]
    BY <2>2, <2>3, <2>4, JobCell
  <2> QED
    BY <2>2, <2>3, <2>5
<1>4. JobOK' => TablesOK'
  BY <1>1 DEF TablesOK, TypeInv, WorkflowOK, OutboxOK, LedgerOK
<1> QED
  BY <1>1, <1>2, <1>3, <1>4

LEMMA OutboxGrows ==
    ASSUME TypeInv, NEW e \in Intents, outbox' = outbox \/ outbox' = Append(outbox, e)
    PROVE  /\ OutboxOK'
           /\ \A i \in 1..Len(outbox') :
                (\E j \in 1..Len(outbox) : outbox'[i] = outbox[j]) \/ outbox'[i] = e
<1>1. outbox \in Seq(Intents)
  BY DEF TypeInv, OutboxOK, Intents
<1>2. CASE outbox' = outbox
  BY <1>1, <1>2 DEF OutboxOK, Intents
<1>3. CASE outbox' = Append(outbox, e)
  BY <1>1, <1>3, AppendOf DEF OutboxOK, Intents
<1> QED
  BY <1>2, <1>3

LEMMA ReportedChange ==
    ASSUME TypeInv, NEW r \in Runs, CompleteReportJob(r)
    PROVE  \E c \in Calls, value \in CallStatuses, e \in Intents :
             /\ c = job[r].call /\ job[r].status = "running"
             /\ job'[r].status = "completed" /\ job'[r].call = c
             /\ \A q \in Runs \ {r} : job'[q] = job[q]
             /\ value = IF toolCalls[r][c] = "waiting_job" THEN "completed" ELSE toolCalls[r][c]
             /\ OneCell(toolCalls', toolCalls, r, c, value)
             /\ e.run = r /\ e.signal.kind = "report" /\ e.signal.call = c
             /\ \A i \in 1..Len(outbox') :
                  (\E j \in 1..Len(outbox) : outbox'[i] = outbox[j]) \/ outbox'[i] = e
             /\ UNCHANGED <<run, approvals, sends, results, emails, workflow>>
             /\ TablesOK'
<1>1. UNCHANGED <<run, approvals, sends, results, starts, overdue, emails, workflow,
                  reconciler, session, faults>>
  BY DEF CompleteReportJob
<1>2. PICK c \in Calls : c = job[r].call /\ job[r].status = "running"
  BY JobFields DEF CompleteReportJob
<1>3. PICK value : value = IF toolCalls[r][c] = "waiting_job" THEN "completed" ELSE toolCalls[r][c]
  OBVIOUS
<1>4. toolCalls' = [toolCalls EXCEPT ![r][c] = value]
  BY <1>2, <1>3 DEF CompleteReportJob
<1>5. value \in CallStatuses
  <2>1. toolCalls[r][c] \in CallStatuses /\ "completed" \in CallStatuses
    BY DEF CallStatuses, TypeInv, LedgerOK
  <2> QED
    BY <1>3, <2>1
<1>6. /\ toolCalls' \in [Runs -> [Calls -> CallStatuses]]
      /\ OneCell(toolCalls', toolCalls, r, c, value)
  BY <1>4, <1>5, CallWritten
<1>7. PICK old, new : /\ old = job[r] /\ new = [old EXCEPT !.status = "completed"]
                      /\ job' = [job EXCEPT ![r] = new]
  BY DEF CompleteReportJob
<1>8. new \in JobRows /\ new.status = "completed" /\ new.call = c
  BY <1>2, <1>7, JobFields DEF JobRows
<1>9. JobOK' /\ job'[r] = new /\ \A q \in Runs \ {r} : job'[q] = job[q]
  BY <1>7, <1>8, JobCell
<1>10. PICK e : e = [run |-> r, signal |->
                        [kind |-> "report", call |-> c, decision |-> "completed"]]
  OBVIOUS
<1>11. e \in Intents /\ e.run = r /\ e.signal.kind = "report" /\ e.signal.call = c
  BY <1>10 DEF Intents, Signals, NoSignal
<1>12. outbox' = outbox \/ outbox' = Append(outbox, e)
  BY <1>2, <1>10 DEF CompleteReportJob
<1>13. /\ OutboxOK'
       /\ \A i \in 1..Len(outbox') :
            (\E j \in 1..Len(outbox) : outbox'[i] = outbox[j]) \/ outbox'[i] = e
  BY <1>11, <1>12, OutboxGrows
<1>14. TablesOK'
  BY <1>1, <1>6, <1>9, <1>13 DEF TablesOK, TypeInv, WorkflowOK, LedgerOK
<1> QED
  BY <1>1, <1>2, <1>3, <1>5, <1>6, <1>8, <1>9, <1>11, <1>13, <1>14

LEMMA DecideChange ==
    ASSUME TypeInv, NEW r \in Runs, NEW c \in Calls, NEW decision \in {"approved", "rejected"},
           DecideApproval(r, c, decision)
    PROVE  \E value \in {"running", "rejected"}, e \in Intents :
             /\ approvals[r][c] = "pending" /\ toolCalls[r][c] = "approval_required"
             /\ value = IF decision = "approved" THEN "running" ELSE "rejected"
             /\ OneCell(approvals', approvals, r, c, decision)
             /\ OneCell(toolCalls', toolCalls, r, c, value)
             /\ e.run = r /\ e.signal.kind = "approval" /\ e.signal.call = c
             /\ e.signal.decision = decision
             /\ \A i \in 1..Len(outbox') :
                  (\E j \in 1..Len(outbox) : outbox'[i] = outbox[j]) \/ outbox'[i] = e
             /\ UNCHANGED <<run, sends, job, results, emails, workflow>>
             /\ TablesOK'
<1>1. /\ approvals[r][c] = "pending" /\ toolCalls[r][c] = "approval_required"
      /\ UNCHANGED <<run, sends, job, results, starts, overdue, emails, workflow,
                     reconciler, session, faults>>
  BY DEF DecideApproval
<1>2. PICK value \in {"running", "rejected"} :
        value = IF decision = "approved" THEN "running" ELSE "rejected"
  OBVIOUS
<1>3. /\ toolCalls' = [toolCalls EXCEPT ![r][c] = value]
      /\ approvals' = [approvals EXCEPT ![r][c] = decision]
  BY <1>2 DEF DecideApproval
<1>4. value \in CallStatuses /\ decision \in ApprovalStatuses
  BY DEF CallStatuses, ApprovalStatuses
<1>5. /\ toolCalls' \in [Runs -> [Calls -> CallStatuses]]
      /\ OneCell(toolCalls', toolCalls, r, c, value)
  BY <1>3, <1>4, CallWritten
<1>6. /\ approvals' \in [Runs -> [Calls -> ApprovalStatuses]]
      /\ OneCell(approvals', approvals, r, c, decision)
  BY <1>3, <1>4, ApprovalWritten
<1>7. PICK e : e = [run |-> r, signal |->
                        [kind |-> "approval", call |-> c, decision |-> decision]]
  OBVIOUS
<1>8. /\ e \in Intents /\ e.run = r /\ e.signal.kind = "approval" /\ e.signal.call = c
      /\ e.signal.decision = decision
  BY <1>7 DEF Intents, Signals, NoSignal
<1>9. outbox' = outbox \/ outbox' = Append(outbox, e)
  BY <1>7 DEF DecideApproval
<1>10. /\ OutboxOK'
       /\ \A i \in 1..Len(outbox') :
            (\E j \in 1..Len(outbox) : outbox'[i] = outbox[j]) \/ outbox'[i] = e
  BY <1>8, <1>9, OutboxGrows
<1>11. TablesOK'
  BY <1>1, <1>5, <1>6, <1>10 DEF TablesOK, TypeInv, WorkflowOK, JobOK, LedgerOK
<1> QED
  BY <1>1, <1>2, <1>5, <1>6, <1>8, <1>10, <1>11

LEMMA ExpireChange ==
    ASSUME TypeInv, NEW r \in Runs, NEW c \in Calls, ExpireOnDecide(r, c)
    PROVE  /\ approvals[r][c] = "pending" /\ OneCell(approvals', approvals, r, c, "expired")
           /\ UNCHANGED <<run, toolCalls, sends, job, results, outbox, emails, workflow>>
           /\ TablesOK'
<1>1. /\ approvals[r][c] = "pending" /\ approvals' = [approvals EXCEPT ![r][c] = "expired"]
      /\ UNCHANGED <<run, toolCalls, sends, job, results, starts, outbox, overdue,
                     emails, workflow, reconciler, session, faults>>
  BY DEF ExpireOnDecide
<1>2. "expired" \in ApprovalStatuses
  BY DEF ApprovalStatuses
<1>3. /\ approvals' \in [Runs -> [Calls -> ApprovalStatuses]]
      /\ OneCell(approvals', approvals, r, c, "expired")
  BY <1>1, <1>2, ApprovalWritten
<1> QED
  BY <1>1, <1>3 DEF TablesOK, TypeInv, WorkflowOK, JobOK, OutboxOK, LedgerOK

\* The places of the simulated send.
LEMMA SendPlace ==
    ASSUME TypeInv, NEW x \in Slots, session[x].pc \in Applying
    PROVE  session[x].run \in Runs /\ session[x].wait.call \in Calls
<1>1. session[x].signal # NoSignal /\ session[x].wait = WaitOf(session[x].signal)
  BY DEF TypeInv, SessionOK, SignalledOK
<1> QED
  BY <1>1, SessionTypes, SignalCalls DEF WaitOf, Applying

LEMMA ReserveChange ==
    ASSUME TypeInv, NEW x \in Slots, ReserveSimulatedSend(x)
    PROVE  \E r \in Runs, c \in Calls :
             /\ r = session[x].run /\ c = session[x].wait.call
             /\ session[x].pc = "reserve" /\ session'[x].pc = "send"
             /\ approvals[r][c] = "approved" /\ sends[r][c] = "none"
             /\ OneCell(sends', sends, r, c, "reserved")
             /\ UNCHANGED <<run, toolCalls, approvals, job, results, outbox, emails, workflow>>
             /\ TablesOK'
<1>1. /\ session[x].pc = "reserve"
      /\ UNCHANGED <<run, toolCalls, approvals, job, results, starts, outbox, overdue,
                     emails, workflow, reconciler, faults>>
  BY DEF ReserveSimulatedSend, At
<1>2. PICK r \in Runs, c \in Calls : r = session[x].run /\ c = session[x].wait.call
  BY <1>1, SendPlace DEF Applying
<1>3. /\ approvals[r][c] = "approved" /\ sends[r][c] = "none"
      /\ sends' = [sends EXCEPT ![r][c] = "reserved"]
  BY <1>2 DEF ReserveSimulatedSend, MayReserve
<1>4. /\ sends' \in [Runs -> [Calls -> {"none", "reserved", "sent"}]]
      /\ OneCell(sends', sends, r, c, "reserved")
  BY <1>3, SendWritten
<1>5. session'[x].pc = "send"
  BY <1>1, GoFacts DEF ReserveSimulatedSend
<1>6. TablesOK'
  BY <1>1, <1>4 DEF TablesOK, TypeInv, WorkflowOK, JobOK, OutboxOK, LedgerOK
<1> QED
  BY <1>1, <1>2, <1>3, <1>4, <1>5, <1>6

LEMMA ExecuteChange ==
    ASSUME TypeInv, NEW x \in Slots, ExecuteApprovedSend(x)
    PROVE  \E r \in Runs, c \in Calls :
             /\ r = session[x].run /\ c = session[x].wait.call
             /\ session[x].pc = "send" /\ session'[x].pc = "sent"
             /\ OneCell(emails', emails, r, c, emails[r][c] + 1)
             /\ UNCHANGED <<run, toolCalls, approvals, sends, job, results, outbox, workflow>>
             /\ TablesOK'
<1>1. /\ session[x].pc = "send"
      /\ UNCHANGED <<run, toolCalls, approvals, sends, job, results, starts, outbox, overdue,
                     workflow, reconciler, faults>>
  BY DEF ExecuteApprovedSend, At, dbVars, ledger
<1>2. PICK r \in Runs, c \in Calls : r = session[x].run /\ c = session[x].wait.call
  BY <1>1, SendPlace DEF Applying
<1>3. emails' = [emails EXCEPT ![r][c] = emails[r][c] + 1]
  BY <1>2 DEF ExecuteApprovedSend
<1>4. /\ emails' \in [Runs -> [Calls -> Nat]]
      /\ OneCell(emails', emails, r, c, emails[r][c] + 1)
  BY <1>3, EmailWritten
<1>5. session'[x].pc = "sent"
  BY <1>1, GoFacts DEF ExecuteApprovedSend
<1>6. TablesOK'
  BY <1>1, <1>4 DEF TablesOK, TypeInv, WorkflowOK, JobOK, OutboxOK, LedgerOK
<1> QED
  BY <1>1, <1>2, <1>4, <1>5, <1>6

LEMMA CompleteSendChange ==
    ASSUME TypeInv, NEW x \in Slots, CompleteSimulatedSend(x)
    PROVE  \E r \in Runs, c \in Calls :
             /\ r = session[x].run /\ c = session[x].wait.call
             /\ session[x].pc = "sent" /\ session'[x].pc = "settle"
             /\ OneCell(sends', sends, r, c, "sent")
             /\ UNCHANGED <<run, toolCalls, approvals, job, results, outbox, emails, workflow>>
             /\ TablesOK'
<1>1. /\ session[x].pc = "sent"
      /\ UNCHANGED <<run, toolCalls, approvals, job, results, starts, outbox, overdue,
                     emails, workflow, reconciler, faults>>
  BY DEF CompleteSimulatedSend, At
<1>2. PICK r \in Runs, c \in Calls : r = session[x].run /\ c = session[x].wait.call
  BY <1>1, SendPlace DEF Applying
<1>3. sends' = [sends EXCEPT ![r][c] = "sent"]
  BY <1>2 DEF CompleteSimulatedSend
<1>4. /\ sends' \in [Runs -> [Calls -> {"none", "reserved", "sent"}]]
      /\ OneCell(sends', sends, r, c, "sent")
  BY <1>3, SendWritten
<1>5. session'[x].pc = "settle"
  BY <1>1, GoFacts DEF CompleteSimulatedSend
<1>6. TablesOK'
  BY <1>1, <1>4 DEF TablesOK, TypeInv, WorkflowOK, JobOK, OutboxOK, LedgerOK
<1> QED
  BY <1>1, <1>2, <1>4, <1>5, <1>6

\* The steps that write the row alone, and those that write no table at all.
RowOnly(x) == ConsumeStateWorkflowStep(x) \/ PersistStateWorkflowSkill(x)
              \/ CompleteStateWorkflowRun(x)

Quiet ==
    \/ WorkflowMove \/ Crash \/ SignalRefused
    \/ \E x \in Slots :
        \/ ReconcileStart(x) \/ ReadRun(x) \/ BudgetExhausted(x) \/ FailBeforeStep(x)
        \/ SkillRefused(x) \/ EndGeneration(x) \/ ReportRefused(x) \/ MarkReportDispatched(x)
        \/ HandOverFails(x) \/ ReadWait(x)
    \/ \E r \in Runs, c \in Calls : ApprovalDeadline(r, c)

LEMMA RowOnlyChange ==
    ASSUME TypeInv, NEW x \in Slots, RowOnly(x)
    PROVE  /\ UNCHANGED <<toolCalls, approvals, sends, job, results, outbox, emails, workflow>>
           /\ TablesOK'
<1>1. UNCHANGED <<toolCalls, approvals, sends, job, results, starts, outbox, overdue, emails,
                  workflow, reconciler, faults>>
  BY DEF RowOnly, ConsumeStateWorkflowStep, PersistStateWorkflowSkill, CompleteStateWorkflowRun,
     ledger
<1> QED
  BY <1>1 DEF TablesOK, TypeInv, WorkflowOK, JobOK, OutboxOK, LedgerOK

LEMMA QuietFrame ==
    ASSUME Quiet
    PROVE  UNCHANGED <<run, toolCalls, approvals, sends, job, results, outbox, emails>>
<1> USE DEF dbVars, ledger
<1>1. CASE WorkflowMove
  BY <1>1 DEF WorkflowMove, CompleteActivity, StartAttempt, ReserveRefused, AbandonStale,
     AttemptTimesOut, AttemptLost, StartWorkflow, SignalWorkflow
<1>2. CASE Crash \/ SignalRefused
  BY <1>2 DEF Crash, SignalRefused, ProcessDies
<1>3. ASSUME NEW x \in Slots,
             \/ ReconcileStart(x) \/ ReadRun(x) \/ BudgetExhausted(x) \/ SkillRefused(x)
             \/ EndGeneration(x) \/ ReportRefused(x) \/ MarkReportDispatched(x)
             \/ FailBeforeStep(x) \/ HandOverFails(x) \/ ReadWait(x)
      PROVE  UNCHANGED <<run, toolCalls, approvals, sends, job, results, outbox, emails>>
  BY <1>3 DEF ReconcileStart, ReadRun, BudgetExhausted, SkillRefused, EndGeneration, ReportRefused,
     MarkReportDispatched, FailBeforeStep, HandOverFails, ReadWait
<1>4. ASSUME NEW r \in Runs, NEW c \in Calls, ApprovalDeadline(r, c)
      PROVE  UNCHANGED <<run, toolCalls, approvals, sends, job, results, outbox, emails>>
  BY <1>4 DEF ApprovalDeadline
<1> QED
  BY <1>1, <1>2, <1>3, <1>4 DEF Quiet

LEMMA Faulty ==
    ASSUME TypeInv, Fault
    PROVE  faults' \in 0..MaxFaults
  BY ConstantFacts DEF TypeInv, LedgerOK, Fault

LEMMA QuietTables ==
    ASSUME TypeInv, TrueSignals, Quiet
    PROVE  /\ TablesOK'
           /\ \A q \in Runs : TrueWorkflow(q, workflow'[q])
<1>0. /\ UNCHANGED <<toolCalls, approvals, sends, job, results, outbox, emails>>
      /\ OutboxOK' /\ JobOK'
  BY QuietFrame DEF TypeInv, OutboxOK, JobOK
<1>1. /\ WorkflowOK'
      /\ \A q \in Runs : TrueWorkflow(q, workflow'[q])
  <2>1. CASE WorkflowMove
    BY <2>1, WorkflowKept
  <2>2. CASE ~WorkflowMove
    <3>1. UNCHANGED workflow
      BY <2>2 DEF Quiet, Crash, SignalRefused, ProcessDies, ReconcileStart, ReadRun,
         BudgetExhausted, SkillRefused, EndGeneration, ReportRefused, MarkReportDispatched,
         FailBeforeStep, HandOverFails, ReadWait, ApprovalDeadline
    <3> QED
      BY <3>1 DEF TypeInv, WorkflowOK, TrueSignals
  <2> QED
    BY <2>1, <2>2
<1>2. /\ starts' \in [Runs -> {"pending", "dispatched"}] /\ overdue' \subseteq Runs \X Calls
      /\ reconciler' \in {"idle", "mark"} /\ faults' \in 0..MaxFaults
  <2> USE DEF TypeInv, LedgerOK, dbVars
  <2>1. CASE WorkflowMove
    BY <2>1, Faulty DEF WorkflowMove, CompleteActivity, StartAttempt, ReserveRefused, AbandonStale,
       AttemptTimesOut, AttemptLost, StartWorkflow, SignalWorkflow
  <2>2. CASE Crash \/ SignalRefused
    BY <2>2, Faulty DEF Crash, SignalRefused, ProcessDies
  <2>3. ASSUME NEW x \in Slots,
               \/ ReadRun(x) \/ BudgetExhausted(x) \/ SkillRefused(x)
               \/ EndGeneration(x) \/ ReportRefused(x) \/ MarkReportDispatched(x)
               \/ FailBeforeStep(x) \/ HandOverFails(x) \/ ReadWait(x)
        PROVE  /\ starts' \in [Runs -> {"pending", "dispatched"}]
               /\ overdue' \subseteq Runs \X Calls
               /\ reconciler' \in {"idle", "mark"} /\ faults' \in 0..MaxFaults
    BY <2>3, Faulty DEF ReadRun, BudgetExhausted, SkillRefused, EndGeneration, ReportRefused,
       MarkReportDispatched, FailBeforeStep, HandOverFails, ReadWait
  <2>4. ASSUME NEW x \in Slots, ReconcileStart(x)
        PROVE  /\ starts' \in [Runs -> {"pending", "dispatched"}]
               /\ overdue' \subseteq Runs \X Calls
               /\ reconciler' \in {"idle", "mark"} /\ faults' \in 0..MaxFaults
    BY <2>4 DEF ReconcileStart
  <2>5. ASSUME NEW r \in Runs, NEW c \in Calls, ApprovalDeadline(r, c)
        PROVE  /\ starts' \in [Runs -> {"pending", "dispatched"}]
               /\ overdue' \subseteq Runs \X Calls
               /\ reconciler' \in {"idle", "mark"} /\ faults' \in 0..MaxFaults
    BY <2>5 DEF ApprovalDeadline
  <2> QED
    BY <2>1, <2>2, <2>3, <2>4, <2>5 DEF Quiet
<1> QED
  BY <1>0, <1>1, <1>2 DEF TablesOK, TypeInv, LedgerOK

LEMMA MarkChange ==
    ASSUME TypeInv, MarkSignalDispatched
    PROVE  /\ UNCHANGED <<run, toolCalls, approvals, sends, job, results, emails, workflow,
                          session>>
           /\ \A i \in 1..Len(outbox') : \E j \in 1..Len(outbox) : outbox'[i] = outbox[j]
           /\ TablesOK'
<1>1. /\ UNCHANGED <<run, toolCalls, approvals, sends, job, results, starts, overdue, emails,
                     workflow, session, faults>>
      /\ outbox' = Tail(outbox) /\ reconciler' = "idle"
  BY DEF MarkSignalDispatched, ledger
<1>2. outbox \in Seq(Intents) /\ outbox # <<>>
  BY DEF TypeInv, OutboxOK, Intents, Delivering, MarkSignalDispatched
<1>3. OutboxOK' /\ \A i \in 1..Len(outbox') : \E j \in 1..Len(outbox) : outbox'[i] = outbox[j]
  BY <1>1, <1>2, TailOf DEF OutboxOK, Intents
<1> QED
  BY <1>1, <1>3 DEF TablesOK, TypeInv, WorkflowOK, JobOK, LedgerOK

(*****************************************************************************)
(* Type correctness.                                                         *)
(*****************************************************************************)

\* The steps that write a table, besides those of Quiet and RowOnly.
Recorded(x) ==
    \/ \E outcome \in {"completed", "failed"} : PersistToolOutcome(x, outcome)
    \/ \E outcome \in {"failed", "rejected"} : PersistMappedToolFailure(x, outcome)

Decided ==
    \/ \E r \in Runs : CompleteReportJob(r)
    \/ \E r \in Runs, c \in Calls, decision \in {"approved", "rejected"} :
            DecideApproval(r, c, decision)

Queued ==
    \/ \E x \in Slots : EnqueueReport(x)
    \/ \E r \in Runs : RecordReportProgress(r)

Kinds ==
    \/ Quiet \/ Queued \/ Decided \/ MarkSignalDispatched
    \/ \E x \in Slots :
        \/ RowOnly(x) \/ Recorded(x) \/ PersistReportWait(x) \/ PersistApprovalWait(x)
        \/ ResolveStateWorkflowWait(x) \/ Sending(x)
    \/ \E r \in Runs, c \in Calls : ExpireOnDecide(r, c)

LEMMA StepKinds ==
    ASSUME Next
    PROVE  Kinds
<1> USE DEF Kinds, Quiet, Queued, Decided, WorkflowMove
<1>1. ASSUME NEW x \in Slots,
             SlotStep(x) \/ AttemptTimesOut(x) \/ FailBeforeStep(x) \/ HandOverFails(x)
      PROVE  Kinds
  BY <1>1 DEF SlotStep, AgentLoop, ApplySignal, RowOnly, Recorded, Sending
<1>2. CASE Reconcile \/ Crash
  BY <1>2 DEF Reconcile
<1>3. ASSUME NEW r \in Runs,
             \/ AttemptLost(r) \/ ReportStep(r) \/ AdminStep(r)
             \/ \E c \in Calls : ApprovalDeadline(r, c)
      PROVE  Kinds
  BY <1>3 DEF ReportStep, AdminStep
<1> QED
  BY <1>1, <1>2, <1>3 DEF Next

LEMMA TablesKept ==
    ASSUME TypeInv, TrueSignals, Kinds
    PROVE  TablesOK'
<1>1. CASE Quiet
  BY <1>1, QuietTables
<1>2. CASE Queued
  BY <1>2, QueueChange DEF Queued
<1>3. CASE Decided
  BY <1>3, ReportedChange, DecideChange DEF Decided
<1>4. CASE MarkSignalDispatched
  BY <1>4, MarkChange
<1>5. ASSUME NEW x \in Slots,
             \/ RowOnly(x) \/ Recorded(x) \/ PersistReportWait(x) \/ PersistApprovalWait(x)
             \/ Sending(x)
      PROVE  TablesOK'
  BY <1>5, RowOnlyChange, RecordChange, ReportChange, ApprovalChange, ReserveChange,
     ExecuteChange, CompleteSendChange DEF Recorded, Sending
<1>6. ASSUME NEW x \in Slots, ResolveStateWorkflowWait(x)
      PROVE  TablesOK'
  <2>1. session[x].wait.call \in Calls
    BY <1>6, SendPlace DEF ResolveStateWorkflowWait, At, Applying
  <2> QED
    BY <1>6, <2>1, ResolveChange
<1>7. ASSUME NEW r \in Runs, NEW c \in Calls, ExpireOnDecide(r, c)
      PROVE  TablesOK'
  BY <1>7, ExpireChange
<1> QED
  BY <1>1, <1>2, <1>3, <1>4, <1>5, <1>6, <1>7 DEF Kinds

LEMMA DeliveringKept ==
    ASSUME TypeInv, Kinds
    PROVE  Delivering'
<1> SUFFICES ASSUME reconciler' = "mark"
             PROVE  outbox' # <<>>
  BY DEF Delivering
<1>0. (reconciler = "mark" => outbox # <<>>) /\ outbox \in Seq(Intents)
  BY DEF TypeInv, Delivering, OutboxOK, Intents
<1>1. CASE Quiet
  <2>1. CASE SignalWorkflow
    BY <2>1 DEF SignalWorkflow, dbVars
  <2>2. CASE ~SignalWorkflow
    <3>1. reconciler' \in {reconciler, "idle"}
      BY <1>1, <2>2 DEF Quiet, WorkflowMove, CompleteActivity, StartAttempt, ReserveRefused,
         AbandonStale, AttemptTimesOut, AttemptLost, StartWorkflow, Crash, SignalRefused,
         ProcessDies, ReconcileStart, ReadRun, BudgetExhausted, SkillRefused, EndGeneration,
         ReportRefused, MarkReportDispatched, FailBeforeStep, HandOverFails, ReadWait,
         ApprovalDeadline
    <3> QED
      BY <1>0, <1>1, <3>1, QuietFrame
  <2> QED
    BY <2>1, <2>2
<1>2. CASE Queued
  BY <1>0, <1>2 DEF Queued, EnqueueReport, RecordReportProgress
<1>3. CASE Decided
  <2>1. UNCHANGED reconciler /\ \/ outbox' = outbox
                                \/ \E e \in Intents : outbox' = Append(outbox, e)
    <3>1. ASSUME NEW r \in Runs, CompleteReportJob(r)
          PROVE  UNCHANGED reconciler /\ \/ outbox' = outbox
                                         \/ \E e \in Intents : outbox' = Append(outbox, e)
      <4>1. job[r].call \in Calls
        BY <3>1, JobFields DEF CompleteReportJob
      <4>2. [run |-> r, signal |->
              [kind |-> "report", call |-> job[r].call, decision |-> "completed"]] \in Intents
        BY <4>1 DEF Intents, Signals, NoSignal
      <4> QED
        BY <3>1, <4>2 DEF CompleteReportJob
    <3>2. ASSUME NEW r \in Runs, NEW c \in Calls, NEW decision \in {"approved", "rejected"},
                 DecideApproval(r, c, decision)
          PROVE  UNCHANGED reconciler /\ \/ outbox' = outbox
                                         \/ \E e \in Intents : outbox' = Append(outbox, e)
      <4>1. [run |-> r, signal |->
              [kind |-> "approval", call |-> c, decision |-> decision]] \in Intents
        BY DEF Intents, Signals, NoSignal
      <4> QED
        BY <3>2, <4>1 DEF DecideApproval
    <3> QED
      BY <1>3, <3>1, <3>2 DEF Decided
  <2>2. \A e \in Intents : Append(outbox, e) # <<>>
    BY <1>0
  <2> QED
    BY <1>0, <2>1, <2>2
<1>4. CASE MarkSignalDispatched
  BY <1>4 DEF MarkSignalDispatched
<1>5. ASSUME NEW x \in Slots,
             \/ RowOnly(x) \/ Recorded(x) \/ PersistReportWait(x) \/ PersistApprovalWait(x)
             \/ ResolveStateWorkflowWait(x) \/ Sending(x)
      PROVE  outbox' # <<>>
  BY <1>0, <1>5 DEF RowOnly, ConsumeStateWorkflowStep, PersistStateWorkflowSkill,
     CompleteStateWorkflowRun, Recorded, PersistToolOutcome, PersistMappedToolFailure,
     PersistReportWait, PersistApprovalWait, ResolveStateWorkflowWait, Sending,
     ReserveSimulatedSend, ExecuteApprovedSend, CompleteSimulatedSend, dbVars
<1>6. ASSUME NEW r \in Runs, NEW c \in Calls, ExpireOnDecide(r, c)
      PROVE  outbox' # <<>>
  BY <1>0, <1>6 DEF ExpireOnDecide
<1> QED
  BY <1>1, <1>2, <1>3, <1>4, <1>5, <1>6 DEF Kinds

LEMMA TypeKept ==
    ASSUME TypeInv, TrueSignals, Next
    PROVE  TypeInv'
<1>1. Move /\ Kinds
  BY StepMove, StepKinds
<1>2. RunOK' /\ SessionOK' /\ StepPaid' /\ Delivering'
  BY <1>1, RunKept, StepPaidKept, DeliveringKept
<1>3. TablesOK'
  BY <1>1, TablesKept
<1> QED
  BY <1>2, <1>3 DEF TypeInv, TablesOK

(*****************************************************************************)
(* One email per approval.                                                   *)
(*****************************************************************************)

\* Only the steps of the send bring an attempt to its places; an attempt that was
\* not told of an approval settles without them.
LEMMA PlaceKept ==
    ASSUME TypeInv, Move, NEW y \in Slots, ~Sending(y),
           session'[y].pc \in {"send", "sent", "settle"}
    PROVE  \/ /\ session'[y].pc = session[y].pc /\ session'[y].run = session[y].run
              /\ session'[y].wait = session[y].wait /\ session'[y].signal = session[y].signal
           \/ session'[y].pc = "settle" /\ session'[y].signal.decision # "approved"
<1>1. ASSUME NEW x \in Slots, SoftMove(x)
      PROVE  \/ /\ session'[y].pc = session[y].pc /\ session'[y].run = session[y].run
                /\ session'[y].wait = session[y].wait /\ session'[y].signal = session[y].signal
             \/ session'[y].pc = "settle" /\ session'[y].signal.decision # "approved"
  <2>1. CASE y # x
    BY <1>1, <2>1 DEF SoftMove, OnlySession
  <2>2. CASE /\ y = x /\ SameAttempt(session[x], session'[x])
             /\ session'[x].pc = Execution(session[x].run, session[x].signal)
    BY <2>2 DEF SameAttempt, Execution
  <2>3. CASE /\ y = x /\ SameAttempt(session[x], session'[x])
             /\ GoesOn(session[x], session'[x], run[session[x].run])
             /\ (session[x].pc \in {"reserve", "send", "sent"} /\ session'[x].pc # session[x].pc)
                    => Sending(x)
    BY <2>3 DEF SameAttempt, GoesOn
  <2> QED
    BY <1>1, <2>1, <2>2, <2>3 DEF SoftMove
<1>2. ASSUME NEW x \in Slots, WriteMove(x)
      PROVE  session'[y] = session[y]
  BY <1>2 DEF WriteMove, OnlySession
<1>3. CASE RestMove
  BY <1>3 DEF RestMove
<1>4. CASE DieMove
  BY <1>4, IdleFacts DEF DieMove
<1> QED
  BY <1>1, <1>2, <1>3, <1>4 DEF Move

LEMMA EmailElsewhere ==
    ASSUME TypeInv, EmailInv, Answered, Move, Kinds, \A x \in Slots : ~Sending(x)
    PROVE  EmailInv'
<1>1. /\ UNCHANGED <<sends, emails>>
      /\ \A r \in Runs, c \in Calls : approvals[r][c] = "approved" => approvals'[r][c] = "approved"
  <2>1. CASE Quiet
    BY <2>1, QuietFrame
  <2>2. CASE Queued
    BY <2>2, QueueChange DEF Queued
  <2>3. CASE Decided
    BY <2>3, ReportedChange, DecideChange DEF Decided, OneCell
  <2>4. CASE MarkSignalDispatched
    BY <2>4, MarkChange
  <2>5. ASSUME NEW x \in Slots, RowOnly(x) \/ Recorded(x) \/ PersistReportWait(x)
        PROVE  UNCHANGED <<sends, emails, approvals>>
    BY <2>5, RowOnlyChange, RecordChange, ReportChange DEF Recorded
  <2>6. ASSUME NEW x \in Slots, ResolveStateWorkflowWait(x)
        PROVE  UNCHANGED <<sends, emails, approvals>>
    <3>1. session[x].wait.call \in Calls
      BY <2>6, SendPlace DEF ResolveStateWorkflowWait, At, Applying
    <3> QED
      BY <2>6, <3>1, ResolveChange
  <2>7. ASSUME NEW x \in Slots, PersistApprovalWait(x)
        PROVE  /\ UNCHANGED <<sends, emails>>
               /\ \A r \in Runs, c \in Calls :
                    approvals[r][c] = "approved" => approvals'[r][c] = "approved"
    <3>1. PICK r \in Runs, c \in Calls :
            /\ toolCalls[r][c] = "none" /\ OneCell(approvals', approvals, r, c, "pending")
            /\ UNCHANGED <<sends, emails>>
      BY <2>7, ApprovalChange
    <3>2. approvals[r][c] # "approved"
      BY <3>1 DEF Answered, AnswerOf
    <3> QED
      BY <3>1, <3>2 DEF OneCell
  <2>8. ASSUME NEW r \in Runs, NEW c \in Calls, ExpireOnDecide(r, c)
        PROVE  /\ UNCHANGED <<sends, emails>>
               /\ \A q \in Runs, d \in Calls :
                    approvals[q][d] = "approved" => approvals'[q][d] = "approved"
    BY <2>8, ExpireChange DEF OneCell
  <2> QED
    BY <2>1, <2>2, <2>3, <2>4, <2>5, <2>6, <2>7, <2>8 DEF Kinds
<1>2. SentOnce'
  BY <1>1 DEF EmailInv, SentOnce
<1>3. ASSUME NEW x \in Slots
      PROVE  Sends(x)'
  <2>1. Sends(x)
    BY DEF EmailInv, AboutToSend
  <2>2. CASE session'[x].pc \in {"sent", "settle"}
    BY <1>1, <2>1, <2>2, PlaceKept DEF Sends
  <2>3. CASE session'[x].pc = "send"
    <3>1. /\ session[x].pc = "send" /\ session'[x].run = session[x].run
          /\ session'[x].wait = session[x].wait
      BY <2>3, PlaceKept
    <3>2. \A y \in Slots \ {x} : session'[y].pc = "send" =>
            /\ session[y].pc = "send" /\ session'[y].run = session[y].run
            /\ session'[y].wait = session[y].wait
      BY PlaceKept
    <3> QED
      BY <1>1, <2>1, <2>3, <3>1, <3>2 DEF Sends, Cell
  <2>4. CASE session'[x].pc \notin {"send", "sent", "settle"}
    BY <2>4 DEF Sends
  <2> QED
    BY <2>2, <2>3, <2>4
<1> QED
  BY <1>2, <1>3 DEF EmailInv, AboutToSend

LEMMA EmailSending ==
    ASSUME TypeInv, EmailInv, NEW x \in Slots, Sending(x)
    PROVE  EmailInv'
<1>1. /\ \A y \in Slots \ {x} : session'[y] = session[y]
      /\ session'[x].run = session[x].run /\ session'[x].wait = session[x].wait
  BY GoFacts DEF Sending, ReserveSimulatedSend, ExecuteApprovedSend, CompleteSimulatedSend,
     At, OnlySession, SameAttempt
<1>2. PICK r \in Runs, c \in Calls : r = session[x].run /\ c = session[x].wait.call
  BY SendPlace DEF Sending, ReserveSimulatedSend, ExecuteApprovedSend, CompleteSimulatedSend,
     At, Applying
<1>3. SentOnce /\ \A y \in Slots : Sends(y)
  BY DEF EmailInv, AboutToSend
<1>4. \A y \in Slots : session[y].pc \in {"send", "sent", "settle"} =>
        session[y].run \in Runs /\ session[y].wait.call \in Calls
  BY SendPlace DEF Applying
<1>5. CASE ReserveSimulatedSend(x)
  <2>1. /\ approvals[r][c] = "approved" /\ sends[r][c] = "none"
        /\ session'[x].pc = "send" /\ OneCell(sends', sends, r, c, "reserved")
        /\ UNCHANGED <<approvals, emails>>
    BY <1>2, <1>5, ReserveChange
  <2>2. SentOnce'
    BY <1>3, <2>1 DEF SentOnce, OneCell
  <2>3. \A y \in Slots \ {x} :
          (\/ session[y].pc = "send"
           \/ session[y].pc = "settle" /\ session[y].signal.decision = "approved")
            => Cell(y) # <<r, c>>
    BY <1>3, <2>1 DEF Sends, Cell
  <2>4. ASSUME NEW y \in Slots, y # x
        PROVE  Sends(y)'
    <3>1. session'[y] = session[y] /\ Sends(y)
      BY <1>1, <1>3, <2>4
    <3>2. CASE session[y].pc = "send"
      <4>1. \A z \in Slots \ {y} : session'[z].pc = "send" => Cell(z)' # Cell(y)'
        BY <1>1, <1>2, <2>3, <2>4, <3>1, <3>2 DEF Sends, Cell
      <4> QED
        BY <1>4, <2>1, <2>3, <2>4, <3>1, <3>2, <4>1 DEF Sends, Cell, OneCell
    <3>3. CASE session[y].pc = "sent"
      BY <2>1, <3>1, <3>3 DEF Sends
    <3>4. CASE session[y].pc = "settle"
      BY <1>4, <2>1, <2>3, <2>4, <3>1, <3>4 DEF Sends, Cell, OneCell
    <3> QED
      BY <3>1, <3>2, <3>3, <3>4 DEF Sends
  <2>5. Sends(x)'
    <3>1. \A y \in Slots \ {x} : session'[y].pc = "send" => Cell(y)' # Cell(x)'
      BY <1>1, <1>2, <2>3 DEF Cell
    <3>2. emails[r][c] = 0
      BY <1>3, <2>1 DEF SentOnce
    <3> QED
      BY <1>1, <1>2, <2>1, <3>1, <3>2 DEF Sends, OneCell
  <2> QED
    BY <2>2, <2>4, <2>5 DEF EmailInv, AboutToSend
<1>6. CASE ExecuteApprovedSend(x)
  <2>1. /\ session[x].pc = "send" /\ session'[x].pc = "sent"
        /\ OneCell(emails', emails, r, c, emails[r][c] + 1)
        /\ UNCHANGED <<approvals, sends>>
    BY <1>2, <1>6, ExecuteChange
  <2>2. emails[r][c] = 0 /\ sends[r][c] = "reserved"
    BY <1>2, <1>3, <2>1 DEF Sends
  <2>3. OneCell(emails', emails, r, c, 1)
    BY <2>1, <2>2 DEF OneCell
  <2>4. SentOnce'
    BY <1>3, <2>1, <2>2, <2>3 DEF SentOnce, OneCell
  <2>5. ASSUME NEW y \in Slots, y # x
        PROVE  Sends(y)'
    <3>1. session'[y] = session[y] /\ Sends(y)
      BY <1>1, <1>3, <2>5
    <3>2. CASE session[y].pc = "send"
      <4>1. Cell(y) # <<r, c>>
        BY <1>2, <1>3, <2>1, <2>5, <3>2 DEF Sends, Cell
      <4>2. \A z \in Slots \ {y} : session'[z].pc = "send" => Cell(z)' # Cell(y)'
        BY <1>1, <2>1, <2>5, <3>1, <3>2 DEF Sends, Cell
      <4> QED
        BY <1>4, <2>1, <2>3, <3>1, <3>2, <4>1, <4>2 DEF Sends, Cell, OneCell
    <3>3. CASE session[y].pc \in {"sent", "settle"}
      BY <1>4, <2>1, <2>3, <3>1, <3>3 DEF Sends, OneCell
    <3> QED
      BY <3>1, <3>2, <3>3 DEF Sends
  <2>6. Sends(x)'
    BY <1>1, <1>2, <2>1, <2>3 DEF Sends, OneCell
  <2> QED
    BY <2>4, <2>5, <2>6 DEF EmailInv, AboutToSend
<1>7. CASE CompleteSimulatedSend(x)
  <2>1. /\ session[x].pc = "sent" /\ session'[x].pc = "settle"
        /\ OneCell(sends', sends, r, c, "sent") /\ UNCHANGED <<approvals, emails>>
    BY <1>2, <1>7, CompleteSendChange
  <2>2. emails[r][c] = 1
    BY <1>2, <1>3, <2>1 DEF Sends
  <2>3. SentOnce'
    BY <1>3, <2>1, <2>2 DEF SentOnce, OneCell
  <2>4. ASSUME NEW y \in Slots, y # x
        PROVE  Sends(y)'
    <3>1. session'[y] = session[y] /\ Sends(y)
      BY <1>1, <1>3, <2>4
    <3>2. CASE session[y].pc = "send"
      <4>1. Cell(y) # <<r, c>>
        BY <2>2, <3>1, <3>2 DEF Sends, Cell
      <4>2. \A z \in Slots \ {y} : session'[z].pc = "send" => Cell(z)' # Cell(y)'
        BY <1>1, <2>1, <2>4, <3>1, <3>2 DEF Sends, Cell
      <4> QED
        BY <1>4, <2>1, <3>1, <3>2, <4>1, <4>2 DEF Sends, Cell, OneCell
    <3>3. CASE session[y].pc \in {"sent", "settle"}
      BY <1>4, <2>1, <3>1, <3>3 DEF Sends, OneCell
    <3> QED
      BY <3>1, <3>2, <3>3 DEF Sends
  <2>5. Sends(x)'
    BY <1>1, <1>2, <2>1, <2>2 DEF Sends, OneCell
  <2> QED
    BY <2>3, <2>4, <2>5 DEF EmailInv, AboutToSend
<1> QED
  BY <1>5, <1>6, <1>7 DEF Sending

LEMMA EmailInvKept ==
    ASSUME TypeInv, EmailInv, Answered, Move, Kinds
    PROVE  EmailInv'
  BY EmailElsewhere, EmailSending

(*****************************************************************************)
(* The books.                                                                *)
(*****************************************************************************)

\* What was decided or completed stays so.
Steady ==
    /\ \A r \in Runs, c \in Calls :
        approvals[r][c] \in {"approved", "rejected"} => approvals'[r][c] = approvals[r][c]
    /\ \A r \in Runs :
        job[r].status = "completed" => job'[r].status = "completed" /\ job'[r].call = job[r].call

\* What resolveStateWorkflowWait tells the model, and what it is told of.
LEMMA ResolveFacts ==
    ASSUME Inv, NEW x \in Slots, ResolveStateWorkflowWait(x)
    PROVE  \E r \in Runs, c \in Calls, value \in {"rejected", "completed"} :
             /\ r = session[x].run /\ c = session[x].wait.call /\ WriteMove(x)
             /\ run'[r].status = "running"
             /\ OneCell(toolCalls', toolCalls, r, c, value)
             /\ OneCell(results', results, r, c, 1) /\ results[r][c] = 0
             /\ UNCHANGED <<approvals, sends, job, outbox, emails, workflow>>
             /\ \/ /\ value = "completed" /\ toolCalls[r][c] = "completed"
                   /\ job[r].status = "completed" /\ job[r].call = c
                \/ /\ value = "completed" /\ toolCalls[r][c] \in {"running", "completed"}
                   /\ approvals[r][c] = "approved" /\ emails[r][c] = 1 /\ sends[r][c] = "sent"
                \/ /\ value = "rejected" /\ toolCalls[r][c] = "rejected"
                   /\ approvals[r][c] = "rejected" /\ emails[r][c] = 0
<1>0. TypeInv /\ FenceInv /\ BooksInv /\ EmailInv
  BY DEF Inv
<1>1. session[x].pc = "settle" /\ Current(x) /\ WriteMove(x)
  BY <1>0, ResolveMove DEF ResolveStateWorkflowWait, At, Persist
<1>2. /\ session[x].wait.call \in Calls /\ session[x].signal.call = session[x].wait.call
      /\ run[session[x].run].wait = session[x].wait /\ session[x].wait # NoWait
  BY <1>0, <1>1, SettledCall DEF BooksInv
<1>3. PICK r \in Runs, c \in Calls, value \in {"rejected", "completed"} :
             /\ r = session[x].run /\ c = session[x].wait.call
             /\ value = IF session[x].signal.decision = "rejected" THEN "rejected"
                        ELSE "completed"
             /\ OneCell(toolCalls', toolCalls, r, c, value)
             /\ OneCell(results', results, r, c, results[r][c] + 1)
             /\ UNCHANGED <<approvals, sends, job, outbox, emails, workflow>>
  BY <1>0, <1>2, ResolveChange
<1>4. results[r][c] = 0
  BY <1>0, <1>2, <1>3 DEF FenceInv, Rows, RowOK
<1>5. OneCell(results', results, r, c, 1)
  BY <1>3, <1>4 DEF OneCell
<1>6. run'[r].status = "running"
  BY <1>1, <1>3 DEF WriteMove
<1>7. PICK signal \in Signals :
        /\ signal = session[x].signal /\ signal # NoSignal /\ IsTrue(r, signal) /\ signal.call = c
  BY <1>0, <1>1, <1>2, <1>3, SessionTypes
     DEF TypeInv, SessionOK, SignalledOK, Applying, BooksInv, TrueSignals
<1>8. \/ signal.kind = "report" /\ signal.decision = "completed"
      \/ signal.kind = "approval" /\ signal.decision \in {"approved", "rejected"}
  BY <1>7, SignalCalls
<1>9. Sends(x) /\ SentOnce /\ AnswerOf(approvals[r][c], toolCalls[r][c]) /\ JobAgrees(r)
  BY <1>0 DEF EmailInv, AboutToSend, BooksInv, Answered, Reported
<1>10. CASE signal.kind = "report"
  <2>1. job[r].status = "completed" /\ job[r].call = c /\ value = "completed"
    BY <1>3, <1>7, <1>8, <1>10 DEF IsTrue
  <2>2. toolCalls[r][c] = "completed"
    BY <1>9, <2>1 DEF JobAgrees
  <2> QED
    BY <1>1, <1>3, <1>4, <1>5, <1>6, <2>1, <2>2
<1>11. CASE signal.kind = "approval" /\ signal.decision = "approved"
  <2>1. approvals[r][c] = "approved" /\ value = "completed"
    BY <1>3, <1>7, <1>11 DEF IsTrue
  <2>2. toolCalls[r][c] \in {"running", "completed"}
    BY <1>9, <2>1 DEF AnswerOf
  <2>3. emails[r][c] = 1 /\ sends[r][c] = "sent"
    BY <1>1, <1>3, <1>7, <1>9, <1>11 DEF Sends
  <2> QED
    BY <1>1, <1>3, <1>4, <1>5, <1>6, <2>1, <2>2, <2>3
<1>12. CASE signal.kind = "approval" /\ signal.decision = "rejected"
  <2>1. approvals[r][c] = "rejected" /\ value = "rejected"
    BY <1>3, <1>7, <1>12 DEF IsTrue
  <2>2. toolCalls[r][c] = "rejected"
    BY <1>9, <2>1 DEF AnswerOf
  <2>3. emails[r][c] = 0
    BY <1>9, <2>1 DEF SentOnce
  <2> QED
    BY <1>1, <1>3, <1>4, <1>5, <1>6, <2>1, <2>2, <2>3
<1> QED
  BY <1>8, <1>10, <1>11, <1>12

LEMMA SteadyKept ==
    ASSUME Inv, Kinds
    PROVE  Steady
<1>0. TypeInv /\ Answered
  BY DEF Inv, BooksInv
<1>1. CASE Quiet
  BY <1>1, QuietFrame DEF Steady
<1>2. CASE Queued
  BY <1>0, <1>2, QueueChange DEF Queued, Steady
<1>3. ASSUME NEW r \in Runs, CompleteReportJob(r)
      PROVE  Steady
  BY <1>0, <1>3, ReportedChange DEF Steady
<1>4. ASSUME NEW r \in Runs, NEW c \in Calls, NEW decision \in {"approved", "rejected"},
             DecideApproval(r, c, decision)
      PROVE  Steady
  BY <1>0, <1>4, DecideChange DEF Steady, OneCell
<1>5. CASE MarkSignalDispatched
  BY <1>0, <1>5, MarkChange DEF Steady
<1>6. ASSUME NEW x \in Slots, RowOnly(x) \/ Recorded(x) \/ Sending(x) \/ ResolveStateWorkflowWait(x)
      PROVE  Steady
  BY <1>0, <1>6, RowOnlyChange, RecordChange, ReserveChange, ExecuteChange, CompleteSendChange,
     ResolveFacts DEF Recorded, Sending, Steady
<1>7. ASSUME NEW x \in Slots, PersistReportWait(x)
      PROVE  Steady
  <2>1. PICK r \in Runs : /\ job[r] = NoJob /\ \A q \in Runs \ {r} : job'[q] = job[q]
                          /\ UNCHANGED approvals
    BY <1>0, <1>7, ReportChange
  <2> QED
    BY <2>1 DEF Steady, NoJob
<1>8. ASSUME NEW x \in Slots, PersistApprovalWait(x)
      PROVE  Steady
  <2>1. PICK r \in Runs, c \in Calls :
          /\ toolCalls[r][c] = "none" /\ OneCell(approvals', approvals, r, c, "pending")
          /\ UNCHANGED job
    BY <1>0, <1>8, ApprovalChange
  <2>2. approvals[r][c] = "none"
    BY <1>0, <2>1 DEF Answered, AnswerOf
  <2> QED
    BY <2>1, <2>2 DEF Steady, OneCell
<1>9. ASSUME NEW r \in Runs, NEW c \in Calls, ExpireOnDecide(r, c)
      PROVE  Steady
  BY <1>0, <1>9, ExpireChange DEF Steady, OneCell
<1> QED
  BY <1>1, <1>2, <1>3, <1>4, <1>5, <1>6, <1>7, <1>8, <1>9 DEF Kinds, Decided

LEMMA TruthStays ==
    ASSUME Steady, NEW r \in Runs, NEW signal \in Signals, IsTrue(r, signal)
    PROVE  IsTrue(r, signal)'
<1>1. CASE signal = NoSignal
  BY <1>1 DEF IsTrue
<1>2. CASE signal # NoSignal
  <2>1. /\ signal.call \in Calls
        /\ signal.kind = "approval" => signal.decision \in {"approved", "rejected"}
    BY <1>2, SignalCalls
  <2> QED
    BY <1>2, <2>1 DEF IsTrue, Steady
<1> QED
  BY <1>1, <1>2

\* An attempt's signal is the one it started with.
LEMMA HeardKept ==
    ASSUME TypeInv, Move, NEW y \in Slots, session'[y].pc # "idle"
    PROVE  \/ /\ session[y].pc # "idle" /\ session'[y].run = session[y].run
              /\ session'[y].signal = session[y].signal
           \/ StartAttempt(y)
<1>1. ASSUME NEW x \in Slots, SoftMove(x)
      PROVE  \/ /\ session[y].pc # "idle" /\ session'[y].run = session[y].run
                /\ session'[y].signal = session[y].signal
             \/ StartAttempt(y)
  BY <1>1 DEF SoftMove, OnlySession, SameAttempt
<1>2. ASSUME NEW x \in Slots, WriteMove(x)
      PROVE  /\ session[y].pc # "idle" /\ session'[y].run = session[y].run
             /\ session'[y].signal = session[y].signal
  BY <1>2 DEF WriteMove, OnlySession, Fenced, Applying
<1>3. CASE RestMove
  BY <1>3 DEF RestMove
<1>4. CASE DieMove
  BY <1>4, IdleFacts DEF DieMove
<1> QED
  BY <1>1, <1>2, <1>3, <1>4 DEF Move

LEMMA StartsWith ==
    ASSUME TypeInv, NEW y \in Slots, StartAttempt(y)
    PROVE  \E r \in Runs : session'[y].run = r /\ session'[y].signal = workflow[r].input
<1>1. PICK r, t :
          /\ r \in Runs
          /\ workflow[r].task = "scheduled"
          /\ t = [Idle EXCEPT !.pc = workflow[r].phase, !.run = r, !.awaited = TRUE,
                              !.signal = workflow[r].input]
          /\ Becomes(y, t)
  BY DEF StartAttempt
<1>2. t.run = r /\ t.signal = workflow[r].input
  BY <1>1 DEF Idle
<1>3. session'[y] = t
  BY <1>1 DEF Becomes, TypeInv, SessionOK
<1> QED
  BY <1>1, <1>2, <1>3

LEMMA OutboxTrue ==
    ASSUME Inv, Steady, Kinds, NEW i \in 1..Len(outbox')
    PROVE  IsTrue(outbox[i].run, outbox[i].signal)'
<1>0. TypeInv /\ outbox \in Seq(Intents)
  BY DEF Inv, TypeInv, OutboxOK, Intents
<1>1. ASSUME NEW j \in 1..Len(outbox), outbox'[i] = outbox[j]
      PROVE  IsTrue(outbox[i].run, outbox[i].signal)'
  <2>1. PICK e \in Intents : e = outbox[j] /\ IsTrue(e.run, e.signal)
    BY <1>0 DEF Inv, BooksInv, TrueSignals
  <2>2. PICK r \in Runs, signal \in Signals : r = e.run /\ signal = e.signal
    BY DEF Intents
  <2>3. IsTrue(r, signal)'
    BY <2>1, <2>2, TruthStays
  <2>4. outbox'[i].run = r /\ outbox'[i].signal = signal
    BY <1>1, <2>1, <2>2
  <2> QED
    BY <2>3, <2>4 DEF IsTrue
<1>2. CASE outbox' = outbox
  BY <1>1, <1>2
<1>3. CASE Quiet \/ Queued \/ \E x \in Slots : RowOnly(x) \/ Recorded(x) \/ Sending(x)
  <2>1. outbox' = outbox
    BY <1>0, <1>3, QuietFrame, QueueChange, RowOnlyChange, RecordChange, ReserveChange,
       ExecuteChange, CompleteSendChange DEF Queued, Recorded, Sending
  <2> QED
    BY <1>2, <2>1
<1>4. CASE \E x \in Slots : PersistReportWait(x) \/ PersistApprovalWait(x)
                            \/ ResolveStateWorkflowWait(x)
  <2>1. outbox' = outbox
    BY <1>0, <1>4, ReportChange, ApprovalChange, ResolveFacts
  <2> QED
    BY <1>2, <2>1
<1>5. ASSUME NEW r \in Runs, NEW c \in Calls, ExpireOnDecide(r, c)
      PROVE  IsTrue(outbox[i].run, outbox[i].signal)'
  BY <1>0, <1>2, <1>5, ExpireChange
<1>6. CASE MarkSignalDispatched
  BY <1>0, <1>1, <1>6, MarkChange
<1>7. ASSUME NEW r \in Runs, CompleteReportJob(r)
      PROVE  IsTrue(outbox[i].run, outbox[i].signal)'
  <2>1. PICK c \in Calls, e \in Intents :
          /\ job'[r].status = "completed" /\ job'[r].call = c
          /\ e.run = r /\ e.signal.kind = "report" /\ e.signal.call = c
          /\ (\E j \in 1..Len(outbox) : outbox'[i] = outbox[j]) \/ outbox'[i] = e
    BY <1>0, <1>7, ReportedChange
  <2> QED
    BY <1>1, <2>1 DEF IsTrue
<1>8. ASSUME NEW r \in Runs, NEW c \in Calls, NEW decision \in {"approved", "rejected"},
             DecideApproval(r, c, decision)
      PROVE  IsTrue(outbox[i].run, outbox[i].signal)'
  <2>1. PICK e \in Intents :
          /\ OneCell(approvals', approvals, r, c, decision)
          /\ e.run = r /\ e.signal.kind = "approval" /\ e.signal.call = c
          /\ e.signal.decision = decision
          /\ (\E j \in 1..Len(outbox) : outbox'[i] = outbox[j]) \/ outbox'[i] = e
    BY <1>0, <1>8, DecideChange
  <2>2. approvals'[r][c] = decision
    BY <2>1 DEF OneCell
  <2> QED
    BY <1>1, <2>1, <2>2 DEF IsTrue
<1> QED
  BY <1>3, <1>4, <1>5, <1>6, <1>7, <1>8 DEF Kinds, Decided

LEMMA TrueSignalsKept ==
    ASSUME Inv, Steady, Move, Kinds
    PROVE  TrueSignals'
<1>0. TypeInv /\ TrueSignals
  BY DEF Inv, BooksInv
<1>1. \A i \in 1..Len(outbox') : IsTrue(outbox[i].run, outbox[i].signal)'
  BY OutboxTrue
<1>2. TablesOK'
  BY <1>0, TablesKept
<1>3. \A q \in Runs : TrueWorkflow(q, workflow'[q])
  <2>1. CASE Quiet
    BY <1>0, <2>1, QuietTables
  <2>2. CASE ~Quiet
    <3>1. workflow' = workflow
      BY <1>0, <2>2, QueueChange, ReportedChange, DecideChange, MarkChange, RowOnlyChange,
         RecordChange, ReportChange, ApprovalChange, ResolveFacts, ReserveChange, ExecuteChange,
         CompleteSendChange, ExpireChange DEF Kinds, Queued, Decided, Recorded, Sending
    <3> QED
      BY <1>0, <3>1 DEF TrueSignals
  <2> QED
    BY <2>1, <2>2
<1>4. ASSUME NEW q \in Runs
      PROVE  TrueWorkflow(q, workflow[q])'
  <2>1. PICK accepted \in Signals, input \in Signals :
          accepted = workflow'[q].accepted /\ input = workflow'[q].input
    BY <1>2, WorkflowTypes DEF TablesOK, WorkflowOK
  <2>2. IsTrue(q, accepted)' /\ IsTrue(q, input)'
    BY <1>3, <2>1, TruthStays DEF TrueWorkflow
  <2> QED
    BY <2>1, <2>2 DEF TrueWorkflow, IsTrue
<1>5. ASSUME NEW y \in Slots, session'[y].pc # "idle"
      PROVE  IsTrue(session[y].run, session[y].signal)'
  <2>1. PICK r \in Runs, signal \in Signals :
          r = session'[y].run /\ signal = session'[y].signal /\ IsTrue(r, signal)
    <3>1. CASE StartAttempt(y)
      BY <1>0, <3>1, StartsWith, WorkflowTypes
         DEF TypeInv, WorkflowOK, TrueSignals, TrueWorkflow
    <3>2. CASE ~StartAttempt(y)
      <4>1. /\ session[y].pc # "idle" /\ session'[y].run = session[y].run
            /\ session'[y].signal = session[y].signal
        BY <1>0, <1>5, <3>2, HeardKept
      <4>2. IsTrue(session[y].run, session[y].signal)
        BY <1>0, <4>1 DEF TrueSignals
      <4> QED
        BY <1>0, <4>1, <4>2, SessionTypes
    <3> QED
      BY <3>1, <3>2
  <2>2. IsTrue(r, signal)'
    BY <2>1, TruthStays
  <2> QED
    BY <2>1, <2>2 DEF IsTrue
<1> QED
  BY <1>1, <1>4, <1>5 DEF TrueSignals

\* The two tables of a call, and the job, change together.
LEMMA PairsKept ==
    ASSUME Inv, Kinds
    PROVE  Answered' /\ Reported'
<1>0. /\ TypeInv /\ Answered /\ Reported
      /\ \A r \in Runs : job[r].status # "none" => job[r].call \in Calls
  BY DEF Inv, BooksInv, TypeInv, JobOK
<1> USE DEF Answered, Reported, AnswerOf, JobAgrees
<1>1. CASE Quiet
  BY <1>0, <1>1, QuietFrame
<1>2. CASE Queued
  BY <1>0, <1>2, QueueChange DEF Queued
<1>3. ASSUME NEW r \in Runs, CompleteReportJob(r)
      PROVE  Answered' /\ Reported'
  <2>1. PICK c \in Calls, value \in CallStatuses :
          /\ c = job[r].call /\ job[r].status = "running"
          /\ job'[r].status = "completed" /\ job'[r].call = c
          /\ \A q \in Runs \ {r} : job'[q] = job[q]
          /\ value = IF toolCalls[r][c] = "waiting_job" THEN "completed" ELSE toolCalls[r][c]
          /\ OneCell(toolCalls', toolCalls, r, c, value)
          /\ UNCHANGED approvals
    BY <1>0, <1>3, ReportedChange
  <2>2. toolCalls[r][c] = "waiting_job" /\ value = "completed" /\ approvals[r][c] = "none"
    BY <1>0, <2>1 DEF TypeInv, LedgerOK, ApprovalStatuses
  <2>3. Answered'
    BY <1>0, <2>1, <2>2 DEF OneCell
  <2>4. Reported'
    BY <1>0, <2>1, <2>2 DEF OneCell
  <2> QED
    BY <2>3, <2>4
<1>4. ASSUME NEW r \in Runs, NEW c \in Calls, NEW decision \in {"approved", "rejected"},
             DecideApproval(r, c, decision)
      PROVE  Answered' /\ Reported'
  <2>1. PICK value \in {"running", "rejected"} :
          /\ approvals[r][c] = "pending" /\ toolCalls[r][c] = "approval_required"
          /\ value = IF decision = "approved" THEN "running" ELSE "rejected"
          /\ OneCell(approvals', approvals, r, c, decision)
          /\ OneCell(toolCalls', toolCalls, r, c, value) /\ UNCHANGED job
    BY <1>0, <1>4, DecideChange
  <2>2. Answered'
    BY <1>0, <2>1 DEF OneCell
  <2>3. Reported'
    BY <1>0, <2>1 DEF OneCell
  <2> QED
    BY <2>2, <2>3
<1>5. CASE MarkSignalDispatched
  BY <1>0, <1>5, MarkChange
<1>6. ASSUME NEW x \in Slots, RowOnly(x) \/ Sending(x)
      PROVE  Answered' /\ Reported'
  <2>1. UNCHANGED <<toolCalls, approvals, job>>
    BY <1>0, <1>6, RowOnlyChange, ReserveChange, ExecuteChange, CompleteSendChange DEF Sending
  <2> QED
    BY <1>0, <2>1
<1>7. ASSUME NEW x \in Slots, Recorded(x)
      PROVE  Answered' /\ Reported'
  <2>1. PICK r \in Runs, c \in Calls, outcome \in {"completed", "failed", "rejected"} :
          /\ toolCalls[r][c] = "none" /\ OneCell(toolCalls', toolCalls, r, c, outcome)
          /\ UNCHANGED <<approvals, job>>
    BY <1>0, <1>7, RecordChange DEF Recorded
  <2>2. approvals[r][c] = "none"
    BY <1>0, <2>1
  <2>3. Answered'
    BY <1>0, <2>1, <2>2 DEF OneCell
  <2>4. Reported'
    BY <1>0, <2>1 DEF OneCell
  <2> QED
    BY <2>3, <2>4
<1>8. ASSUME NEW x \in Slots, PersistReportWait(x)
      PROVE  Answered' /\ Reported'
  <2>1. PICK r \in Runs, c \in Calls :
          /\ toolCalls[r][c] = "none" /\ OneCell(toolCalls', toolCalls, r, c, "waiting_job")
          /\ job'[r].status = "queued" /\ job'[r].call = c
          /\ \A q \in Runs \ {r} : job'[q] = job[q]
          /\ UNCHANGED approvals
    BY <1>0, <1>8, ReportChange
  <2>2. approvals[r][c] = "none"
    BY <1>0, <2>1
  <2>3. Answered'
    BY <1>0, <2>1, <2>2 DEF OneCell
  <2>4. Reported'
    BY <1>0, <2>1 DEF OneCell
  <2> QED
    BY <2>3, <2>4
<1>9. ASSUME NEW x \in Slots, PersistApprovalWait(x)
      PROVE  Answered' /\ Reported'
  <2>1. PICK r \in Runs, c \in Calls :
          /\ toolCalls[r][c] = "none" /\ OneCell(toolCalls', toolCalls, r, c, "approval_required")
          /\ OneCell(approvals', approvals, r, c, "pending") /\ UNCHANGED job
    BY <1>0, <1>9, ApprovalChange
  <2>2. Answered'
    BY <1>0, <2>1 DEF OneCell
  <2>3. Reported'
    BY <1>0, <2>1 DEF OneCell
  <2> QED
    BY <2>2, <2>3
<1>10. ASSUME NEW x \in Slots, ResolveStateWorkflowWait(x)
       PROVE  Answered' /\ Reported'
  <2>1. PICK r \in Runs, c \in Calls, value \in {"rejected", "completed"} :
          /\ OneCell(toolCalls', toolCalls, r, c, value) /\ UNCHANGED <<approvals, job>>
          /\ \/ /\ value = "completed" /\ toolCalls[r][c] = "completed"
                /\ job[r].status = "completed" /\ job[r].call = c
             \/ /\ value = "completed" /\ toolCalls[r][c] \in {"running", "completed"}
                /\ approvals[r][c] = "approved"
             \/ /\ value = "rejected" /\ toolCalls[r][c] = "rejected"
                /\ approvals[r][c] = "rejected"
    BY <1>10, ResolveFacts
  <2>2. Answered'
    BY <1>0, <2>1 DEF OneCell
  <2>3. Reported'
    BY <1>0, <2>1 DEF OneCell
  <2> QED
    BY <2>2, <2>3
<1>11. ASSUME NEW r \in Runs, NEW c \in Calls, ExpireOnDecide(r, c)
       PROVE  Answered' /\ Reported'
  BY <1>0, <1>11, ExpireChange DEF OneCell
<1> QED
  BY <1>1, <1>2, <1>3, <1>4, <1>5, <1>6, <1>7, <1>8, <1>9, <1>10, <1>11 DEF Kinds, Decided

\* The status a transaction leaves.
LEMMA ReportRow ==
    ASSUME TypeInv, NEW x \in Slots, PersistReportWait(x)
    PROVE  /\ run'[session[x].run].status = "waiting_for_tool"
           /\ run'[session[x].run].wait.call = run[session[x].run].consumedSteps
<1>1. PICK t : /\ \E wait, version : t = [session[x] EXCEPT !.pc = "enqueue", !.wait = wait,
                                                            !.version = version]
               /\ Becomes(x, t)
  BY DEF PersistReportWait
<1>2. session[x] \in Sessions /\ session'[x] = t
  BY <1>1 DEF TypeInv, SessionOK, Becomes
<1>3. session'[x].pc = "enqueue" /\ session[x].pc = "model"
  BY <1>1, <1>2 DEF Sessions, PersistReportWait, At
<1> QED
  BY <1>3, DeferMove DEF WriteMove

LEMMA ApprovalRow ==
    ASSUME TypeInv, NEW x \in Slots, PersistApprovalWait(x)
    PROVE  /\ run'[session[x].run].status = "waiting_for_admin"
           /\ run'[session[x].run].wait.call = run[session[x].run].consumedSteps
<1>1. PICK t : /\ \E wait, version : t = [session[x] EXCEPT !.pc = "return", !.result = "wait",
                                                            !.wait = wait, !.version = version]
               /\ Becomes(x, t)
  BY DEF PersistApprovalWait
<1>2. session[x] \in Sessions /\ session'[x] = t
  BY <1>1 DEF TypeInv, SessionOK, Becomes
<1>3. session'[x].pc = "return" /\ session[x].pc = "model"
  BY <1>1, <1>2 DEF Sessions, PersistApprovalWait, At
<1> QED
  BY <1>3, DeferMove DEF WriteMove

LEMMA RowSettled ==
    ASSUME TypeInv, FenceInv, NEW x \in Slots,
           RowOnly(x) \/ Recorded(x) \/ ResolveStateWorkflowWait(x)
    PROVE  run'[session[x].run].status \in {"running", "completed", "failed"}
<1>1. CASE ConsumeStateWorkflowStep(x)
  BY <1>1, ConsumeMove DEF WriteMove, ConsumeStateWorkflowStep, At
<1>2. CASE CompleteStateWorkflowRun(x)
  BY <1>2, CompleteMove DEF WriteMove, CompleteStateWorkflowRun, At
<1>3. CASE ResolveStateWorkflowWait(x)
  BY <1>3, ResolveMove DEF WriteMove, ResolveStateWorkflowWait, At
<1>4. CASE PersistStateWorkflowSkill(x) \/ Recorded(x)
  <2>1. session[x].pc = "model"
    BY <1>4 DEF PersistStateWorkflowSkill, Recorded, PersistToolOutcome,
       PersistMappedToolFailure, At
  <2>2. session'[x].pc \in {"prompt", "finish"}
    <3>1. \/ AfterTool(x, session[x].version + 1, session[x].fatal)
          \/ FailRun(x, session[x].version + 1)
      BY <1>4 DEF PersistStateWorkflowSkill, Recorded, PersistToolOutcome, PersistMappedToolFailure
    <3>2. PICK version \in Nat, fatal \in BOOLEAN :
            version = session[x].version + 1 /\ fatal = session[x].fatal
      BY SessionTypes
    <3>3. AfterTool(x, version, fatal) \/ FailRun(x, version)
      BY <3>1, <3>2
    <3> QED
      BY <2>1, <3>3, ToolFacts, FailRunFacts
  <2>3. WriteMove(x)
    BY <1>4, SkillMove, CallMove DEF Recorded
  <2>4. run'[session[x].run].status = run[session[x].run].status
    BY <2>1, <2>2, <2>3 DEF WriteMove
  <2>5. run[session[x].run].status = "running"
    BY <2>1, <2>3 DEF WriteMove, FenceInv, Met, Meets, MeetsOK
  <2> QED
    BY <2>4, <2>5
<1> QED
  BY <1>1, <1>2, <1>3, <1>4 DEF RowOnly

LEMMA AwaitedSame ==
    ASSUME Inv, NEW q \in Runs,
           run'[q].status = run[q].status /\ run'[q].wait = run[q].wait,
           job[q].status # "none" => job'[q].status # "none" /\ job'[q].call = job[q].call,
           \A c \in Calls :
                /\ approvals[q][c] # "none" => approvals'[q][c] # "none"
                /\ (approvals[q][c] # "none" /\ toolCalls[q][c] # "completed")
                        => toolCalls'[q][c] # "completed"
    PROVE  WaitAgrees(q)'
<1>1. WaitAgrees(q) /\ RowOK(run[q], toolCalls[q], results[q]) /\ run[q].wait \in Waits
  BY RowTypes DEF Inv, BooksInv, Awaited, FenceInv, Rows, TypeInv, RunOK
<1>2. run[q].status = "waiting_for_admin" => run[q].wait.call \in Calls
  BY <1>1, WaitCalls DEF RowOK, NoWait
<1> QED
  BY <1>1, <1>2 DEF WaitAgrees

\* A run whose row is not written.
LEMMA AwaitedUnwritten ==
    ASSUME Inv, Kinds, NEW q \in Runs, UNCHANGED run
    PROVE  WaitAgrees(q)' \/ \E x \in Slots : RowOnly(x) \/ Recorded(x) \/ PersistReportWait(x)
                                \/ PersistApprovalWait(x) \/ ResolveStateWorkflowWait(x)
<1>0. TypeInv /\ Answered /\ Reported
  BY DEF Inv, BooksInv
<1>1. CASE Quiet
  BY <1>1, QuietFrame, AwaitedSame
<1>2. CASE Queued
  BY <1>0, <1>2, QueueChange, AwaitedSame DEF Queued
<1>3. ASSUME NEW r \in Runs, CompleteReportJob(r)
      PROVE  WaitAgrees(q)'
  <2>1. PICK c \in Calls, value \in CallStatuses :
          /\ c = job[r].call /\ job[r].status = "running"
          /\ job'[r].status = "completed" /\ job'[r].call = c
          /\ \A p \in Runs \ {r} : job'[p] = job[p]
          /\ OneCell(toolCalls', toolCalls, r, c, value)
          /\ UNCHANGED approvals
    BY <1>0, <1>3, ReportedChange
  <2>2. approvals[r][c] = "none"
    BY <1>0, <2>1 DEF Answered, AnswerOf, Reported, JobAgrees
  <2> QED
    BY <2>1, <2>2, AwaitedSame DEF OneCell
<1>4. ASSUME NEW r \in Runs, NEW c \in Calls, NEW decision \in {"approved", "rejected"},
             DecideApproval(r, c, decision)
      PROVE  WaitAgrees(q)'
  <2>1. PICK value \in {"running", "rejected"} :
          /\ OneCell(approvals', approvals, r, c, decision)
          /\ OneCell(toolCalls', toolCalls, r, c, value) /\ UNCHANGED job
    BY <1>0, <1>4, DecideChange
  <2> QED
    BY <2>1, AwaitedSame DEF OneCell
<1>5. CASE MarkSignalDispatched
  BY <1>0, <1>5, MarkChange, AwaitedSame
<1>6. ASSUME NEW x \in Slots, Sending(x)
      PROVE  WaitAgrees(q)'
  BY <1>0, <1>6, ReserveChange, ExecuteChange, CompleteSendChange, AwaitedSame DEF Sending
<1>7. ASSUME NEW r \in Runs, NEW c \in Calls, ExpireOnDecide(r, c)
      PROVE  WaitAgrees(q)'
  BY <1>0, <1>7, ExpireChange, AwaitedSame DEF OneCell
<1> QED
  BY <1>1, <1>2, <1>3, <1>4, <1>5, <1>6, <1>7 DEF Kinds, Decided

\* A row that is written no longer waits, or begins to.
LEMMA AwaitedWritten ==
    ASSUME Inv, NEW x \in Slots, NEW q \in Runs,
           \/ RowOnly(x) \/ Recorded(x) \/ PersistReportWait(x)
           \/ PersistApprovalWait(x) \/ ResolveStateWorkflowWait(x)
    PROVE  WaitAgrees(q)'
<1>0. TypeInv /\ FenceInv
  BY DEF Inv
<1>1. WriteMove(x)
  BY <1>0, ConsumeMove, SkillMove, CompleteMove, CallMove, DeferMove, ResolveMove
     DEF RowOnly, Recorded
<1>2. CASE q # session[x].run
  <2>1. run'[q] = run[q]
    BY <1>0, <1>1, <1>2, WrittenRow
  <2>2. \A c \in Calls : toolCalls'[q][c] = toolCalls[q][c] /\ approvals'[q][c] = approvals[q][c]
    <3>1. \A c \in Calls : toolCalls'[q][c] = toolCalls[q][c]
      BY <1>0, <1>1, <1>2, WrittenCells
    <3>2. CASE PersistApprovalWait(x)
      BY <1>0, <1>2, <3>1, <3>2, ApprovalChange DEF OneCell
    <3>3. CASE ~PersistApprovalWait(x)
      <4>1. UNCHANGED approvals
        BY <1>0, <3>3, RowOnlyChange, RecordChange, ReportChange, ResolveFacts DEF Recorded
      <4> QED
        BY <3>1, <4>1
    <3> QED
      BY <3>2, <3>3
  <2>3. job'[q] = job[q]
    BY <1>0, <1>2, RowOnlyChange, RecordChange, ReportChange, ApprovalChange, ResolveFacts
       DEF Recorded
  <2> QED
    BY <2>1, <2>2, <2>3, AwaitedSame
<1>3. CASE q = session[x].run /\ PersistReportWait(x)
  <2>1. PICK c \in Calls : /\ c = run[q].consumedSteps
                           /\ job'[q].status = "queued" /\ job'[q].call = c
    BY <1>0, <1>3, ReportChange
  <2>2. run'[q].status = "waiting_for_tool" /\ run'[q].wait.call = run[q].consumedSteps
    BY <1>0, <1>3, ReportRow
  <2> QED
    BY <2>1, <2>2 DEF WaitAgrees
<1>4. CASE q = session[x].run /\ PersistApprovalWait(x)
  <2>1. PICK c \in Calls : /\ c = run[q].consumedSteps
                           /\ OneCell(toolCalls', toolCalls, q, c, "approval_required")
                           /\ OneCell(approvals', approvals, q, c, "pending")
    BY <1>0, <1>4, ApprovalChange
  <2>2. run'[q].status = "waiting_for_admin" /\ run'[q].wait.call = run[q].consumedSteps
    BY <1>0, <1>4, ApprovalRow
  <2>3. approvals'[q][c] = "pending" /\ toolCalls'[q][c] = "approval_required"
    BY <2>1 DEF OneCell
  <2> QED
    BY <2>1, <2>2, <2>3 DEF WaitAgrees
<1>5. CASE q = session[x].run /\ (RowOnly(x) \/ Recorded(x) \/ ResolveStateWorkflowWait(x))
  <2>1. run'[q].status \in {"running", "completed", "failed"}
    BY <1>0, <1>5, RowSettled
  <2> QED
    BY <2>1 DEF WaitAgrees
<1> QED
  BY <1>2, <1>3, <1>4, <1>5

\* What the model was told stays true.
LEMMA ToldSame ==
    ASSUME Inv, Steady, NEW r \in Runs, NEW c \in Calls, results'[r][c] = results[r][c],
           toolCalls[r][c] \in {"completed", "rejected"} => toolCalls'[r][c] = toolCalls[r][c],
           sends[r][c] = "sent" => sends'[r][c] = "sent",
           \/ emails'[r][c] = emails[r][c]
           \/ emails[r][c] = 0 /\ approvals[r][c] = "approved"
    PROVE  ToldTruly(r, c)'
<1>1. ToldTruly(r, c)
  BY DEF Inv, BooksInv, Told
<1> QED
  BY <1>1 DEF ToldTruly, Steady

LEMMA ToldKept ==
    ASSUME Inv, Steady, Kinds
    PROVE  Told'
<1> SUFFICES ASSUME NEW q \in Runs, NEW d \in Calls
             PROVE  ToldTruly(q, d)'
  BY DEF Told
<1>0. TypeInv /\ Reported /\ EmailInv
  BY DEF Inv, BooksInv
<1>1. CASE Quiet
  BY <1>1, QuietFrame, ToldSame
<1>2. CASE Queued
  BY <1>0, <1>2, QueueChange, ToldSame DEF Queued
<1>3. ASSUME NEW r \in Runs, CompleteReportJob(r)
      PROVE  ToldTruly(q, d)'
  <2>1. PICK c \in Calls, value \in CallStatuses :
          /\ c = job[r].call /\ job[r].status = "running"
          /\ OneCell(toolCalls', toolCalls, r, c, value)
          /\ UNCHANGED <<sends, results, emails>>
    BY <1>0, <1>3, ReportedChange
  <2>2. toolCalls[r][c] = "waiting_job"
    BY <1>0, <2>1 DEF Reported, JobAgrees
  <2> QED
    BY <2>1, <2>2, ToldSame DEF OneCell
<1>4. ASSUME NEW r \in Runs, NEW c \in Calls, NEW decision \in {"approved", "rejected"},
             DecideApproval(r, c, decision)
      PROVE  ToldTruly(q, d)'
  <2>1. PICK value \in {"running", "rejected"} :
          /\ toolCalls[r][c] = "approval_required"
          /\ OneCell(toolCalls', toolCalls, r, c, value)
          /\ UNCHANGED <<sends, results, emails>>
    BY <1>0, <1>4, DecideChange
  <2> QED
    BY <2>1, ToldSame DEF OneCell
<1>5. CASE MarkSignalDispatched
  BY <1>0, <1>5, MarkChange, ToldSame
<1>6. ASSUME NEW x \in Slots, RowOnly(x)
      PROVE  ToldTruly(q, d)'
  BY <1>0, <1>6, RowOnlyChange, ToldSame
<1>7. ASSUME NEW x \in Slots, Recorded(x) \/ PersistReportWait(x) \/ PersistApprovalWait(x)
      PROVE  ToldTruly(q, d)'
  <2>1. PICK r, c, value :
          /\ r \in Runs /\ c \in Calls
          /\ toolCalls[r][c] = "none" /\ OneCell(toolCalls', toolCalls, r, c, value)
          /\ UNCHANGED <<sends, results, emails>>
    <3>1. CASE Recorded(x)
      BY <1>0, <3>1, RecordChange DEF Recorded
    <3>2. CASE PersistReportWait(x)
      BY <1>0, <3>2, ReportChange
    <3>3. CASE PersistApprovalWait(x)
      <4>1. PICK r \in Runs, c \in Calls :
              /\ toolCalls[r][c] = "none"
              /\ OneCell(toolCalls', toolCalls, r, c, "approval_required")
              /\ UNCHANGED <<sends, results, emails>>
        BY <1>0, <3>3, ApprovalChange
      <4> QED
        BY <4>1
    <3> QED
      BY <1>7, <3>1, <3>2, <3>3
  <2> QED
    BY <2>1, ToldSame DEF OneCell
<1>8. ASSUME NEW x \in Slots, ResolveStateWorkflowWait(x)
      PROVE  ToldTruly(q, d)'
  <2>1. PICK r \in Runs, c \in Calls, value \in {"rejected", "completed"} :
             /\ OneCell(toolCalls', toolCalls, r, c, value)
             /\ OneCell(results', results, r, c, 1)
             /\ UNCHANGED <<approvals, sends, job, emails>>
             /\ \/ value = "completed" /\ job[r].status = "completed" /\ job[r].call = c
                \/ value = "completed" /\ emails[r][c] = 1 /\ sends[r][c] = "sent"
                \/ /\ value = "rejected" /\ approvals[r][c] = "rejected" /\ emails[r][c] = 0
    BY <1>8, ResolveFacts
  <2>2. CASE q = r /\ d = c
    <3>1. toolCalls'[q][d] = value /\ results'[q][d] = 1
      BY <2>1, <2>2 DEF OneCell
    <3> QED
      BY <2>1, <2>2, <3>1 DEF ToldTruly
  <2>3. CASE ~(q = r /\ d = c)
    <3>1. toolCalls'[q][d] = toolCalls[q][d] /\ results'[q][d] = results[q][d]
      BY <2>1, <2>3 DEF OneCell
    <3> QED
      BY <2>1, <3>1, ToldSame
  <2> QED
    BY <2>2, <2>3
<1>9. ASSUME NEW x \in Slots, Sending(x)
      PROVE  ToldTruly(q, d)'
  <2>1. CASE ReserveSimulatedSend(x)
    BY <1>0, <2>1, ReserveChange, ToldSame DEF OneCell
  <2>2. CASE CompleteSimulatedSend(x)
    BY <1>0, <2>2, CompleteSendChange, ToldSame DEF OneCell
  <2>3. CASE ExecuteApprovedSend(x)
    <3>1. PICK r \in Runs, c \in Calls :
             /\ r = session[x].run /\ c = session[x].wait.call /\ session[x].pc = "send"
             /\ OneCell(emails', emails, r, c, emails[r][c] + 1)
             /\ UNCHANGED <<toolCalls, sends, results>>
      BY <1>0, <2>3, ExecuteChange
    <3>2. emails[r][c] = 0 /\ approvals[r][c] = "approved"
      BY <1>0, <3>1 DEF EmailInv, AboutToSend, Sends, SentOnce
    <3> QED
      BY <3>1, <3>2, ToldSame DEF OneCell
  <2> QED
    BY <1>9, <2>1, <2>2, <2>3 DEF Sending
<1>10. ASSUME NEW r \in Runs, NEW c \in Calls, ExpireOnDecide(r, c)
       PROVE  ToldTruly(q, d)'
  BY <1>0, <1>10, ExpireChange, ToldSame
<1> QED
  BY <1>1, <1>2, <1>3, <1>4, <1>5, <1>6, <1>7, <1>8, <1>9, <1>10 DEF Kinds, Decided

LEMMA AwaitedKept ==
    ASSUME Inv, Move, Kinds
    PROVE  Awaited'
<1> SUFFICES ASSUME NEW q \in Runs
             PROVE  WaitAgrees(q)'
  BY DEF Awaited
<1>1. CASE \E x \in Slots : RowOnly(x) \/ Recorded(x) \/ PersistReportWait(x)
                            \/ PersistApprovalWait(x) \/ ResolveStateWorkflowWait(x)
  BY <1>1, AwaitedWritten
<1>2. CASE ~\E x \in Slots : RowOnly(x) \/ Recorded(x) \/ PersistReportWait(x)
                             \/ PersistApprovalWait(x) \/ ResolveStateWorkflowWait(x)
  <2>1. TypeInv
    BY DEF Inv
  <2>2. UNCHANGED run
    BY <1>2, <2>1, QuietFrame, QueueChange, ReportedChange, DecideChange, MarkChange,
       ReserveChange, ExecuteChange, CompleteSendChange, ExpireChange
       DEF Kinds, Queued, Decided, Sending
  <2> QED
    BY <1>2, <2>2, AwaitedUnwritten
<1> QED
  BY <1>1, <1>2

(*****************************************************************************)
(* The theorems.                                                             *)
(*****************************************************************************)

LEMMA InvStep ==
    ASSUME Inv, [Next]_vars
    PROVE  Inv'
<1>0. TypeInv /\ FenceInv /\ BooksInv /\ EmailInv
  BY DEF Inv
<1>1. CASE Next
  <2>1. Move /\ Kinds /\ TypeInv'
    BY <1>0, <1>1, StepMove, StepKinds, TypeKept DEF BooksInv
  <2>2. Steady
    BY <2>1, SteadyKept
  <2>3. BooksInv'
    BY <2>1, <2>2, PairsKept, AwaitedKept, TrueSignalsKept, ToldKept DEF BooksInv
  <2>4. FenceInv'
    BY <1>0, <2>1, FenceKept
  <2>5. EmailInv'
    BY <1>0, <2>1, EmailInvKept DEF BooksInv
  <2> QED
    BY <2>1, <2>3, <2>4, <2>5 DEF Inv
<1>2. CASE UNCHANGED vars
  <2>1. TypeInv'
    BY <1>0, <1>2 DEF vars, dbVars, ledger, TypeInv, RunOK, SessionOK, WorkflowOK, JobOK,
       OutboxOK, LedgerOK, StepPaid, Delivering
  <2>2. FenceInv'
    BY <1>0, <1>2 DEF vars, dbVars, ledger, FenceInv, Behind, Carries, Met, Meets, Rows, Current
  <2>3. BooksInv'
    BY <1>0, <1>2 DEF vars, dbVars, ledger, BooksInv, Answered, Reported, JobAgrees, Awaited,
       WaitAgrees, TrueSignals, TrueWorkflow, IsTrue, Told, ToldTruly
  <2>4. EmailInv'
    BY <1>0, <1>2 DEF vars, dbVars, ledger, EmailInv, SentOnce, AboutToSend, Sends, Cell
  <2> QED
    BY <2>1, <2>2, <2>3, <2>4 DEF Inv
<1> QED
  BY <1>1, <1>2

LEMMA InvInit ==
    ASSUME Init
    PROVE  Inv
<1>1. /\ \A x \in Slots : session[x] = Idle
      /\ \A r \in Runs : workflow[r] = Absent /\ job[r] = NoJob
      /\ \A r \in Runs : run[r].status = "queued" /\ run[r].wait = NoWait
                         /\ run[r].consumedSteps = 0
      /\ \A r \in Runs, c \in Calls :
            /\ toolCalls[r][c] = "none" /\ approvals[r][c] = "none" /\ sends[r][c] = "none"
            /\ emails[r][c] = 0 /\ results[r][c] = 0
      /\ outbox = <<>>
  BY DEF Init
<1>2. TypeInv
  <2>1. RunOK
    BY ConstantFacts, IdleFacts DEF Init, RunOK, RunRows, Statuses
  <2>2. SessionOK /\ StepPaid
    BY <1>1, IdleFacts DEF Init, SessionOK, StepPaid, SignalledOK, Idle, Applying
  <2>3. WorkflowOK
    BY <1>1, ConstantFacts, IdleFacts
       DEF Init, WorkflowOK, Workflows, CalledOK, Absent, Statuses
  <2>4. JobOK
    BY <1>1, IdleFacts DEF Init, JobOK, NoJob
  <2>5. OutboxOK /\ Delivering
    BY DEF Init, OutboxOK, Delivering
  <2>6. LedgerOK
    BY ConstantFacts DEF Init, LedgerOK, CallStatuses, ApprovalStatuses
  <2> QED
    BY <2>1, <2>2, <2>3, <2>4, <2>5, <2>6 DEF TypeInv
<1>3. FenceInv
  BY <1>1 DEF FenceInv, Behind, Carries, CarriesOK, Met, Meets, Rows, RowOK, Idle, Fenced,
     Applying, NoWait
<1>4. BooksInv
  <2>1. Answered /\ Reported /\ Told
    BY <1>1 DEF Answered, AnswerOf, Reported, JobAgrees, NoJob, Told, ToldTruly
  <2>2. Awaited
    BY <1>1 DEF Awaited, WaitAgrees
  <2>3. TrueSignals
    BY <1>1 DEF TrueSignals, TrueWorkflow, IsTrue, Absent, Idle
  <2> QED
    BY <2>1, <2>2, <2>3 DEF BooksInv
<1>5. EmailInv
  BY <1>1 DEF EmailInv, SentOnce, AboutToSend, Sends, Idle
<1> QED
  BY <1>2, <1>3, <1>4, <1>5 DEF Inv

LEMMA Invariance == Spec => []Inv
<1>1. Init => Inv
  BY InvInit
<1>2. Inv /\ [Next]_vars => Inv'
  BY InvStep
<1> QED
  BY <1>1, <1>2, PTL DEF Spec

\* Every table and every attempt keeps its type: no transaction overruns the step
\* budget or names a call the run did not make.
THEOREM WorkflowTyped == Spec => []TypeOK
<1>1. Inv => TypeOK
  BY DEF Inv, TypeInv, RunOK, SessionOK, WorkflowOK, JobOK, OutboxOK, LedgerOK, TypeOK
<1> QED
  BY <1>1, Invariance, PTL

\* A message that needs approval leaves at most once for its call, and only if that
\* call was approved, however many attempts of applySignal overlap: the row of the
\* reservation lets one of them pass.
THEOREM EmailSentOnce == Spec => []OneEmailPerApproval
<1>1. Inv => OneEmailPerApproval
  BY DEF Inv, EmailInv, SentOnce, OneEmailPerApproval
<1> QED
  BY <1>1, Invariance, PTL

\* resolveStateWorkflowWait tells the model the outcome of a deferred call once,
\* and what it tells is what the job or the decision was.
THEOREM OutcomesTold == Spec => []ResultsTold
<1>1. Inv => ResultsTold
  BY DEF Inv, BooksInv, Told, ToldTruly, ResultsTold
<1> QED
  BY <1>1, Invariance, PTL

\* A run that waits waits for a call that is deferred in the ledger, with the job or
\* the approval that belongs to it; a run that does not wait has no wait, but one
\* that was failed.
THEOREM WaitsDeferred == Spec => []WaitAgreement
<1>1. ASSUME Inv
      PROVE  WaitAgreement
  <2> SUFFICES ASSUME NEW r \in Runs
               PROVE  LET row == run[r]  c == row.wait.call IN
                      /\ row.status = "waiting_for_tool" =>
                          /\ row.wait.kind = "report"
                          /\ job[r].call = c
                          /\ toolCalls[r][c] = IF job[r].status = "completed" THEN "completed"
                                               ELSE "waiting_job"
                      /\ row.status = "waiting_for_admin" =>
                          /\ row.wait.kind = "approval"
                          /\ <<approvals[r][c], toolCalls[r][c]>> \in
                                  {<<"pending", "approval_required">>, <<"approved", "running">>,
                                   <<"rejected", "rejected">>, <<"expired", "approval_required">>}
                      /\ row.status \in {"queued", "running", "completed"} => row.wait = NoWait
    BY DEF WaitAgreement
  <2>0. TypeInv /\ FenceInv /\ BooksInv
    BY <1>1 DEF Inv
  <2>1. RowOK(run[r], toolCalls[r], results[r]) /\ WaitAgrees(r) /\ JobAgrees(r)
    BY <2>0 DEF FenceInv, Rows, BooksInv, Awaited, Reported
  <2>2. job[r].status \in {"none", "queued", "running", "completed"}
    BY <2>0, JobFields
  <2>3. CASE run[r].status = "waiting_for_tool"
    BY <2>1, <2>2, <2>3 DEF RowOK, WaitAgrees, JobAgrees
  <2>4. CASE run[r].status = "waiting_for_admin"
    <3>1. run[r].wait.kind = "approval" /\ run[r].wait # NoWait
      BY <2>1, <2>4 DEF RowOK, NoWait
    <3>2. run[r].wait.call \in Calls
      BY <2>0, <3>1, RowTypes, WaitCalls DEF TypeInv, RunOK
    <3>3. AnswerOf(approvals[r][run[r].wait.call], toolCalls[r][run[r].wait.call])
      BY <2>0, <3>2 DEF BooksInv, Answered
    <3> QED
      BY <2>1, <2>4, <3>1, <3>3 DEF WaitAgrees, AnswerOf
  <2> QED
    BY <2>1, <2>3, <2>4 DEF RowOK
<1> QED
  BY <1>1, Invariance, PTL

(*****************************************************************************)
(* What a step may never do.                                                 *)
(*****************************************************************************)

\* The body of LegalCallTransitions.
LegalStep ==
    \A r \in Runs :
        /\ job'[r].status # job[r].status =>
            <<job[r].status, job'[r].status>> \in JobTransitions
        /\ \A c \in Calls :
            /\ toolCalls'[r][c] # toolCalls[r][c] =>
                <<toolCalls[r][c], toolCalls'[r][c]>> \in ToolCallTransitions
            /\ approvals'[r][c] # approvals[r][c] =>
                <<approvals[r][c], approvals'[r][c]>> \in ApprovalTransitions

\* A transaction that writes one call's status.
LEMMA CallCellLegal ==
    ASSUME NEW r \in Runs, NEW c \in Calls, NEW value, NEW legal, UNCHANGED <<approvals, job>>,
           OneCell(toolCalls', toolCalls, r, c, value), legal = ToolCallTransitions,
           value = toolCalls[r][c] \/ <<toolCalls[r][c], value>> \in legal
    PROVE  LegalStep
  BY DEF LegalStep, OneCell

LEMMA LegalTables ==
    ASSUME Inv, Kinds
    PROVE  LegalStep
<1>0. TypeInv /\ BooksInv
  BY DEF Inv
<1>1. CASE Quiet
  BY <1>1, QuietFrame DEF LegalStep
<1>2. CASE Queued
  <2>1. /\ UNCHANGED <<toolCalls, approvals>>
        /\ \A q \in Runs : \/ job'[q].status = job[q].status
                           \/ job[q].status = "queued" /\ job'[q].status = "running"
    BY <1>0, <1>2, QueueChange DEF Queued
  <2> QED
    BY <2>1 DEF LegalStep, JobTransitions
<1>3. ASSUME NEW r \in Runs, CompleteReportJob(r)
      PROVE  LegalStep
  <2>1. PICK c \in Calls, value \in CallStatuses :
          /\ c = job[r].call /\ job[r].status = "running" /\ job'[r].status = "completed"
          /\ \A q \in Runs \ {r} : job'[q] = job[q]
          /\ value = IF toolCalls[r][c] = "waiting_job" THEN "completed" ELSE toolCalls[r][c]
          /\ OneCell(toolCalls', toolCalls, r, c, value)
          /\ UNCHANGED approvals
    BY <1>0, <1>3, ReportedChange
  <2> QED
    BY <2>1 DEF LegalStep, OneCell, JobTransitions, ToolCallTransitions
<1>4. ASSUME NEW r \in Runs, NEW c \in Calls, NEW decision \in {"approved", "rejected"},
             DecideApproval(r, c, decision)
      PROVE  LegalStep
  <2>1. PICK value \in {"running", "rejected"} :
          /\ approvals[r][c] = "pending" /\ toolCalls[r][c] = "approval_required"
          /\ OneCell(approvals', approvals, r, c, decision)
          /\ OneCell(toolCalls', toolCalls, r, c, value)
          /\ UNCHANGED job
    BY <1>0, <1>4, DecideChange
  <2> QED
    BY <2>1 DEF LegalStep, OneCell, ToolCallTransitions, ApprovalTransitions
<1>5. CASE MarkSignalDispatched
  BY <1>0, <1>5, MarkChange DEF LegalStep
<1>6. ASSUME NEW x \in Slots, RowOnly(x)
      PROVE  LegalStep
  BY <1>0, <1>6, RowOnlyChange DEF LegalStep
<1>7. ASSUME NEW x \in Slots, Recorded(x)
      PROVE  LegalStep
  <2>1. PICK r \in Runs, c \in Calls, outcome \in {"completed", "failed", "rejected"} :
          /\ toolCalls[r][c] = "none" /\ OneCell(toolCalls', toolCalls, r, c, outcome)
          /\ UNCHANGED <<approvals, job>>
    BY <1>0, <1>7, RecordChange DEF Recorded
  <2>2. <<toolCalls[r][c], outcome>> \in ToolCallTransitions
    BY <2>1 DEF ToolCallTransitions, CallStatuses
  <2> QED
    BY <2>1, <2>2, CallCellLegal
<1>8. ASSUME NEW x \in Slots, PersistReportWait(x)
      PROVE  LegalStep
  <2>1. PICK r \in Runs, c \in Calls :
          /\ toolCalls[r][c] = "none" /\ OneCell(toolCalls', toolCalls, r, c, "waiting_job")
          /\ job[r] = NoJob /\ job'[r].status = "queued"
          /\ \A q \in Runs \ {r} : job'[q] = job[q]
          /\ UNCHANGED approvals
    BY <1>0, <1>8, ReportChange
  <2>2. job[r].status = "none"
    BY <2>1 DEF NoJob
  <2> QED
    BY <2>1, <2>2 DEF LegalStep, OneCell, JobTransitions, ToolCallTransitions, CallStatuses
<1>9. ASSUME NEW x \in Slots, PersistApprovalWait(x)
      PROVE  LegalStep
  <2>1. PICK r \in Runs, c \in Calls :
          /\ toolCalls[r][c] = "none"
          /\ OneCell(toolCalls', toolCalls, r, c, "approval_required")
          /\ OneCell(approvals', approvals, r, c, "pending")
          /\ UNCHANGED job
    BY <1>0, <1>9, ApprovalChange
  <2>2. approvals[r][c] = "none"
    BY <1>0, <2>1 DEF BooksInv, Answered, AnswerOf
  <2> QED
    BY <2>1, <2>2 DEF LegalStep, OneCell, ToolCallTransitions, ApprovalTransitions, CallStatuses
<1>10. ASSUME NEW x \in Slots, ResolveStateWorkflowWait(x)
       PROVE  LegalStep
  <2>1. PICK r \in Runs, c \in Calls, value \in {"rejected", "completed"} :
          /\ OneCell(toolCalls', toolCalls, r, c, value)
          /\ UNCHANGED <<approvals, job>>
          /\ \/ value = "completed" /\ toolCalls[r][c] \in {"running", "completed"}
             \/ value = "rejected" /\ toolCalls[r][c] = "rejected"
    BY <1>10, ResolveFacts
  <2>2. value = toolCalls[r][c] \/ <<toolCalls[r][c], value>> \in ToolCallTransitions
    BY <2>1 DEF ToolCallTransitions
  <2> QED
    BY <2>1, <2>2, CallCellLegal
<1>11. ASSUME NEW x \in Slots, Sending(x)
       PROVE  LegalStep
  BY <1>0, <1>11, ReserveChange, ExecuteChange, CompleteSendChange DEF LegalStep, Sending
<1>12. ASSUME NEW r \in Runs, NEW c \in Calls, ExpireOnDecide(r, c)
       PROVE  LegalStep
  BY <1>0, <1>12, ExpireChange DEF LegalStep, OneCell, ApprovalTransitions
<1> QED
  BY <1>1, <1>2, <1>3, <1>4, <1>5, <1>6, <1>7, <1>8, <1>9, <1>10, <1>11, <1>12 DEF Kinds, Decided

\* The calls, approvals and jobs go through the transitions of the contracts only,
\* although resolveStateWorkflowWait writes a call without a look at its status.
THEOREM LegalTransitionsOfCalls == Spec => LegalCallTransitions
<1>1. Inv /\ [Next]_vars => [LegalStep]_vars
  BY LegalTables, StepKinds
<1>2. [][LegalStep]_vars => LegalCallTransitions
  BY PTL DEF LegalStep, LegalCallTransitions
<1> QED
  BY <1>1, <1>2, Invariance, PTL DEF Spec

\* The body of OnlyAnswersRevive, for one run.
LawfulStep(r) ==
    run'[r].status # run[r].status =>
        \/ <<run[r].status, run'[r].status>> \in RunTransitions
        \/ /\ run[r].status = "failed" /\ run'[r].status = "running"
           /\ run[r].wait.kind = "report"
           /\ job[r].status = "completed" /\ job[r].call = run[r].wait.call

LEMMA WrittenLawfully ==
    ASSUME Inv, NEW x \in Slots, WriteMove(x)
    PROVE  LawfulStep(session[x].run)
<1> DEFINE s == session[x]
           r == session[x].run
           row == run[session[x].run]
           new == run'[session[x].run]
<1>0. TypeInv /\ FenceInv /\ BooksInv
  BY DEF Inv
<1>1. r \in Runs /\ s.pc \in Fenced /\ Current(x) /\ row \in RunRows
  BY <1>0 DEF WriteMove, TypeInv, RunOK
<1>2. /\ MeetsOK(s, row, toolCalls[r], results[r]) /\ CarriesOK(s)
      /\ RowOK(row, toolCalls[r], results[r])
  BY <1>0, <1>1 DEF FenceInv, Met, Meets, Carries, Rows
<1>3. CASE s.pc = "prompt"
  <2>1. new.status = "running" /\ row.status \in {"queued", "running"}
    BY <1>2, <1>3 DEF WriteMove, MeetsOK
  <2> QED
    BY <2>1 DEF LawfulStep, RunTransitions
<1>4. CASE s.pc = "model"
  <2>1. row.status = "running"
    BY <1>2, <1>4 DEF MeetsOK
  <2>2. new.status \in {"running", "waiting_for_tool", "waiting_for_admin"}
    BY <1>4, <2>1 DEF WriteMove
  <2> QED
    BY <2>1, <2>2 DEF LawfulStep, RunTransitions, Waiting
<1>5. CASE s.pc = "finish"
  <2>1. new.status = IF s.fatal THEN "failed" ELSE "completed"
    BY <1>5 DEF WriteMove
  <2>2. row.status = "running" \/ (row.status \in {"queued", "waiting_for_tool"} /\ s.fatal)
    BY <1>2, <1>5 DEF MeetsOK
  <2> QED
    BY <2>1, <2>2 DEF LawfulStep, RunTransitions, Waiting, Terminal
<1>6. CASE s.pc = "settle"
  <2>1. /\ new.status = "running" /\ s.wait.kind = s.signal.kind
        /\ s.signal.call = s.wait.call /\ row.wait = s.wait /\ s.wait # NoWait
    BY <1>0, <1>1, <1>6, SettledCall DEF WriteMove, BooksInv
  <2>2. row.status \in {"waiting_for_tool", "waiting_for_admin", "failed"}
    BY <1>1, <1>2, <2>1, RowTypes DEF RowOK, Statuses, Waiting, Terminal
  <2>3. CASE row.status \in {"waiting_for_tool", "waiting_for_admin"}
    BY <2>1, <2>3 DEF LawfulStep, RunTransitions, Waiting
  <2>4. CASE row.status = "failed"
    <3>1. row.wait.kind = "report"
      BY <1>2, <2>1, <2>4 DEF RowOK
    <3>2. IsTrue(r, s.signal) /\ s.signal # NoSignal /\ s.signal.kind = "report"
      BY <1>0, <1>1, <1>6, <2>1, <3>1
         DEF BooksInv, TrueSignals, TypeInv, SessionOK, SignalledOK, Applying
    <3> QED
      BY <2>1, <2>4, <3>1, <3>2 DEF LawfulStep, IsTrue
  <2> QED
    BY <2>2, <2>3, <2>4
<1> QED
  BY <1>3, <1>4, <1>5, <1>6 DEF WriteMove

\* The version keeps late and overlapping attempts to the transitions of the
\* contracts, but for one: the answer to a report brings back a run that was failed
\* while it waited for it.
THEOREM RevivedByReport == Spec => OnlyAnswersRevive
<1>1. ASSUME Inv, Next, NEW r \in Runs
      PROVE  LawfulStep(r)
  <2>1. Move
    BY <1>1, StepMove DEF Inv
  <2>2. CASE UNCHANGED run
    BY <2>2 DEF LawfulStep
  <2>3. ASSUME NEW x \in Slots, WriteMove(x)
        PROVE  LawfulStep(r)
    <3>1. CASE r = session[x].run
      BY <1>1, <2>3, <3>1, WrittenLawfully
    <3>2. CASE r # session[x].run
      BY <2>3, <3>2 DEF WriteMove, OnlyRun, LawfulStep
    <3> QED
      BY <3>1, <3>2
  <2> QED
    BY <2>1, <2>2, <2>3 DEF Move, SoftMove, RestMove, DieMove
<1>2. Inv /\ [Next]_vars => [\A r \in Runs : LawfulStep(r)]_vars
  BY <1>1
<1>3. [][\A r \in Runs : LawfulStep(r)]_vars => OnlyAnswersRevive
  BY PTL DEF LawfulStep, OnlyAnswersRevive
<1> QED
  BY <1>2, <1>3, Invariance, PTL DEF Spec

(*****************************************************************************)
(* The run's life.  Every step is one of RunLifecycle's or one it does not   *)
(* see.  Two facts more are needed.  A call is deferred to the queue or to   *)
(* the administrator, never to both; and a call whose answer is outstanding  *)
(* is the one the run waits for, even if the run was failed meanwhile over   *)
(* its report.  No transaction checks this; it is the promise itself that    *)
(* keeps it from one step to the next.                                       *)
(*****************************************************************************)

OneKind ==
    \A r \in Runs :
        /\ job[r].status = "none" => job[r].call = 0
        /\ \A c \in Calls : job[r].call = c => approvals[r][c] = "none"

\* The call can still be decided, its report completed, or its message sent.
Outstanding(r, c) ==
    \/ AnswerTo(r, c) \in {"pending", "ordered"}
    \/ AnswerTo(r, c) = "approved" /\ results[r][c] = 0

OneOutstanding ==
    \A r \in Runs, c \in Calls :
        Outstanding(r, c) =>
            /\ WaitsFor(r) = c
            /\ run[r].status = "waiting_for_admin" \/ AnswerTo(r, c) = "ordered"

LifeInv == Inv /\ OneKind /\ OneOutstanding

\* What RunLifecycle sees of a row.
SameLife(r) ==
    /\ run'[r].status = run[r].status
    /\ run'[r].consumedSteps = run[r].consumedSteps
    /\ run'[r].wait = run[r].wait

\* A job may go on, but not to its end.
SameJob(r) ==
    /\ job'[r].call = job[r].call
    /\ job'[r].status = "completed" <=> job[r].status = "completed"

\* A step of the promise, or one it does not see, after which the second fact holds.
Lives == [Promise!Next]_(Promise!vars) /\ OneOutstanding'

OtherLives(r) == \A q \in Runs \ {r} : SameLife(q) /\ job'[q].call = job[q].call

SameAnswers == \A q \in Runs, c \in Calls : AnswerTo(q, c)' = AnswerTo(q, c)

NewAnswer(r, d, answer) ==
    \A q \in Runs, c \in Calls :
        AnswerTo(q, c)' = IF q = r /\ c = d THEN answer ELSE AnswerTo(q, c)

LEMMA SameWait ==
    ASSUME NEW r \in Runs, SameLife(r), job'[r].call = job[r].call
    PROVE  WaitsFor(r)' = WaitsFor(r)
  BY DEF SameLife, WaitsFor

LEMMA OneLife ==
    ASSUME NEW r \in Runs, OnlyRun(r), \A q \in Runs \ {r} : job'[q] = job[q]
    PROVE  OtherLives(r)
  BY DEF OnlyRun, OtherLives, SameLife

LEMMA AnswersStay ==
    ASSUME approvals' = approvals, \A q \in Runs : SameJob(q)
    PROVE  SameAnswers
  BY DEF SameAnswers, SameJob, AnswerTo

\* A run that runs, or has not begun, waits for nothing.
LEMMA NoneOutstanding ==
    ASSUME OneOutstanding, NEW r \in Runs, run[r].status \in {"queued", "running"}
    PROVE  WaitsFor(r) = 0 /\ \A c \in Calls : ~Outstanding(r, c)
<1>1. WaitsFor(r) = 0
  BY DEF WaitsFor, Waiting
<1>2. 0 \notin Calls
  BY CallFacts
<1> QED
  BY <1>1, <1>2 DEF OneOutstanding

LEMMA Unseen ==
    ASSUME OneOutstanding, \A q \in Runs : SameLife(q) /\ SameJob(q), SameAnswers,
           UNCHANGED <<emails, results>>
    PROVE  Lives
<1>1. \A q \in Runs : /\ run'[q].status = run[q].status
                      /\ run'[q].consumedSteps = run[q].consumedSteps
                      /\ WaitsFor(q)' = WaitsFor(q)
  BY SameWait DEF SameLife, SameJob
<1>2. UNCHANGED Promise!vars
  BY <1>1 DEF Promise!vars, SameAnswers
<1>3. OneOutstanding'
  BY <1>1 DEF OneOutstanding, Outstanding, SameAnswers
<1> QED
  BY <1>2, <1>3 DEF Lives

(*****************************************************************************)
(* The abstract actions, from what the steps do to the rows and tables.      *)
(*****************************************************************************)

LEMMA TakesStep ==
    ASSUME OneOutstanding, NEW r \in Runs, OtherLives(r), SameAnswers,
           UNCHANGED <<emails, results>>,
           run[r].status \in {"queued", "running"}, run[r].consumedSteps < StepBudget,
           run'[r].status = "running", run'[r].consumedSteps = run[r].consumedSteps + 1
    PROVE  Lives
<1>1. \A q \in Runs : WaitsFor(q)' = WaitsFor(q)
  BY SameWait DEF OtherLives, WaitsFor, Waiting
<1>2. \A q \in Runs \ {r} : /\ run'[q].status = run[q].status
                            /\ run'[q].consumedSteps = run[q].consumedSteps
  BY DEF OtherLives, SameLife
<1>3. Promise!Step(r)
  BY <1>1, <1>2 DEF Promise!Step, SameAnswers
<1>4. OneOutstanding'
  BY <1>1, <1>2, NoneOutstanding DEF OneOutstanding, Outstanding, SameAnswers
<1> QED
  BY <1>3, <1>4 DEF Lives, Promise!Next

LEMMA Ends ==
    ASSUME OneOutstanding, NEW r \in Runs, OtherLives(r), SameAnswers,
           UNCHANGED <<emails, results>>, run'[r].status \in Terminal, WaitsFor(r)' = 0,
           run[r].status = "running" \/ (run[r].status = "queued" /\ run'[r].status = "failed"),
           run'[r].consumedSteps = run[r].consumedSteps
    PROVE  Lives
<1>1. \A q \in Runs : WaitsFor(q)' = WaitsFor(q)
  BY SameWait, NoneOutstanding DEF OtherLives
<1>2. \A q \in Runs \ {r} : /\ run'[q].status = run[q].status
                            /\ run'[q].consumedSteps = run[q].consumedSteps
  BY DEF OtherLives, SameLife
<1>3. Promise!End(r)
  BY <1>1, <1>2 DEF Promise!End, Promise!Terminal, Terminal, SameAnswers
<1>4. OneOutstanding'
  BY <1>1, <1>2, NoneOutstanding DEF OneOutstanding, Outstanding, SameAnswers
<1> QED
  BY <1>3, <1>4 DEF Lives, Promise!Next

LEMMA IsGivenUp ==
    ASSUME OneOutstanding, NEW r \in Runs, OtherLives(r), SameAnswers,
           UNCHANGED <<emails, results>>,
           run[r].status = "waiting_for_tool", run'[r].status = "failed",
           WaitsFor(r)' = WaitsFor(r), run'[r].consumedSteps = run[r].consumedSteps
    PROVE  Lives
<1>1. \A q \in Runs : WaitsFor(q)' = WaitsFor(q)
  BY SameWait DEF OtherLives
<1>2. \A q \in Runs \ {r} : /\ run'[q].status = run[q].status
                            /\ run'[q].consumedSteps = run[q].consumedSteps
  BY DEF OtherLives, SameLife
<1>3. Promise!GiveUp(r)
  BY <1>1, <1>2 DEF Promise!GiveUp, SameAnswers
<1>4. OneOutstanding'
  BY <1>1, <1>2 DEF OneOutstanding, Outstanding, SameAnswers
<1> QED
  BY <1>3, <1>4 DEF Lives, Promise!Next

LEMMA IsDeferred ==
    ASSUME OneOutstanding, NEW r \in Runs, OtherLives(r), UNCHANGED <<emails, results>>,
           NEW c \in Calls, c = run[r].consumedSteps, AnswerTo(r, c) = "none",
           NEW waiting \in Waiting, NEW first, NewAnswer(r, c, first),
           \/ waiting = "waiting_for_admin" /\ first = "pending"
           \/ first = "ordered",
           run[r].status = "running", run'[r].status = waiting, run'[r].wait.call = c,
           run'[r].consumedSteps = run[r].consumedSteps
    PROVE  Promise!Defer(r, waiting, first) /\ OneOutstanding'
<1>1. \A q \in Runs : WaitsFor(q)' = IF q = r THEN c ELSE WaitsFor(q)
  BY SameWait DEF OtherLives, WaitsFor
<1>2. \A q \in Runs \ {r} : /\ run'[q].status = run[q].status
                            /\ run'[q].consumedSteps = run[q].consumedSteps
  BY DEF OtherLives, SameLife
<1>3. [q \in Runs |-> WaitsFor(q)]' = [[q \in Runs |-> WaitsFor(q)] EXCEPT ![r] = c]
  BY <1>1
<1>4. [q \in Runs |-> [d \in Calls |-> AnswerTo(q, d)]]' =
        [[q \in Runs |-> [d \in Calls |-> AnswerTo(q, d)]] EXCEPT ![r][c] = first]
  BY DEF NewAnswer
<1>5. Promise!Defer(r, waiting, first)
  BY <1>2, <1>3, <1>4 DEF Promise!Defer, Promise!Calls, Calls
<1>6. OneOutstanding'
  BY <1>1, <1>2, NoneOutstanding DEF OneOutstanding, Outstanding, NewAnswer
<1> QED
  BY <1>5, <1>6

LEMMA IsAnswered ==
    ASSUME OneOutstanding, NEW r \in Runs, UNCHANGED <<run, emails, results>>,
           \A q \in Runs : job'[q].call = job[q].call,
           NEW c \in Calls, WaitsFor(r) = c, NEW new, NewAnswer(r, c, new),
           \/ AnswerTo(r, c) = "pending" /\ new \in {"approved", "rejected", "expired"}
           \/ new = "made"
    PROVE  Promise!Answer(r, AnswerTo(r, c), new) /\ OneOutstanding'
<1>1. \A q \in Runs : WaitsFor(q)' = WaitsFor(q)
  BY SameWait DEF SameLife
<1>2. [q \in Runs |-> [d \in Calls |-> AnswerTo(q, d)]]' =
        [[q \in Runs |-> [d \in Calls |-> AnswerTo(q, d)]] EXCEPT ![r][c] = new]
  BY DEF NewAnswer
<1>3. Promise!Answer(r, AnswerTo(r, c), new)
  BY <1>1, <1>2 DEF Promise!Answer, Promise!Calls, Calls
<1>4. OneOutstanding'
  BY <1>1 DEF OneOutstanding, Outstanding, NewAnswer
<1> QED
  BY <1>3, <1>4

LEMMA IsSent ==
    ASSUME OneOutstanding, TypeInv, NEW r \in Runs, UNCHANGED <<run, job, results>>, SameAnswers,
           NEW c \in Calls, WaitsFor(r) = c, run[r].status = "waiting_for_admin",
           AnswerTo(r, c) = "approved", emails[r][c] = 0,
           emails' = [emails EXCEPT ![r][c] = 1]
    PROVE  Lives
<1>1. \A q \in Runs : WaitsFor(q)' = WaitsFor(q)
  BY SameWait DEF SameLife
<1>2. Promise!Send(r)
  BY <1>1 DEF Promise!Send, SameAnswers
<1>3. OneOutstanding'
  BY <1>1 DEF OneOutstanding, Outstanding, SameAnswers
<1> QED
  BY <1>2, <1>3 DEF Lives, Promise!Next

LEMMA IsTold ==
    ASSUME OneOutstanding, TypeInv, NEW r \in Runs, OtherLives(r), SameAnswers, UNCHANGED emails,
           NEW c \in Calls, WaitsFor(r) = c,
           run[r].status \in Waiting \/ (run[r].status = "failed" /\ AnswerTo(r, c) = "made"),
           \/ AnswerTo(r, c) = "approved" /\ emails[r][c] = 1
           \/ AnswerTo(r, c) = "rejected" /\ emails[r][c] = 0
           \/ AnswerTo(r, c) = "made",
           results[r][c] = 0, results' = [results EXCEPT ![r][c] = 1],
           run'[r].status = "running", run'[r].consumedSteps = run[r].consumedSteps
    PROVE  Lives
<1>1. \A q \in Runs : WaitsFor(q)' = IF q = r THEN 0 ELSE WaitsFor(q)
  BY SameWait DEF OtherLives, WaitsFor, Waiting
<1>2. \A q \in Runs \ {r} : /\ run'[q].status = run[q].status
                            /\ run'[q].consumedSteps = run[q].consumedSteps
  BY DEF OtherLives, SameLife
<1>3. Promise!Tell(r)
  BY <1>1, <1>2 DEF Promise!Tell, Promise!IsAnswered, Promise!Calls, Promise!Waiting, Calls,
     Waiting, SameAnswers
<1>4. OneCell(results', results, r, c, 1)
  <2>1. results' = [results EXCEPT ![r][c] = results[r][c] + 1]
    OBVIOUS
  <2>2. OneCell(results', results, r, c, results[r][c] + 1)
    BY <2>1, ResultWritten
  <2> QED
    BY <2>2
<1>5. OneOutstanding'
  BY <1>1, <1>2, <1>4 DEF OneOutstanding, Outstanding, SameAnswers, OneCell
<1> QED
  BY <1>3, <1>5 DEF Lives, Promise!Next

(*****************************************************************************)
(* The steps.                                                                *)
(*****************************************************************************)

\* The steps that leave the rows, the answers and the counts alone.
LEMMA UnseenSteps ==
    ASSUME LifeInv,
           \/ Quiet \/ Queued \/ MarkSignalDispatched
           \/ \E x \in Slots : ReserveSimulatedSend(x) \/ CompleteSimulatedSend(x)
    PROVE  Lives
<1>0. TypeInv /\ OneOutstanding
  BY DEF LifeInv, Inv
<1>1. UNCHANGED <<run, approvals, emails, results>> /\ \A q \in Runs : SameJob(q)
  <2>1. CASE Quiet
    BY <2>1, QuietFrame DEF SameJob
  <2>2. CASE Queued
    <3>1. UNCHANGED <<run, approvals, emails, results>>
      BY <1>0, <2>2, QueueChange DEF Queued
    <3>2. ASSUME NEW q \in Runs
          PROVE  SameJob(q)
      BY <1>0, <2>2, QueueChange DEF Queued, SameJob
    <3> QED
      BY <3>1, <3>2
  <2>3. CASE MarkSignalDispatched
    BY <1>0, <2>3, MarkChange DEF SameJob
  <2>4. ASSUME NEW x \in Slots, ReserveSimulatedSend(x) \/ CompleteSimulatedSend(x)
        PROVE  UNCHANGED <<run, approvals, emails, results>> /\ \A q \in Runs : SameJob(q)
    <3>1. UNCHANGED <<run, approvals, results, job>>
      BY <1>0, <2>4, ReserveChange, CompleteSendChange
    <3>2. UNCHANGED emails
      BY <2>4 DEF ReserveSimulatedSend, CompleteSimulatedSend
    <3> QED
      BY <3>1, <3>2 DEF SameJob
  <2> QED
    BY <2>1, <2>2, <2>3, <2>4
<1>2. SameAnswers
  BY <1>1, AnswersStay
<1> QED
  BY <1>0, <1>1, <1>2, Unseen DEF SameLife

\* A step that writes the row alone, or a call that was answered at once.
LEMMA Unanswered ==
    ASSUME LifeInv, NEW x \in Slots, RowOnly(x) \/ Recorded(x)
    PROVE  UNCHANGED <<approvals, job, emails, results>> /\ SameAnswers
<1>1. UNCHANGED <<approvals, job, emails, results>>
  BY RowOnlyChange, RecordChange DEF LifeInv, Inv, Recorded
<1> QED
  BY <1>1, AnswersStay DEF SameJob

LEMMA ToolLives ==
    ASSUME LifeInv, NEW x \in Slots, PersistStateWorkflowSkill(x) \/ Recorded(x)
    PROVE  Lives
<1>0. TypeInv /\ FenceInv /\ OneOutstanding
  BY DEF LifeInv, Inv
<1>1. session[x].pc = "model" /\ WriteMove(x)
  BY <1>0, SkillMove, CallMove DEF PersistStateWorkflowSkill, Recorded, PersistToolOutcome,
     PersistMappedToolFailure, At
<1>2. run[session[x].run].status = "running"
  BY <1>0, <1>1 DEF WriteMove, FenceInv, Met, Meets, MeetsOK
<1>3. SameLife(session[x].run)
  <2>1. ~PersistReportWait(x) /\ ~PersistApprovalWait(x)
    <3>1. run'[session[x].run].status \in {"running", "completed", "failed"}
      BY <1>0, RowSettled DEF RowOnly
    <3> QED
      BY <1>0, <3>1, ReportRow, ApprovalRow
  <2> QED
    BY <1>1, <2>1 DEF WriteMove, SameLife
<1>4. \A q \in Runs : SameLife(q)
  BY <1>1, <1>3 DEF WriteMove, OnlyRun, SameLife
<1>5. UNCHANGED <<approvals, job, emails, results>> /\ SameAnswers
  BY Unanswered DEF RowOnly
<1> QED
  BY <1>0, <1>4, <1>5, Unseen DEF SameJob

LEMMA ConsumeLives ==
    ASSUME LifeInv, NEW x \in Slots, ConsumeStateWorkflowStep(x)
    PROVE  Lives
<1> DEFINE r == session[x].run
<1>0. TypeInv /\ FenceInv /\ OneOutstanding
  BY DEF LifeInv, Inv
<1>1. /\ session[x].pc = "prompt" /\ WriteMove(x) /\ run[r].consumedSteps < StepBudget
  BY <1>0, ConsumeMove DEF ConsumeStateWorkflowStep, At
<1>2. /\ run'[r].status = "running" /\ run'[r].consumedSteps = run[r].consumedSteps + 1
      /\ run[r].status \in {"queued", "running"} /\ r \in Runs /\ OnlyRun(r)
  BY <1>0, <1>1 DEF WriteMove, FenceInv, Met, Meets, MeetsOK
<1>3. UNCHANGED <<approvals, job, emails, results>> /\ SameAnswers
  BY Unanswered DEF RowOnly
<1>4. OtherLives(r)
  BY <1>2, <1>3, OneLife
<1> QED
  BY <1>0, <1>1, <1>2, <1>3, <1>4, TakesStep

\* An attempt that ends the run found it running, or queued when it fails before the
\* first step, or it is the one whose report the run waits for, and takes that wait
\* along.
LEMMA CompleteLives ==
    ASSUME LifeInv, NEW x \in Slots, CompleteStateWorkflowRun(x)
    PROVE  Lives
<1>0. TypeInv /\ FenceInv /\ BooksInv /\ OneKind /\ OneOutstanding
  BY DEF LifeInv, Inv
<1>1. session[x].pc = "finish" /\ WriteMove(x)
  BY <1>0, CompleteMove DEF CompleteStateWorkflowRun, At
<1>2. PICK r \in Runs, s \in Sessions :
        /\ s = session[x] /\ s.pc = "finish"
        /\ OnlyRun(r) /\ run'[r].consumedSteps = run[r].consumedSteps
        /\ run'[r].wait = s.wait /\ run'[r].status = IF s.fatal THEN "failed" ELSE "completed"
        /\ MeetsOK(s, run[r], toolCalls[r], results[r]) /\ CarriesOK(s)
        /\ s.wait \in Waits
  BY <1>0, <1>1, SessionTypes DEF WriteMove, FenceInv, Met, Meets, Carries
<1>3. UNCHANGED <<approvals, job, emails, results>> /\ SameAnswers
  BY Unanswered DEF RowOnly
<1>4. OtherLives(r)
  BY <1>2, <1>3, OneLife
<1>5. CASE run[r].status = "running"
  <2>1. s.wait # NoWait => job[r].call # s.wait.call
    <3>1. SUFFICES ASSUME s.wait # NoWait, job[r].call = s.wait.call
                   PROVE  FALSE
      OBVIOUS
    <3>2. s.wait.call \in Calls /\ toolCalls[r][s.wait.call] = "none"
      BY <1>1, <1>2, <1>5, <3>1, WaitCalls DEF MeetsOK
    <3>3. job[r].status # "none"
      BY <1>0, <1>2, <3>1, <3>2, CallFacts DEF OneKind
    <3>4. job[r].status \in {"queued", "running", "completed"}
      BY <1>0, <1>2, <3>3, JobFields
    <3> QED
      BY <1>0, <1>2, <3>1, <3>2, <3>4 DEF BooksInv, Reported, JobAgrees
  <2>2. WaitsFor(r)' = 0
    BY <1>2, <1>3, <2>1 DEF WaitsFor, Waiting, NoWait
  <2>3. run'[r].status \in Terminal
    BY <1>2 DEF Terminal
  <2> QED
    BY <1>0, <1>2, <1>3, <1>4, <1>5, <2>2, <2>3, Ends
<1>6. CASE run[r].status = "queued"
  <2>1. run'[r].status = "failed" /\ run'[r].wait = NoWait
    BY <1>1, <1>2, <1>6 DEF MeetsOK
  <2>2. WaitsFor(r)' = 0
    BY <1>2, <2>1 DEF WaitsFor, Waiting, NoWait
  <2> QED
    BY <1>0, <1>2, <1>3, <1>4, <1>6, <2>1, <2>2, Ends DEF Terminal
<1>7. CASE run[r].status \notin {"queued", "running"}
  <2>1. run[r].status = "waiting_for_tool" /\ run'[r].status = "failed" /\ run[r].wait = s.wait
    BY <1>1, <1>2, <1>7 DEF MeetsOK
  <2>2. run[r].wait.kind = "report" /\ job[r].call = run[r].wait.call
    BY <1>0, <1>2, <2>1 DEF FenceInv, Rows, RowOK, BooksInv, Awaited, WaitAgrees
  <2>3. WaitsFor(r)' = WaitsFor(r)
    BY <1>2, <1>3, <2>1, <2>2 DEF WaitsFor, Waiting
  <2> QED
    BY <1>0, <1>2, <1>3, <1>4, <2>1, <2>3, IsGivenUp
<1> QED
  BY <1>5, <1>6, <1>7

\* A message about to leave has its run waiting for it: the approval is outstanding
\* as long as the model has not been told.
LEMMA SendLives ==
    ASSUME LifeInv, NEW x \in Slots, ExecuteApprovedSend(x)
    PROVE  Lives
<1>0. TypeInv /\ Told /\ EmailInv /\ OneKind /\ OneOutstanding
  BY DEF LifeInv, Inv, BooksInv
<1>1. PICK r \in Runs, c \in Calls :
        /\ r = session[x].run /\ c = session[x].wait.call /\ session[x].pc = "send"
        /\ UNCHANGED <<run, approvals, results, job>>
  BY <1>0, ExecuteChange
<1>2. emails[r][c] = 0 /\ approvals[r][c] = "approved"
  BY <1>0, <1>1 DEF EmailInv, AboutToSend, Sends, SentOnce
<1>3. results[r][c] = 0
  <2>1. results[r][c] # 1
    BY <1>0, <1>1, <1>2 DEF Told, ToldTruly, OneKind
  <2>2. results[r][c] \in Nat /\ results[r][c] <= 1
    BY <1>0, <1>1 DEF TypeInv, LedgerOK, Told, ToldTruly
  <2> QED
    BY <2>1, <2>2
<1>4. AnswerTo(r, c) = "approved"
  BY <1>2 DEF AnswerTo
<1>5. run[r].status = "waiting_for_admin" /\ WaitsFor(r) = c
  BY <1>0, <1>1, <1>3, <1>4 DEF OneOutstanding, Outstanding
<1>6. SameAnswers
  BY <1>1, AnswersStay DEF SameJob
<1>7. emails' = [emails EXCEPT ![r][c] = 1]
  BY <1>1, <1>2 DEF ExecuteApprovedSend
<1> QED
  BY <1>0, <1>1, <1>2, <1>4, <1>5, <1>6, <1>7, IsSent

\* The run whose call is settled waits for it, if only in its continuation.
LEMMA ResolveLives ==
    ASSUME LifeInv, NEW x \in Slots, ResolveStateWorkflowWait(x)
    PROVE  Lives
<1>0. Inv /\ TypeInv /\ FenceInv /\ BooksInv /\ OneKind /\ OneOutstanding
  BY DEF LifeInv, Inv
<1>1. PICK r \in Runs, c \in Calls, value \in {"rejected", "completed"} :
        /\ r = session[x].run /\ c = session[x].wait.call /\ WriteMove(x)
        /\ run'[r].status = "running" /\ results[r][c] = 0
        /\ UNCHANGED <<approvals, job, emails>>
        /\ \/ job[r].status = "completed" /\ job[r].call = c
           \/ approvals[r][c] = "approved" /\ emails[r][c] = 1
           \/ approvals[r][c] = "rejected" /\ emails[r][c] = 0
  BY <1>0, ResolveFacts
<1>2. session[x].pc = "settle" /\ results' = [results EXCEPT ![r][c] = results[r][c] + 1]
  BY <1>1 DEF ResolveStateWorkflowWait, At
<1>3. /\ OnlyRun(r) /\ run'[r].consumedSteps = run[r].consumedSteps /\ Current(x)
      /\ LawfulStep(r)
  BY <1>0, <1>1, <1>2, WrittenLawfully DEF WriteMove
<1>4. /\ run[r].wait = session[x].wait /\ session[x].wait # NoWait
      /\ run[r] \in RunRows /\ RowOK(run[r], toolCalls[r], results[r])
  BY <1>0, <1>1, <1>2, <1>3, SettledCall DEF BooksInv, FenceInv, Rows, TypeInv, RunOK
<1>5. run[r].status \in {"waiting_for_tool", "waiting_for_admin", "failed"}
  BY <1>4, RowTypes DEF RowOK, Statuses, Waiting, Terminal
<1>6. run[r].status = "failed" =>
        run[r].wait.kind = "report" /\ job[r].status = "completed" /\ job[r].call = c
  BY <1>1, <1>3, <1>4 DEF LawfulStep, RunTransitions, Waiting, Terminal
<1>7. WaitsFor(r) = c
  BY <1>1, <1>4, <1>5, <1>6 DEF WaitsFor, Waiting
<1>8. /\ \/ AnswerTo(r, c) = "approved" /\ emails[r][c] = 1
         \/ AnswerTo(r, c) = "rejected" /\ emails[r][c] = 0
         \/ AnswerTo(r, c) = "made"
      /\ job[r].status = "completed" /\ job[r].call = c => AnswerTo(r, c) = "made"
  BY <1>0, <1>1 DEF AnswerTo, OneKind
<1>9. run[r].status \in Waiting \/ (run[r].status = "failed" /\ AnswerTo(r, c) = "made")
  BY <1>5, <1>6, <1>8 DEF Waiting
<1>10. OtherLives(r) /\ SameAnswers
  BY <1>1, <1>3, OneLife, AnswersStay DEF SameJob
<1>11. results' = [results EXCEPT ![r][c] = 1]
  BY <1>1, <1>2
<1> QED
  BY <1>0, <1>1, <1>3, <1>7, <1>8, <1>9, <1>10, <1>11, IsTold

\* What a call of the model meets that is to be deferred.
LEMMA DeferFacts ==
    ASSUME LifeInv, NEW x \in Slots, PersistReportWait(x) \/ PersistApprovalWait(x)
    PROVE  \E r \in Runs, c \in Calls :
             /\ r = session[x].run /\ c = run[r].consumedSteps /\ OnlyRun(r)
             /\ run[r].status = "running" /\ run'[r].wait.call = c
             /\ run'[r].consumedSteps = run[r].consumedSteps
             /\ run'[r].status = IF PersistReportWait(x) THEN "waiting_for_tool"
                                 ELSE "waiting_for_admin"
             /\ toolCalls[r][c] = "none" /\ approvals[r][c] = "none" /\ job[r].call # c
<1>0. TypeInv /\ FenceInv /\ BooksInv /\ OneKind
  BY DEF LifeInv, Inv
<1>1. session[x].pc = "model" /\ WriteMove(x)
  BY <1>0, DeferMove DEF PersistReportWait, PersistApprovalWait, At
<1>2. PICK r \in Runs, c \in Calls :
        r = session[x].run /\ c = run[r].consumedSteps /\ toolCalls[r][c] = "none"
  BY <1>0, ReportChange, ApprovalChange
<1>3. run[r].status = "running"
  BY <1>0, <1>1, <1>2 DEF WriteMove, FenceInv, Met, Meets, MeetsOK
<1>4. approvals[r][c] = "none"
  BY <1>0, <1>2 DEF BooksInv, Answered, AnswerOf, TypeInv, LedgerOK, ApprovalStatuses
<1>5. job[r].call # c
  <2>1. job[r].call = c => job[r].status \in {"queued", "running", "completed"}
    BY <1>0, <1>2, JobFields, CallFacts DEF OneKind
  <2> QED
    BY <1>0, <1>2, <2>1 DEF BooksInv, Reported, JobAgrees
<1>6. OnlyRun(r) /\ run'[r].consumedSteps = run[r].consumedSteps
  BY <1>1, <1>2 DEF WriteMove
<1>7. CASE PersistReportWait(x)
  BY <1>0, <1>2, <1>3, <1>4, <1>5, <1>6, <1>7, ReportRow
<1>8. CASE ~PersistReportWait(x)
  BY <1>0, <1>2, <1>3, <1>4, <1>5, <1>6, <1>8, ApprovalRow
<1> QED
  BY <1>7, <1>8

LEMMA ReportLives ==
    ASSUME LifeInv, NEW x \in Slots, PersistReportWait(x)
    PROVE  Lives
<1>0. TypeInv /\ OneKind /\ OneOutstanding
  BY DEF LifeInv, Inv
<1>1. PICK r \in Runs, c \in Calls :
        /\ r = session[x].run /\ c = run[r].consumedSteps /\ OnlyRun(r)
        /\ run[r].status = "running" /\ run'[r].wait.call = c
        /\ run'[r].consumedSteps = run[r].consumedSteps
        /\ run'[r].status = "waiting_for_tool"
        /\ approvals[r][c] = "none" /\ job[r].call # c
  BY DeferFacts
<1>2. /\ job[r] = NoJob /\ job'[r].status = "queued" /\ job'[r].call = c
      /\ \A q \in Runs \ {r} : job'[q] = job[q]
      /\ UNCHANGED <<approvals, results>>
  BY <1>0, <1>1, ReportChange
<1>3. UNCHANGED emails
  BY <1>0, ReportChange
<1>4. \A d \in Calls : job[r].call # d /\ AnswerTo(r, d) \notin {"ordered", "made"}
  <2>1. job[r].call = 0 /\ \A d \in Calls : d # 0 /\ approvals[r][d] \in ApprovalStatuses
    BY <1>0, <1>2, CallFacts DEF NoJob, TypeInv, LedgerOK
  <2> QED
    BY <2>1 DEF AnswerTo, ApprovalStatuses
<1>5. AnswerTo(r, c) = "none" /\ NewAnswer(r, c, "ordered")
  BY <1>1, <1>2, <1>4 DEF NewAnswer, AnswerTo
<1>6. OtherLives(r)
  BY <1>1, <1>2, OneLife
<1>7. Promise!Defer(r, "waiting_for_tool", "ordered") /\ OneOutstanding'
  BY <1>0, <1>1, <1>2, <1>3, <1>5, <1>6, IsDeferred DEF Waiting
<1>8. Promise!OrderReport(r)
  BY <1>4, <1>7 DEF Promise!OrderReport, Promise!Reports, Promise!Calls, Calls
<1> QED
  BY <1>7, <1>8 DEF Lives, Promise!Next

LEMMA ApprovalLives ==
    ASSUME LifeInv, NEW x \in Slots, PersistApprovalWait(x)
    PROVE  Lives
<1>0. TypeInv /\ OneKind /\ OneOutstanding
  BY DEF LifeInv, Inv
<1>1. session[x].run \in Runs /\ run'[session[x].run].status = "waiting_for_admin"
  BY <1>0, ApprovalRow, ApprovalChange
<1>2. ~PersistReportWait(x)
  BY <1>0, <1>1, ReportRow
<1>3. PICK r \in Runs, c \in Calls :
        /\ r = session[x].run /\ c = run[r].consumedSteps /\ OnlyRun(r)
        /\ run[r].status = "running" /\ run'[r].wait.call = c
        /\ run'[r].consumedSteps = run[r].consumedSteps
        /\ run'[r].status = "waiting_for_admin"
        /\ approvals[r][c] = "none" /\ job[r].call # c
  BY <1>2, DeferFacts
<1>4. /\ OneCell(approvals', approvals, r, c, "pending")
      /\ UNCHANGED <<job, results, emails>>
  BY <1>0, <1>3, ApprovalChange
<1>5. AnswerTo(r, c) = "none" /\ NewAnswer(r, c, "pending")
  BY <1>3, <1>4 DEF NewAnswer, AnswerTo, OneCell
<1>6. OtherLives(r)
  BY <1>3, <1>4, OneLife
<1>7. Promise!Defer(r, "waiting_for_admin", "pending") /\ OneOutstanding'
  BY <1>0, <1>3, <1>4, <1>5, <1>6, IsDeferred DEF Waiting
<1>8. Promise!AskApproval(r)
  BY <1>7 DEF Promise!AskApproval
<1> QED
  BY <1>7, <1>8 DEF Lives, Promise!Next

\* The report that is completed is the one the run waits for, even if it was failed.
LEMMA MadeLives ==
    ASSUME LifeInv, NEW r \in Runs, CompleteReportJob(r)
    PROVE  Lives
<1>0. TypeInv /\ BooksInv /\ OneKind /\ OneOutstanding
  BY DEF LifeInv, Inv
<1>1. PICK c \in Calls :
        /\ c = job[r].call /\ job[r].status = "running"
        /\ job'[r].status = "completed" /\ job'[r].call = c
        /\ \A q \in Runs \ {r} : job'[q] = job[q]
  BY <1>0, ReportedChange
<1>2. UNCHANGED <<run, approvals, emails, results>>
  BY DEF CompleteReportJob
<1>3. AnswerTo(r, c) = "ordered" /\ NewAnswer(r, c, "made")
  BY <1>0, <1>1, <1>2 DEF AnswerTo, NewAnswer, OneKind
<1>4. WaitsFor(r) = c
  BY <1>0, <1>3 DEF OneOutstanding, Outstanding
<1>5. Promise!Answer(r, "ordered", "made") /\ OneOutstanding'
  BY <1>0, <1>1, <1>2, <1>3, <1>4, IsAnswered
<1> QED
  BY <1>5 DEF Promise!MakeReport, Lives, Promise!Next

\* A decision, in time or too late, meets a run that waits for it.
LEMMA DecisionLives ==
    ASSUME LifeInv, NEW r \in Runs, NEW c \in Calls,
           \/ \E decision \in {"approved", "rejected"} : DecideApproval(r, c, decision)
           \/ ExpireOnDecide(r, c)
    PROVE  Lives
<1>0. TypeInv /\ OneOutstanding
  BY DEF LifeInv, Inv
<1>1. PICK decision \in {"approved", "rejected", "expired"} :
        /\ approvals[r][c] = "pending"
        /\ OneCell(approvals', approvals, r, c, decision)
        /\ UNCHANGED <<run, emails, results, job>>
  BY <1>0, DecideChange, ExpireChange
<1>2. AnswerTo(r, c) = "pending" /\ NewAnswer(r, c, decision)
  BY <1>1 DEF AnswerTo, NewAnswer, OneCell
<1>3. run[r].status = "waiting_for_admin" /\ WaitsFor(r) = c
  BY <1>0, <1>2 DEF OneOutstanding, Outstanding
<1>4. Promise!Answer(r, "pending", decision) /\ OneOutstanding'
  BY <1>0, <1>1, <1>2, <1>3, IsAnswered
<1>5. Promise!Decide(r)
  BY <1>3, <1>4 DEF Promise!Decide
<1> QED
  BY <1>4, <1>5 DEF Lives, Promise!Next

LEMMA StepLives ==
    ASSUME LifeInv, Kinds
    PROVE  Lives
<1>1. ASSUME NEW x \in Slots, RowOnly(x) \/ Recorded(x)
      PROVE  Lives
  BY <1>1, ToolLives, ConsumeLives, CompleteLives DEF RowOnly
<1>2. ASSUME NEW x \in Slots,
             \/ PersistReportWait(x) \/ PersistApprovalWait(x)
             \/ ResolveStateWorkflowWait(x) \/ Sending(x)
      PROVE  Lives
  BY <1>2, ReportLives, ApprovalLives, ResolveLives, SendLives, UnseenSteps DEF Sending
<1>3. CASE Decided
  BY <1>3, MadeLives, DecisionLives DEF Decided
<1>4. ASSUME NEW r \in Runs, NEW c \in Calls, ExpireOnDecide(r, c)
      PROVE  Lives
  BY <1>4, DecisionLives
<1> QED
  BY <1>1, <1>2, <1>3, <1>4, UnseenSteps DEF Kinds

(*****************************************************************************)
(* A call is deferred in one way only, and the run keeps its promise.        *)
(*****************************************************************************)

LEMMA OneKindStep ==
    ASSUME LifeInv, Kinds
    PROVE  OneKind'
<1>0. TypeInv /\ Inv /\ OneKind
  BY DEF LifeInv, Inv
<1>1. ASSUME \A q \in Runs : /\ job'[q].call = job[q].call
                             /\ job'[q].status = "none" => job[q].status = "none",
             \A q \in Runs, c \in Calls : approvals[q][c] = "none" => approvals'[q][c] = "none"
      PROVE  OneKind'
  BY <1>0, <1>1 DEF OneKind
<1>2. CASE Quiet \/ MarkSignalDispatched
  BY <1>0, <1>1, <1>2, QuietFrame, MarkChange
<1>3. CASE Queued
  <2>1. /\ \A q \in Runs : /\ job'[q].call = job[q].call
                           /\ job'[q].status = "none" => job[q].status = "none"
        /\ UNCHANGED approvals
    BY <1>0, <1>3, QueueChange DEF Queued
  <2> QED
    BY <1>1, <2>1
<1>4. ASSUME NEW x \in Slots, RowOnly(x) \/ Recorded(x)
      PROVE  OneKind'
  BY <1>1, <1>4, Unanswered DEF LifeInv
<1>5. ASSUME NEW x \in Slots, ResolveStateWorkflowWait(x) \/ Sending(x)
      PROVE  OneKind'
  <2>1. UNCHANGED <<approvals, job>>
    BY <1>0, <1>5, ResolveFacts, ReserveChange, ExecuteChange, CompleteSendChange DEF Sending
  <2> QED
    BY <1>1, <2>1
<1>6. ASSUME NEW x \in Slots, PersistReportWait(x)
      PROVE  OneKind'
  <2>1. PICK r \in Runs, c \in Calls :
          /\ r = session[x].run /\ c = run[r].consumedSteps /\ approvals[r][c] = "none"
    BY <1>6, DeferFacts
  <2>2. /\ job'[r].status = "queued" /\ job'[r].call = c
        /\ \A q \in Runs \ {r} : job'[q] = job[q]
        /\ UNCHANGED approvals
    BY <1>0, <1>6, <2>1, ReportChange
  <2> QED
    BY <1>0, <2>1, <2>2 DEF OneKind
<1>7. ASSUME NEW x \in Slots, PersistApprovalWait(x)
      PROVE  OneKind'
  <2>1. PICK r \in Runs, c \in Calls :
          /\ r = session[x].run /\ c = run[r].consumedSteps /\ job[r].call # c
    BY <1>7, DeferFacts
  <2>2. OneCell(approvals', approvals, r, c, "pending") /\ UNCHANGED job
    BY <1>0, <1>7, <2>1, ApprovalChange
  <2> QED
    BY <1>0, <2>1, <2>2 DEF OneKind, OneCell
<1>8. ASSUME NEW r \in Runs, CompleteReportJob(r)
      PROVE  OneKind'
  <2>1. \A q \in Runs : /\ job'[q].call = job[q].call
                        /\ job'[q].status = "none" => job[q].status = "none"
    BY <1>0, <1>8, ReportedChange
  <2>2. UNCHANGED approvals
    BY <1>8 DEF CompleteReportJob
  <2> QED
    BY <1>1, <2>1, <2>2
<1>9. ASSUME NEW r \in Runs, NEW c \in Calls,
             \/ \E decision \in {"approved", "rejected"} : DecideApproval(r, c, decision)
             \/ ExpireOnDecide(r, c)
      PROVE  OneKind'
  <2>1. PICK decision \in {"approved", "rejected", "expired"} :
          /\ approvals[r][c] = "pending"
          /\ OneCell(approvals', approvals, r, c, decision)
          /\ UNCHANGED job
    BY <1>0, <1>9, DecideChange, ExpireChange
  <2> QED
    BY <1>1, <2>1 DEF OneCell
<1> QED
  BY <1>2, <1>3, <1>4, <1>5, <1>6, <1>7, <1>8, <1>9 DEF Kinds, Decided

LEMMA LifeInit == Init => LifeInv /\ Promise!Init
<1> SUFFICES ASSUME Init
             PROVE  LifeInv /\ Promise!Init
  OBVIOUS
<1>1. Inv
  BY InvInit
<1>2. \A r \in Runs : /\ run[r].status = "queued" /\ run[r].consumedSteps = 0
                      /\ WaitsFor(r) = 0 /\ job[r].call = 0
  BY DEF Init, WaitsFor, Waiting, NoJob
<1>3. \A r \in Runs, c \in Calls : approvals[r][c] = "none" /\ AnswerTo(r, c) = "none"
  BY <1>2, CallFacts DEF Init, AnswerTo
<1>4. /\ emails = [r \in Runs |-> [c \in Calls |-> 0]]
      /\ results = [r \in Runs |-> [c \in Calls |-> 0]]
  BY DEF Init
<1>5. OneKind /\ OneOutstanding
  BY <1>2, <1>3 DEF OneKind, OneOutstanding, Outstanding
<1>6. Promise!Init
  BY <1>2, <1>3, <1>4 DEF Promise!Init, Promise!Calls, Calls
<1> QED
  BY <1>1, <1>5, <1>6 DEF LifeInv

LEMMA LifeStep == LifeInv /\ [Next]_vars => LifeInv' /\ Lives
<1> SUFFICES ASSUME LifeInv, [Next]_vars
             PROVE  LifeInv' /\ Lives
  OBVIOUS
<1>1. Inv'
  BY InvStep DEF LifeInv
<1>2. CASE Next
  <2>1. OneKind' /\ Lives
    BY <1>2, StepKinds, OneKindStep, StepLives
  <2> QED
    BY <1>1, <2>1 DEF LifeInv, Lives
<1>3. CASE UNCHANGED vars
  <2>1. UNCHANGED <<run, approvals, job, emails, results>>
    BY <1>3 DEF vars, dbVars, ledger
  <2>2. OneKind' /\ Lives
    BY <2>1, AnswersStay, Unseen DEF LifeInv, OneKind, SameLife, SameJob
  <2> QED
    BY <1>1, <2>2 DEF LifeInv, Lives
<1> QED
  BY <1>2, <1>3

\* For every value of the constants, however many attempts overlap and whenever the
\* process dies: a run driven by workflow activities lives as RunLifecycle says,
\* with the version of its row as the only fence.  What RevivedByReport says of the
\* status alone is true of the whole run: the report that was outstanding when the
\* run was failed is the only answer that still reaches its model.
THEOREM WorkflowKeepsPromise == Spec => RunPromise
<1>1. Init => Promise!Init
  BY LifeInit
<1>2. LifeInv /\ [Next]_vars => [Promise!Next]_(Promise!vars)
  BY LifeStep DEF Lives
<1>3. Spec => []LifeInv
  BY LifeInit, LifeStep, PTL DEF Spec
<1> QED
  BY <1>1, <1>2, <1>3, PTL DEF Spec, RunPromise, Promise!Spec
=============================================================================
