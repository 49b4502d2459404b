-------------------------- MODULE SimpleLoopWakeups ---------------------------
(*****************************************************************************)
(* No lost wake-up in SimpleLoop: as long as somebody could work on a run, an *)
(* intent of the run is pending that no session is about to acknowledge.     *)
(* Intents are written by the admission, the decision and the completed job, *)
(* acknowledged by sessions that have long given the run up, and read from   *)
(* listings that are older still, so the argument follows the intent and not *)
(* the lease.  The second half shows the run's whole life to be the one that *)
(* RunLifecycle promises.                                                    *)
(*****************************************************************************)
EXTENDS SimpleLoopLedger

\* An intent that a listing or a session holds has been written, and so has the
\* call of an intent that resumes one.
ExistingIntents ==
    /\ \A w \in Workers :
        /\ session[w].pc # "idle" => intents[session[w].run][session[w].intent] # "none"
        /\ \A x \in batch[w] : intents[x[1]][x[2]] # "none"
    /\ \A r \in Runs, c \in Calls : intents[r][c] # "none" => toolCalls[r][c] # "none"

\* Nobody resumes a wait before it is over.
Unanswered ==
    \A r \in Runs :
        (run[r].status \in Waiting /\ ~WaitIsReady(r, run[r].wait))
            => intents[r][run[r].wait.call] = "none"

\* What a session has read of a wait, and of a run that has ended, stays true as
\* far as it acts on it.
SeesWait(w) ==
    LET row == run[session[w].run] IN
    /\ session[w].pc = "check" =>
        \/ WaitIsReady(session[w].run, session[w].wait)
        \/ row.status \in Waiting /\ row.wait = session[w].wait
        \/ row.status \in Terminal
    /\ session[w].pc = "stale" => row.status \in Terminal

WaitSeen == \A w \in Workers : SeesWait(w)

\* Locations from which the session acknowledges its intent.
Acknowledging == {"enqueue", "mark", "ack"}

Acknowledges(w, r, i) ==
    session[w].pc \in Acknowledging /\ session[w].run = r /\ session[w].intent = i

Wakes(r, i) == intents[r][i] = "pending" /\ \A w \in Workers : ~Acknowledges(w, r, i)

\* What NoLostWakeup asks an intent for.
Workable(r) ==
    \/ run[r].status \in {"queued", "running"}
    \/ run[r].status \in Waiting /\ WaitIsReady(r, run[r].wait)

Woken == \A r \in Runs : Workable(r) => \E i \in Intents : Wakes(r, i)

WakeInv == ExistingIntents /\ Unanswered /\ WaitSeen /\ Woken

(*****************************************************************************)
(* What a step does to the sessions.                                         *)
(*****************************************************************************)

WorkerActs(w) == WorkerStep(w) \/ FailBeforeStep(w) \/ EnqueueFails(w) \/ Crash(w)

SameIntent(w) ==
    /\ session[w].pc # "idle"
    /\ session'[w].run = session[w].run /\ session'[w].intent = session[w].intent

\* How a session comes to where it looks at a wait, gives an ended run up, or
\* acknowledges.
Arrives(w) ==
    LET r == session[w].run
        t == session'[w] IN
    /\ SameIntent(w)
    /\ t.pc = "check" => run' = run /\ t.wait = run[r].wait /\ t.wait # NoWait
    /\ t.pc = "stale" => run' = run /\ run[r].status \in Terminal
    /\ t.pc \in Acknowledging =>
        \/ session[w].pc \in Acknowledging
        \/ CheckWait(w) /\ ~WaitIsReady(r, session[w].wait)
        \/ PersistReportWait(w) \/ PersistApprovalWait(w) \/ CompleteSimpleLoopRun(w)

Proceeds(w) ==
    \/ session' = session
    \/ session'[w].pc = "idle"
    \/ PickIntent(w) /\ session'[w].pc = "read"
    \/ Arrives(w)

LEMMA SessionTable ==
    ASSUME TypeInv
    PROVE  session \in [Workers -> Sessions]
  BY DEF TypeInv, SessionOK

LEMMA Elsewhere ==
    ASSUME NEW w \in Workers, SameIntent(w),
           session'[w].pc \notin {"check", "stale"} \cup Acknowledging
    PROVE  Proceeds(w)
  BY DEF Proceeds, Arrives

LEMMA GoArrives ==
    ASSUME TypeInv, NEW w \in Workers, session[w].pc # "idle",
           NEW pc \in {"claim", "assign", "reserve", "send", "sent", "settle"}, Go(w, pc)
    PROVE  Proceeds(w)
<1>1. session'[w].pc = pc /\ SameIntent(w)
  BY SessionTable, SessionTypes DEF Go, Becomes, SameIntent, Sessions
<1> QED
  BY <1>1, Elsewhere DEF Acknowledging

LEMMA EndProceeds ==
    ASSUME TypeInv, NEW w \in Workers, EndSession(w)
    PROVE  Proceeds(w)
  BY EndMove DEF Proceeds

LEMMA ReturnedIntent ==
    ASSUME TypeInv, NEW w \in Workers, session[w].pc # "idle", Becomes(w, Returned(w))
    PROVE  SameIntent(w) /\ session'[w].pc = "ack"
  BY SessionTable, SessionTypes DEF Becomes, Returned, Idle, SameIntent

LEMMA FinishProceeds ==
    ASSUME TypeInv, NEW w \in Workers, session[w].pc # "idle",
           NEW verdict, NEW version, Finish(w, verdict, version)
    PROVE  Proceeds(w)
<1>1. session'[w].pc = "finish" /\ SameIntent(w)
  BY SessionTable, SessionTypes DEF Finish, Becomes, SameIntent, Sessions
<1> QED
  BY <1>1, Elsewhere DEF Acknowledging

LEMMA ToolProceeds ==
    ASSUME TypeInv, NEW w \in Workers, session[w].pc # "idle",
           NEW version, NEW fatal, AfterTool(w, version, fatal)
    PROVE  Proceeds(w)
<1>1. CASE Finish(w, "failed", version)
  BY <1>1, FinishProceeds
<1>2. CASE Becomes(w, [session[w] EXCEPT !.pc = "prompt", !.version = version, !.fatal = fatal])
  <2>1. session'[w].pc = "prompt" /\ SameIntent(w)
    BY <1>2, SessionTable, SessionTypes DEF Becomes, SameIntent, Sessions
  <2> QED
    BY <2>1, Elsewhere DEF Acknowledging
<1> QED
  BY <1>1, <1>2 DEF AfterTool

LEMMA ResumptionProceeds ==
    ASSUME TypeInv, NEW w \in Workers, Resumption(w)
    PROVE  Proceeds(w)
<1>1. CASE ReadRun(w)
  <2>1. /\ SameIntent(w) /\ run' = run
        /\ session'[w].wait = run[session[w].run].wait
        /\ session'[w].pc = IF session'[w].wait = NoWait THEN "assign" ELSE "check"
    BY <1>1, SessionTable, SessionTypes DEF ReadRun, At, Becomes, SameIntent, Sessions, dbVars
  <2> QED
    BY <2>1 DEF Proceeds, Arrives, Acknowledging
<1>2. CASE CheckWait(w)
  <2>1. session[w].pc # "idle"
    BY <1>2 DEF CheckWait, At
  <2>2. CASE WaitIsReady(session[w].run, session[w].wait)
    <3>1. session'[w].pc = "assign" /\ SameIntent(w)
      BY <1>2, <2>1, <2>2, SessionTable, SessionTypes
         DEF CheckWait, Becomes, SameIntent, Sessions
    <3> QED
      BY <3>1, Elsewhere DEF Acknowledging
  <2>3. CASE ~WaitIsReady(session[w].run, session[w].wait)
    BY <1>2, <2>1, <2>3, ReturnedIntent DEF CheckWait, Proceeds, Arrives
  <2> QED
    BY <2>2, <2>3
<1>3. CASE ReadAssignment(w)
  <2>1. session'[w].pc = "claim" /\ SameIntent(w)
    BY <1>3, SessionTable, SessionTypes DEF ReadAssignment, At, Becomes, SameIntent, Sessions
  <2> QED
    BY <2>1, Elsewhere DEF Acknowledging
<1>4. CASE ClaimRunLease(w)
  <2>1. session'[w].pc = "restore" /\ SameIntent(w)
    BY <1>4, SessionTable, SessionTypes DEF ClaimRunLease, At, Becomes, SameIntent, Sessions
  <2> QED
    BY <2>1, Elsewhere DEF Acknowledging
<1>5. CASE ClaimRefused(w)
  <2>1. CASE Go(w, "stale")
    <3>1. /\ session'[w].pc = "stale" /\ SameIntent(w) /\ run' = run
          /\ run[session[w].run].status \in Terminal
      BY <1>5, <2>1, SessionTable, SessionTypes, IdleFacts
         DEF ClaimRefused, At, Go, EndSession, Becomes, SameIntent, Sessions, dbVars, Idle
    <3> QED
      BY <3>1 DEF Proceeds, Arrives, Acknowledging
  <2> QED
    BY <1>5, <2>1, EndProceeds DEF ClaimRefused
<1>6. CASE RestoreSession(w)
  <2>1. session'[w].pc \in {"prompt", "resolve"} /\ SameIntent(w)
    BY <1>6, SessionTable, SessionTypes DEF RestoreSession, At, Becomes, SameIntent, Sessions
  <2> QED
    BY <2>1, Elsewhere DEF Acknowledging
<1>7. CASE ResolveDeferredCall(w) \/ ReserveSimulatedSend(w) \/ ReserveRefused(w)
           \/ ExecuteApprovedSend(w) \/ CompleteSimulatedSend(w)
  <2>1. /\ session[w].pc # "idle"
        /\ \/ EndSession(w)
           \/ \E pc \in {"claim", "assign", "reserve", "send", "sent", "settle"} : Go(w, pc)
    BY <1>7 DEF ResolveDeferredCall, ReserveSimulatedSend, ReserveRefused,
       ExecuteApprovedSend, CompleteSimulatedSend, At
  <2> QED
    BY <2>1, GoArrives, EndProceeds
<1>8. CASE ResolveSimpleLoopWait(w)
  <2>1. session'[w].pc = "prompt" /\ SameIntent(w)
    BY <1>8, SessionTable, SessionTypes
       DEF ResolveSimpleLoopWait, At, Becomes, SameIntent, Sessions
  <2> QED
    BY <2>1, Elsewhere DEF Acknowledging
<1> QED
  BY <1>1, <1>2, <1>3, <1>4, <1>5, <1>6, <1>7, <1>8 DEF Resumption

LEMMA AgentProceeds ==
    ASSUME TypeInv, NEW w \in Workers, AgentLoop(w)
    PROVE  Proceeds(w)
<1>1. CASE ConsumeSimpleLoopStep(w)
  <2>1. session'[w].pc = "model" /\ SameIntent(w)
    BY <1>1, SessionTable, SessionTypes
       DEF ConsumeSimpleLoopStep, At, Becomes, SameIntent, Sessions
  <2> QED
    BY <2>1, Elsewhere DEF Acknowledging
<1>2. CASE BudgetExhausted(w) \/ EndGeneration(w) \/ FailAgent(w)
           \/ \E outcome \in {"failed", "rejected"} : PersistMappedToolFailure(w, outcome)
  <2>1. session[w].pc # "idle" /\ \E verdict, version : Finish(w, verdict, version)
    BY <1>2 DEF BudgetExhausted, EndGeneration, FailAgent, PersistMappedToolFailure, At
  <2> QED
    BY <2>1, FinishProceeds
<1>3. CASE PersistSimpleLoopSkill(w) \/ SkillRefused(w)
           \/ \E outcome \in {"completed", "failed"} : PersistToolOutcome(w, outcome)
  <2>1. session[w].pc # "idle" /\ \E version, fatal : AfterTool(w, version, fatal)
    BY <1>3 DEF PersistSimpleLoopSkill, SkillRefused, PersistToolOutcome, At
  <2> QED
    BY <2>1, ToolProceeds
<1>4. CASE PersistReportWait(w)
  <2>1. session'[w].pc = "enqueue" /\ SameIntent(w)
    BY <1>4, SessionTable, SessionTypes DEF PersistReportWait, At, Becomes, SameIntent, Sessions
  <2> QED
    BY <1>4, <2>1 DEF Proceeds, Arrives
<1>5. CASE ReportRefused(w)
  <2>1. session'[w].pc = "finish" /\ SameIntent(w)
    BY <1>5, SessionTable, SessionTypes DEF ReportRefused, At, Becomes, SameIntent, Sessions
  <2> QED
    BY <2>1, Elsewhere DEF Acknowledging
<1>6. CASE EnqueueReport(w)
  <2>1. session'[w].pc = "mark" /\ session[w].pc = "enqueue" /\ SameIntent(w)
    BY <1>6, SessionTable, SessionTypes DEF EnqueueReport, At, Go, Becomes, SameIntent, Sessions
  <2> QED
    BY <2>1 DEF Proceeds, Arrives, Acknowledging
<1>7. CASE MarkReportDispatched(w)
  <2>1. session'[w].pc = "ack" /\ session[w].pc = "mark" /\ SameIntent(w)
    BY <1>7, ReturnedIntent DEF MarkReportDispatched, At
  <2> QED
    BY <2>1 DEF Proceeds, Arrives, Acknowledging
<1>8. CASE PersistApprovalWait(w) \/ CompleteSimpleLoopRun(w)
  <2>1. session'[w].pc = "ack" /\ SameIntent(w)
    BY <1>8, ReturnedIntent DEF PersistApprovalWait, CompleteSimpleLoopRun, At
  <2> QED
    BY <1>8, <2>1 DEF Proceeds, Arrives
<1>9. CASE AbandonStale(w)
  BY <1>9, EndProceeds DEF AbandonStale
<1> QED
  BY <1>1, <1>2, <1>3, <1>4, <1>5, <1>6, <1>7, <1>8, <1>9 DEF AgentLoop

LEMMA WorkerProceeds ==
    ASSUME TypeInv, NEW w \in Workers, WorkerActs(w)
    PROVE  Proceeds(w)
<1>1. CASE PickIntent(w)
  <2>1. session'[w].pc = "read"
    BY <1>1, SessionTable DEF PickIntent, Becomes, Idle
  <2> QED
    BY <1>1, <2>1 DEF Proceeds
<1>2. CASE \/ AcknowledgeSimpleLoopDispatch(w) \/ AcknowledgeStaleDispatch(w)
           \/ EnqueueFails(w) \/ Crash(w)
  BY <1>2, EndProceeds DEF AcknowledgeSimpleLoopDispatch, AcknowledgeStaleDispatch,
     EnqueueFails, Crash
<1>3. CASE ListPending(w)
  BY <1>3 DEF ListPending, Proceeds
<1>4. CASE FailBeforeStep(w)
  <2>1. session[w].pc # "idle" /\ \E verdict, version : Finish(w, verdict, version)
    BY <1>4 DEF FailBeforeStep, At
  <2> QED
    BY <2>1, FinishProceeds
<1> QED
  BY <1>1, <1>2, <1>3, <1>4, ResumptionProceeds, AgentProceeds DEF WorkerActs, WorkerStep

\* Whose step it is.
OthersStill(w) == \A u \in Workers \ {w} : session'[u] = session[u] /\ batch'[u] = batch[u]

LEMMA WorkersAlone ==
    ASSUME TypeInv, NEW w \in Workers, WorkerActs(w)
    PROVE  OthersStill(w)
<1>1. ASSUME NEW t, Becomes(w, t), NEW u \in Workers \ {w}
      PROVE  session'[u] = session[u]
  BY <1>1, SessionTable DEF Becomes
<1>2. ASSUME NEW u \in Workers \ {w}, AgentLoop(w)
      PROVE  session'[u] = session[u] /\ batch'[u] = batch[u]
  BY <1>1, <1>2 DEF AgentLoop, ConsumeSimpleLoopStep, BudgetExhausted, PersistSimpleLoopSkill,
     SkillRefused, PersistToolOutcome, PersistMappedToolFailure, EndGeneration, FailAgent,
     PersistReportWait, ReportRefused, EnqueueReport, MarkReportDispatched, PersistApprovalWait,
     CompleteSimpleLoopRun, AbandonStale, AfterTool, Finish, Go, EndSession
<1>3. ASSUME NEW u \in Workers \ {w}, Resumption(w)
      PROVE  session'[u] = session[u] /\ batch'[u] = batch[u]
  BY <1>1, <1>3 DEF Resumption, ReadRun, CheckWait, ReadAssignment, ClaimRunLease,
     ClaimRefused, RestoreSession, ResolveDeferredCall, ReserveSimulatedSend, ReserveRefused,
     ExecuteApprovedSend, CompleteSimulatedSend, ResolveSimpleLoopWait, Go, EndSession
<1>4. batch \in [Workers -> SUBSET (Runs \X Intents)]
  BY DEF TypeInv, LedgerOK
<1>5. ASSUME NEW u \in Workers \ {w},
             \/ ListPending(w) \/ PickIntent(w) \/ AcknowledgeSimpleLoopDispatch(w)
             \/ AcknowledgeStaleDispatch(w) \/ FailBeforeStep(w) \/ EnqueueFails(w) \/ Crash(w)
      PROVE  session'[u] = session[u] /\ batch'[u] = batch[u]
  BY <1>1, <1>4, <1>5 DEF ListPending, PickIntent, AcknowledgeSimpleLoopDispatch,
     AcknowledgeStaleDispatch, FailBeforeStep, EnqueueFails, Crash, Finish, EndSession
<1> QED
  BY <1>2, <1>3, <1>5 DEF WorkerActs, WorkerStep, OthersStill

LEMMA StepActor ==
    ASSUME Next
    PROVE  \/ \E w \in Workers : WorkerActs(w)
           \/ UNCHANGED <<session, batch, run>>
           \/ UNCHANGED <<session, batch, toolCalls, approvals, job, intents>>
  BY DEF Next, WorkerActs, ReportStep, RecordReportProgress, CompleteReportJob, AdminStep,
     DecideApproval, ExpireOnDecide, ReportAttemptFails, LeaseLapses, LeaseOutrun,
     ApprovalDeadline, dbVars

LEMMA EachProceeds ==
    ASSUME TypeInv, Next, NEW u \in Workers
    PROVE  session'[u] = session[u] \/ Proceeds(u)
  BY StepActor, WorkerProceeds, WorkersAlone DEF OthersStill

(*****************************************************************************)
(* What a step does to the intents.                                          *)
(*****************************************************************************)

OneIntent(r, i, value) ==
    \A q \in Runs, j \in Intents :
        intents'[q][j] = IF q = r /\ j = i THEN value ELSE intents[q][j]

LEMMA IntentWritten ==
    ASSUME TypeInv, NEW r \in Runs, NEW i \in Intents, NEW value,
           intents' = [intents EXCEPT ![r][i] = value]
    PROVE  OneIntent(r, i, value)
  BY Tables DEF OneIntent

Acks(w) ==
    /\ OneIntent(session[w].run, session[w].intent, "dispatched")
    /\ session[w].run \in Runs /\ session[w].intent \in Intents
    /\ \/ session[w].pc = "ack"
       \/ session[w].pc = "stale" /\ run' = run

\* A deferred call is over: the report is there, or the administrator has decided.
Answers(r, c) ==
    \/ /\ job[r].call = c /\ job[r].status # "completed" /\ CompleteReportJob(r)
       /\ run[r].status = "waiting_for_tool"
       /\ OneIntent(r, c, "pending")
    \/ /\ \E decision \in {"approved", "rejected"} : DecideApproval(r, c, decision)
       /\ IF run[r].status = "waiting_for_admin" THEN OneIntent(r, c, "pending")
          ELSE intents' = intents

LEMMA CallsAreIntents == Calls \subseteq Intents
  BY ConstantFacts DEF Calls, Intents

LEMMA CompletionAnswers ==
    ASSUME LedgerInv, NEW r \in Runs, CompleteReportJob(r)
    PROVE  /\ job[r].call \in Calls
           /\ \/ job[r].status = "completed" /\ intents' = intents
              \/ Answers(r, job[r].call) /\ job[r].status # "completed"
<1>1. /\ job[r].call \in Calls
      /\ \/ job[r].status = "completed" /\ intents' = intents
         \/ /\ job[r].status # "completed" /\ run[r].status = "waiting_for_tool"
            /\ intents' = [intents EXCEPT ![r][job[r].call] = "pending"]
  BY CompleteJobChange DEF LedgerInv, ControlInv, BooksInv
<1> QED
  BY <1>1, CallsAreIntents, IntentWritten DEF Answers, LedgerInv, ControlInv

LEMMA DecisionAnswers ==
    ASSUME LedgerInv, NEW r \in Runs, NEW c \in Calls,
           \E decision \in {"approved", "rejected"} : DecideApproval(r, c, decision)
    PROVE  Answers(r, c)
<1>1. \/ run[r].status = "waiting_for_admin" /\ intents' = [intents EXCEPT ![r][c] = "pending"]
      \/ run[r].status # "waiting_for_admin" /\ intents' = intents
  BY DEF DecideApproval
<1> QED
  BY <1>1, CallsAreIntents, IntentWritten DEF Answers, LedgerInv, ControlInv

LEMMA IntentsChange ==
    ASSUME LedgerInv, Next
    PROVE  \/ intents' = intents
           \/ \E w \in Workers : Acks(w) /\ WorkerActs(w)
           \/ \E r \in Runs, c \in Calls : Answers(r, c)
<1> USE DEF LedgerInv, ControlInv
<1>1. ASSUME NEW w \in Workers, AgentLoop(w)
      PROVE  intents' = intents
  BY <1>1 DEF AgentLoop, ConsumeSimpleLoopStep, BudgetExhausted, PersistSimpleLoopSkill,
     SkillRefused, PersistToolOutcome, PersistMappedToolFailure, EndGeneration, FailAgent,
     PersistReportWait, ReportRefused, EnqueueReport, MarkReportDispatched, PersistApprovalWait,
     CompleteSimpleLoopRun, AbandonStale, dbVars
<1>2. ASSUME NEW w \in Workers, Resumption(w)
      PROVE  intents' = intents
  BY <1>2 DEF Resumption, ReadRun, CheckWait, ReadAssignment, ClaimRunLease,
     ClaimRefused, RestoreSession, ResolveDeferredCall, ReserveSimulatedSend, ReserveRefused,
     ExecuteApprovedSend, CompleteSimulatedSend, ResolveSimpleLoopWait, dbVars
<1>3. ASSUME NEW w \in Workers, AcknowledgeSimpleLoopDispatch(w) \/ AcknowledgeStaleDispatch(w)
      PROVE  intents' = intents \/ Acks(w)
  <2>1. /\ session[w].pc \in {"ack", "stale"} /\ run' = run
        /\ \/ intents' = intents
           \/ intents' = [intents EXCEPT ![session[w].run][session[w].intent] = "dispatched"]
    BY <1>3 DEF AcknowledgeSimpleLoopDispatch, AcknowledgeStaleDispatch, At
  <2>2. session[w].run \in Runs /\ session[w].intent \in Intents
    BY <2>1, SessionTypes
  <2> QED
    BY <2>1, <2>2, IntentWritten DEF Acks
<1>4. ASSUME NEW w \in Workers, WorkerActs(w)
      PROVE  intents' = intents \/ Acks(w)
  BY <1>1, <1>2, <1>3, <1>4 DEF WorkerActs, WorkerStep, ListPending, PickIntent, FailBeforeStep,
     EnqueueFails, Crash, dbVars
<1>5. ASSUME NEW r \in Runs, CompleteReportJob(r)
      PROVE  intents' = intents \/ \E c \in Calls : Answers(r, c)
  BY <1>5, CompletionAnswers
<1>6. ASSUME NEW r \in Runs, AdminStep(r)
      PROVE  intents' = intents \/ \E c \in Calls : Answers(r, c)
  <2>1. PICK c \in Calls :
            \/ \E decision \in {"approved", "rejected"} : DecideApproval(r, c, decision)
            \/ ExpireOnDecide(r, c)
    BY <1>6 DEF AdminStep
  <2>2. CASE \E decision \in {"approved", "rejected"} : DecideApproval(r, c, decision)
    BY <2>2, DecisionAnswers
  <2>3. CASE ExpireOnDecide(r, c)
    BY <2>3 DEF ExpireOnDecide
  <2> QED
    BY <2>1, <2>2, <2>3
<1>7. ASSUME NEW r \in Runs,
             \/ RecordReportProgress(r) \/ ReportAttemptFails(r)
             \/ LeaseLapses(r) \/ LeaseOutrun(r) \/ \E c \in Calls : ApprovalDeadline(r, c)
      PROVE  intents' = intents
  BY <1>7 DEF RecordReportProgress, ReportAttemptFails, LeaseLapses, LeaseOutrun,
     ApprovalDeadline, dbVars
<1> QED
  BY <1>4, <1>5, <1>6, <1>7 DEF Next, WorkerActs, ReportStep

LEMMA IntentsStay ==
    ASSUME LedgerInv, Next, NEW r \in Runs, NEW i \in Intents, intents[r][i] # "none"
    PROVE  intents'[r][i] # "none"
  BY IntentsChange DEF Acks, Answers, OneIntent

\* A new intent is the one that resumes a call of the ledger.
LEMMA IntentsBegin ==
    ASSUME LedgerInv, ExistingIntents, Next, NEW r \in Runs, NEW i \in Intents,
           intents[r][i] = "none", intents'[r][i] # "none"
    PROVE  i \in Calls /\ Answers(r, i)
<1>1. ASSUME NEW w \in Workers, Acks(w)
      PROVE  FALSE
  BY <1>1 DEF Acks, OneIntent, ExistingIntents
<1> QED
  BY <1>1, IntentsChange DEF Answers, OneIntent

LEMMA CallsStay ==
    ASSUME LedgerInv, Next, NEW r \in Runs, NEW c \in Calls, toolCalls[r][c] # "none"
    PROVE  toolCalls'[r][c] # "none"
  BY TablesMove DEF MovesLegally, ToolCallTransitions, CallStatuses

LEMMA AnsweredCall ==
    ASSUME LedgerInv, NEW r \in Runs, NEW c \in Calls, Answers(r, c)
    PROVE  toolCalls[r][c] # "none" /\ UNCHANGED <<session, batch, run>>
<1>1. CASE job[r].call = c /\ job[r].status # "completed" /\ CompleteReportJob(r)
  <2>1. toolCalls[r][c] = "waiting_job"
    BY <1>1, CompleteJobChange DEF LedgerInv, ControlInv, BooksInv
  <2> QED
    BY <1>1, <2>1 DEF CompleteReportJob
<1>2. CASE \E decision \in {"approved", "rejected"} : DecideApproval(r, c, decision)
  BY <1>2 DEF DecideApproval
<1> QED
  BY <1>1, <1>2 DEF Answers

LEMMA PickedIntent ==
    ASSUME TypeInv, NEW w \in Workers, PickIntent(w)
    PROVE  <<session'[w].run, session'[w].intent>> \in batch[w]
<1>1. PICK x \in batch[w] :
        Becomes(w, [Idle EXCEPT !.pc = "read", !.run = x[1], !.intent = x[2]])
  BY DEF PickIntent
<1>2. x \in Runs \X Intents
  BY <1>1 DEF TypeInv, LedgerOK
<1>3. session'[w].run = x[1] /\ session'[w].intent = x[2]
  BY <1>1, SessionTable DEF Becomes, Idle
<1>4. x = <<x[1], x[2]>>
  BY <1>2
<1> QED
  BY <1>1, <1>3, <1>4

LEMMA BatchFrom ==
    ASSUME TypeInv, Next, NEW w \in Workers, NEW x \in batch'[w]
    PROVE  x \in Runs \X Intents /\ (x \in batch[w] \/ intents[x[1]][x[2]] = "pending")
<1>0. batch \in [Workers -> SUBSET (Runs \X Intents)]
  BY DEF TypeInv, LedgerOK
<1>1. ASSUME WorkerActs(w)
      PROVE  \/ batch'[w] \subseteq batch[w]
             \/ batch'[w] = {y \in Runs \X Intents : intents[y[1]][y[2]] = "pending"}
  <2>1. CASE AgentLoop(w)
    BY <2>1 DEF AgentLoop, ConsumeSimpleLoopStep, BudgetExhausted, PersistSimpleLoopSkill,
       SkillRefused, PersistToolOutcome, PersistMappedToolFailure, EndGeneration, FailAgent,
       PersistReportWait, ReportRefused, EnqueueReport, MarkReportDispatched,
       PersistApprovalWait, CompleteSimpleLoopRun, AbandonStale
  <2>2. CASE Resumption(w)
    BY <2>2 DEF Resumption, ReadRun, CheckWait, ReadAssignment, ClaimRunLease, ClaimRefused,
       RestoreSession, ResolveDeferredCall, ReserveSimulatedSend, ReserveRefused,
       ExecuteApprovedSend, CompleteSimulatedSend, ResolveSimpleLoopWait
  <2> QED
    BY <1>0, <1>1, <2>1, <2>2 DEF WorkerActs, WorkerStep, ListPending, PickIntent,
       AcknowledgeSimpleLoopDispatch, AcknowledgeStaleDispatch, FailBeforeStep, EnqueueFails, Crash
<1>2. CASE WorkerActs(w)
  BY <1>0, <1>1, <1>2
<1>3. CASE ~WorkerActs(w)
  <2>1. batch'[w] = batch[w]
    BY <1>3, StepActor, WorkersAlone DEF OthersStill
  <2> QED
    BY <1>0, <2>1
<1> QED
  BY <1>2, <1>3

LEMMA ExistingStep ==
    ASSUME LedgerInv, ExistingIntents, Next
    PROVE  ExistingIntents'
<1> USE DEF LedgerInv, ControlInv
<1>1. ASSUME NEW w \in Workers, session'[w].pc # "idle"
      PROVE  intents'[session'[w].run][session'[w].intent] # "none"
  <2>1. CASE \/ session'[w] = session[w]
             \/ SameIntent(w)
    <3>1. /\ session[w].pc # "idle" /\ session'[w].run = session[w].run
          /\ session'[w].intent = session[w].intent
      BY <1>1, <2>1 DEF SameIntent
    <3>2. session[w].run \in Runs /\ session[w].intent \in Intents
      BY <3>1, SessionTypes
    <3> QED
      BY <3>1, <3>2, IntentsStay DEF ExistingIntents
  <2>2. CASE PickIntent(w)
    <3> DEFINE r == session'[w].run
               i == session'[w].intent
    <3>1. <<r, i>> \in batch[w] /\ batch[w] \subseteq Runs \X Intents
      BY <2>2, PickedIntent DEF TypeInv, LedgerOK
    <3> HIDE DEF r, i
    <3>2. r \in Runs /\ i \in Intents /\ intents[r][i] # "none"
      BY <3>1 DEF ExistingIntents
    <3>3. intents'[r][i] # "none"
      BY <3>2, IntentsStay
    <3> QED
      BY <3>3 DEF r, i
  <2> QED
    BY <1>1, <2>1, <2>2, EachProceeds DEF Proceeds, Arrives
<1>2. ASSUME NEW w \in Workers, NEW x \in batch'[w]
      PROVE  intents'[x[1]][x[2]] # "none"
  <2>1. x[1] \in Runs /\ x[2] \in Intents /\ intents[x[1]][x[2]] # "none"
    BY <1>2, BatchFrom DEF ExistingIntents
  <2> QED
    BY <2>1, IntentsStay
<1>3. ASSUME NEW r \in Runs, NEW c \in Calls, intents'[r][c] # "none"
      PROVE  toolCalls'[r][c] # "none"
  <2>1. toolCalls[r][c] # "none"
    BY <1>3, CallsAreIntents, IntentsBegin, AnsweredCall DEF ExistingIntents
  <2> QED
    BY <2>1, CallsStay
<1> QED
  BY <1>1, <1>2, <1>3 DEF ExistingIntents

(*****************************************************************************)
(* What a step does to the readiness of a wait.                              *)
(*****************************************************************************)

LEMMA WaitKinds == \A wait \in Waits : wait.kind = "approval" => wait.call \in Calls
  BY DEF Waits, NoWait

LEMMA ReadyKept ==
    ASSUME Stable, NEW r \in Runs, NEW wait \in Waits, WaitIsReady(r, wait)
    PROVE  WaitIsReady(r, wait)'
  BY WaitKinds DEF Stable, WaitIsReady

\* A wait becomes ready by the completion of the job or by the decision.
LEMMA BecomesReady ==
    ASSUME LedgerInv, Next, NEW r \in Runs, NEW wait \in Waits,
           ~WaitIsReady(r, wait), WaitIsReady(r, wait)'
    PROVE  \/ /\ wait.kind = "report" /\ job[r].call \in Calls
              /\ Answers(r, job[r].call) /\ job[r].status # "completed"
           \/ wait.kind = "approval" /\ wait.call \in Calls /\ Answers(r, wait.call)
<1> USE DEF LedgerInv, ControlInv, EmailInv
<1>0. \/ /\ wait.kind = "report"
         /\ job[r].status # "completed" /\ job'[r].status = "completed"
      \/ /\ wait.kind = "approval" /\ wait.call \in Calls
         /\ approvals[r][wait.call] \notin {"approved", "rejected"}
         /\ approvals'[r][wait.call] \in {"approved", "rejected"}
  BY WaitKinds DEF WaitIsReady
<1>1. ASSUME NEW w \in Workers, WorkerWrites(w)
      PROVE  /\ job'[r].status = job[r].status \/ job'[r].status = "queued"
             /\ \A c \in Calls :
                  approvals'[r][c] = approvals[r][c] \/ approvals'[r][c] = "pending"
  <2>1. CASE EnqueueReport(w) \/ MarkReportDispatched(w)
    BY <2>1, EnqueueChange, MarkChange DEF OtherJobs
  <2>2. CASE PersistReportWait(w)
    BY <2>2, ReportWaitChange
  <2>3. CASE PersistApprovalWait(w)
    BY <2>3, ApprovalWaitChange DEF OneCell
  <2>4. CASE \/ ReserveSimulatedSend(w) \/ ExecuteApprovedSend(w) \/ CompleteSimulatedSend(w)
             \/ ResolveSimpleLoopWait(w)
    BY <2>4, ReserveChange, ExecuteChange, CompleteSendChange, SettleChange
  <2>5. CASE \/ \E outcome \in {"completed", "failed"} : PersistToolOutcome(w, outcome)
             \/ \E outcome \in {"failed", "rejected"} : PersistMappedToolFailure(w, outcome)
    BY <2>5, OutcomeChange
  <2> QED
    BY <1>1, <2>1, <2>2, <2>3, <2>4, <2>5 DEF WorkerWrites
<1>2. ASSUME NEW q \in Runs, RecordReportProgress(q) \/ ReportAttemptFails(q)
      PROVE  FALSE
  BY <1>0, <1>2, DeliveryChange DEF OtherJobs
<1>3. ASSUME NEW q \in Runs, CompleteReportJob(q)
      PROVE  /\ wait.kind = "report" /\ job[r].call \in Calls
             /\ Answers(r, job[r].call) /\ job[r].status # "completed"
  <2>1. q = r /\ wait.kind = "report" /\ job[r].status # "completed"
    BY <1>0, <1>3, CompleteJobChange DEF OtherJobs, BooksInv
  <2> QED
    BY <1>3, <2>1, CompletionAnswers
<1>4. ASSUME NEW q \in Runs, AdminStep(q)
      PROVE  wait.kind = "approval" /\ wait.call \in Calls /\ Answers(r, wait.call)
  <2>1. PICK c \in Calls :
            \/ \E decision \in {"approved", "rejected"} : DecideApproval(q, c, decision)
            \/ ExpireOnDecide(q, c)
    BY <1>4 DEF AdminStep
  <2>2. job' = job /\ wait.kind = "approval"
    BY <1>0, <2>1, DecideChange, ExpireChange
  <2>3. CASE \E decision \in {"approved", "rejected"} : DecideApproval(q, c, decision)
    <3>1. q = r /\ c = wait.call
      BY <1>0, <2>2, <2>3, DecideChange DEF OneCell
    <3> QED
      BY <2>2, <2>3, <3>1, DecisionAnswers
  <2>4. CASE ExpireOnDecide(q, c)
    BY <1>0, <2>2, <2>4, ExpireChange DEF OneCell
  <2> QED
    BY <2>1, <2>3, <2>4
<1> QED
  BY <1>0, <1>1, <1>2, <1>3, <1>4, StepWrites DEF OthersWrite, Quiet

(*****************************************************************************)
(* What a step does to a row.                                                *)
(*****************************************************************************)

SameRow(r) == run'[r].status = run[r].status /\ run'[r].wait = run[r].wait

Settles(r) ==
    /\ run[r].status \in Waiting /\ WaitIsReady(r, run[r].wait)
    /\ run'[r].status = "running"

Defers(r) ==
    /\ run'[r].status \in Waiting
    /\ \E w \in Workers :
        /\ session[w].run = r /\ intents' = intents
        /\ PersistReportWait(w) \/ PersistApprovalWait(w)

LEMMA RowChange ==
    ASSUME LedgerInv, Next, NEW r \in Runs
    PROVE  \/ SameRow(r) \/ Settles(r) \/ Defers(r)
           \/ /\ run[r].status \in {"queued", "running"}
              /\ run'[r].status \in {"running"} \cup Terminal
<1>1. Move
  BY StepMove DEF LedgerInv, ControlInv
<1>2. ASSUME NEW w \in Workers, WriteMove(w), session[w].run = r
      PROVE  \/ SameRow(r) \/ Settles(r) \/ Defers(r)
             \/ /\ run[r].status \in {"queued", "running"}
                /\ run'[r].status \in {"running"} \cup Terminal
  <2>1. Meets(w) /\ LeaseHeld(w)
    BY <1>2 DEF LedgerInv, ControlInv, StatusInv, WriteMove, LeaseHeld, IsCurrent
  <2>2. ASSUME session[w].pc = "settle", run'[r].status = "running"
        PROVE  Settles(r)
    <3>1. run[r].wait = session[w].wait /\ run[r].status \in Waiting
      BY <1>2, <2>1, <2>2, CurrentWait DEF Resuming
    <3>2. WaitIsReady(r, session[w].wait)
      BY <1>2, <2>2 DEF LedgerInv, BooksInv, Resumed, ResumedAt, Settled, Approved, WaitIsReady
    <3> QED
      BY <2>2, <3>1, <3>2 DEF Settles
  <2>3. ASSUME PersistReportWait(w) \/ PersistApprovalWait(w), run'[r].status \in Waiting
        PROVE  Defers(r)
    BY <1>2, <2>3 DEF Defers, PersistReportWait, PersistApprovalWait
  <2>4. CASE session[w].pc = "settle"
    BY <1>2, <2>2, <2>4 DEF WriteMove
  <2>5. CASE session[w].pc = "prompt"
    BY <1>2, <2>1, <2>5 DEF WriteMove, Meets
  <2>6. CASE session[w].pc = "model" /\ session'[w].pc \in {"enqueue", "ack"}
    BY <1>2, <2>3, <2>6 DEF WriteMove, Waiting
  <2>7. CASE session[w].pc = "model" /\ session'[w].pc \notin {"enqueue", "ack"}
    BY <1>2, <2>7 DEF WriteMove, SameRow
  <2>8. CASE session[w].pc = "finish"
    BY <1>2, <2>1, <2>8 DEF WriteMove, Meets
  <2> QED
    BY <1>2, <2>4, <2>5, <2>6, <2>7, <2>8 DEF WriteMove
<1>3. ASSUME NEW w \in Workers, WriteMove(w), session[w].run # r
      PROVE  SameRow(r)
  BY <1>3 DEF WriteMove, OnlyRun, SameRow
<1>4. ASSUME NEW w \in Workers, SoftMove(w) \/ ClaimMove(w)
      PROVE  SameRow(r)
  BY <1>4 DEF SoftMove, ClaimMove, OnlyRun, SameRow
<1>5. ASSUME NEW q \in Runs, LapseMove(q)
      PROVE  SameRow(r)
  BY <1>5 DEF LapseMove, OnlyRun, SameRow
<1> QED
  BY <1>1, <1>2, <1>3, <1>4, <1>5 DEF Move, SameRow

LEMMA RowWait ==
    ASSUME LedgerInv, NEW r \in Runs
    PROVE  run[r].wait \in Waits
  BY RowTypes DEF LedgerInv, ControlInv, TypeInv, RunOK

\* A run that has just been put to wait is not ready yet.
LEMMA DeferredUnready ==
    ASSUME LedgerInv, LedgerInv', NEW w \in Workers, NEW r \in Runs, session[w].run = r,
           PersistReportWait(w) \/ PersistApprovalWait(w)
    PROVE  /\ run'[r].status \in Waiting
           /\ ~WaitIsReady(r, run[r].wait)'
           /\ run'[r].wait.call \in Calls
           /\ toolCalls[r][run'[r].wait.call] = "none"
<1>1. CASE PersistReportWait(w)
  <2>1. PICK c \in Calls :
          /\ run'[r].status = "waiting_for_tool" /\ run'[r].wait.call = c
          /\ job'[r].status = "queued" /\ toolCalls[r][c] = "none"
    BY <1>1, ReportWaitChange DEF LedgerInv, ControlInv
  <2>2. run'[r].wait.kind = "report"
    BY <2>1 DEF LedgerInv, WaitInv, RowWaits
  <2> QED
    BY <2>1, <2>2 DEF WaitIsReady, Waiting
<1>2. CASE PersistApprovalWait(w)
  <2>1. PICK c \in Calls :
          /\ run'[r].status = "waiting_for_admin" /\ run'[r].wait.call = c
          /\ OneCell(approvals', approvals, r, c, "pending") /\ toolCalls[r][c] = "none"
    BY <1>2, ApprovalWaitChange DEF LedgerInv, ControlInv
  <2>2. run'[r].wait.kind = "approval"
    BY <2>1 DEF LedgerInv, WaitInv, RowWaits
  <2>3. approvals'[r][c] = "pending"
    BY <2>1 DEF OneCell
  <2> QED
    BY <2>1, <2>2, <2>3 DEF WaitIsReady, Waiting
<1> QED
  BY <1>1, <1>2

\* An answer that writes the intent of the wait a run is in ends the wait.
LEMMA AnswerReadies ==
    ASSUME LedgerInv, NEW r \in Runs, NEW c \in Calls, Answers(r, c),
           intents'[r][c] # intents[r][c], run[r].wait.call = c
    PROVE  WaitIsReady(r, run[r].wait)'
<1> USE DEF LedgerInv, ControlInv
<1>1. CASE job[r].call = c /\ CompleteReportJob(r) /\ run[r].status = "waiting_for_tool"
  <2>1. run' = run /\ job'[r].status = "completed" /\ run[r].wait.kind = "report"
    BY <1>1, CompleteJobChange DEF BooksInv, WaitInv, RowWaits
  <2> QED
    BY <2>1 DEF WaitIsReady
<1>2. ASSUME NEW decision \in {"approved", "rejected"}, DecideApproval(r, c, decision),
             run[r].status = "waiting_for_admin"
      PROVE  WaitIsReady(r, run[r].wait)'
  <2>1. /\ run' = run /\ approvals'[r][c] = decision
        /\ run[r].wait.kind = "approval" /\ run'[r].wait.call = c
    BY <1>2, DecideChange DEF OneCell, WaitInv, RowWaits
  <2> QED
    BY <2>1 DEF WaitIsReady
<1> QED
  BY <1>1, <1>2 DEF Answers

LEMMA UnansweredStep ==
    ASSUME LedgerInv, LedgerInv', WakeInv, Next
    PROVE  Unanswered'
<1> SUFFICES ASSUME NEW r \in Runs, run'[r].status \in Waiting, ~WaitIsReady(r, run[r].wait)'
             PROVE  intents'[r][run'[r].wait.call] = "none"
  BY DEF Unanswered
<1>1. CASE SameRow(r)
  <2> DEFINE wait == run[r].wait
  <2>1. /\ run'[r].wait = wait /\ run[r].status \in Waiting /\ wait \in Waits
        /\ wait.call \in Calls
    BY <1>1, RowWait, WaitingCall DEF SameRow, LedgerInv
  <2>2. Stable
    BY BooksStep
  <2>3. ~WaitIsReady(r, wait)
    <3> DEFINE old == run[r].wait
    <3>1. old \in Waits /\ WaitIsReady(r, old) => WaitIsReady(r, run[r].wait)'
      BY <2>1, <2>2, WaitKinds DEF Stable, WaitIsReady
    <3> QED
      BY <2>1, <3>1
  <2>4. intents[r][wait.call] = "none"
    BY <2>1, <2>3 DEF WakeInv, Unanswered
  <2>5. ASSUME intents'[r][wait.call] # "none"
        PROVE  FALSE
    <3>1. Answers(r, wait.call)
      BY <2>1, <2>4, <2>5, CallsAreIntents, IntentsBegin DEF WakeInv
    <3>2. WaitIsReady(r, run[r].wait)'
      BY <2>1, <2>4, <2>5, <3>1, AnswerReadies
    <3> QED
      BY <3>2
  <2> QED
    BY <2>1, <2>5
<1>2. CASE Defers(r)
  <2>1. PICK w \in Workers : /\ session[w].run = r /\ intents' = intents
                             /\ PersistReportWait(w) \/ PersistApprovalWait(w)
    BY <1>2 DEF Defers
  <2>2. run'[r].wait.call \in Calls /\ toolCalls[r][run'[r].wait.call] = "none"
    BY <2>1, DeferredUnready
  <2> QED
    BY <2>1, <2>2 DEF WakeInv, ExistingIntents
<1> QED
  BY <1>1, <1>2, RowChange DEF Settles, Waiting, Terminal

\* A run that has ended stays so.
LEMMA EndedStays ==
    ASSUME LedgerInv, Next, NEW r \in Runs, run[r].status \in Terminal
    PROVE  run'[r].status \in Terminal
<1>1. ~Defers(r)
  <2> SUFFICES ASSUME NEW w \in Workers, session[w].run = r,
                      PersistReportWait(w) \/ PersistApprovalWait(w)
               PROVE  FALSE
    BY DEF Defers
  <2>1. LeaseHeld(w) /\ session[w].pc = "model"
    BY DEF PersistReportWait, PersistApprovalWait, Persist, At
  <2> QED
    BY <2>1, ModelRuns DEF Terminal
<1> QED
  BY <1>1, RowChange DEF SameRow, Settles, Waiting, Terminal

LEMMA SeenStep ==
    ASSUME LedgerInv, WakeInv, Next
    PROVE  WaitSeen'
<1> SUFFICES ASSUME NEW w \in Workers
             PROVE  SeesWait(w)'
  BY DEF WaitSeen
<1>0. Stable
  BY BooksStep
<1>1. CASE session'[w] = session[w] /\ session[w].pc \in {"check", "stale"}
  <2>0. session[w].run \in Runs /\ session[w].wait \in Waits
    BY <1>1, SessionTypes DEF LedgerInv, ControlInv
  <2>1. PICK r \in Runs, wait \in Waits : r = session[w].run /\ wait = session[w].wait
    BY <2>0
  <2>2. SeesWait(w) /\ session'[w].run = r /\ session'[w].wait = wait
        /\ session'[w].pc = session[w].pc
    BY <1>1, <2>1 DEF WakeInv, WaitSeen
  <2>3. run[r].status \in Terminal => run'[r].status \in Terminal
    BY <2>1, EndedStays
  <2>4. WaitIsReady(r, wait) => WaitIsReady(r, wait)'
    BY <1>0, <2>1, ReadyKept
  <2>5. ASSUME run[r].status \in Waiting, run[r].wait = wait
        PROVE  \/ WaitIsReady(r, wait)'
               \/ run'[r].status \in Waiting /\ run'[r].wait = wait
    <3>1. ~Defers(r)
      <4> SUFFICES ASSUME NEW u \in Workers, session[u].run = r,
                          PersistReportWait(u) \/ PersistApprovalWait(u)
                   PROVE  FALSE
        BY DEF Defers
      <4>1. LeaseHeld(u) /\ session[u].pc = "model"
        BY DEF PersistReportWait, PersistApprovalWait, Persist, At
      <4> QED
        BY <2>5, <4>1, ModelRuns DEF Waiting
    <3> QED
      BY <2>1, <2>4, <2>5, <3>1, RowChange DEF SameRow, Settles, Waiting
  <2>6. session[w].pc = "check" =>
            WaitIsReady(r, wait)' \/ run'[r].status \in Terminal
            \/ (run'[r].status \in Waiting /\ run'[r].wait = wait)
    BY <2>1, <2>2, <2>3, <2>4, <2>5 DEF SeesWait
  <2>7. session[w].pc = "stale" => run'[r].status \in Terminal
    BY <2>1, <2>2, <2>3 DEF SeesWait
  <2> QED
    BY <2>1, <2>2, <2>6, <2>7 DEF SeesWait, WaitIsReady
<1>2. CASE session'[w].pc \notin {"check", "stale"}
  BY <1>2 DEF SeesWait
<1>3. CASE Arrives(w)
  <2>1. session[w].run \in Runs
    BY <1>3, SessionTypes DEF Arrives, SameIntent, LedgerInv, ControlInv
  <2>2. session'[w].pc = "check" =>
            run[session[w].run].status \in Waiting \cup Terminal
    BY <1>3, <2>1, StatusTypes DEF Arrives, LedgerInv, ControlInv, StatusInv, RowInv
  <2> QED
    BY <1>3, <2>1, <2>2 DEF Arrives, SameIntent, SeesWait
<1> QED
  BY <1>1, <1>2, <1>3, EachProceeds DEF Proceeds, LedgerInv, ControlInv

(*****************************************************************************)
(* The wake-ups.                                                             *)
(*****************************************************************************)

\* A run becomes workable by the answer to its wait, which writes a new intent.
LEMMA BecomesWorkable ==
    ASSUME LedgerInv, LedgerInv', WakeInv, Next, NEW r \in Runs, ~Workable(r), Workable(r)'
    PROVE  \E c \in Calls :
              Answers(r, c) /\ intents[r][c] = "none" /\ intents'[r][c] = "pending"
<1> USE DEF LedgerInv, ControlInv
<1>1. ~Settles(r)
  BY DEF Settles, Workable
<1>2. ~Defers(r)
  <2> SUFFICES ASSUME NEW w \in Workers, session[w].run = r,
                      PersistReportWait(w) \/ PersistApprovalWait(w)
               PROVE  FALSE
    BY DEF Defers
  <2> QED
    BY DeferredUnready DEF Workable, Waiting
<1>3. SameRow(r) /\ run[r].status \in Waiting
  BY <1>1, <1>2, RowChange DEF SameRow, Workable, Waiting
<1>4. PICK wait \in Waits : wait = run[r].wait
  BY RowWait
<1>5. /\ ~WaitIsReady(r, wait) /\ wait.call \in Calls /\ intents[r][wait.call] = "none"
  BY <1>3, <1>4, WaitingCall DEF Workable, WakeInv, Unanswered
<1>6. WaitIsReady(r, wait)'
  BY <1>3, <1>4 DEF SameRow, Workable, WaitIsReady, Waiting
<1>7. CASE /\ wait.kind = "report" /\ job[r].call \in Calls
           /\ Answers(r, job[r].call) /\ job[r].status # "completed"
  <2>1. run[r].status = "waiting_for_tool" /\ job[r].call = wait.call
    BY <1>3, <1>4, <1>7 DEF WaitInv, RowWaits, BooksInv, Awaited, WaitAgrees, Waiting
  <2>2. intents' # intents
    <3>1. job'[r].status = "completed"
      BY <1>6, <1>7 DEF WaitIsReady
    <3>2. ~\E decision \in {"approved", "rejected"} : DecideApproval(r, job[r].call, decision)
      BY <1>7, <3>1 DEF DecideApproval
    <3> QED
      BY <1>5, <1>7, <2>1, <3>2, CallsAreIntents DEF Answers, OneIntent
  <2>3. intents'[r][wait.call] = "pending"
    BY <1>5, <1>7, <2>1, <2>2, CallsAreIntents DEF Answers, OneIntent
  <2> QED
    BY <1>5, <1>7, <2>1, <2>3
<1>8. CASE wait.kind = "approval" /\ wait.call \in Calls /\ Answers(r, wait.call)
  <2>1. run[r].status = "waiting_for_admin"
    BY <1>3, <1>4, <1>8 DEF WaitInv, RowWaits, Waiting
  <2>2. intents'[r][wait.call] = "pending"
    BY <1>8, <2>1, CallsAreIntents DEF Answers, OneIntent
  <2> QED
    BY <1>5, <1>8, <2>2
<1> QED
  BY <1>4, <1>5, <1>6, <1>7, <1>8, BecomesReady

\* Nobody is about to acknowledge an intent that has only just been written.
LEMMA NewIntentWakes ==
    ASSUME LedgerInv, ExistingIntents, NEW r \in Runs, NEW c \in Calls,
           Answers(r, c), intents[r][c] = "none", intents'[r][c] = "pending"
    PROVE  Wakes(r, c)'
<1>1. session' = session
  BY AnsweredCall
<1>2. ASSUME NEW w \in Workers, Acknowledges(w, r, c)
      PROVE  FALSE
  BY <1>2 DEF Acknowledges, Acknowledging, ExistingIntents
<1> QED
  BY <1>1, <1>2 DEF Wakes, Acknowledges

\* Whoever comes to acknowledge an intent leaves the run with nothing to do.
LEMMA ArrivalRests ==
    ASSUME LedgerInv, LedgerInv', WakeInv, Next, NEW w \in Workers, NEW r \in Runs,
           Arrives(w), session[w].run = r,
           session[w].pc \notin Acknowledging, session'[w].pc \in Acknowledging
    PROVE  ~Workable(r)'
<1>1. CASE CheckWait(w) /\ ~WaitIsReady(r, session[w].wait)
  <2>1. /\ session[w].pc = "check" /\ UNCHANGED <<run, job, approvals>>
    BY <1>1 DEF CheckWait, At, dbVars
  <2>2. \/ run[r].status \in Waiting /\ run[r].wait = session[w].wait
        \/ run[r].status \in Terminal
    BY <1>1, <2>1 DEF WakeInv, WaitSeen, SeesWait
  <2>3. ~Workable(r)
    BY <1>1, <2>2 DEF Workable, Waiting, Terminal
  <2> QED
    BY <2>1, <2>3 DEF Workable, WaitIsReady
<1>2. CASE PersistReportWait(w) \/ PersistApprovalWait(w)
  BY <1>2, DeferredUnready DEF Workable, Waiting
<1>3. CASE CompleteSimpleLoopRun(w)
  <2>1. WriteMove(w) /\ session[w].pc = "finish"
    BY <1>3, CompleteMove DEF LedgerInv, ControlInv, CompleteSimpleLoopRun, At
  <2>2. run'[r].status \in Terminal
    BY <2>1 DEF WriteMove
  <2> QED
    BY <2>2 DEF Workable, Waiting, Terminal
<1> QED
  BY <1>1, <1>2, <1>3 DEF Arrives

\* An intent that wakes somebody does so for as long as the run can be worked on.
LEMMA StillWakes ==
    ASSUME LedgerInv, LedgerInv', WakeInv, Next, NEW r \in Runs, NEW i \in Intents,
           Wakes(r, i), Workable(r)'
    PROVE  Wakes(r, i)'
<1>1. ASSUME NEW w \in Workers, Acks(w), session[w].run = r, session[w].intent = i
      PROVE  FALSE
  <2>1. CASE session[w].pc = "ack"
    BY <1>1, <2>1 DEF Wakes, Acknowledges, Acknowledging
  <2>2. CASE session[w].pc = "stale" /\ run' = run
    <3>1. run[r].status \in Terminal
      BY <1>1, <2>2 DEF WakeInv, WaitSeen, SeesWait
    <3>2. run'[r].status \in Terminal
      BY <2>2, <3>1
    <3> QED
      BY <3>2 DEF Workable, Waiting, Terminal
  <2> QED
    BY <1>1, <2>1, <2>2 DEF Acks
<1>2. intents'[r][i] = "pending"
  <2>1. ASSUME NEW w \in Workers, Acks(w)
        PROVE  intents'[r][i] = "pending"
    BY <1>1, <2>1 DEF Acks, OneIntent, Wakes
  <2>2. ASSUME NEW q \in Runs, NEW c \in Calls, Answers(q, c)
        PROVE  intents'[r][i] = "pending"
    BY <2>2 DEF Answers, OneIntent, Wakes
  <2> QED
    BY <2>1, <2>2, IntentsChange DEF Wakes
<1>3. ASSUME NEW w \in Workers, session'[w].pc \in Acknowledging,
             session'[w].run = r, session'[w].intent = i
      PROVE  FALSE
  <2>1. session'[w] # session[w]
    BY <1>3 DEF Wakes, Acknowledges
  <2>2. Arrives(w)
    BY <1>3, <2>1, EachProceeds DEF Proceeds, Acknowledging, LedgerInv, ControlInv
  <2>3. session[w].run = r /\ session[w].intent = i
    BY <1>3, <2>2 DEF Arrives, SameIntent
  <2>4. session[w].pc \notin Acknowledging
    BY <2>3 DEF Wakes, Acknowledges
  <2> QED
    BY <1>3, <2>2, <2>3, <2>4, ArrivalRests
<1> QED
  BY <1>2, <1>3 DEF Wakes, Acknowledges

LEMMA WokenStep ==
    ASSUME LedgerInv, LedgerInv', WakeInv, Next
    PROVE  Woken'
<1> SUFFICES ASSUME NEW r \in Runs, Workable(r)'
             PROVE  \E i \in Intents : Wakes(r, i)'
  BY DEF Woken
<1>1. CASE Workable(r)
  BY <1>1, StillWakes DEF WakeInv, Woken
<1>2. CASE ~Workable(r)
  BY <1>2, BecomesWorkable, NewIntentWakes, CallsAreIntents DEF WakeInv
<1> QED
  BY <1>1, <1>2

LEMMA WakeInit == Init => WakeInv
<1> SUFFICES ASSUME Init
             PROVE  WakeInv
  OBVIOUS
<1>1. \A w \in Workers : session[w].pc = "idle" /\ batch[w] = {}
  BY IdleFacts DEF Init
<1>2. \A r \in Runs : run[r].status = "queued"
  BY DEF Init
<1>3. 0 \in Intents /\ \A r \in Runs, i \in Intents :
                           intents[r][i] = IF i = 0 THEN "pending" ELSE "none"
  BY ConstantFacts DEF Init, Intents
<1>4. \A r \in Runs, c \in Calls : intents[r][c] = "none"
  BY <1>3, ConstantFacts, CallsAreIntents DEF Calls
<1>5. ExistingIntents
  BY <1>1, <1>4 DEF ExistingIntents
<1>6. Unanswered /\ WaitSeen
  BY <1>1, <1>2 DEF Unanswered, WaitSeen, SeesWait, Waiting
<1>7. \A r \in Runs : Wakes(r, 0)
  BY <1>1, <1>3 DEF Wakes, Acknowledges, Acknowledging
<1> QED
  BY <1>3, <1>5, <1>6, <1>7 DEF WakeInv, Woken

LEMMA WakeKept == LedgerInv /\ LedgerInv' /\ WakeInv /\ [Next]_vars => WakeInv'
<1> SUFFICES ASSUME LedgerInv, LedgerInv', WakeInv, [Next]_vars
             PROVE  WakeInv'
  OBVIOUS
<1>1. CASE Next
  BY <1>1, ExistingStep, UnansweredStep, SeenStep, WokenStep DEF WakeInv
<1>2. CASE UNCHANGED vars
  BY <1>2 DEF vars, WakeInv, ExistingIntents, Unanswered, WaitSeen, SeesWait, Woken, Workable,
     Wakes, Acknowledges, WaitIsReady
<1> QED
  BY <1>1, <1>2

LEMMA WakeInvariance == Spec => []WakeInv
  BY WakeInit, WakeKept, LedgerInvariance, PTL DEF Spec

\* For every value of the constants: while a run is queued or running, or waits for
\* something that has already happened, one of its intents is pending, whatever the
\* sessions that hold older listings and older reads acknowledge meanwhile
\* (acknowledgeSimpleLoopDispatch, decideApproval, completeReportJob).
THEOREM NoneLost == Spec => []NoLostWakeup
<1>1. WakeInv => NoLostWakeup
  BY DEF WakeInv, Woken, Wakes, Workable, NoLostWakeup
<1> QED
  BY <1>1, WakeInvariance, PTL

(*****************************************************************************)
(* The run's life.  Every handler is a step of RunLifecycle or one it does   *)
(* not see.  Two facts more are needed.  A call is deferred to the queue or  *)
(* to the administrator, never to both; and the only request that can still  *)
(* be decided, or whose message can still leave, is that of the call the run *)
(* waits for: nobody checks this of the run's row, the promise itself keeps  *)
(* it from one step to the next.                                             *)
(*****************************************************************************)

OneKind == \A r \in Runs, c \in Calls : job[r].call = c => approvals[r][c] = "none"

OpenAt(r, c) ==
    \/ AnswerTo(r, c) = "pending"
    \/ AnswerTo(r, c) = "approved" /\ results[r][c] = 0

Open ==
    \A r \in Runs, c \in Calls :
        OpenAt(r, c) => run[r].status = "waiting_for_admin" /\ WaitsFor(r) = c

LifeInv == LedgerInv /\ OneKind /\ Open

\* What RunLifecycle sees of a row.
SameLife(r) ==
    /\ run'[r].status = run[r].status
    /\ run'[r].consumedSteps = run[r].consumedSteps
    /\ run'[r].wait = run[r].wait

\* A step of the promise, or one it does not see, after which the second fact holds.
Lives == [Promise!Next]_(Promise!vars) /\ Open'

OtherLives(r) == \A q \in Runs \ {r} : SameLife(q)

SameAnswers == \A q \in Runs, c \in Calls : AnswerTo(q, c)' = AnswerTo(q, c)

NewAnswer(r, d, answer) ==
    \A q \in Runs, c \in Calls :
        AnswerTo(q, c)' = IF q = r /\ c = d THEN answer ELSE AnswerTo(q, c)

LEMMA AnswerTypes ==
    ASSUME TypeInv, NEW r \in Runs, NEW c \in Calls
    PROVE  AnswerTo(r, c) \in ApprovalStatuses \cup {"ordered", "made"}
  BY Tables DEF AnswerTo, ApprovalStatuses

LEMMA SameWait ==
    ASSUME NEW r \in Runs, SameLife(r)
    PROVE  WaitsFor(r)' = WaitsFor(r)
  BY DEF SameLife, WaitsFor

LEMMA OneLife ==
    ASSUME NEW r \in Runs, OnlyRun(r)
    PROVE  OtherLives(r)
  BY DEF OnlyRun, OtherLives, SameLife

\* The jobs go on, but none is completed and none is made.
SameJob(r) ==
    /\ job'[r].call = job[r].call
    /\ job'[r].status = "completed" <=> job[r].status = "completed"

LEMMA AnswersStay ==
    ASSUME approvals' = approvals, \A q \in Runs : SameJob(q)
    PROVE  SameAnswers
  BY DEF SameAnswers, SameJob, AnswerTo

LEMMA Unseen ==
    ASSUME Open, \A q \in Runs : SameLife(q), SameAnswers, UNCHANGED <<emails, results>>
    PROVE  Lives
<1>1. \A q \in Runs : /\ run'[q].status = run[q].status
                      /\ run'[q].consumedSteps = run[q].consumedSteps
                      /\ WaitsFor(q)' = WaitsFor(q)
  BY SameWait DEF SameLife
<1>2. UNCHANGED Promise!vars
  BY <1>1 DEF Promise!vars, SameAnswers
<1>3. Open'
  BY <1>1 DEF Open, OpenAt, SameAnswers
<1> QED
  BY <1>2, <1>3 DEF Lives

(*****************************************************************************)
(* The abstract actions, from what the handlers do to the rows and tables.   *)
(*****************************************************************************)

LEMMA TakesStep ==
    ASSUME Open, NEW r \in Runs, OtherLives(r), SameAnswers, UNCHANGED <<emails, results>>,
           run[r].status \in {"queued", "running"}, run[r].consumedSteps < StepBudget,
           run'[r].status = "running", run'[r].consumedSteps = run[r].consumedSteps + 1
    PROVE  Lives
<1>1. \A q \in Runs : WaitsFor(q)' = WaitsFor(q)
  BY SameWait DEF OtherLives, WaitsFor, Waiting
<1>2. \A q \in Runs \ {r} : /\ run'[q].status = run[q].status
                            /\ run'[q].consumedSteps = run[q].consumedSteps
  BY DEF OtherLives, SameLife
<1>3. Promise!Step(r)
  BY <1>1, <1>2 DEF Promise!Step, SameAnswers
<1>4. Open'
  BY <1>1, <1>2 DEF Open, OpenAt, SameAnswers
<1> QED
  BY <1>3, <1>4 DEF Lives, Promise!Next

LEMMA Ends ==
    ASSUME Open, NEW r \in Runs, OtherLives(r), SameAnswers, UNCHANGED <<emails, results>>,
           run'[r].status \in Terminal,
           run[r].status = "running" \/ (run[r].status = "queued" /\ run'[r].status = "failed"),
           run'[r].consumedSteps = run[r].consumedSteps
    PROVE  Lives
<1>1. \A q \in Runs : WaitsFor(q)' = WaitsFor(q)
  BY SameWait DEF OtherLives, WaitsFor, Waiting, Terminal
<1>2. \A q \in Runs \ {r} : /\ run'[q].status = run[q].status
                            /\ run'[q].consumedSteps = run[q].consumedSteps
  BY DEF OtherLives, SameLife
<1>3. Promise!End(r)
  BY <1>1, <1>2 DEF Promise!End, Promise!Terminal, Terminal, SameAnswers
<1>4. Open'
  BY <1>1, <1>2 DEF Open, OpenAt, SameAnswers
<1> QED
  BY <1>3, <1>4 DEF Lives, Promise!Next

LEMMA IsDeferred ==
    ASSUME Open, NEW r \in Runs, OtherLives(r), UNCHANGED <<emails, results>>,
           NEW c \in Calls, c = run[r].consumedSteps, AnswerTo(r, c) = "none",
           NEW waiting \in Waiting, NEW first, NewAnswer(r, c, first),
           \/ waiting = "waiting_for_admin" /\ first = "pending"
           \/ first = "ordered",
           run[r].status = "running", run'[r].status = waiting, run'[r].wait.call = c,
           run'[r].consumedSteps = run[r].consumedSteps
    PROVE  Promise!Defer(r, waiting, first) /\ Open'
<1>1. \A q \in Runs : WaitsFor(q)' = IF q = r THEN c ELSE WaitsFor(q)
  BY SameWait DEF OtherLives, WaitsFor
<1>2. \A q \in Runs \ {r} : /\ run'[q].status = run[q].status
                            /\ run'[q].consumedSteps = run[q].consumedSteps
  BY DEF OtherLives, SameLife
<1>3. [q \in Runs |-> WaitsFor(q)]' = [[q \in Runs |-> WaitsFor(q)] EXCEPT ![r] = c]
  BY <1>1
<1>4. [q \in Runs |-> [d \in Calls |-> AnswerTo(q, d)]]' =
        [[q \in Runs |-> [d \in Calls |-> AnswerTo(q, d)]] EXCEPT ![r][c] = first]
  BY DEF NewAnswer
<1>5. Promise!Defer(r, waiting, first)
  BY <1>2, <1>3, <1>4 DEF Promise!Defer, Promise!Calls, Calls
<1>6. Open'
  BY <1>1, <1>2 DEF Open, OpenAt, NewAnswer
<1> QED
  BY <1>5, <1>6

LEMMA IsAnswered ==
    ASSUME Open, NEW r \in Runs, UNCHANGED <<run, emails, results>>,
           NEW c \in Calls, WaitsFor(r) = c, NEW new, NewAnswer(r, c, new),
           AnswerTo(r, c) = "pending" \/ new = "made"
    PROVE  Promise!Answer(r, AnswerTo(r, c), new) /\ Open'
<1>1. \A q \in Runs : WaitsFor(q)' = WaitsFor(q)
  BY SameWait DEF SameLife
<1>2. Promise!Answer(r, AnswerTo(r, c), new)
  BY <1>1 DEF Promise!Answer, Promise!Calls, Calls, NewAnswer
<1>3. Open'
  BY <1>1 DEF Open, OpenAt, NewAnswer
<1> QED
  BY <1>2, <1>3

LEMMA IsSent ==
    ASSUME Open, TypeInv, NEW r \in Runs, UNCHANGED <<run, results>>, SameAnswers,
           NEW c \in Calls, WaitsFor(r) = c, run[r].status = "waiting_for_admin",
           AnswerTo(r, c) = "approved", emails[r][c] = 0,
           emails' = [emails EXCEPT ![r][c] = 1]
    PROVE  Lives
<1>1. \A q \in Runs : WaitsFor(q)' = WaitsFor(q)
  BY SameWait DEF SameLife
<1>2. Promise!Send(r)
  BY <1>1 DEF Promise!Send, SameAnswers
<1>3. Open'
  BY <1>1 DEF Open, OpenAt, SameAnswers
<1> QED
  BY <1>2, <1>3 DEF Lives, Promise!Next

LEMMA IsTold ==
    ASSUME Open, TypeInv, NEW r \in Runs, OtherLives(r), SameAnswers, UNCHANGED emails,
           NEW c \in Calls, WaitsFor(r) = c, run[r].status \in Waiting,
           \/ AnswerTo(r, c) = "approved" /\ emails[r][c] = 1
           \/ AnswerTo(r, c) = "rejected" /\ emails[r][c] = 0
           \/ AnswerTo(r, c) = "made",
           results[r][c] = 0, results' = [results EXCEPT ![r][c] = 1],
           run'[r].status = "running", run'[r].consumedSteps = run[r].consumedSteps
    PROVE  Lives
<1>1. \A q \in Runs : WaitsFor(q)' = IF q = r THEN 0 ELSE WaitsFor(q)
  BY SameWait DEF OtherLives, WaitsFor, Waiting
<1>2. \A q \in Runs \ {r} : /\ run'[q].status = run[q].status
                            /\ run'[q].consumedSteps = run[q].consumedSteps
  BY DEF OtherLives, SameLife
<1>3. Promise!Tell(r)
  BY <1>1, <1>2 DEF Promise!Tell, Promise!IsAnswered, Promise!Calls, Promise!Waiting, Calls,
     Waiting, SameAnswers
<1>4. OneCell(results', results, r, c, 1)
  BY Tables, CellWritten
<1>5. Open'
  BY <1>1, <1>2, <1>4 DEF Open, OpenAt, SameAnswers, OneCell
<1> QED
  BY <1>3, <1>5 DEF Lives, Promise!Next

(*****************************************************************************)
(* The handlers.                                                             *)
(*****************************************************************************)

\* A quiet step takes a model step, ends the run, or is not seen.
LEMMA QuietLives ==
    ASSUME LifeInv, Move, Quiet
    PROVE  Lives
<1> USE DEF LifeInv, LedgerInv, ControlInv
<1>0. SameAnswers /\ UNCHANGED <<emails, results>>
  BY AnswersStay DEF Quiet, SameJob
<1>1. ASSUME NEW w \in Workers, WriteMove(w)
      PROVE  Lives
  <2> DEFINE r == session[w].run
  <2>1. /\ r \in Runs /\ OtherLives(r) /\ run'[r] \in RunRows /\ Meets(w)
    BY <1>1, OneLife DEF WriteMove, OnlyRun, StatusInv, LeaseHeld, IsCurrent
  <2>2. ~ResolveSimpleLoopWait(w) /\ ~PersistReportWait(w) /\ ~PersistApprovalWait(w)
    BY DEF Quiet, WorkerWrites
  <2>3. CASE session[w].pc = "prompt"
    <3>1. /\ run[r].status \in {"queued", "running"} /\ run'[r].status = "running"
          /\ run'[r].consumedSteps = run[r].consumedSteps + 1
      BY <1>1, <2>1, <2>3 DEF WriteMove, Meets
    <3>2. run[r].consumedSteps < StepBudget
      BY <2>1, <3>1, RowTypes, ConstantFacts DEF TypeInv, RunOK
    <3> QED
      BY <1>0, <2>1, <3>1, <3>2, TakesStep
  <2>4. CASE session[w].pc = "finish"
    <3>1. /\ run'[r].status \in Terminal
          /\ run[r].status = "running" \/ (run[r].status = "queued" /\ run'[r].status = "failed")
          /\ run'[r].consumedSteps = run[r].consumedSteps
      BY <1>1, <2>1, <2>4 DEF WriteMove, Meets
    <3> QED
      BY <1>0, <2>1, <3>1, Ends
  <2>5. CASE session[w].pc \notin {"prompt", "finish"}
    <3>1. SameLife(r)
      BY <1>1, <2>2, <2>5 DEF WriteMove, SameLife
    <3> QED
      BY <1>0, <2>1, <3>1, Unseen DEF OtherLives
  <2> QED
    BY <2>3, <2>4, <2>5
<1>2. ASSUME NEW w \in Workers, SoftMove(w) \/ ClaimMove(w)
      PROVE  \A q \in Runs : SameLife(q)
  BY <1>2 DEF SoftMove, ClaimMove, OnlyRun, SameLife
<1>3. ASSUME NEW q \in Runs, LapseMove(q)
      PROVE  \A p \in Runs : SameLife(p)
  BY <1>3 DEF LapseMove, OnlyRun, SameLife
<1>4. CASE UNCHANGED run
  BY <1>0, <1>4, Unseen DEF SameLife
<1> QED
  BY <1>0, <1>1, <1>2, <1>3, <1>4, Unseen DEF Move

\* The handlers that leave the run's row, the answers and the counts alone.
LEMMA UnseenHandlers ==
    ASSUME LifeInv,
           \/ \E w \in Workers : \/ ReserveSimulatedSend(w) \/ CompleteSimulatedSend(w)
                                 \/ EnqueueReport(w) \/ MarkReportDispatched(w)
           \/ \E r \in Runs : RecordReportProgress(r) \/ ReportAttemptFails(r)
    PROVE  Lives
<1> USE DEF LifeInv, LedgerInv, ControlInv, EmailInv
<1>1. UNCHANGED <<run, approvals, emails, results>> /\ \A q \in Runs : SameJob(q)
  <2>1. ASSUME NEW w \in Workers, ReserveSimulatedSend(w) \/ CompleteSimulatedSend(w)
        PROVE  UNCHANGED <<run, approvals, emails, results>> /\ \A q \in Runs : SameJob(q)
    BY <2>1, ReserveChange, CompleteSendChange DEF SameJob
  <2>2. ASSUME NEW w \in Workers, EnqueueReport(w) \/ MarkReportDispatched(w)
        PROVE  UNCHANGED <<run, approvals, emails, results>> /\ \A q \in Runs : SameJob(q)
    BY <2>2, EnqueueChange, MarkChange DEF SameJob, OtherJobs
  <2>3. ASSUME NEW r \in Runs, RecordReportProgress(r) \/ ReportAttemptFails(r)
        PROVE  UNCHANGED <<run, approvals, emails, results>> /\ \A q \in Runs : SameJob(q)
    BY <2>3, DeliveryChange DEF SameJob, OtherJobs
  <2> QED
    BY <2>1, <2>2, <2>3
<1> QED
  BY <1>1, AnswersStay, Unseen DEF SameLife

LEMMA OutcomeLives ==
    ASSUME LifeInv, NEW w \in Workers,
           \/ \E outcome \in {"completed", "failed"} : PersistToolOutcome(w, outcome)
           \/ \E outcome \in {"failed", "rejected"} : PersistMappedToolFailure(w, outcome)
    PROVE  Lives
<1> USE DEF LifeInv, LedgerInv, ControlInv
<1>1. /\ UNCHANGED <<approvals, emails, results, job>>
      /\ session[w].pc = "model" /\ session'[w].pc \in {"prompt", "finish"}
  BY OutcomeChange DEF PersistToolOutcome, PersistMappedToolFailure, At
<1>2. WriteMove(w)
  BY ToolOutcomeMove
<1>3. \A q \in Runs : SameLife(q)
  BY <1>1, <1>2 DEF WriteMove, OnlyRun, SameLife
<1> QED
  BY <1>1, <1>3, AnswersStay, Unseen DEF SameJob

\* A message that is about to leave has its run waiting for it: the approval is
\* open as long as the model has not been told.
LEMMA SendLives ==
    ASSUME LifeInv, NEW w \in Workers, ExecuteApprovedSend(w)
    PROVE  Lives
<1>0. TypeInv /\ DeferredInv /\ Open
  BY DEF LifeInv, LedgerInv, ControlInv, EmailInv
<1>1. PICK r \in Runs, c \in Calls :
        /\ session[w].pc = "send" /\ session[w].run = r /\ session[w].wait.call = c
        /\ UNCHANGED <<run, approvals, results, job>>
        /\ emails' = [emails EXCEPT ![r][c] = emails[r][c] + 1]
  BY <1>0, ExecuteChange DEF ExecuteApprovedSend, At
<1>2. emails[r][c] = 0 /\ approvals[r][c] = "approved"
  BY <1>1 DEF LifeInv, LedgerInv, EmailInv, AboutToSend
<1>3. results[r][c] = 0
  <2>1. results[r][c] # 1
    BY <1>1, <1>2 DEF LifeInv, LedgerInv, BooksInv, Told, ToldTruly, OneKind
  <2>2. results[r][c] \in Nat /\ results[r][c] <= 1
    BY <1>0, <1>1, Tables DEF LifeInv, LedgerInv, BooksInv, Told, ToldTruly
  <2> QED
    BY <2>1, <2>2
<1>4. AnswerTo(r, c) = "approved"
  BY <1>2 DEF AnswerTo
<1>5. run[r].status = "waiting_for_admin" /\ WaitsFor(r) = c
  BY <1>0, <1>1, <1>3, <1>4 DEF Open, OpenAt
<1>6. SameAnswers
  BY <1>1, AnswersStay DEF SameJob
<1>7. emails' = [emails EXCEPT ![r][c] = 1]
  BY <1>1, <1>2
<1> QED
  BY <1>0, <1>1, <1>2, <1>4, <1>5, <1>6, <1>7, IsSent

LEMMA SettleLives ==
    ASSUME LifeInv, NEW w \in Workers, ResolveSimpleLoopWait(w)
    PROVE  Lives
<1>0. TypeInv /\ LedgerInv /\ BooksInv /\ Open
  BY DEF LifeInv, LedgerInv, ControlInv
<1>1. PICK r \in Runs, c \in Calls :
        /\ session[w].run = r /\ session[w].wait.call = c
        /\ OnlyRun(r) /\ run'[r].status = "running"
        /\ run[r].wait = session[w].wait /\ run[r].status \in Waiting
        /\ \E status \in CallStatuses : Outcome(r, c, toolCalls[r][c], status)
        /\ UNCHANGED <<approvals, emails, job>>
  BY <1>0, SettleChange
<1>2. /\ results' = [results EXCEPT ![r][c] = results[r][c] + 1]
      /\ session[w].pc = "settle"
  BY <1>1 DEF ResolveSimpleLoopWait, At
<1>3. run'[r].consumedSteps = run[r].consumedSteps
  BY <1>0, <1>1, <1>2, ResolveWaitMove DEF WriteMove
<1>4. results[r][c] = 0 /\ WaitsFor(r) = c
  BY <1>0, <1>1 DEF BooksInv, Awaited, WaitAgrees, WaitsFor
<1>5. \/ AnswerTo(r, c) = "approved" /\ emails[r][c] = 1
      \/ AnswerTo(r, c) = "rejected" /\ emails[r][c] = 0
      \/ AnswerTo(r, c) = "made"
  BY <1>1 DEF LifeInv, Outcome, OneKind, AnswerTo
<1>6. OtherLives(r) /\ SameAnswers
  BY <1>1, OneLife, AnswersStay DEF SameJob
<1>7. results' = [results EXCEPT ![r][c] = 1]
  BY <1>2, <1>4
<1> QED
  BY <1>0, <1>1, <1>3, <1>4, <1>5, <1>6, <1>7, IsTold

LEMMA ReportWaitLives ==
    ASSUME LifeInv, NEW w \in Workers, PersistReportWait(w)
    PROVE  Lives
<1>0. TypeInv /\ LedgerInv /\ Open
  BY DEF LifeInv, LedgerInv, ControlInv
<1>1. PICK r \in Runs, c \in Calls :
        /\ session[w].run = r /\ run[r].consumedSteps = c
        /\ OnlyRun(r)
        /\ run'[r].status = "waiting_for_tool" /\ run'[r].wait.call = c
        /\ toolCalls[r][c] = "none" /\ job[r] = NoJob
        /\ \A q \in Runs \ {r} : job'[q] = job[q]
        /\ job'[r].status = "queued" /\ job'[r].call = c
        /\ UNCHANGED <<approvals, emails, results>>
  BY <1>0, ReportWaitChange
<1>2. session[w].pc = "model" /\ LeaseHeld(w)
  BY DEF PersistReportWait, At, Persist
<1>3. run[r].status = "running"
  BY <1>0, <1>1, <1>2, ModelRuns
<1>4. run'[r].consumedSteps = run[r].consumedSteps
  BY <1>0, <1>1, <1>2, ReportWaitMove DEF WriteMove
<1>5. job[r].call = 0 /\ \A d \in Calls : d # 0 /\ AnswerTo(r, d) \notin {"ordered", "made"}
  <2>1. job[r].call = 0 /\ \A d \in Calls : d # 0
    BY <1>1, ConstantFacts DEF NoJob, Calls
  <2>2. \A d \in Calls : approvals[r][d] \in ApprovalStatuses
    BY <1>0, <1>1, Tables
  <2> QED
    BY <2>1, <2>2 DEF AnswerTo, ApprovalStatuses
<1>6. approvals[r][c] = "none" /\ AnswerTo(r, c) = "none"
  BY <1>0, <1>1, <1>5, NewCall DEF AnswerTo
<1>7. NewAnswer(r, c, "ordered")
  BY <1>1, <1>5, <1>6 DEF NewAnswer, AnswerTo
<1>8. OtherLives(r)
  BY <1>1, OneLife
<1>9. Promise!Defer(r, "waiting_for_tool", "ordered") /\ Open'
  BY <1>0, <1>1, <1>3, <1>4, <1>6, <1>7, <1>8, IsDeferred DEF Waiting
<1>10. Promise!OrderReport(r)
  BY <1>1, <1>5, <1>9 DEF Promise!OrderReport, Promise!Reports, Promise!Calls, Calls
<1> QED
  BY <1>9, <1>10 DEF Lives, Promise!Next

LEMMA ApprovalWaitLives ==
    ASSUME LifeInv, NEW w \in Workers, PersistApprovalWait(w)
    PROVE  Lives
<1>0. TypeInv /\ LedgerInv /\ Open
  BY DEF LifeInv, LedgerInv, ControlInv
<1>1. PICK r \in Runs, c \in Calls :
        /\ session[w].run = r /\ run[r].consumedSteps = c
        /\ OnlyRun(r)
        /\ run'[r].status = "waiting_for_admin" /\ run'[r].wait.call = c
        /\ toolCalls[r][c] = "none"
        /\ OneCell(approvals', approvals, r, c, "pending")
        /\ UNCHANGED <<emails, results, job>>
  BY <1>0, ApprovalWaitChange
<1>2. session[w].pc = "model" /\ LeaseHeld(w)
  BY DEF PersistApprovalWait, At, Persist
<1>3. run[r].status = "running"
  BY <1>0, <1>1, <1>2, ModelRuns
<1>4. run'[r].consumedSteps = run[r].consumedSteps
  BY <1>0, <1>1, <1>2, ApprovalWaitMove DEF WriteMove
<1>5. approvals[r][c] = "none" /\ job[r].call # c
  BY <1>0, <1>1, NewCall DEF LedgerInv, BooksInv, Reported, JobAgrees
<1>6. AnswerTo(r, c) = "none" /\ NewAnswer(r, c, "pending")
  BY <1>1, <1>5 DEF NewAnswer, AnswerTo, OneCell
<1>7. OtherLives(r)
  BY <1>1, OneLife
<1>8. Promise!Defer(r, "waiting_for_admin", "pending") /\ Open'
  BY <1>0, <1>1, <1>3, <1>4, <1>6, <1>7, IsDeferred DEF Waiting
<1>9. Promise!AskApproval(r)
  BY <1>8 DEF Promise!AskApproval
<1> QED
  BY <1>8, <1>9 DEF Lives, Promise!Next

LEMMA CompleteJobLives ==
    ASSUME LifeInv, NEW r \in Runs, CompleteReportJob(r)
    PROVE  Lives
<1>0. TypeInv /\ BooksInv /\ Open
  BY DEF LifeInv, LedgerInv, ControlInv
<1>1. PICK c \in Calls :
        /\ OtherJobs(r) /\ job[r].call = c
        /\ job[r].status \in {"queued", "running", "completed"}
        /\ job'[r].call = c /\ job'[r].status = "completed"
        /\ job[r].status # "completed" =>
              run[r].status = "waiting_for_tool" /\ toolCalls[r][c] = "waiting_job"
        /\ UNCHANGED <<run, approvals, emails, results>>
  BY <1>0, CompleteJobChange DEF BooksInv
<1>2. CASE job[r].status = "completed"
  BY <1>0, <1>1, <1>2, AnswersStay, Unseen DEF SameJob, OtherJobs, SameLife
<1>3. CASE job[r].status # "completed"
  <2>1. WaitsFor(r) = c /\ approvals[r][c] = "none"
    BY <1>0, <1>1, <1>3 DEF BooksInv, Awaited, WaitAgrees, Answered, AnswerOf, WaitsFor, Waiting
  <2>2. AnswerTo(r, c) = "ordered" /\ NewAnswer(r, c, "made")
    BY <1>1, <1>3, <2>1 DEF AnswerTo, NewAnswer, OtherJobs
  <2>3. Promise!Answer(r, "ordered", "made") /\ Open'
    BY <1>0, <1>1, <2>1, <2>2, IsAnswered
  <2> QED
    BY <2>3 DEF Promise!MakeReport, Lives, Promise!Next
<1> QED
  BY <1>2, <1>3

\* A decision, in time or too late, meets a run that waits for it.
LEMMA DecisionLives ==
    ASSUME LifeInv, NEW r \in Runs, AdminStep(r)
    PROVE  Lives
<1>0. TypeInv /\ Open
  BY DEF LifeInv, LedgerInv, ControlInv
<1>1. PICK c \in Calls, decision \in {"approved", "rejected", "expired"} :
        /\ approvals[r][c] = "pending"
        /\ OneCell(approvals', approvals, r, c, decision)
        /\ UNCHANGED <<run, emails, results, job>>
  BY <1>0, DecideChange, ExpireChange DEF AdminStep
<1>2. AnswerTo(r, c) = "pending" /\ NewAnswer(r, c, decision)
  BY <1>1 DEF AnswerTo, NewAnswer, OneCell
<1>3. run[r].status = "waiting_for_admin" /\ WaitsFor(r) = c
  BY <1>0, <1>2 DEF Open, OpenAt
<1>4. Promise!Answer(r, "pending", decision) /\ Open'
  BY <1>0, <1>1, <1>2, <1>3, IsAnswered
<1>5. Promise!Decide(r)
  BY <1>3, <1>4 DEF Promise!Decide
<1> QED
  BY <1>4, <1>5 DEF Lives, Promise!Next

LEMMA StepLives ==
    ASSUME LifeInv, Next
    PROVE  Lives
<1>1. Move
  BY StepMove DEF LifeInv, LedgerInv, ControlInv
<1>2. ASSUME NEW w \in Workers, WorkerWrites(w)
      PROVE  Lives
  BY <1>2, UnseenHandlers, OutcomeLives, SendLives, SettleLives, ReportWaitLives,
     ApprovalWaitLives DEF WorkerWrites
<1>3. ASSUME NEW r \in Runs, OthersWrite(r)
      PROVE  Lives
  BY <1>3, UnseenHandlers, CompleteJobLives, DecisionLives DEF OthersWrite
<1> QED
  BY <1>1, <1>2, <1>3, QuietLives, StepWrites

(*****************************************************************************)
(* A call is deferred in one way only, and the run keeps its promise.        *)
(*****************************************************************************)

LEMMA OneKindStep ==
    ASSUME LifeInv, Next
    PROVE  OneKind'
<1> USE DEF LifeInv, LedgerInv, ControlInv, EmailInv
<1>1. CASE /\ \A q \in Runs : job'[q].call = job[q].call
           /\ approvals' = approvals
  BY <1>1 DEF OneKind
<1>2. ASSUME NEW w \in Workers, PersistReportWait(w)
      PROVE  OneKind'
  BY <1>2, ReportWaitChange, NewCall DEF OneKind
<1>3. ASSUME NEW w \in Workers, PersistApprovalWait(w)
      PROVE  OneKind'
  <2>1. PICK r \in Runs, c \in Calls :
            /\ toolCalls[r][c] = "none" /\ OneCell(approvals', approvals, r, c, "pending")
            /\ job' = job
    BY <1>3, ApprovalWaitChange
  <2>2. job[r].call # c
    BY <2>1, NewCall DEF BooksInv, Reported, JobAgrees
  <2> QED
    BY <2>1, <2>2 DEF OneKind, OneCell
<1>4. ASSUME NEW w \in Workers, WorkerWrites(w), ~PersistReportWait(w), ~PersistApprovalWait(w)
      PROVE  OneKind'
  BY <1>1, <1>4, ReserveChange, ExecuteChange, CompleteSendChange, SettleChange, OutcomeChange,
     EnqueueChange, MarkChange DEF WorkerWrites, OtherJobs
<1>5. ASSUME NEW r \in Runs, OthersWrite(r), ~AdminStep(r)
      PROVE  OneKind'
  BY <1>1, <1>5, DeliveryChange, CompleteJobChange DEF OthersWrite, OtherJobs, BooksInv
<1>6. ASSUME NEW r \in Runs, AdminStep(r)
      PROVE  OneKind'
  <2>1. PICK c \in Calls, decision \in {"approved", "rejected", "expired"} :
            /\ approvals[r][c] = "pending"
            /\ OneCell(approvals', approvals, r, c, decision)
            /\ job' = job
    BY <1>6, DecideChange, ExpireChange DEF AdminStep
  <2> QED
    BY <2>1 DEF OneKind, OneCell
<1> QED
  BY <1>1, <1>2, <1>3, <1>4, <1>5, <1>6, StepWrites DEF Quiet

LEMMA LifeInit == Init => LifeInv /\ Promise!Init
<1> SUFFICES ASSUME Init
             PROVE  LifeInv /\ Promise!Init
  OBVIOUS
<1>1. LedgerInv
  BY LedgerInit
<1>2. \A r \in Runs : /\ run[r].status = "queued" /\ run[r].consumedSteps = 0
                      /\ WaitsFor(r) = 0 /\ job[r].call = 0
  BY DEF Init, WaitsFor, Waiting, NoJob
<1>3. \A r \in Runs, c \in Calls : approvals[r][c] = "none" /\ AnswerTo(r, c) = "none"
  BY <1>2, ConstantFacts DEF Init, AnswerTo, Calls
<1>4. /\ emails = [r \in Runs |-> [c \in Calls |-> 0]]
      /\ results = [r \in Runs |-> [c \in Calls |-> 0]]
  BY DEF Init
<1>5. OneKind /\ Open
  BY <1>3 DEF OneKind, Open, OpenAt
<1>6. Promise!Init
  BY <1>2, <1>3, <1>4 DEF Promise!Init, Promise!Calls, Calls
<1> QED
  BY <1>1, <1>5, <1>6 DEF LifeInv

LEMMA LifeStep == LifeInv /\ [Next]_vars => LifeInv' /\ Lives
<1> SUFFICES ASSUME LifeInv, [Next]_vars
             PROVE  LifeInv' /\ Lives
  OBVIOUS
<1>1. LedgerInv'
  BY LedgerKept DEF LifeInv
<1>2. CASE Next
  <2>1. OneKind' /\ Lives
    BY <1>2, OneKindStep, StepLives
  <2> QED
    BY <1>1, <2>1 DEF LifeInv, Lives
<1>3. CASE UNCHANGED vars
  <2>1. UNCHANGED <<run, approvals, job, emails, results>>
    BY <1>3 DEF vars
  <2>2. OneKind' /\ Lives
    BY <2>1, AnswersStay, Unseen DEF LifeInv, OneKind, SameLife, SameJob
  <2> QED
    BY <1>1, <2>2 DEF LifeInv, Lives
<1> QED
  BY <1>2, <1>3

\* For every value of the constants, whoever crashes and however stale the worker
\* that acts: a run driven by the simple loop lives as RunLifecycle says.  It takes
\* its steps within the budget, has one call outstanding at most, waits for that
\* one, is told its answer once and only when there is one, and every message
\* leaves while its run still waits for it.
THEOREM LoopKeepsPromise == Spec => RunPromise
<1>1. Init => Promise!Init
  BY LifeInit
<1>2. LifeInv /\ [Next]_vars => [Promise!Next]_(Promise!vars)
  BY LifeStep DEF Lives
<1>3. Spec => []LifeInv
  BY LifeInit, LifeStep, PTL DEF Spec
<1> QED
  BY <1>1, <1>2, <1>3, PTL DEF Spec, RunPromise, Promise!Spec
=============================================================================
