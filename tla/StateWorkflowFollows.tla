------------------------- MODULE StateWorkflowFollows -------------------------
(*****************************************************************************)
(* The workflow follows the run, as long as at most one fault has happened.  *)
(* A fault leaves at most one attempt that the server gave up and that still *)
(* runs, or one that is about to fail a run that waits for its report.  The  *)
(* rest follows what such an attempt can still write to the row: nothing     *)
(* while the run waits, but for the answer the workflow itself has taken.    *)
(*****************************************************************************)
EXTENDS StateWorkflowProofs

\* Locations of an attempt of advanceRun and of applySignal, before their answers.
Looping == {"advance", "prompt", "model", "enqueue", "mark", "finish"}
Serving == {"apply"} \cup Applying

Places(phase) ==
    CASE phase = "start" -> {"start", "return"}
      [] phase = "advance" -> Looping \cup {"return"}
      [] phase = "apply" -> Serving \cup {"return"}
      [] OTHER -> {}

AnswersOf(phase) ==
    CASE phase = "start" -> {"reconciled"}
      [] phase = "advance" -> {"wait", "complete", "fail"}
      [] phase = "apply" -> {"applied", "ignored"}
      [] OTHER -> {}

On(x, r) == session[x].pc # "idle" /\ session[x].run = r

\* An attempt the server gave up, and one that is about to fail a run that waits.
Orphan(x) == session[x].pc # "idle" /\ ~session[x].awaited

GivesUp(x) ==
    /\ session[x].pc = "finish" /\ Current(x)
    /\ run[session[x].run].status = "waiting_for_tool"

\* The workflow and the row name the same wait.
WaitsAs(r) ==
    /\ run[r].wait = workflow[r].wait /\ run[r].status = workflow[r].status
    /\ run[r].status \in Waiting

\* The server awaits one attempt of a workflow's current activity at a time.
Expects(x) ==
    LET s == session[x]
        wf == workflow[session[x].run] IN
    s.awaited =>
        /\ wf.task = "started" /\ s.pc \in Places(wf.phase) /\ s.signal = wf.input
        /\ s.pc = "return" => s.result \in AnswersOf(wf.phase)
        /\ \A y \in Slots : (session[y].awaited /\ session[y].run = s.run) => y = x

Expected == \A x \in Slots : Expects(x)

Heard == \A x \in Slots : session[x].pc \in Serving => session[x].signal # NoSignal

Shape(wf) ==
    /\ wf.task # "none" => wf.phase \in {"start", "advance", "apply"}
    /\ wf.phase \in {"absent", "start", "advance"} => wf.wait = NoWait
    /\ wf.phase = "apply" => wf.input # NoSignal

Shaped == \A r \in Runs : Shape(workflow[r])

\* A wait is answered by one intent.
Distinct ==
    \A i, j \in 1..Len(outbox) :
        (i # j /\ outbox[i].run = outbox[j].run)
            => WaitOf(outbox[i].signal) # WaitOf(outbox[j].signal)

\* The intents that have not been delivered yet.
Undelivered == {i \in 1..Len(outbox) : i > 1 \/ reconciler = "idle"}

\* A run no fault has touched: its one attempt is awaited and has the row's version,
\* and an intent for it finds its workflow open.
Calm(q) ==
    /\ \A x \in Slots : On(x, q) =>
        session[x].awaited /\ (session[x].pc \in Fenced => Current(x)) /\ ~GivesUp(x)
    /\ workflow[q].task = "started" => \E x \in Slots : On(x, q)
    /\ workflow[q].accepted = NoSignal
    /\ workflow[q].phase \in {"absent", "start"} => run[q].status = "queued"
    /\ (workflow[q].phase \in {"apply", "failed"} /\ run[q].status \in Waiting)
            => WaitOf(workflow[q].input) = run[q].wait
    /\ \A i \in Undelivered : outbox[i].run = q =>
        /\ run[q].wait = WaitOf(outbox[i].signal) /\ run[q].status \in Waiting
        /\ workflow[q].phase \in {"advance", "wait"}

OneFault ==
    /\ \A x \in Slots : (Orphan(x) \/ GivesUp(x)) => faults >= 1
    /\ \A x, y \in Slots : (Orphan(x) /\ Orphan(y)) => x = y
    /\ \A x \in Slots : GivesUp(x) => session[x].awaited /\ \A y \in Slots : ~Orphan(y)

\* The fault was the orphan's.
Blame ==
    /\ faults = 0 => \A q \in Runs : Calm(q)
    /\ \A x \in Slots : Orphan(x) => \A q \in Runs \ {session[x].run} : Calm(q)

\* An orphan that could still answer the run's wait has the signal the workflow took.
Late(x) ==
    LET s == session[x]
        wf == workflow[session[x].run] IN
    (Orphan(x) /\ s.pc \in Serving /\ run[s.run].wait = WaitOf(s.signal)) =>
        wf.phase = "failed" \/ (wf.phase = "apply" /\ wf.input = s.signal)

\* What an awaited attempt is going to answer is true of the row.
TellsWait(s) == s.pc \in {"enqueue", "mark"} \/ (s.pc = "return" /\ s.result = "wait")

Says(x) ==
    LET s == session[x]
        row == run[session[x].run] IN
    s.awaited =>
        /\ TellsWait(s) =>
            s.wait # NoWait /\ row.wait = s.wait /\ row.status = WaitStatus(s.wait)
        /\ (s.pc = "return" /\ s.result = "complete") => row.status = "completed"
        /\ (s.pc = "return" /\ s.result = "fail") => row.status = "failed"
        /\ (s.pc = "return" /\ s.result = "applied") => row.wait # WaitOf(s.signal)
        /\ (s.pc = "return" /\ s.result = "ignored") =>
            row.wait # WaitOf(s.signal) /\ WaitsAs(s.run)

\* The attempt that brought the run out of its wait, which only an orphan's fault
\* let go on before the workflow heard of it.
Applied(r) ==
    /\ faults = 1
    /\ \E x \in Slots : /\ session[x].awaited /\ session[x].run = r
                        /\ session[x].pc = "return" /\ session[x].result = "applied"
    /\ \A q \in Runs \ {r} : Calm(q)

BackAgain(r) ==
    /\ run[r].status = "running" /\ run[r].wait = NoWait
    /\ \A x \in Slots : (Orphan(x) /\ session[x].run = r) => session[x].pc \notin Looping

Follows(r) ==
    /\ workflow[r].phase = "wait" => WaitsAs(r)
    /\ workflow[r].phase = "returned" =>
        workflow[r].status = run[r].status /\ run[r].status \in Terminal
    /\ workflow[r].phase = "apply" => WaitsAs(r) \/ Applied(r) \/ BackAgain(r)

SoloInv ==
    /\ OneFault /\ Blame
    /\ \A x \in Slots : Late(x) /\ Says(x)
    /\ \A r \in Runs : Follows(r)

FollowInv ==
    /\ LifeInv /\ Expected /\ Heard /\ Shaped /\ Distinct
    /\ faults <= 1 => SoloInv

(*****************************************************************************)
(* What an attempt does when it goes on.                                     *)
(*****************************************************************************)

\* An attempt goes on to another place of its activity, or to its answer.
Goes(x) ==
    LET s == session[x]
        t == session'[x] IN
    /\ OnlySession(x) /\ UNCHANGED <<workflow, outbox, reconciler>>
    /\ s.pc # "return" /\ SameAttempt(s, t) /\ t.awaited = s.awaited
    /\ \/ s.pc = "start" /\ t.pc = "return" /\ t.result = "reconciled"
       \/ /\ s.pc \in Looping /\ t.pc \in Looping \cup {"return"}
          /\ t.pc = "return" => t.result \in AnswersOf("advance")
       \/ /\ s.pc \in Serving /\ t.pc \in Serving \cup {"return"}
          /\ t.pc = "return" => t.result \in AnswersOf("apply")
    /\ \/ faults' = faults /\ (s.pc \in {"enqueue", "mark"} => t.pc # "finish")
       \/ Fault

\* What it answers from then on.
NowSays(x) ==
    LET s == session[x]
        t == session'[x]
        row == run[session[x].run]
        new == run'[session[x].run] IN
    /\ TellsWait(t) =>
        \/ s.pc \in {"enqueue", "mark"} /\ t.wait = s.wait /\ UNCHANGED run
        \/ t.wait # NoWait /\ new.wait = t.wait /\ new.status = WaitStatus(t.wait)
    /\ (t.pc = "return" /\ t.result = "complete") => new.status = "completed"
    /\ (t.pc = "return" /\ t.result = "fail") => new.status = "failed"
    /\ (t.pc = "return" /\ t.result = "applied") => new.wait = NoWait
    /\ (t.pc = "return" /\ t.result = "ignored") =>
        /\ s.pc = "apply" /\ UNCHANGED run
        /\ row.wait # WaitOf(s.signal) /\ ~(row.wait = NoWait /\ row.status = "running")

LEMMA AnswerFacts ==
    ASSUME TypeInv, NEW x \in Slots, session[x].pc # "idle", NEW result \in Results,
           Answer(x, result)
    PROVE  /\ OnlySession(x) /\ SameAttempt(session[x], session'[x])
           /\ session'[x].pc = "return" /\ session'[x].result = result
           /\ session'[x].awaited = session[x].awaited /\ session'[x].wait = session[x].wait
<1>1. PICK t : t = [session[x] EXCEPT !.pc = "return", !.result = result] /\ Becomes(x, t)
  BY DEF Answer
<1>2. /\ t \in Sessions /\ t.pc = "return" /\ t.result = result
      /\ t.run = session[x].run /\ t.signal = session[x].signal
      /\ t.awaited = session[x].awaited /\ t.wait = session[x].wait
  BY <1>1, SessionTypes DEF Sessions
<1> QED
  BY <1>1, <1>2, SessionUpdate DEF SameAttempt

\* An attempt that goes on without an answer, and does not come to a wait.
LEMMA OnTheWay ==
    ASSUME TypeInv, NEW x \in Slots, OnlySession(x), UNCHANGED <<workflow, outbox, reconciler>>,
           SameAttempt(session[x], session'[x]), session'[x].awaited = session[x].awaited,
           \/ session[x].pc \in Looping /\ session'[x].pc \in Looping \ {"enqueue", "mark"}
           \/ session[x].pc \in Serving /\ session'[x].pc \in Serving,
           \/ Fault
           \/ /\ faults' = faults
              /\ session[x].pc \in {"enqueue", "mark"} => session'[x].pc # "finish"
    PROVE  Goes(x) /\ NowSays(x)
<1>1. session[x].pc # "return" /\ session'[x].pc \notin {"return", "enqueue", "mark"}
  BY DEF Looping, Serving, Applying
<1> QED
  BY <1>1 DEF Goes, NowSays, TellsWait

LEMMA ToolGoes ==
    ASSUME TypeInv, NEW x \in Slots,
           \/ PersistStateWorkflowSkill(x) \/ SkillRefused(x) \/ Recorded(x)
           \/ BudgetExhausted(x) \/ FailBeforeStep(x) \/ EndGeneration(x) \/ HandOverFails(x)
    PROVE  Goes(x) /\ NowSays(x)
<1>1. /\ session[x].pc \in {"prompt", "model", "enqueue", "mark"}
      /\ session[x].version \in Nat /\ session[x].fatal \in BOOLEAN
      /\ UNCHANGED <<workflow, outbox, reconciler>>
      /\ \/ faults' = faults /\ session[x].pc \in {"prompt", "model"}
         \/ Fault
  BY SessionTypes DEF PersistStateWorkflowSkill, SkillRefused, Recorded, PersistToolOutcome,
     PersistMappedToolFailure, BudgetExhausted, FailBeforeStep, EndGeneration, HandOverFails,
     At, dbVars
<1>2. \/ \E version \in Nat, fatal \in BOOLEAN : AfterTool(x, version, fatal)
      \/ \E version \in Nat : FailRun(x, version)
      \/ Go(x, "finish")
  <2>1. PICK version \in Nat, fatal \in BOOLEAN :
          version = session[x].version /\ fatal = session[x].fatal
    BY ONLY <1>1, Zenon
  <2>2. PICK next \in Nat : next = version + 1
    BY ONLY version \in Nat
  <2>3. \/ AfterTool(x, version, TRUE) \/ AfterTool(x, next, fatal)
        \/ FailRun(x, version) \/ FailRun(x, next) \/ Go(x, "finish")
    BY <2>1, <2>2 DEF PersistStateWorkflowSkill, SkillRefused, Recorded, PersistToolOutcome,
       PersistMappedToolFailure, BudgetExhausted, FailBeforeStep, EndGeneration, HandOverFails
  <2> QED
    BY <2>3
<1>3. /\ OnlySession(x) /\ SameAttempt(session[x], session'[x])
      /\ session'[x].pc \in {"prompt", "finish"} /\ session'[x].awaited = session[x].awaited
  BY <1>1, <1>2, ToolFacts, FailRunFacts, GoFacts
<1> QED
  BY <1>1, <1>3, OnTheWay DEF Looping

LEMMA SendGoes ==
    ASSUME TypeInv, NEW x \in Slots, Sending(x)
    PROVE  Goes(x) /\ NowSays(x)
<1>1. /\ session[x].pc \in {"reserve", "send", "sent"}
      /\ UNCHANGED <<workflow, outbox, reconciler, faults>>
      /\ \E pc \in {"send", "sent", "settle"} : Go(x, pc)
  BY DEF Sending, ReserveSimulatedSend, ExecuteApprovedSend, CompleteSimulatedSend, At, dbVars
<1>2. /\ OnlySession(x) /\ SameAttempt(session[x], session'[x])
      /\ session'[x].pc \in {"send", "sent", "settle"}
      /\ session'[x].awaited = session[x].awaited
  BY <1>1, GoFacts
<1> QED
  BY <1>1, <1>2, OnTheWay DEF Serving, Applying

LEMMA ConsumeGoes ==
    ASSUME TypeInv, NEW x \in Slots, ConsumeStateWorkflowStep(x)
    PROVE  Goes(x) /\ NowSays(x)
<1>1. session[x].pc = "prompt" /\ UNCHANGED <<workflow, outbox, reconciler, faults>>
  BY DEF ConsumeStateWorkflowStep, At
<1>2. PICK version \in Nat : version = session[x].version + 1
  BY SessionTypes
<1>3. PICK t : t = [session[x] EXCEPT !.pc = "model", !.version = version] /\ Becomes(x, t)
  BY <1>2 DEF ConsumeStateWorkflowStep
<1>4. /\ t \in Sessions /\ t.pc = "model" /\ t.run = session[x].run
      /\ t.signal = session[x].signal /\ t.awaited = session[x].awaited
  BY <1>1, <1>2, <1>3, SessionTypes DEF Sessions
<1>5. OnlySession(x) /\ session'[x] = t
  BY <1>3, <1>4, SessionUpdate
<1> QED
  BY <1>1, <1>4, <1>5, OnTheWay DEF Looping, SameAttempt

LEMMA RefusedGoes ==
    ASSUME TypeInv, NEW x \in Slots, ReportRefused(x)
    PROVE  Goes(x) /\ NowSays(x)
<1>1. session[x].pc = "model" /\ UNCHANGED <<workflow, outbox, reconciler, faults>>
  BY DEF ReportRefused, At, dbVars
<1>2. PICK wait \in Waits : wait = [kind |-> "report", call |-> run[session[x].run].consumedSteps]
  BY <1>1, ModelCall
<1>3. PICK t : /\ t = [session[x] EXCEPT !.pc = "finish", !.fatal = TRUE, !.wait = wait]
               /\ Becomes(x, t)
  BY <1>2 DEF ReportRefused
<1>4. /\ t \in Sessions /\ t.pc = "finish" /\ t.run = session[x].run
      /\ t.signal = session[x].signal /\ t.awaited = session[x].awaited
  BY <1>1, <1>2, <1>3, SessionTypes DEF Sessions
<1>5. OnlySession(x) /\ session'[x] = t
  BY <1>3, <1>4, SessionUpdate
<1> QED
  BY <1>1, <1>4, <1>5, OnTheWay DEF Looping, SameAttempt

LEMMA HandOverGoes ==
    ASSUME TypeInv, NEW x \in Slots, EnqueueReport(x) \/ MarkReportDispatched(x)
    PROVE  Goes(x) /\ NowSays(x)
<1>1. /\ session[x].pc \in {"enqueue", "mark"} /\ UNCHANGED run
      /\ UNCHANGED <<workflow, outbox, reconciler, faults>> /\ "wait" \in Results
  BY DEF EnqueueReport, MarkReportDispatched, At, dbVars, Results
<1>2. /\ OnlySession(x) /\ SameAttempt(session[x], session'[x])
      /\ session'[x].awaited = session[x].awaited /\ session'[x].wait = session[x].wait
      /\ \/ session'[x].pc = "mark"
         \/ session'[x].pc = "return" /\ session'[x].result = "wait"
  BY <1>1, GoFacts, AnswerFacts DEF EnqueueReport, MarkReportDispatched
<1>3. Goes(x)
  BY <1>1, <1>2 DEF Goes, Looping, AnswersOf
<1>4. NowSays(x)
  BY <1>1, <1>2 DEF NowSays
<1> QED
  BY <1>3, <1>4

LEMMA StartGoes ==
    ASSUME TypeInv, NEW x \in Slots, ReconcileStart(x)
    PROVE  Goes(x) /\ NowSays(x)
<1>1. /\ session[x].pc = "start" /\ "reconciled" \in Results /\ Answer(x, "reconciled")
      /\ UNCHANGED <<workflow, outbox, reconciler, faults>>
  BY DEF ReconcileStart, At, Results
<1>2. /\ OnlySession(x) /\ SameAttempt(session[x], session'[x])
      /\ session'[x].pc = "return" /\ session'[x].result = "reconciled"
      /\ session'[x].awaited = session[x].awaited
  BY <1>1, AnswerFacts
<1> QED
  BY <1>1, <1>2 DEF Goes, NowSays, TellsWait

LEMMA ReadRunGoes ==
    ASSUME Inv, NEW x \in Slots, ReadRun(x)
    PROVE  Goes(x) /\ NowSays(x)
<1>0. TypeInv /\ FenceInv
  BY DEF Inv
<1>1. PICK r \in Runs, row \in RunRows :
        /\ session[x].pc = "advance" /\ r = session[x].run /\ row = run[r]
        /\ UNCHANGED <<run, workflow, outbox, reconciler, faults>>
  BY <1>0, SessionTypes DEF ReadRun, At, dbVars
<1>2. PICK result \in {"complete", "fail", "wait", "none"} :
        /\ result = "complete" => row.status = "completed"
        /\ result = "fail" => row.status = "failed"
        /\ result = "wait" => row.wait # NoWait /\ row.status \notin Terminal \cup {"running"}
        /\ Becomes(x, [session[x] EXCEPT
                        !.version = row.version, !.wait = row.wait, !.fatal = row.fatal,
                        !.pc = IF result = "none" THEN "prompt" ELSE "return",
                        !.result = result])
  <2>1. PICK result : /\ result = CASE row.status = "completed" -> "complete"
                                     [] row.status = "failed" -> "fail"
                                     [] /\ row.wait # NoWait
                                        /\ row.status \notin Terminal \cup {"running"} -> "wait"
                                     [] OTHER -> "none"
                      /\ Becomes(x, [session[x] EXCEPT
                            !.version = row.version, !.wait = row.wait, !.fatal = row.fatal,
                            !.pc = IF result = "none" THEN "prompt" ELSE "return",
                            !.result = result])
    BY <1>1 DEF ReadRun
  <2>2. /\ result \in {"complete", "fail", "wait", "none"}
        /\ result = "complete" => row.status = "completed"
        /\ result = "fail" => row.status = "failed"
        /\ result = "wait" => row.wait # NoWait /\ row.status \notin Terminal \cup {"running"}
    BY <2>1 DEF Terminal
  <2> QED
    BY <2>1, <2>2
<1>3. PICK t : /\ t = [session[x] EXCEPT
                        !.version = row.version, !.wait = row.wait, !.fatal = row.fatal,
                        !.pc = IF result = "none" THEN "prompt" ELSE "return",
                        !.result = result]
               /\ Becomes(x, t)
  BY <1>2
<1>4. row.version \in Nat /\ row.wait \in Waits /\ row.fatal \in BOOLEAN /\ result \in Results
  BY <1>1, <1>2, RowTypes DEF Results
<1>5. /\ t \in Sessions /\ t.wait = row.wait /\ t.result = result
      /\ t.run = session[x].run /\ t.signal = session[x].signal
      /\ t.awaited = session[x].awaited
      /\ t.pc = IF result = "none" THEN "prompt" ELSE "return"
  BY <1>0, <1>3, <1>4, SessionTypes DEF Sessions
<1>6. OnlySession(x) /\ session'[x] = t /\ SameAttempt(session[x], t)
  BY <1>0, <1>1, <1>3, <1>5, SessionUpdate DEF SameAttempt
<1>7. Goes(x)
  BY <1>1, <1>2, <1>5, <1>6 DEF Goes, Looping, AnswersOf
<1>8. result = "wait" => row.status = WaitStatus(row.wait)
  <2>1. row.status \in Statuses /\ RowOK(row, toolCalls[r], results[r])
    BY <1>0, <1>1, RowTypes DEF FenceInv, Rows
  <2> QED
    BY <1>2, <2>1 DEF RowOK, WaitStatus, Statuses, Waiting, Terminal
<1>9. NowSays(x)
  BY <1>1, <1>2, <1>5, <1>6, <1>8 DEF NowSays, TellsWait
<1> QED
  BY <1>7, <1>9

\* Defer and complete: the row's fields are WriteMove's.
LEMMA DeferGoes ==
    ASSUME Inv, NEW x \in Slots, PersistReportWait(x) \/ PersistApprovalWait(x)
    PROVE  Goes(x) /\ NowSays(x)
<1>0. TypeInv /\ WriteMove(x)
  BY DeferMove DEF Inv
<1>1. /\ session[x].pc = "model" /\ session[x].version \in Nat
      /\ UNCHANGED <<workflow, outbox, reconciler, faults>>
  BY <1>0, SessionTypes DEF PersistReportWait, PersistApprovalWait, At
<1>2. PICK version \in Nat, kind \in {"report", "approval"}, wait \in Waits :
        /\ version = session[x].version + 1
        /\ wait = [kind |-> kind, call |-> run[session[x].run].consumedSteps]
        /\ \/ /\ PersistReportWait(x)
              /\ Becomes(x, [session[x] EXCEPT !.pc = "enqueue", !.wait = wait,
                                               !.version = version])
           \/ /\ PersistApprovalWait(x)
              /\ Becomes(x, [session[x] EXCEPT !.pc = "return", !.result = "wait", !.wait = wait,
                                               !.version = version])
  <2>0. PICK version \in Nat : version = session[x].version + 1
    BY <1>1
  <2>1. CASE PersistReportWait(x)
    <3>1. PICK wait \in Waits :
            wait = [kind |-> "report", call |-> run[session[x].run].consumedSteps]
      BY <1>0, <1>1, ModelCall
    <3>2. Becomes(x, [session[x] EXCEPT !.pc = "enqueue", !.wait = wait, !.version = version])
      BY <2>0, <2>1, <3>1 DEF PersistReportWait
    <3> QED
      BY <2>0, <2>1, <3>1, <3>2
  <2>2. CASE PersistApprovalWait(x)
    <3>1. PICK wait \in Waits :
            wait = [kind |-> "approval", call |-> run[session[x].run].consumedSteps]
      BY <1>0, <1>1, ModelCall
    <3>2. Becomes(x, [session[x] EXCEPT !.pc = "return", !.result = "wait", !.wait = wait,
                                        !.version = version])
      BY <2>0, <2>2, <3>1 DEF PersistApprovalWait
    <3> QED
      BY <2>0, <2>2, <3>1, <3>2
  <2> QED
    BY <2>1, <2>2
<1>3. PICK t : /\ \/ t = [session[x] EXCEPT !.pc = "enqueue", !.wait = wait, !.version = version]
                  \/ t = [session[x] EXCEPT !.pc = "return", !.result = "wait", !.wait = wait,
                                            !.version = version]
               /\ Becomes(x, t)
  BY <1>2
<1>4. /\ t \in Sessions /\ t.run = session[x].run /\ t.signal = session[x].signal
      /\ t.awaited = session[x].awaited
      /\ t.pc = "enqueue" \/ (t.pc = "return" /\ t.result = "wait")
  BY <1>0, <1>1, <1>2, <1>3, SessionTypes DEF Sessions, Results
<1>5. OnlySession(x) /\ session'[x] = t
  BY <1>0, <1>3, <1>4, SessionUpdate
<1>6. Goes(x)
  BY <1>1, <1>4, <1>5 DEF Goes, Looping, AnswersOf, SameAttempt
<1>7. PICK r \in Runs : r = session[x].run
  BY <1>0 DEF WriteMove
<1>8. /\ t.wait = run'[r].wait /\ run'[r].wait # NoWait
      /\ \/ run'[r].status = "waiting_for_tool" /\ run'[r].wait.kind = "report"
         \/ run'[r].status = "waiting_for_admin" /\ run'[r].wait.kind = "approval"
  <2>1. t.pc \notin {"prompt", "finish", "model"}
    BY <1>4
  <2> QED
    BY <1>0, <1>1, <1>5, <1>7, <2>1 DEF WriteMove
<1>9. run'[r].status = WaitStatus(run'[r].wait)
  BY <1>8 DEF WaitStatus
<1>10. NowSays(x)
  BY <1>4, <1>5, <1>7, <1>8, <1>9 DEF NowSays
<1> QED
  BY <1>6, <1>10

LEMMA CompleteGoes ==
    ASSUME Inv, NEW x \in Slots, CompleteStateWorkflowRun(x)
    PROVE  Goes(x) /\ NowSays(x)
<1>0. TypeInv /\ WriteMove(x)
  BY CompleteMove DEF Inv
<1>1. session[x].pc = "finish" /\ UNCHANGED <<workflow, outbox, reconciler, faults>>
  BY DEF CompleteStateWorkflowRun, At
<1>2. PICK result \in Results :
        /\ Answer(x, result)
        /\ result = IF session[x].fatal THEN "fail" ELSE "complete"
  BY DEF CompleteStateWorkflowRun, Results, Answer
<1>3. /\ OnlySession(x) /\ SameAttempt(session[x], session'[x])
      /\ session'[x].pc = "return" /\ session'[x].result = result
      /\ session'[x].awaited = session[x].awaited
  BY <1>0, <1>1, <1>2, AnswerFacts
<1>4. Goes(x)
  BY <1>1, <1>2, <1>3 DEF Goes, Looping, AnswersOf
<1>5. run'[session[x].run].status = IF session[x].fatal THEN "failed" ELSE "completed"
  BY <1>0, <1>1 DEF WriteMove
<1>6. NowSays(x)
  BY <1>2, <1>3, <1>5 DEF NowSays, TellsWait
<1> QED
  BY <1>4, <1>6

LEMMA ResolveGoes ==
    ASSUME Inv, NEW x \in Slots, ResolveStateWorkflowWait(x)
    PROVE  Goes(x) /\ NowSays(x)
<1>0. TypeInv /\ WriteMove(x)
  BY ResolveMove DEF Inv
<1>1. /\ session[x].pc = "settle" /\ UNCHANGED <<workflow, outbox, reconciler, faults>>
      /\ "applied" \in Results /\ Answer(x, "applied")
  BY DEF ResolveStateWorkflowWait, At, Results
<1>3. /\ OnlySession(x) /\ SameAttempt(session[x], session'[x])
      /\ session'[x].pc = "return" /\ session'[x].result = "applied"
      /\ session'[x].awaited = session[x].awaited
  BY <1>0, <1>1, AnswerFacts
<1>4. Goes(x)
  BY <1>1, <1>3 DEF Goes, Serving, Applying, AnswersOf
<1>5. run'[session[x].run].wait = NoWait
  BY <1>0, <1>1 DEF WriteMove
<1>6. NowSays(x)
  BY <1>3, <1>5 DEF NowSays, TellsWait
<1> QED
  BY <1>4, <1>6

LEMMA ReadWaitGoes ==
    ASSUME Inv, Heard, NEW x \in Slots, ReadWait(x)
    PROVE  Goes(x) /\ NowSays(x)
<1>0. TypeInv /\ IsTrue(session[x].run, session[x].signal)
  BY DEF Inv, BooksInv, TrueSignals, ReadWait, At
<1>1. PICK r \in Runs, row \in RunRows, signal \in Signals :
        /\ session[x].pc = "apply" /\ r = session[x].run /\ row = run[r]
        /\ signal = session[x].signal
        /\ UNCHANGED <<run, workflow, outbox, reconciler, faults>>
  BY <1>0, SessionTypes DEF ReadWait, At, dbVars
<1>2. PICK read : read = [session[x] EXCEPT !.version = row.version, !.wait = row.wait,
                                            !.fatal = row.fatal]
  OBVIOUS
<1>3. /\ read \in Sessions /\ read.run = session[x].run /\ read.signal = session[x].signal
      /\ read.awaited = session[x].awaited
  BY <1>0, <1>1, <1>2, RowTypes, SessionTypes DEF Sessions
<1>4. CASE Answers(r, signal)
  <2>1. PICK pc \in {"reserve", "settle"} : pc = Execution(r, signal)
    BY DEF Execution
  <2>2. PICK t : t = [read EXCEPT !.pc = pc] /\ Becomes(x, t)
    BY <1>1, <1>2, <1>4, <2>1 DEF ReadWait
  <2>3. /\ t \in Sessions /\ t.pc = pc /\ t.run = session[x].run
        /\ t.signal = session[x].signal /\ t.awaited = session[x].awaited
    BY <1>3, <2>2 DEF Sessions
  <2>4. OnlySession(x) /\ session'[x] = t
    BY <1>0, <2>2, <2>3, SessionUpdate
  <2> QED
    BY <1>0, <1>1, <2>1, <2>3, <2>4, OnTheWay DEF Serving, Applying, SameAttempt
<1>5. CASE ~Answers(r, signal)
  <2>1. PICK result \in {"applied", "ignored"} : result = AppliedBefore(row)
    BY DEF AppliedBefore
  <2>2. PICK t : t = [read EXCEPT !.pc = "return", !.result = result] /\ Becomes(x, t)
    BY <1>1, <1>2, <1>5, <2>1 DEF ReadWait
  <2>3. /\ t \in Sessions /\ t.pc = "return" /\ t.run = session[x].run /\ t.result = result
        /\ t.signal = session[x].signal /\ t.awaited = session[x].awaited
    BY <1>3, <2>2 DEF Sessions, Results
  <2>4. OnlySession(x) /\ session'[x] = t
    BY <1>0, <2>2, <2>3, SessionUpdate
  <2>5. Goes(x)
    BY <1>1, <2>3, <2>4 DEF Goes, Serving, AnswersOf, SameAttempt
  <2>6. result = "applied" => row.wait = NoWait
    BY <2>1 DEF AppliedBefore
  <2>7. result = "ignored" => ~(row.wait = NoWait /\ row.status = "running")
    BY <2>1 DEF AppliedBefore
  <2>8. result = "ignored" => row.wait # WaitOf(signal)
    <3>1. signal # NoSignal
      BY <1>1 DEF Heard, Serving
    <3> QED
      BY <1>0, <1>1, <1>5, <3>1, SignalCalls DEF Answers, WaitOf, IsTrue
  <2>9. NowSays(x)
    BY <1>1, <2>3, <2>4, <2>6, <2>7, <2>8 DEF NowSays, TellsWait
  <2> QED
    BY <2>5, <2>9
<1> QED
  BY <1>4, <1>5

\* The steps of an attempt that goes on.
Steps(x) ==
    \/ ReconcileStart(x) \/ FailBeforeStep(x) \/ HandOverFails(x)
    \/ (AgentLoop(x) /\ ~AbandonStale(x))
    \/ (ApplySignal(x) /\ ~ReserveRefused(x))

LEMMA StepGoes ==
    ASSUME Inv, Heard, NEW x \in Slots, Steps(x)
    PROVE  Goes(x) /\ NowSays(x) /\ (SoftMove(x) \/ WriteMove(x))
<1>0. TypeInv
  BY DEF Inv
<1>1. CASE ReconcileStart(x) \/ FailBeforeStep(x) \/ HandOverFails(x)
  BY <1>0, <1>1, StartGoes, ToolGoes, AnswerMoves, LoopMoves
<1>2. CASE AgentLoop(x) /\ ~AbandonStale(x)
  <2>1. Goes(x) /\ NowSays(x)
    BY <1>0, <1>2, ReadRunGoes, ConsumeGoes, ToolGoes, RefusedGoes, HandOverGoes, DeferGoes,
       CompleteGoes DEF AgentLoop, Recorded
  <2>2. SoftMove(x) \/ WriteMove(x)
    BY <1>0, <1>2, ReadRunMove, ConsumeMove, LoopMoves, SkillMove, CallMove, DeferMove,
       ReportRefusedMove, HandOverMoves, AnswerMoves, CompleteMove DEF AgentLoop
  <2> QED
    BY <2>1, <2>2
<1>3. CASE ApplySignal(x) /\ ~ReserveRefused(x)
  <2>1. Goes(x) /\ NowSays(x)
    BY <1>0, <1>3, ReadWaitGoes, SendGoes, ResolveGoes DEF ApplySignal, Sending
  <2>2. SoftMove(x) \/ WriteMove(x)
    BY <1>0, <1>3, ReadWaitMove, HandOverMoves, ResolveMove DEF ApplySignal
  <2> QED
    BY <2>1, <2>2
<1> QED
  BY <1>1, <1>2, <1>3 DEF Steps

\* What a transaction found in the row, and how it leaves the row's wait.
Wrote(x) ==
    LET s == session[x]
        row == run[session[x].run]
        new == run'[session[x].run] IN
    /\ s.run \in Runs /\ OnlyRun(s.run) /\ Current(x)
    /\ \/ /\ s.pc \in {"prompt", "model", "finish"} /\ row.status \in {"queued", "running"}
          /\ new.wait # NoWait => toolCalls[s.run][new.wait.call] = "none"
       \/ GivesUp(x) /\ new.wait = row.wait /\ new.status = "failed"
       \/ /\ s.pc = "settle" /\ row.wait = WaitOf(s.signal) /\ row.wait # NoWait
          /\ session'[x].pc = "return" /\ new.status = "running" /\ new.wait = NoWait

LEMMA Written ==
    ASSUME Inv, NEW x \in Slots, WriteMove(x)
    PROVE  Wrote(x)
<1>0. TypeInv /\ FenceInv
  BY DEF Inv
<1>1. PICK r \in Runs : r = session[x].run /\ OnlyRun(r) /\ Current(x) /\ session[x].pc \in Fenced
  BY DEF WriteMove
<1>2. /\ MeetsOK(session[x], run[r], toolCalls[r], results[r]) /\ CarriesOK(session[x])
      /\ RowOK(run[r], toolCalls[r], results[r])
  BY <1>0, <1>1 DEF FenceInv, Met, Meets, Carries, Rows
<1>3. CASE session[x].pc = "prompt"
  <2>1. run'[r].wait = run[r].wait
    BY <1>1, <1>3 DEF WriteMove
  <2> QED
    BY <1>1, <1>2, <1>3, <2>1 DEF Wrote, MeetsOK, RowOK
<1>4. CASE session[x].pc = "model"
  <2>1. run[r].status = "running" /\ run[r].wait = NoWait
    BY <1>2, <1>4 DEF MeetsOK, RowOK
  <2>2. run'[r].wait # NoWait => toolCalls[r][run'[r].wait.call] = "none"
    BY <1>1, <1>4, <2>1 DEF WriteMove
  <2> QED
    BY <1>1, <1>4, <2>1, <2>2 DEF Wrote
<1>5. CASE session[x].pc = "finish"
  <2>1. /\ run'[r].wait = session[x].wait
        /\ run'[r].status = IF session[x].fatal THEN "failed" ELSE "completed"
    BY <1>1, <1>5 DEF WriteMove
  <2>2. \/ run[r].status = "running" /\ (session[x].wait # NoWait =>
                                            toolCalls[r][session[x].wait.call] = "none")
        \/ run[r].status = "queued" /\ session[x].wait = NoWait
        \/ run[r].status = "waiting_for_tool" /\ session[x].fatal /\ run[r].wait = session[x].wait
    BY <1>2, <1>5 DEF MeetsOK
  <2> QED
    BY <1>1, <1>5, <2>1, <2>2 DEF Wrote, GivesUp
<1>6. CASE session[x].pc = "settle"
  <2>1. run'[r].status = "running" /\ run'[r].wait = NoWait /\ session'[x].pc = "return"
    BY <1>1, <1>6 DEF WriteMove
  <2>2. session[x].signal \in Signals /\ session[x].signal # NoSignal
        /\ session[x].wait = WaitOf(session[x].signal)
    BY <1>0, <1>6, SessionTypes DEF TypeInv, SessionOK, SignalledOK, Applying
  <2>3. run[r].wait = WaitOf(session[x].signal) /\ WaitOf(session[x].signal) # NoWait
    BY <1>2, <1>6, <2>2, SignalCalls DEF MeetsOK, Applying
  <2> QED
    BY <1>1, <1>6, <2>1, <2>3 DEF Wrote
<1>7. session[x].pc \in {"prompt", "model", "finish", "settle"}
  BY DEF WriteMove
<1> QED
  BY <1>3, <1>4, <1>5, <1>6, <1>7

\* The call of a signal under way is in the ledger, so that a new wait is not the
\* one it answers.
LEMMA SignalledCall ==
    ASSUME Inv, NEW r \in Runs, NEW signal \in Signals, signal # NoSignal, IsTrue(r, signal)
    PROVE  signal.call \in Calls /\ toolCalls[r][signal.call] # "none"
<1>1. /\ signal.call \in Calls
      /\ \/ signal.kind = "report" /\ signal.decision = "completed"
         \/ signal.kind = "approval" /\ signal.decision \in {"approved", "rejected"}
  BY SignalCalls
<1>2. Answered /\ Reported
  BY DEF Inv, BooksInv
<1>3. CASE signal.kind = "report"
  BY <1>1, <1>2, <1>3 DEF IsTrue, Reported, JobAgrees
<1>4. CASE signal.kind = "approval"
  BY <1>1, <1>2, <1>4 DEF IsTrue, Answered, AnswerOf
<1> QED
  BY <1>1, <1>3, <1>4

LEMMA WaitStaysAnswered ==
    ASSUME Inv, NEW x \in Slots, Wrote(x), NEW signal \in Signals, signal # NoSignal,
           IsTrue(session[x].run, signal), run'[session[x].run].wait = WaitOf(signal)
    PROVE  run[session[x].run].wait = WaitOf(signal)
<1>1. PICK r \in Runs : r = session[x].run
  BY DEF Wrote
<1>2. WaitOf(signal) # NoWait /\ WaitOf(signal).call = signal.call
  BY SignalCalls DEF WaitOf
<1>3. toolCalls[r][signal.call] # "none"
  BY <1>1, SignalledCall
<1> QED
  BY <1>1, <1>2, <1>3 DEF Wrote

\* After a write no other attempt has the row's version.
LEMMA OthersStale ==
    ASSUME Inv, NEW x \in Slots, WriteMove(x), NEW y \in Slots \ {x},
           session[y].run = session[x].run, session[y].pc \in Fenced
    PROVE  ~Current(y)'
<1>0. TypeInv /\ Behind /\ session'[y] = session[y]
  BY DEF Inv, FenceInv, WriteMove, OnlySession
<1>1. PICK r \in Runs : r = session[x].run /\ run'[r].version = run[r].version + 1
  BY DEF WriteMove
<1>2. run[r].version \in Nat /\ session[y].version \in Nat
      /\ session[y].version <= run[r].version
  BY <1>0, <1>1, WrittenRow, SessionTypes DEF Behind
<1> QED
  BY <1>0, <1>1, <1>2 DEF Current

LEMMA StaysCurrent ==
    ASSUME Inv, NEW x \in Slots, Goes(x), SoftMove(x) \/ WriteMove(x),
           session[x].pc \in Fenced => Current(x), session'[x].pc \in Fenced
    PROVE  Current(x)'
<1>0. TypeInv /\ session'[x].run = session[x].run
  BY DEF Inv, Goes, SameAttempt
<1>1. CASE WriteMove(x)
  <2>1. PICK r \in Runs : r = session[x].run /\ run'[r].version = run[r].version + 1
    BY <1>1 DEF WriteMove
  <2>2. session'[x].version = session[x].version + 1 /\ Current(x)
    BY <1>1 DEF WriteMove
  <2> QED
    BY <1>0, <2>1, <2>2 DEF Current
<1>2. CASE SoftMove(x)
  <2>1. UNCHANGED run /\ session[x].pc # "idle"
    BY <1>2 DEF SoftMove, Goes, SameAttempt
  <2>2. session'[x].version = run[session[x].run].version
    BY <1>2, <2>1 DEF SoftMove, StartAttempt, At, GoesOn, Current, Fenced, Applying
  <2> QED
    BY <1>0, <2>1, <2>2 DEF Current
<1> QED
  BY <1>1, <1>2

\* Only a fault brings an attempt to give up a run that waits.
LEMMA NoneGivesUp ==
    ASSUME Inv, NEW x \in Slots, Goes(x), SoftMove(x) \/ WriteMove(x), NEW y \in Slots,
           GivesUp(y)'
    PROVE  GivesUp(y) \/ (y = x /\ Fault)
<1>0. TypeInv /\ FenceInv
  BY DEF Inv
<1>1. CASE y # x
  <2>1. session'[y] = session[y] /\ session[y].pc = "finish"
    BY <1>1 DEF Goes, OnlySession, GivesUp
  <2>2. session[y].run \in Runs
    BY <1>0, <2>1, SessionTypes
  <2>3. CASE run'[session[y].run] = run[session[y].run]
    BY <2>1, <2>3 DEF GivesUp, Current
  <2>4. CASE run'[session[y].run] # run[session[y].run]
    <3>1. WriteMove(x) /\ session[y].run = session[x].run
      BY <2>2, <2>4 DEF SoftMove, WriteMove, OnlyRun
    <3>2. ~Current(y)'
      BY <1>1, <2>1, <3>1, OthersStale DEF Fenced
    <3> QED
      BY <3>2 DEF GivesUp
  <2> QED
    BY <2>3, <2>4
<1>2. CASE y = x
  <2>0. PICK r \in Runs : r = session[x].run
    BY <1>0, SessionTypes DEF Goes, SameAttempt
  <2>1. /\ session'[x].pc = "finish" /\ session'[x].run = r
        /\ run'[r].status = "waiting_for_tool"
        /\ session[x].pc # "idle"
    BY <1>2, <2>0 DEF GivesUp, Goes, SameAttempt
  <2>2. MeetsOK(session[x], run[r], toolCalls[r], results[r]) \/ ~Current(x)
        \/ session[x].pc \notin Fenced
    BY <1>0, <2>0 DEF FenceInv, Met, Meets
  <2>3. CASE WriteMove(x)
    <3>1. session[x].pc = "model" /\ run'[r].status = run[r].status /\ Current(x)
      BY <2>0, <2>1, <2>3 DEF WriteMove
    <3> QED
      BY <2>1, <2>2, <3>1 DEF MeetsOK, Fenced
  <2>4. CASE SoftMove(x)
    <3>1. UNCHANGED run /\ GoesOn(session[x], session'[x], run[r])
      BY <2>0, <2>1, <2>4 DEF SoftMove, StartAttempt, At
    <3>2. session[x].pc \in {"finish", "enqueue", "mark"}
      <4>1. CASE session[x].pc \in {"prompt", "model"}
        BY <2>0, <2>1, <2>2, <3>1, <4>1 DEF GoesOn, MeetsOK, Current, Fenced
      <4> QED
        BY <2>1, <3>1, <4>1 DEF GoesOn
    <3>3. CASE session[x].pc = "finish"
      BY <1>2, <2>0, <2>1, <3>1, <3>3 DEF GoesOn, GivesUp, Current
    <3>4. CASE session[x].pc \in {"enqueue", "mark"}
      BY <1>2, <2>1, <3>4 DEF Goes
    <3> QED
      BY <3>2, <3>3, <3>4
  <2> QED
    BY <2>3, <2>4
<1> QED
  BY <1>1, <1>2

(*****************************************************************************)
(* What becomes of a workflow, field by field.                               *)
(*****************************************************************************)

OnlyWorkflow(r) ==
    /\ workflow' \in [Runs -> Workflows]
    /\ \A q \in Runs \ {r} : workflow'[q] = workflow[q]

\* The attempt ended without an answer.
RetriesTo(wf, new) ==
    /\ new.wait = wf.wait /\ new.status = wf.status
    /\ new.accepted = wf.accepted /\ new.input = wf.input
    /\ \/ new.phase = wf.phase /\ new.task = "scheduled"
       \/ new.phase = "failed" /\ new.task = "none"

\* The workflow waits, unless it has accepted a signal already.
WaitsOrApplies(wf, new) ==
    /\ new.accepted = NoSignal
    /\ \/ wf.accepted = NoSignal /\ new.phase = "wait" /\ new.task = "none"
       \/ /\ wf.accepted # NoSignal /\ new.phase = "apply" /\ new.task = "scheduled"
          /\ new.input = wf.accepted

\* The attempt answered.
AnswersTo(wf, s, new) ==
    \/ /\ s.result \in {"reconciled", "applied"}
       /\ new.phase = "advance" /\ new.task = "scheduled" /\ new.wait = NoWait
       /\ new.accepted = wf.accepted
    \/ /\ s.result = "wait" /\ new.wait = s.wait /\ new.status = WaitStatus(s.wait)
       /\ WaitsOrApplies(wf, new)
    \/ /\ s.result = "ignored" /\ new.wait = wf.wait /\ new.status = wf.status
       /\ WaitsOrApplies(wf, new)
    \/ /\ s.result \notin {"reconciled", "applied", "wait", "ignored"}
       /\ new.phase = "returned" /\ new.task = "none" /\ new.accepted = wf.accepted
       /\ new.status = IF s.result = "complete" THEN "completed" ELSE "failed"

LEMMA RetriedFields ==
    ASSUME NEW wf \in Workflows
    PROVE  RetriesTo(wf, Retried(wf))
<1>1. wf.attemptsLeft \in Nat
  BY WorkflowTypes
<1>2. CASE wf.attemptsLeft > 1
  <2>1. PICK left : left = wf.attemptsLeft - 1
    OBVIOUS
  <2>2. PICK new : new = [wf EXCEPT !.task = "scheduled", !.attemptsLeft = left]
    OBVIOUS
  <2>3. /\ new.wait = wf.wait /\ new.status = wf.status /\ new.phase = wf.phase
        /\ new.accepted = wf.accepted /\ new.input = wf.input /\ new.task = "scheduled"
    BY <2>2 DEF Workflows
  <2> QED
    BY <1>2, <2>1, <2>2, <2>3 DEF Retried, RetriesTo
<1>3. CASE ~(wf.attemptsLeft > 1)
  <2>1. PICK new : new = [wf EXCEPT !.phase = "failed", !.task = "none", !.attemptsLeft = 0]
    OBVIOUS
  <2>2. /\ new.wait = wf.wait /\ new.status = wf.status /\ new.phase = "failed"
        /\ new.accepted = wf.accepted /\ new.input = wf.input /\ new.task = "none"
    BY <2>1 DEF Workflows
  <2> QED
    BY <1>3, <2>1, <2>2 DEF Retried, RetriesTo
<1> QED
  BY <1>2, <1>3

LEMMA CalledFields ==
    ASSUME NEW wf \in Workflows, NEW phase
    PROVE  /\ Call(wf, phase).phase = phase /\ Call(wf, phase).task = "scheduled"
           /\ Call(wf, phase).wait = wf.wait /\ Call(wf, phase).status = wf.status
           /\ Call(wf, phase).accepted = wf.accepted /\ Call(wf, phase).input = wf.input
<1>1. PICK new : new = [wf EXCEPT !.phase = phase, !.task = "scheduled",
                                  !.attemptsLeft = ActivityAttempts]
  OBVIOUS
<1>2. /\ new.phase = phase /\ new.task = "scheduled" /\ new.wait = wf.wait
      /\ new.status = wf.status /\ new.accepted = wf.accepted /\ new.input = wf.input
  BY <1>1 DEF Workflows
<1> QED
  BY <1>1, <1>2 DEF Call

LEMMA ResumedFields ==
    ASSUME NEW wf \in Workflows, wf.phase = "wait", wf.accepted # NoSignal
    PROVE  /\ Resume(wf).phase = "apply" /\ Resume(wf).task = "scheduled"
           /\ Resume(wf).input = wf.accepted /\ Resume(wf).accepted = NoSignal
           /\ Resume(wf).wait = wf.wait /\ Resume(wf).status = wf.status
<1>1. PICK called \in Workflows :
        /\ called = Call(wf, "apply") /\ called.phase = "apply" /\ called.task = "scheduled"
        /\ called.wait = wf.wait /\ called.status = wf.status
  BY Called, CalledFields
<1>2. PICK new : new = [called EXCEPT !.input = wf.accepted, !.accepted = NoSignal]
  OBVIOUS
<1>3. /\ new.phase = "apply" /\ new.task = "scheduled" /\ new.input = wf.accepted
      /\ new.accepted = NoSignal /\ new.wait = wf.wait /\ new.status = wf.status
  BY <1>1, <1>2 DEF Workflows
<1> QED
  BY <1>1, <1>2, <1>3 DEF Resume

LEMMA AdvancedFields ==
    ASSUME TypeInv, NEW x \in Slots, NEW wf \in Workflows
    PROVE  AnswersTo(wf, session[x], Resume(Advanced(wf, x)))
<1>1. PICK wait \in Waits, status \in Statuses, result \in Results :
        wait = session[x].wait /\ status = WaitStatus(wait) /\ result = session[x].result
  BY SessionTypes DEF WaitStatus, Statuses, Waiting, Sessions
<1>2. 0 \in 0..ActivityAttempts
  BY ConstantFacts
<1>3. CASE result \in {"reconciled", "applied"}
  <2>1. PICK called \in Workflows :
          /\ called = Call(wf, "advance") /\ called.phase = "advance"
          /\ called.task = "scheduled" /\ called.accepted = wf.accepted
    BY Called, CalledFields
  <2>2. PICK new : new = [called EXCEPT !.status = "running", !.wait = NoWait, !.input = NoSignal]
    OBVIOUS
  <2>3. /\ new.phase = "advance" /\ new.task = "scheduled" /\ new.wait = NoWait
        /\ new.accepted = wf.accepted
    BY <2>1, <2>2 DEF Workflows
  <2>4. Advanced(wf, x) = new
    BY <1>1, <1>3, <2>1, <2>2 DEF Advanced
  <2>5. Resume(new) = new
    BY <2>3 DEF Resume
  <2> QED
    BY <1>1, <1>3, <2>3, <2>4, <2>5 DEF AnswersTo
<1>4. CASE result \in {"wait", "ignored"}
  <2>1. PICK new : /\ Advanced(wf, x) = new
                   /\ \/ /\ result = "wait"
                         /\ new = [wf EXCEPT !.phase = "wait", !.task = "none", !.attemptsLeft = 0,
                                             !.status = status, !.wait = wait]
                      \/ /\ result = "ignored"
                         /\ new = [wf EXCEPT !.phase = "wait", !.task = "none", !.attemptsLeft = 0,
                                             !.input = NoSignal]
    BY <1>1, <1>4 DEF Advanced
  <2>2. /\ new \in Workflows /\ new.phase = "wait" /\ new.task = "none"
        /\ new.accepted = wf.accepted
        /\ result = "wait" => new.wait = wait /\ new.status = status
        /\ result = "ignored" => new.wait = wf.wait /\ new.status = wf.status
    BY <1>2, <2>1, IdleFacts DEF Workflows
  <2>3. WaitsOrApplies(wf, Resume(new))
        /\ Resume(new).wait = new.wait /\ Resume(new).status = new.status
    BY <2>2, ResumedFields DEF Resume, WaitsOrApplies
  <2> QED
    BY <1>1, <1>4, <2>1, <2>2, <2>3 DEF AnswersTo
<1>5. CASE result \notin {"reconciled", "applied", "wait", "ignored"}
  <2>1. PICK returned : returned = [wf EXCEPT !.phase = "returned", !.task = "none",
                                              !.attemptsLeft = 0]
    OBVIOUS
  <2>2. PICK verdict : verdict = IF result = "complete" THEN "completed" ELSE "failed"
    OBVIOUS
  <2>3. PICK new : /\ Advanced(wf, x) = new
                   /\ new = [returned EXCEPT !.status = verdict]
    BY <1>1, <1>5, <2>1, <2>2 DEF Advanced
  <2>4. returned \in Workflows /\ returned.phase = "returned" /\ returned.task = "none"
        /\ returned.accepted = wf.accepted
    BY <1>2, <2>1 DEF Workflows
  <2>5. /\ new.phase = "returned" /\ new.task = "none" /\ new.accepted = wf.accepted
        /\ new.status = verdict
    BY <2>3, <2>4 DEF Workflows
  <2>6. Resume(new) = new
    BY <2>5 DEF Resume
  <2> QED
    BY <1>1, <1>5, <2>2, <2>3, <2>5, <2>6 DEF AnswersTo
<1> QED
  BY <1>3, <1>4, <1>5

(*****************************************************************************)
(* The steps, by what they move: the tables and the outbox alone, a workflow *)
(* alone, or an attempt.                                                     *)
(*****************************************************************************)

\* An intent is written for a run that waits for it, and for what no signal under
\* way has said yet.
Posts(e) ==
    /\ outbox' = Append(outbox, e) /\ UNCHANGED reconciler
    /\ run[e.run].status \in Waiting /\ run[e.run].wait = WaitOf(e.signal)
    /\ \A signal \in Signals : IsTrue(e.run, signal) => WaitOf(signal) # WaitOf(e.signal)

Aside ==
    /\ UNCHANGED <<run, session, workflow, faults>>
    /\ \/ UNCHANGED <<outbox, reconciler>>
       \/ \E e \in Intents : Posts(e)
       \/ reconciler = "mark" /\ reconciler' = "idle" /\ outbox' = Tail(outbox)

Loses(r) ==
    /\ UNCHANGED reconciler
    /\ workflow[r].task = "started"
    /\ \A x \in Slots : ~(session[x].awaited /\ session[x].run = r)
    /\ RetriesTo(workflow[r], workflow'[r])

Begins(r) ==
    /\ UNCHANGED reconciler
    /\ workflow[r].phase = "absent"
    /\ workflow'[r].phase = "start" /\ workflow'[r].task = "scheduled"
    /\ workflow'[r].accepted = workflow[r].accepted /\ workflow'[r].input = workflow[r].input

Hears(r) ==
    LET wf == workflow[r]
        new == workflow'[r]
        signal == outbox[1].signal IN
    /\ reconciler = "idle" /\ reconciler' = "mark"
    /\ 1 \in 1..Len(outbox) /\ outbox[1].run = r /\ Open(r)
    /\ \/ new = wf
       \/ /\ wf.accepted = NoSignal /\ wf.wait = WaitOf(signal)
          /\ \/ /\ wf.phase # "wait" /\ new.phase = wf.phase /\ new.task = wf.task
                /\ new.input = wf.input
             \/ /\ wf.phase = "wait" /\ new.phase = "apply" /\ new.task = "scheduled"
                /\ new.input = signal /\ new.accepted = NoSignal

Alone(r) ==
    /\ UNCHANGED <<run, session, outbox, faults>> /\ OnlyWorkflow(r)
    /\ workflow'[r].wait = workflow[r].wait /\ workflow'[r].status = workflow[r].status
    /\ Loses(r) \/ Begins(r) \/ Hears(r)

\* An attempt leaves its slot.
Leaves(x) ==
    LET s == session[x]
        r == session[x].run IN
    /\ UNCHANGED <<run, outbox, reconciler, faults>>
    /\ s.pc # "idle" /\ OnlySession(x) /\ session'[x] = Idle
    /\ ~s.awaited => workflow' = workflow
    /\ s.awaited =>
        /\ OnlyWorkflow(r)
        /\ \/ s.pc = "return" /\ AnswersTo(workflow[r], s, workflow'[r])
           \/ s.pc \in Fenced /\ ~Current(x)
              /\ RetriesTo(workflow[r], workflow'[r])
           \/ s.pc = "reserve" /\ RetriesTo(workflow[r], workflow'[r])

Takes(x, r) ==
    LET wf == workflow[r]
        new == workflow'[r]
        t == session'[x] IN
    /\ UNCHANGED <<run, outbox, reconciler, faults>>
    /\ session[x].pc = "idle" /\ OnlySession(x) /\ OnlyWorkflow(r)
    /\ wf.task = "scheduled" /\ new.task = "started" /\ new.phase = wf.phase
    /\ new.wait = wf.wait /\ new.status = wf.status
    /\ new.accepted = wf.accepted /\ new.input = wf.input
    /\ t.pc = wf.phase /\ t.run = r /\ t.awaited /\ t.signal = wf.input

\* The server gives an attempt up, which goes on.
TimesOut(x) ==
    LET s == session[x]
        t == session'[x] IN
    /\ UNCHANGED <<run, outbox, reconciler>> /\ Fault
    /\ s.awaited /\ OnlySession(x) /\ SameAttempt(s, t) /\ ~t.awaited
    /\ t.pc = s.pc /\ t.version = s.version /\ t.wait = s.wait
    /\ OnlyWorkflow(s.run) /\ RetriesTo(workflow[s.run], workflow'[s.run])

Dies ==
    /\ UNCHANGED <<run, outbox, workflow>> /\ reconciler' = "idle"
    /\ \A x \in Slots : session'[x] = Idle
    /\ \/ Fault
       \/ /\ UNCHANGED faults /\ reconciler = "idle"
          /\ 1 \in 1..Len(outbox) /\ ~Open(outbox[1].run)

LEMMA QuietAside ==
    ASSUME \/ MarkSignalDispatched
           \/ \E r \in Runs : \/ RecordReportProgress(r)
                              \/ \E c \in Calls : ExpireOnDecide(r, c) \/ ApprovalDeadline(r, c)
    PROVE  Aside
<1>1. CASE MarkSignalDispatched
  BY <1>1 DEF MarkSignalDispatched, Aside
<1>2. ASSUME NEW r \in Runs, RecordReportProgress(r)
      PROVE  Aside
  BY <1>2 DEF RecordReportProgress, Aside
<1>3. ASSUME NEW r \in Runs, NEW c \in Calls, ExpireOnDecide(r, c)
      PROVE  Aside
  BY <1>3 DEF ExpireOnDecide, Aside
<1>4. ASSUME NEW r \in Runs, NEW c \in Calls, ApprovalDeadline(r, c)
      PROVE  Aside
  BY <1>4 DEF ApprovalDeadline, dbVars, Aside
<1> QED
  BY <1>1, <1>2, <1>3, <1>4

\* Two waits are the same if their kinds and calls are.
LEMMA SameWaits ==
    ASSUME NEW wait \in Waits, NEW signal \in Signals, signal # NoSignal,
           wait.kind = signal.kind, wait.call = signal.call
    PROVE  wait = WaitOf(signal)
<1>1. WaitOf(signal) \in Waits /\ signal.kind # "none"
  BY SignalCalls
<1>2. wait # NoWait
  BY <1>1 DEF NoWait
<1> QED
  BY <1>2 DEF Waits, WaitOf

LEMMA MadeAside ==
    ASSUME Inv, NEW r \in Runs, CompleteReportJob(r)
    PROVE  Aside
<1>0. TypeInv /\ Rows /\ Awaited
  BY DEF Inv, FenceInv, BooksInv
<1>1. /\ UNCHANGED <<run, session, workflow, faults, reconciler>>
      /\ job[r].status = "running"
  BY DEF CompleteReportJob
<1>2. PICK c \in Calls : c = job[r].call
  BY <1>0, <1>1, JobFields
<1>3. PICK e : e = [run |-> r, signal |->
                        [kind |-> "report", call |-> c, decision |-> "completed"]]
  OBVIOUS
<1>4. /\ e \in Intents /\ e.run = r /\ e.signal \in Signals /\ e.signal # NoSignal
      /\ e.signal.kind = "report" /\ e.signal.call = c
  BY <1>3 DEF Intents, Signals, NoSignal
<1>5. CASE run[r].status = "waiting_for_tool"
  <2>1. outbox' = Append(outbox, e)
    BY <1>2, <1>3, <1>5 DEF CompleteReportJob
  <2>2. run[r].wait \in Waits /\ run[r].wait.kind = "report" /\ run[r].wait.call = c
    BY <1>0, <1>2, <1>5, RowTypes DEF TypeInv, RunOK, Rows, RowOK, Awaited, WaitAgrees
  <2>3. run[r].wait = WaitOf(e.signal)
    BY <1>4, <2>2, SameWaits
  <2>4. ASSUME NEW signal \in Signals, IsTrue(r, signal)
        PROVE  WaitOf(signal) # WaitOf(e.signal)
    <3>1. signal.kind # "report"
      BY <1>1, <2>4, SignalCalls DEF IsTrue
    <3> QED
      BY <1>4, <3>1 DEF WaitOf
  <2>5. Posts(e)
    BY <1>1, <1>4, <1>5, <2>1, <2>3, <2>4 DEF Posts, Waiting
  <2> QED
    BY <1>1, <1>4, <2>5 DEF Aside
<1>6. CASE run[r].status # "waiting_for_tool"
  BY <1>1, <1>6 DEF CompleteReportJob, Aside
<1> QED
  BY <1>5, <1>6

LEMMA DecidedAside ==
    ASSUME LifeInv, NEW r \in Runs, NEW c \in Calls, NEW decision \in {"approved", "rejected"},
           DecideApproval(r, c, decision)
    PROVE  Aside
<1>0. TypeInv /\ Rows /\ Awaited
  BY DEF LifeInv, Inv, FenceInv, BooksInv
<1>1. /\ UNCHANGED <<run, session, workflow, faults, reconciler>>
      /\ approvals[r][c] = "pending"
  BY DEF DecideApproval
<1>2. PICK e : e = [run |-> r, signal |->
                        [kind |-> "approval", call |-> c, decision |-> decision]]
  OBVIOUS
<1>3. /\ e \in Intents /\ e.run = r /\ e.signal \in Signals /\ e.signal # NoSignal
      /\ e.signal.kind = "approval" /\ e.signal.call = c
  BY <1>2 DEF Intents, Signals, NoSignal
<1>4. CASE run[r].status = "waiting_for_admin"
  <2>1. outbox' = Append(outbox, e)
    BY <1>2, <1>4 DEF DecideApproval
  <2>2. WaitsFor(r) = c
    <3>1. Outstanding(r, c)
      BY <1>1 DEF Outstanding, AnswerTo
    <3> QED
      BY <3>1 DEF LifeInv, OneOutstanding
  <2>3. run[r].wait \in Waits /\ run[r].wait.kind = "approval" /\ run[r].wait.call = c
    BY <1>0, <1>4, <2>2, RowTypes DEF TypeInv, RunOK, Rows, RowOK, WaitsFor, Waiting
  <2>4. run[r].wait = WaitOf(e.signal)
    BY <1>3, <2>3, SameWaits
  <2>5. ASSUME NEW signal \in Signals, IsTrue(r, signal)
        PROVE  WaitOf(signal) # WaitOf(e.signal)
    <3>1. CASE WaitOf(signal) = WaitOf(e.signal)
      <4>1. signal.kind = "approval" /\ signal.call = c
        BY <1>3, <3>1 DEF WaitOf
      <4>2. signal.decision \in {"approved", "rejected"}
        BY <4>1, SignalCalls
      <4> QED
        BY <1>1, <2>5, <4>1, <4>2, SignalCalls DEF IsTrue
    <3> QED
      BY <3>1
  <2>6. Posts(e)
    BY <1>1, <1>3, <1>4, <2>1, <2>4, <2>5 DEF Posts, Waiting
  <2> QED
    BY <1>1, <1>3, <2>6 DEF Aside
<1>5. CASE run[r].status # "waiting_for_admin"
  BY <1>1, <1>5 DEF DecideApproval, Aside
<1> QED
  BY <1>4, <1>5

LEMMA AloneWith ==
    ASSUME TypeInv, TypeInv', NEW r \in Runs, NEW new, workflow' = [workflow EXCEPT ![r] = new]
    PROVE  OnlyWorkflow(r) /\ workflow'[r] = new
  BY DEF TypeInv, WorkflowOK, OnlyWorkflow

LEMMA LosesAlone ==
    ASSUME TypeInv, TypeInv', NEW r \in Runs, AttemptLost(r)
    PROVE  Alone(r)
<1>1. /\ UNCHANGED <<run, session, outbox, faults, reconciler>> /\ workflow[r].task = "started"
      /\ \A x \in Slots : ~(session[x].awaited /\ session[x].run = r)
      /\ workflow' = [workflow EXCEPT ![r] = Retried(workflow[r])]
  BY DEF AttemptLost, dbVars
<1>2. OnlyWorkflow(r) /\ workflow'[r] = Retried(workflow[r])
  BY <1>1, AloneWith
<1>3. RetriesTo(workflow[r], workflow'[r])
  BY <1>2, RetriedFields DEF TypeInv, WorkflowOK
<1>4. workflow'[r].wait = workflow[r].wait /\ workflow'[r].status = workflow[r].status
  BY <1>3 DEF RetriesTo
<1> QED
  BY <1>1, <1>2, <1>3, <1>4 DEF Alone, Loses

LEMMA BeginsAlone ==
    ASSUME TypeInv, TypeInv', NEW r \in Runs, StartWorkflow(r)
    PROVE  Alone(r)
<1>1. /\ UNCHANGED <<run, session, outbox, faults, reconciler>> /\ workflow[r].phase = "absent"
      /\ workflow' = [workflow EXCEPT ![r] = Call(workflow[r], "start")]
  BY DEF StartWorkflow, dbVars
<1>2. OnlyWorkflow(r) /\ workflow'[r] = Call(workflow[r], "start")
  BY <1>1, AloneWith
<1>3. /\ workflow'[r].phase = "start" /\ workflow'[r].task = "scheduled"
      /\ workflow'[r].wait = workflow[r].wait /\ workflow'[r].status = workflow[r].status
      /\ workflow'[r].accepted = workflow[r].accepted /\ workflow'[r].input = workflow[r].input
  BY <1>2, CalledFields DEF TypeInv, WorkflowOK
<1> QED
  BY <1>1, <1>2, <1>3 DEF Alone, Begins

LEMMA HearsAlone ==
    ASSUME TypeInv, TypeInv', SignalWorkflow
    PROVE  \E r \in Runs : Alone(r)
<1>1. /\ UNCHANGED <<run, session, outbox, faults>>
      /\ reconciler = "idle" /\ reconciler' = "mark" /\ outbox # <<>>
  BY DEF SignalWorkflow, dbVars
<1>2. PICK e \in Intents : e = Head(outbox) /\ e = outbox[1] /\ 1 \in 1..Len(outbox)
  BY <1>1, HeadOf DEF TypeInv, OutboxOK, Intents
<1>3. PICK r \in Runs, signal \in Signals : r = e.run /\ signal = e.signal /\ signal # NoSignal
  BY DEF Intents
<1>4. PICK wf \in Workflows : wf = workflow[r]
  BY DEF TypeInv, WorkflowOK
<1>5. /\ Open(r)
      /\ workflow' = IF AcceptCorrelatedSignal(wf, signal)
                     THEN [workflow EXCEPT ![r] = Resume([wf EXCEPT !.accepted = signal])]
                     ELSE workflow
  BY <1>2, <1>3, <1>4 DEF SignalWorkflow
<1>6. CASE ~AcceptCorrelatedSignal(wf, signal)
  <2>1. workflow' = workflow /\ OnlyWorkflow(r)
    BY <1>5, <1>6 DEF OnlyWorkflow, TypeInv, WorkflowOK
  <2>2. Hears(r)
    BY <1>1, <1>2, <1>3, <1>5, <2>1 DEF Hears
  <2> QED
    BY <1>1, <2>1, <2>2 DEF Alone
<1>7. CASE AcceptCorrelatedSignal(wf, signal)
  <2>1. wf.accepted = NoSignal /\ wf.wait = WaitOf(signal)
    BY <1>7 DEF AcceptCorrelatedSignal, WaitOf
  <2>2. PICK heard : heard = [wf EXCEPT !.accepted = signal]
    OBVIOUS
  <2>3. /\ heard \in Workflows /\ heard.accepted = signal /\ heard.input = wf.input
        /\ heard.phase = wf.phase /\ heard.task = wf.task
        /\ heard.wait = wf.wait /\ heard.status = wf.status
    BY <2>2 DEF Workflows
  <2>4. OnlyWorkflow(r) /\ workflow'[r] = Resume(heard)
    BY <1>5, <1>7, <2>2, AloneWith
  <2>5. CASE wf.phase = "wait"
    <3>1. /\ workflow'[r].phase = "apply" /\ workflow'[r].task = "scheduled"
          /\ workflow'[r].input = signal /\ workflow'[r].accepted = NoSignal
          /\ workflow'[r].wait = wf.wait /\ workflow'[r].status = wf.status
      BY <1>3, <2>3, <2>4, <2>5, ResumedFields
    <3>2. Hears(r)
      BY <1>1, <1>2, <1>3, <1>4, <1>5, <2>1, <2>5, <3>1 DEF Hears
    <3> QED
      BY <1>1, <1>4, <2>4, <3>1, <3>2 DEF Alone
  <2>6. CASE wf.phase # "wait"
    <3>1. workflow'[r] = heard
      BY <2>3, <2>4, <2>6 DEF Resume
    <3>2. Hears(r)
      BY <1>1, <1>2, <1>3, <1>4, <1>5, <2>1, <2>3, <2>6, <3>1 DEF Hears
    <3> QED
      BY <1>1, <1>4, <2>3, <2>4, <3>1, <3>2 DEF Alone
  <2> QED
    BY <2>5, <2>6
<1> QED
  BY <1>6, <1>7

LEMMA CompleteLeaves ==
    ASSUME TypeInv, TypeInv', NEW x \in Slots, CompleteActivity(x)
    PROVE  Leaves(x)
<1>1. /\ UNCHANGED <<run, outbox, reconciler, faults>> /\ session[x].pc = "return"
      /\ Becomes(x, Idle)
      /\ workflow' = IF session[x].awaited
                     THEN [workflow EXCEPT ![session[x].run] =
                            Resume(Advanced(workflow[session[x].run], x))]
                     ELSE workflow
  BY DEF CompleteActivity, At, dbVars
<1>2. OnlySession(x) /\ session'[x] = Idle
  BY <1>1, IdleFacts, SessionUpdate
<1>3. PICK r \in Runs : r = session[x].run
  BY <1>1, SessionTypes
<1>4. CASE session[x].awaited
  <2>1. OnlyWorkflow(r) /\ workflow'[r] = Resume(Advanced(workflow[r], x))
    BY <1>1, <1>3, <1>4, AloneWith
  <2>2. AnswersTo(workflow[r], session[x], workflow'[r])
    BY <2>1, AdvancedFields DEF TypeInv, WorkflowOK
  <2> QED
    BY <1>1, <1>2, <1>3, <1>4, <2>1, <2>2 DEF Leaves
<1> QED
  BY <1>1, <1>2, <1>4 DEF Leaves

LEMMA FailsLeaves ==
    ASSUME TypeInv, TypeInv', NEW x \in Slots, AbandonStale(x) \/ ReserveRefused(x)
    PROVE  Leaves(x)
<1>1. /\ UNCHANGED <<run, outbox, reconciler, faults>>
      /\ \/ session[x].pc \in {"prompt", "model", "finish", "settle"} /\ ~Current(x)
         \/ session[x].pc = "reserve"
      /\ Becomes(x, Idle)
      /\ workflow' = IF session[x].awaited
                     THEN [workflow EXCEPT ![session[x].run] = Retried(workflow[session[x].run])]
                     ELSE workflow
  BY DEF AbandonStale, ReserveRefused, FailAttempt, At, dbVars
<1>2. OnlySession(x) /\ session'[x] = Idle
  BY <1>1, IdleFacts, SessionUpdate
<1>3. PICK r \in Runs : r = session[x].run
  BY <1>1, SessionTypes
<1>4. CASE session[x].awaited
  <2>1. OnlyWorkflow(r) /\ workflow'[r] = Retried(workflow[r])
    BY <1>1, <1>3, <1>4, AloneWith
  <2>2. RetriesTo(workflow[r], workflow'[r])
    BY <2>1, RetriedFields DEF TypeInv, WorkflowOK
  <2> QED
    BY <1>1, <1>2, <1>3, <1>4, <2>1, <2>2 DEF Leaves, Fenced, Applying
<1> QED
  BY <1>1, <1>2, <1>4 DEF Leaves

LEMMA StartTakes ==
    ASSUME TypeInv, TypeInv', NEW x \in Slots, StartAttempt(x)
    PROVE  \E r \in Runs : Takes(x, r)
<1>1. /\ UNCHANGED <<run, outbox, reconciler, faults>> /\ session[x].pc = "idle"
  BY DEF StartAttempt, At, dbVars
<1>2. PICK r \in Runs :
        /\ workflow[r].task = "scheduled"
        /\ workflow' = [workflow EXCEPT ![r].task = "started"]
        /\ Becomes(x, [Idle EXCEPT !.pc = workflow[r].phase, !.run = r, !.awaited = TRUE,
                                    !.signal = workflow[r].input])
  BY DEF StartAttempt
<1>3. PICK wf \in Workflows : wf = workflow[r] /\ wf.phase \in {"start", "advance", "apply"}
  BY <1>2 DEF TypeInv, WorkflowOK, CalledOK
<1>4. PICK new : new = [wf EXCEPT !.task = "started"]
  OBVIOUS
<1>5. /\ new.task = "started" /\ new.phase = wf.phase /\ new.wait = wf.wait
      /\ new.status = wf.status /\ new.accepted = wf.accepted /\ new.input = wf.input
  BY <1>4 DEF Workflows
<1>6. workflow' = [workflow EXCEPT ![r] = new]
  BY <1>2, <1>3, <1>4
<1>7. OnlyWorkflow(r) /\ workflow'[r] = new
  BY <1>6, AloneWith
<1>8. PICK t : /\ t = [Idle EXCEPT !.pc = wf.phase, !.run = r, !.awaited = TRUE,
                                 !.signal = wf.input]
               /\ Becomes(x, t)
  BY <1>2, <1>3
<1>9. t \in Sessions /\ t.pc = wf.phase /\ t.run = r /\ t.awaited /\ t.signal = wf.input
  BY <1>3, <1>8, WorkflowTypes, IdleFacts DEF Sessions
<1>10. OnlySession(x) /\ session'[x] = t
  BY <1>8, <1>9, SessionUpdate
<1> QED
  BY <1>1, <1>2, <1>3, <1>5, <1>7, <1>9, <1>10 DEF Takes

LEMMA TimeoutTimesOut ==
    ASSUME TypeInv, TypeInv', NEW x \in Slots, AttemptTimesOut(x)
    PROVE  TimesOut(x)
<1>1. /\ session[x].pc # "idle" /\ session[x].awaited
      /\ UNCHANGED <<run, outbox, reconciler>> /\ Fault
      /\ workflow' = [workflow EXCEPT ![session[x].run] = Retried(workflow[session[x].run])]
  BY DEF AttemptTimesOut, TypeInv, SessionOK, SignalledOK, dbVars
<1>2. PICK t : t = [session[x] EXCEPT !.awaited = FALSE] /\ Becomes(x, t)
  BY DEF AttemptTimesOut
<1>3. /\ t \in Sessions /\ t.pc = session[x].pc /\ t.run = session[x].run /\ ~t.awaited
      /\ t.signal = session[x].signal /\ t.wait = session[x].wait
      /\ t.version = session[x].version
  BY <1>2, SessionTypes DEF Sessions
<1>4. OnlySession(x) /\ session'[x] = t /\ SameAttempt(session[x], t)
  BY <1>1, <1>2, <1>3, SessionUpdate DEF SameAttempt
<1>5. PICK r \in Runs : r = session[x].run
  BY <1>1, SessionTypes
<1>6. OnlyWorkflow(r) /\ workflow'[r] = Retried(workflow[r])
  BY <1>1, <1>5, AloneWith
<1>7. RetriesTo(workflow[r], workflow'[r])
  BY <1>6, RetriedFields DEF TypeInv, WorkflowOK
<1> QED
  BY <1>1, <1>3, <1>4, <1>5, <1>6, <1>7 DEF TimesOut

LEMMA DeathDies ==
    ASSUME TypeInv, Crash \/ SignalRefused
    PROVE  Dies
<1>1. CASE Crash
  BY <1>1 DEF Crash, ProcessDies, dbVars, Dies
<1>2. CASE SignalRefused
  <2>1. outbox # <<>> /\ outbox \in Seq(Intents)
    BY <1>2 DEF SignalRefused, TypeInv, OutboxOK, Intents
  <2>2. Head(outbox) = outbox[1] /\ 1 \in 1..Len(outbox)
    BY <2>1, HeadOf
  <2> QED
    BY <1>2, <2>2 DEF SignalRefused, ProcessDies, dbVars, Dies
<1> QED
  BY <1>1, <1>2

Sorts ==
    \/ Aside \/ Dies
    \/ \E r \in Runs : Alone(r)
    \/ \E x \in Slots : Steps(x) \/ Leaves(x) \/ TimesOut(x) \/ \E r \in Runs : Takes(x, r)

LEMMA StepSorts ==
    ASSUME LifeInv, TypeInv', Next
    PROVE  Sorts
<1>0. Inv /\ TypeInv
  BY DEF LifeInv, Inv
<1>1. ASSUME NEW x \in Slots,
             SlotStep(x) \/ AttemptTimesOut(x) \/ FailBeforeStep(x) \/ HandOverFails(x)
      PROVE  Sorts
  <2>1. \/ Steps(x) \/ StartAttempt(x) \/ CompleteActivity(x) \/ AbandonStale(x)
        \/ ReserveRefused(x) \/ AttemptTimesOut(x)
    BY <1>1 DEF SlotStep, Steps
  <2> QED
    BY <1>0, <2>1, StartTakes, CompleteLeaves, FailsLeaves, TimeoutTimesOut DEF Sorts
<1>2. CASE Reconcile \/ Crash
  BY <1>0, <1>2, BeginsAlone, HearsAlone, QuietAside, DeathDies DEF Reconcile, Sorts
<1>3. ASSUME NEW r \in Runs,
             \/ AttemptLost(r) \/ ReportStep(r) \/ AdminStep(r)
             \/ \E c \in Calls : ApprovalDeadline(r, c)
      PROVE  Sorts
  BY <1>0, <1>3, LosesAlone, QuietAside, MadeAside, DecidedAside DEF ReportStep, AdminStep, Sorts
<1> QED
  BY <1>1, <1>2, <1>3 DEF Next

(*****************************************************************************)
(* What is kept however many faults there are: one attempt is awaited, an    *)
(* attempt of applySignal has a signal, and a wait is answered by one intent. *)
(*****************************************************************************)

LEMMA AwaitedFacts ==
    ASSUME TypeInv, Expected, Shaped, NEW x \in Slots, session[x].awaited
    PROVE  /\ session[x].pc # "idle" /\ session[x].run \in Runs
           /\ workflow[session[x].run].task = "started"
           /\ workflow[session[x].run].phase \in {"start", "advance", "apply"}
           /\ session[x].pc \in Places(workflow[session[x].run].phase)
           /\ session[x].signal = workflow[session[x].run].input
           /\ \A y \in Slots : (session[y].awaited /\ session[y].run = session[x].run) => y = x
<1>1. session[x].pc # "idle"
  BY DEF TypeInv, SessionOK, SignalledOK
<1>2. session[x].run \in Runs
  BY <1>1, SessionTypes
<1>3. Expects(x) /\ Shape(workflow[session[x].run])
  BY <1>2 DEF Expected, Shaped
<1> QED
  BY <1>1, <1>2, <1>3 DEF Expects, Shape

\* An activity's places are its own.
LEMMA PlaceFacts ==
    /\ \A pc \in Looping : pc \in Fenced \cup {"advance"} /\ pc # "return" /\ pc # "idle"
    /\ \A pc \in Serving : pc \in Applying \cup {"apply"} /\ pc # "return" /\ pc # "idle"
    /\ Looping \cap Serving = {}
    /\ Places("start") = {"start", "return"}
    /\ Places("advance") = Looping \cup {"return"}
    /\ Places("apply") = Serving \cup {"return"}
    /\ AnswersOf("start") = {"reconciled"}
    /\ AnswersOf("advance") = {"wait", "complete", "fail"}
    /\ AnswersOf("apply") = {"applied", "ignored"}
    /\ "start" \notin Looping \cup Serving
    /\ Fenced \subseteq Looping \cup Serving
  BY DEF Looping, Serving, Applying, Fenced, Places, AnswersOf

\* An attempt is awaited as it was.
LEMMA ExpectsAsBefore ==
    ASSUME Expected, NEW y \in Slots, session'[y] = session[y],
           \A z \in Slots : (session'[z].awaited /\ session'[z].run = session[y].run)
                => session[z].awaited /\ session[z].run = session[y].run,
           session[y].awaited =>
                /\ workflow'[session[y].run].phase = workflow[session[y].run].phase
                /\ workflow'[session[y].run].task = workflow[session[y].run].task
                /\ workflow'[session[y].run].input = workflow[session[y].run].input
    PROVE  Expects(y)'
  BY DEF Expected, Expects

LEMMA ExpectedGoes ==
    ASSUME TypeInv, Expected, Shaped, NEW x \in Slots, Goes(x)
    PROVE  Expected'
<1> SUFFICES ASSUME NEW y \in Slots
             PROVE  Expects(y)'
  BY DEF Expected
<1>1. /\ workflow' = workflow /\ session'[x].run = session[x].run
      /\ session'[x].signal = session[x].signal /\ session'[x].awaited = session[x].awaited
      /\ \A z \in Slots \ {x} : session'[z] = session[z]
  BY DEF Goes, OnlySession, SameAttempt
<1>2. CASE y # x
  BY <1>1, <1>2, ExpectsAsBefore
<1>3. CASE y = x /\ session[x].awaited
  <2>1. PICK phase \in {"start", "advance", "apply"} :
          phase = workflow[session[x].run].phase /\ session[x].pc \in Places(phase)
    BY <1>3, AwaitedFacts
  <2>2. session'[x].pc \in Places(phase)
        /\ (session'[x].pc = "return" => session'[x].result \in AnswersOf(phase))
    BY <2>1, PlaceFacts DEF Goes
  <2> QED
    BY <1>1, <1>3, <2>1, <2>2, AwaitedFacts DEF Expects
<1> QED
  BY <1>1, <1>2, <1>3 DEF Expects

LEMMA ExpectedAlone ==
    ASSUME TypeInv, Expected, Shaped, NEW r \in Runs, Alone(r)
    PROVE  Expected'
<1> SUFFICES ASSUME NEW y \in Slots
             PROVE  Expects(y)'
  BY DEF Expected
<1>1. session' = session /\ OnlyWorkflow(r)
  BY DEF Alone
<1>2. ASSUME session[y].awaited
      PROVE  /\ workflow'[session[y].run].phase = workflow[session[y].run].phase
             /\ workflow'[session[y].run].task = workflow[session[y].run].task
             /\ workflow'[session[y].run].input = workflow[session[y].run].input
  <2>1. session[y].run \in Runs /\ workflow[session[y].run].phase \in {"start", "advance", "apply"}
    BY <1>2, AwaitedFacts
  <2>2. CASE session[y].run # r
    BY <1>1, <2>1, <2>2 DEF OnlyWorkflow
  <2>3. CASE session[y].run = r
    <3>1. Hears(r)
      BY <1>2, <2>1, <2>3 DEF Alone, Loses, Begins
    <3> QED
      BY <2>1, <2>3, <3>1 DEF Hears
  <2> QED
    BY <2>2, <2>3
<1> QED
  BY <1>1, <1>2, ExpectsAsBefore

LEMMA ExpectedLeaves ==
    ASSUME TypeInv, Expected, Shaped, NEW x \in Slots, Leaves(x) \/ TimesOut(x)
    PROVE  Expected'
<1> SUFFICES ASSUME NEW y \in Slots
             PROVE  Expects(y)'
  BY DEF Expected
<1>1. /\ ~session'[x].awaited /\ \A z \in Slots \ {x} : session'[z] = session[z]
      /\ ~session[x].awaited => workflow' = workflow
      /\ session[x].awaited => OnlyWorkflow(session[x].run)
  BY IdleFacts DEF Leaves, TimesOut, OnlySession
<1>2. CASE y = x
  BY <1>1, <1>2 DEF Expects
<1>3. CASE y # x
  <2>1. session[y].awaited => workflow'[session[y].run] = workflow[session[y].run]
    BY <1>1, <1>3, AwaitedFacts DEF OnlyWorkflow
  <2> QED
    BY <1>1, <1>3, <2>1, ExpectsAsBefore
<1> QED
  BY <1>2, <1>3

LEMMA ExpectedTakes ==
    ASSUME TypeInv, Expected, Shaped, NEW x \in Slots, NEW r \in Runs, Takes(x, r)
    PROVE  Expected'
<1> SUFFICES ASSUME NEW y \in Slots
             PROVE  Expects(y)'
  BY DEF Expected
<1>1. /\ \A z \in Slots \ {x} : session'[z] = session[z]
      /\ workflow[r].task = "scheduled" /\ OnlyWorkflow(r) /\ session'[x].run = r
  BY DEF Takes, OnlySession
<1>2. \A z \in Slots : session[z].awaited => session[z].run # r
  BY <1>1, AwaitedFacts
<1>3. CASE y # x
  <2>1. session[y].awaited => workflow'[session[y].run] = workflow[session[y].run]
    BY <1>1, <1>2, AwaitedFacts DEF OnlyWorkflow
  <2>2. CASE session[y].awaited
    <3>1. session[y].run # r
      BY <1>2, <2>2
    <3> QED
      BY <1>1, <1>3, <2>1, <3>1, ExpectsAsBefore
  <2> QED
    BY <1>1, <1>3, <2>2 DEF Expects
<1>4. CASE y = x
  <2>1. workflow[r].phase \in {"start", "advance", "apply"}
    BY <1>1 DEF Shaped, Shape
  <2>2. session'[x].pc = workflow[r].phase /\ session'[x].signal = workflow'[r].input
        /\ workflow'[r].phase = workflow[r].phase /\ workflow'[r].task = "started"
    BY DEF Takes
  <2>3. session'[x].pc \in Places(workflow'[r].phase) /\ session'[x].pc # "return"
    BY <2>1, <2>2 DEF Places, Looping, Serving
  <2>4. \A z \in Slots : (session'[z].awaited /\ session'[z].run = r) => z = x
    BY <1>1, <1>2
  <2> QED
    BY <1>1, <1>4, <2>2, <2>3, <2>4 DEF Expects
<1> QED
  BY <1>3, <1>4

LEMMA ExpectedKept ==
    ASSUME Inv, Expected, Shaped, Heard, Sorts
    PROVE  Expected'
<1>0. TypeInv
  BY DEF Inv
<1>1. CASE Aside
  BY <1>1 DEF Aside, Expected, Expects
<1>2. CASE Dies
  BY <1>2, IdleFacts DEF Dies, Expected, Expects
<1>3. ASSUME NEW x \in Slots, Steps(x)
      PROVE  Expected'
  BY <1>0, <1>3, StepGoes, ExpectedGoes
<1> QED
  BY <1>0, <1>1, <1>2, <1>3, ExpectedAlone, ExpectedLeaves, ExpectedTakes DEF Sorts

LEMMA HeardStays ==
    ASSUME Inv, Shaped, Heard, Sorts
    PROVE  Heard'
<1> SUFFICES ASSUME NEW y \in Slots, session'[y].pc \in Serving
             PROVE  session'[y].signal # NoSignal
  BY DEF Heard
<1>0. session'[y].pc # "idle"
  BY DEF Serving, Applying
<1>1. CASE session'[y] = session[y]
  BY <1>1 DEF Heard
<1>2. CASE Dies
  BY <1>0, <1>2, IdleFacts DEF Dies
<1>3. ASSUME NEW x \in Slots, Steps(x), y = x
      PROVE  session'[y].signal # NoSignal
  <2>1. Goes(x)
    BY <1>3, StepGoes
  <2>2. session'[x].signal = session[x].signal /\ session[x].pc \in Serving
    BY <1>3, <2>1, PlaceFacts DEF Goes, SameAttempt
  <2> QED
    BY <1>3, <2>2 DEF Heard
<1>4. ASSUME NEW x \in Slots, Leaves(x) \/ TimesOut(x), y = x
      PROVE  session'[y].signal # NoSignal
  BY <1>0, <1>4, IdleFacts DEF Leaves, TimesOut, SameAttempt, Heard
<1>5. ASSUME NEW x \in Slots, NEW r \in Runs, Takes(x, r), y = x
      PROVE  session'[y].signal # NoSignal
  <2>1. workflow[r].phase = "apply"
    BY <1>5 DEF Takes, Shaped, Shape, Serving, Applying
  <2> QED
    BY <1>5, <2>1 DEF Takes, Shaped, Shape
<1>6. ASSUME NEW x \in Slots, Steps(x), y # x
      PROVE  session'[y] = session[y]
  <2>1. Goes(x)
    BY <1>6, StepGoes
  <2> QED
    BY <1>6, <2>1 DEF Goes, OnlySession
<1>7. ASSUME NEW x \in Slots, Leaves(x) \/ TimesOut(x) \/ \E r \in Runs : Takes(x, r), y # x
      PROVE  session'[y] = session[y]
  BY <1>7 DEF Leaves, TimesOut, Takes, OnlySession
<1>8. CASE Aside \/ \E r \in Runs : Alone(r)
  BY <1>1, <1>8 DEF Aside, Alone
<1> QED
  BY <1>1, <1>2, <1>3, <1>4, <1>5, <1>6, <1>7, <1>8 DEF Sorts

LEMMA IntentAt ==
    ASSUME TypeInv, NEW i \in 1..Len(outbox)
    PROVE  /\ outbox[i] \in Intents /\ outbox[i].run \in Runs
           /\ outbox[i].signal \in Signals /\ outbox[i].signal # NoSignal
<1>1. outbox \in Seq(Intents)
  BY DEF TypeInv, OutboxOK, Intents
<1>2. outbox[i] \in Intents
  BY <1>1
<1> QED
  BY <1>2 DEF Intents

LEMMA ShapeMoves ==
    ASSUME NEW wf, NEW new, Shape(wf)
    PROVE  /\ (wf.task = "started" /\ RetriesTo(wf, new)) => Shape(new)
           /\ \A s : (wf.task = "started" /\ AnswersTo(wf, s, new)) => Shape(new)
<1>1. ASSUME wf.task = "started", RetriesTo(wf, new)
      PROVE  Shape(new)
  BY <1>1 DEF Shape, RetriesTo
<1>2. ASSUME NEW s, wf.task = "started", AnswersTo(wf, s, new)
      PROVE  Shape(new)
  BY <1>2 DEF Shape, AnswersTo, WaitsOrApplies
<1> QED
  BY <1>1, <1>2

LEMMA ShapedKept ==
    ASSUME Inv, Expected, Shaped, Heard, Sorts
    PROVE  Shaped'
<1> SUFFICES ASSUME NEW q \in Runs
             PROVE  Shape(workflow'[q])
  BY DEF Shaped
<1>0. TypeInv /\ Shape(workflow[q])
  BY DEF Inv, Shaped
<1>1. CASE workflow'[q] = workflow[q]
  BY <1>0, <1>1
<1>2. ASSUME NEW r \in Runs, Alone(r)
      PROVE  Shape(workflow'[q])
  <2>1. CASE q # r
    BY <1>1, <1>2, <2>1 DEF Alone, OnlyWorkflow
  <2>2. CASE q = r
    <3>1. CASE Loses(r)
      BY <1>0, <2>2, <3>1, ShapeMoves DEF Loses
    <3>2. CASE Begins(r)
      BY <1>0, <1>2, <2>2, <3>2 DEF Begins, Alone, Shape
    <3>3. CASE Hears(r)
      <4>1. outbox[1].signal \in Signals \ {NoSignal}
        BY <1>0, <3>3, IntentAt DEF Hears
      <4>2. WaitOf(outbox[1].signal) # NoWait
        BY <4>1, SignalCalls
      <4> QED
        BY <1>0, <1>2, <2>2, <3>3, <4>1, <4>2 DEF Hears, Alone, Shape
    <3> QED
      BY <1>2, <3>1, <3>2, <3>3 DEF Alone
  <2> QED
    BY <2>1, <2>2
<1>3. ASSUME NEW x \in Slots, Leaves(x) \/ TimesOut(x)
      PROVE  Shape(workflow'[q])
  <2>1. CASE session[x].awaited /\ session[x].run = q
    BY <1>0, <1>3, <2>1, AwaitedFacts, ShapeMoves DEF Leaves, TimesOut
  <2>2. CASE ~(session[x].awaited /\ session[x].run = q)
    BY <1>1, <1>3, <2>2 DEF Leaves, TimesOut, OnlyWorkflow
  <2> QED
    BY <2>1, <2>2
<1>4. ASSUME NEW x \in Slots, NEW r \in Runs, Takes(x, r)
      PROVE  Shape(workflow'[q])
  <2>1. CASE q # r
    BY <1>1, <1>4, <2>1 DEF Takes, OnlyWorkflow
  <2>2. CASE q = r
    BY <1>0, <1>4, <2>2 DEF Takes, Shape
  <2> QED
    BY <2>1, <2>2
<1>5. ASSUME NEW x \in Slots, Steps(x)
      PROVE  workflow' = workflow
  BY <1>5, StepGoes DEF Goes
<1>6. CASE Aside \/ Dies
  BY <1>1, <1>6 DEF Aside, Dies
<1> QED
  BY <1>1, <1>2, <1>3, <1>4, <1>5, <1>6 DEF Sorts

LEMMA DistinctKept ==
    ASSUME Inv, Distinct, Heard, Sorts
    PROVE  Distinct'
<1> SUFFICES ASSUME NEW i \in 1..Len(outbox'), NEW j \in 1..Len(outbox'), i # j,
                    outbox'[i].run = outbox'[j].run
             PROVE  WaitOf(outbox'[i].signal) # WaitOf(outbox'[j].signal)
  BY DEF Distinct, WaitOf
<1>0. TypeInv /\ TrueSignals /\ outbox \in Seq(Intents)
  BY DEF Inv, BooksInv, TypeInv, OutboxOK, Intents
<1>1. ASSUME NEW e \in Intents, Posts(e), NEW k \in 1..Len(outbox), outbox[k].run = e.run
      PROVE  WaitOf(outbox[k].signal) # WaitOf(e.signal)
  BY <1>0, <1>1, IntentAt DEF Posts, TrueSignals
<1>2. i \in Nat /\ j \in Nat /\ Len(outbox) \in Nat
  BY <1>0
<1>3. ASSUME NEW e \in Intents, Posts(e)
      PROVE  WaitOf(outbox'[i].signal) # WaitOf(outbox'[j].signal)
  <2>1. \A k \in 1..Len(outbox') : \/ k \in 1..Len(outbox) /\ outbox'[k] = outbox[k]
                                   \/ k = Len(outbox) + 1 /\ outbox'[k] = e
    BY <1>0, <1>3 DEF Posts
  <2> QED
    BY <1>1, <1>3, <2>1 DEF Distinct
<1>4. CASE reconciler' = "idle" /\ reconciler = "mark" /\ outbox' = Tail(outbox)
  <2>1. outbox # <<>>
    BY <1>0, <1>4 DEF TypeInv, Delivering
  <2>2. /\ i + 1 \in 1..Len(outbox) /\ outbox'[i] = outbox[i + 1]
        /\ j + 1 \in 1..Len(outbox) /\ outbox'[j] = outbox[j + 1]
    BY <1>0, <1>4, <2>1, TailOf
  <2>3. i + 1 # j + 1
    BY <1>2
  <2> QED
    BY <2>2, <2>3 DEF Distinct
<1>5. CASE outbox' = outbox
  BY <1>5 DEF Distinct
<1>6. outbox' = outbox \/ (\E e \in Intents : Posts(e))
      \/ (reconciler' = "idle" /\ reconciler = "mark" /\ outbox' = Tail(outbox))
  <2>1. ASSUME NEW x \in Slots, Steps(x)
        PROVE  outbox' = outbox
    BY <2>1, StepGoes DEF Goes
  <2> QED
    BY <2>1 DEF Sorts, Aside, Dies, Alone, Leaves, TimesOut, Takes
<1> QED
  BY <1>3, <1>4, <1>5, <1>6

(*****************************************************************************)
(* A run no fault has touched stays so.                                      *)
(*****************************************************************************)

\* No intent for the run is written.
StillFor(q) ==
    \A i \in Undelivered' :
        outbox'[i].run = q => \E j \in Undelivered : outbox'[i] = outbox[j]

LEMMA SameIntents ==
    ASSUME outbox' = outbox, reconciler' = reconciler \/ reconciler = "idle", NEW q
    PROVE  StillFor(q)
  BY DEF StillFor, Undelivered

LEMMA AsideIntents ==
    ASSUME TypeInv, Aside, NEW q, \A e \in Intents : Posts(e) => e.run # q
    PROVE  StillFor(q)
<1> SUFFICES ASSUME NEW i \in Undelivered', outbox'[i].run = q
             PROVE  \E j \in Undelivered : outbox'[i] = outbox[j]
  BY DEF StillFor
<1>0. /\ outbox \in Seq(Intents)
      /\ i \in 1..Len(outbox') /\ (i > 1 \/ reconciler' = "idle") /\ i \in Nat
  BY DEF Undelivered, TypeInv, OutboxOK, Intents
<1>1. CASE UNCHANGED <<outbox, reconciler>>
  BY <1>1, SameIntents DEF StillFor
<1>2. ASSUME NEW e \in Intents, Posts(e)
      PROVE  \E j \in Undelivered : outbox'[i] = outbox[j]
  <2>1. \/ i \in 1..Len(outbox) /\ outbox'[i] = outbox[i]
        \/ outbox'[i] = e
    BY <1>0, <1>2, AppendOf DEF Posts
  <2>2. i \in 1..Len(outbox) /\ outbox'[i] = outbox[i] /\ reconciler' = reconciler
    BY <1>2, <2>1 DEF Posts
  <2> QED
    BY <1>0, <2>2 DEF Undelivered
<1>3. CASE reconciler = "mark" /\ reconciler' = "idle" /\ outbox' = Tail(outbox)
  <2>1. outbox # <<>>
    BY <1>3 DEF TypeInv, Delivering
  <2>2. i + 1 \in 1..Len(outbox) /\ outbox'[i] = outbox[i + 1]
    BY <1>0, <1>3, <2>1, TailOf
  <2>3. i + 1 \in Undelivered
    BY <1>0, <2>2 DEF Undelivered
  <2> QED
    BY <2>2, <2>3
<1> QED
  BY <1>1, <1>2, <1>3 DEF Aside

LEMMA CalmFrame ==
    ASSUME NEW q \in Runs, Calm(q), StillFor(q),
           run'[q] = run[q], workflow'[q] = workflow[q],
           \A x \in Slots : (On(x, q) \/ On(x, q)') => session'[x] = session[x]
    PROVE  Calm(q)'
<1>1. ASSUME NEW x \in Slots, On(x, q)'
      PROVE  /\ session'[x].awaited /\ (session'[x].pc \in Fenced => Current(x)')
             /\ ~GivesUp(x)'
  <2>1. session'[x] = session[x] /\ session[x].run = q /\ On(x, q)
    BY <1>1 DEF On
  <2> QED
    BY <2>1 DEF Calm, Current, GivesUp
<1>2. workflow'[q].task = "started" => \E x \in Slots : On(x, q)'
  BY DEF Calm, On
<1>3. ASSUME NEW i \in Undelivered', outbox'[i].run = q
      PROVE  /\ run'[q].wait = WaitOf(outbox'[i].signal) /\ run'[q].status \in Waiting
             /\ workflow'[q].phase \in {"advance", "wait"}
  <2>1. PICK j \in Undelivered : outbox'[i] = outbox[j]
    BY <1>3 DEF StillFor
  <2> QED
    BY <1>3, <2>1 DEF Calm
<1> QED
  BY <1>1, <1>2, <1>3 DEF Calm, WaitOf

\* The one attempt of a run no fault has touched.
LEMMA CalmAttempt ==
    ASSUME Inv, Expected, Shaped, NEW q \in Runs, Calm(q), NEW x \in Slots, On(x, q)
    PROVE  /\ session[x].awaited /\ (session[x].pc \in Fenced => Current(x)) /\ ~GivesUp(x)
           /\ session[x].run = q /\ \A y \in Slots : On(y, q) => y = x
           /\ workflow[q].task = "started" /\ workflow[q].phase \in {"start", "advance", "apply"}
           /\ session[x].pc \in Places(workflow[q].phase)
           /\ session[x].pc = "return" => session[x].result \in AnswersOf(workflow[q].phase)
<1>1. session[x].awaited /\ session[x].run = q /\ TypeInv
  BY DEF Calm, On, Inv
<1>2. \A y \in Slots : On(y, q) => session[y].awaited /\ session[y].run = q
  BY DEF Calm, On
<1> QED
  BY <1>1, <1>2, AwaitedFacts DEF Calm, Expected, Expects

LEMMA CalmAside ==
    ASSUME Inv, Aside, NEW q \in Runs, Calm(q), Follows(q)
    PROVE  Calm(q)'
<1>0. TypeInv /\ TrueSignals /\ Rows /\ outbox \in Seq(Intents)
      /\ UNCHANGED <<run, session, workflow>>
  BY DEF Inv, BooksInv, FenceInv, TypeInv, OutboxOK, Intents, Aside
<1>1. CASE \A e \in Intents : Posts(e) => e.run # q
  BY <1>0, <1>1, AsideIntents, CalmFrame
<1>2. ASSUME NEW e \in Intents, Posts(e), e.run = q
      PROVE  Calm(q)'
  <2>1. ASSUME NEW x \in Slots, On(x, q)'
        PROVE  /\ session'[x].awaited /\ (session'[x].pc \in Fenced => Current(x)')
               /\ ~GivesUp(x)'
    BY <1>0, <2>1 DEF On, Calm, Current, GivesUp
  <2>2. workflow'[q].task = "started" => \E x \in Slots : On(x, q)'
    BY <1>0 DEF Calm, On
  <2>3. run[q].status \in Waiting /\ run[q].wait = WaitOf(e.signal)
    BY <1>2 DEF Posts
  <2>4. workflow[q] \in Workflows /\ workflow[q].input \in Signals /\ IsTrue(q, workflow[q].input)
    BY <1>0, WorkflowTypes DEF TypeInv, WorkflowOK, TrueSignals, TrueWorkflow
  <2>5. workflow[q].phase \in {"advance", "wait"}
    <3>1. workflow[q].phase \notin {"absent", "start"}
      BY <2>3 DEF Calm, Waiting
    <3>2. workflow[q].phase \notin {"apply", "failed"}
      BY <1>2, <2>3, <2>4 DEF Calm, Posts
    <3>3. workflow[q].phase # "returned"
      BY <2>3 DEF Follows, Waiting, Terminal
    <3> QED
      BY <2>4, <3>1, <3>2, <3>3 DEF Workflows
  <2>6. ASSUME NEW i \in Undelivered', outbox'[i].run = q
        PROVE  /\ run'[q].wait = WaitOf(outbox'[i].signal) /\ run'[q].status \in Waiting
               /\ workflow'[q].phase \in {"advance", "wait"}
    <3>1. i \in 1..Len(outbox') /\ (i > 1 \/ reconciler' = "idle")
      BY DEF Undelivered
    <3>2. \/ i \in 1..Len(outbox) /\ outbox'[i] = outbox[i]
          \/ outbox'[i] = e
      BY <1>0, <1>2, <3>1, AppendOf DEF Posts
    <3>3. CASE i \in 1..Len(outbox) /\ outbox'[i] = outbox[i]
      <4>1. i \in Undelivered
        BY <1>2, <3>1, <3>3 DEF Undelivered, Posts
      <4> QED
        BY <1>0, <2>6, <3>3, <4>1 DEF Calm
    <3> QED
      BY <1>0, <2>3, <2>5, <3>2, <3>3
  <2> QED
    BY <1>0, <2>1, <2>2, <2>6 DEF Calm, WaitOf
<1> QED
  BY <1>1, <1>2

LEMMA CalmAlone ==
    ASSUME Inv, Expected, Shaped, Distinct, NEW r \in Runs, Alone(r), NEW q \in Runs, Calm(q)
    PROVE  Calm(q)'
<1>0. TypeInv /\ UNCHANGED <<run, session, outbox>> /\ OnlyWorkflow(r)
  BY DEF Inv, Alone
<1>1. StillFor(q)
  BY SameIntents DEF Alone, Loses, Begins, Hears
<1>2. CASE workflow'[q] = workflow[q]
  BY <1>0, <1>1, <1>2, CalmFrame
<1>3. CASE q = r /\ workflow'[q] # workflow[q]
  <2>1. ASSUME NEW x \in Slots, On(x, q)'
        PROVE  /\ session'[x].awaited /\ (session'[x].pc \in Fenced => Current(x)')
               /\ ~GivesUp(x)'
    BY <1>0, <2>1 DEF On, Calm, Current, GivesUp
  <2>2. CASE Loses(r)
    BY <1>3, <2>2 DEF Loses, Calm, On
  <2>3. CASE Begins(r)
    <3>1. \A i \in Undelivered' : outbox'[i].run # q
      BY <1>1, <1>3, <2>3 DEF StillFor, Begins, Calm
    <3> QED
      BY <1>0, <1>3, <2>1, <2>3, <3>1 DEF Begins, Calm, WaitOf
  <2>4. CASE Hears(r)
    <3>1. PICK signal \in Signals \ {NoSignal} : signal = outbox[1].signal
      BY <1>0, <2>4, IntentAt DEF Hears
    <3>2. 1 \in Undelivered /\ outbox[1].run = q
      BY <1>3, <2>4 DEF Hears, Undelivered
    <3>3. run[q].wait = WaitOf(signal) /\ workflow[q].phase \in {"advance", "wait"}
      BY <3>1, <3>2 DEF Calm
    <3>4. workflow[q].phase = "wait" /\ workflow'[q].phase = "apply"
          /\ workflow'[q].task = "scheduled" /\ workflow'[q].input = signal
          /\ workflow'[q].accepted = NoSignal
      <4>1. WaitOf(signal) # NoWait
        BY <3>1, SignalCalls
      <4>2. workflow[q].phase # "advance"
        BY <1>3, <2>4, <3>1, <4>1 DEF Hears, Shaped, Shape
      <4> QED
        BY <1>3, <2>4, <3>1, <3>3, <4>2 DEF Hears
    <3>5. \A i \in Undelivered' : outbox'[i].run # q
      <4> SUFFICES ASSUME NEW i \in Undelivered', outbox'[i].run = q
                   PROVE  FALSE
        OBVIOUS
      <4>1. i \in 1..Len(outbox) /\ i > 1 /\ outbox'[i] = outbox[i] /\ outbox[i].run = q
        BY <1>0, <2>4 DEF Undelivered, Hears
      <4>2. i \in Undelivered /\ i # 1
        BY <4>1 DEF Undelivered
      <4>3. WaitOf(outbox[i].signal) = WaitOf(signal)
        BY <3>3, <4>1, <4>2 DEF Calm
      <4> QED
        BY <2>4, <3>1, <3>2, <4>1, <4>2, <4>3 DEF Distinct, Hears
    <3> QED
      BY <1>0, <2>1, <3>3, <3>4, <3>5 DEF Calm, WaitOf
  <2> QED
    BY <2>2, <2>3, <2>4 DEF Alone
<1> QED
  BY <1>0, <1>2, <1>3 DEF OnlyWorkflow

\* A step of an attempt leaves the other runs' rows alone.
LEMMA RowGoes ==
    ASSUME Inv, NEW x \in Slots, Goes(x), SoftMove(x) \/ WriteMove(x), NEW q \in Runs
    PROVE  \/ run'[q] = run[q]
           \/ q = session[x].run /\ WriteMove(x) /\ Wrote(x)
  BY Written DEF SoftMove, WriteMove, OnlyRun

LEMMA CalmGoes ==
    ASSUME Inv, Expected, Shaped, NEW x \in Slots, Goes(x), SoftMove(x) \/ WriteMove(x),
           faults' = faults, NEW q \in Runs, Calm(q)
    PROVE  Calm(q)'
<1>0. /\ TypeInv /\ UNCHANGED <<workflow, outbox, reconciler>>
      /\ \A y \in Slots \ {x} : session'[y] = session[y]
      /\ session'[x].run = session[x].run /\ session'[x].awaited = session[x].awaited
      /\ session[x].pc # "idle" /\ session'[x].pc # "idle"
  BY PlaceFacts DEF Inv, Goes, OnlySession, SameAttempt
<1>1. StillFor(q)
  BY <1>0, SameIntents
<1>2. CASE session[x].run # q
  <2>1. run'[q] = run[q]
    BY <1>2, RowGoes
  <2> QED
    BY <1>0, <1>1, <1>2, <2>1, CalmFrame DEF On
<1>3. CASE session[x].run = q
  <2>0. On(x, q)
    BY <1>0, <1>3 DEF On
  <2>1. /\ session[x].awaited /\ (session[x].pc \in Fenced => Current(x)) /\ ~GivesUp(x)
        /\ \A y \in Slots : On(y, q) => y = x
        /\ workflow[q].phase \in {"start", "advance", "apply"}
        /\ session[x].pc \in Places(workflow[q].phase)
    BY <2>0, CalmAttempt
  <2>2. ASSUME NEW y \in Slots, On(y, q)'
        PROVE  /\ session'[y].awaited /\ (session'[y].pc \in Fenced => Current(y)')
               /\ ~GivesUp(y)'
    <3>1. y = x
      BY <1>0, <2>1, <2>2 DEF On
    <3>2. session'[x].pc \in Fenced => Current(x)'
      BY <2>1, StaysCurrent
    <3>3. ~GivesUp(x)'
      <4>1. faults \in Nat /\ ~Fault
        BY <1>0, ConstantFacts DEF TypeInv, LedgerOK, Fault
      <4> QED
        BY <2>1, <4>1, NoneGivesUp
    <3> QED
      BY <1>0, <2>1, <3>1, <3>2, <3>3
  <2>3. On(x, q)'
    BY <1>0, <1>3 DEF On
  <2>4. CASE run'[q] = run[q]
    <3>1. ASSUME NEW i \in Undelivered', outbox'[i].run = q
          PROVE  /\ run'[q].wait = WaitOf(outbox'[i].signal) /\ run'[q].status \in Waiting
                 /\ workflow'[q].phase \in {"advance", "wait"}
      BY <1>0, <1>1, <2>4, <3>1 DEF StillFor, Calm
    <3> QED
      BY <1>0, <2>2, <2>3, <2>4, <3>1 DEF Calm, WaitOf
  <2>5. CASE run'[q] # run[q]
    <3>1. WriteMove(x) /\ Wrote(x)
      BY <2>5, RowGoes
    <3>2. session[x].pc \in Fenced
      BY <3>1 DEF WriteMove
    <3>3. workflow[q].phase \notin {"absent", "start", "failed"}
      BY <2>1, <3>2, PlaceFacts DEF Goes, Fenced, Applying
    <3>4. \A i \in Undelivered : outbox[i].run # q
      <4> SUFFICES ASSUME NEW i \in Undelivered, outbox[i].run = q
                   PROVE  FALSE
        OBVIOUS
      <4>1. run[q].status \in Waiting /\ workflow[q].phase \in {"advance", "wait"}
        BY DEF Calm
      <4>2. session[x].pc = "settle"
        BY <1>3, <2>1, <3>1, <4>1 DEF Wrote, Waiting
      <4> QED
        BY <2>1, <4>1, <4>2, PlaceFacts DEF Looping
    <3>5. workflow[q].phase = "apply" => run'[q].status \notin Waiting
      <4>1. workflow[q].phase = "apply" => session[x].pc \in Applying
        BY <2>1, <3>2, PlaceFacts DEF Fenced, Serving, Applying
      <4> QED
        BY <1>3, <2>1, <3>1, <4>1 DEF Wrote, Waiting, Applying
    <3>6. \A i \in Undelivered' : outbox'[i].run # q
      BY <1>1, <3>4 DEF StillFor
    <3> QED
      BY <1>0, <2>2, <2>3, <3>3, <3>5, <3>6 DEF Calm, WaitOf
  <2> QED
    BY <2>4, <2>5
<1> QED
  BY <1>2, <1>3

LEMMA CalmLeaves ==
    ASSUME Inv, Expected, Shaped, NEW x \in Slots, Leaves(x), Says(x), NEW q \in Runs, Calm(q)
    PROVE  Calm(q)'
<1>0. /\ TypeInv /\ UNCHANGED <<run, outbox, reconciler>>
      /\ \A y \in Slots \ {x} : session'[y] = session[y]
      /\ session[x].pc # "idle" /\ session'[x].pc = "idle"
  BY IdleFacts DEF Inv, Leaves, OnlySession
<1>1. StillFor(q)
  BY <1>0, SameIntents
<1>2. CASE session[x].run # q
  <2>1. workflow'[q] = workflow[q]
    BY <1>2 DEF Leaves, OnlyWorkflow
  <2> QED
    BY <1>0, <1>1, <1>2, <2>1, CalmFrame DEF On
<1>3. CASE session[x].run = q
  <2>0. On(x, q)
    BY <1>0, <1>3 DEF On
  <2>1. /\ session[x].awaited /\ (session[x].pc \in Fenced => Current(x))
        /\ \A y \in Slots : On(y, q) => y = x
        /\ workflow[q].task = "started" /\ workflow[q].phase \in {"start", "advance", "apply"}
        /\ session[x].pc \in Places(workflow[q].phase)
        /\ session[x].pc = "return" => session[x].result \in AnswersOf(workflow[q].phase)
    BY <2>0, CalmAttempt
  <2>2. \A y \in Slots : ~On(y, q)'
    BY <1>0, <2>1 DEF On
  <2>3. workflow[q].accepted = NoSignal
    BY DEF Calm
  <2>4. CASE session[x].pc = "reserve" /\ RetriesTo(workflow[q], workflow'[q])
    <3>1. workflow[q].phase = "apply"
      BY <2>1, <2>4, PlaceFacts DEF Looping
    <3>2. \A i \in Undelivered' : outbox'[i].run # q
      BY <1>1, <3>1 DEF StillFor, Calm
    <3> QED
      BY <1>0, <2>2, <2>3, <2>4, <3>1, <3>2 DEF RetriesTo, Calm, WaitOf
  <2>5. CASE session[x].pc = "return" /\ AnswersTo(workflow[q], session[x], workflow'[q])
    <3>1. workflow'[q].accepted = NoSignal /\ workflow'[q].task # "started"
          /\ workflow'[q].phase \in {"advance", "wait", "returned"}
      BY <2>3, <2>5 DEF AnswersTo, WaitsOrApplies
    <3>2. ASSUME NEW i \in Undelivered', outbox'[i].run = q
          PROVE  /\ run'[q].wait = WaitOf(outbox'[i].signal) /\ run'[q].status \in Waiting
                 /\ workflow'[q].phase \in {"advance", "wait"}
      <4>1. PICK j \in Undelivered : outbox'[i] = outbox[j]
        BY <1>1, <3>2 DEF StillFor
      <4>2. run[q].wait = WaitOf(outbox[j].signal) /\ run[q].status \in Waiting
            /\ workflow[q].phase = "advance"
        BY <2>1, <3>2, <4>1 DEF Calm
      <4>3. session[x].result \in {"wait", "complete", "fail"}
        BY <2>1, <2>5, <4>2, PlaceFacts
      <4>4. session[x].result = "wait"
        BY <1>3, <2>1, <2>5, <4>2, <4>3 DEF Says, Waiting
      <4> QED
        BY <1>0, <2>3, <2>5, <4>1, <4>2, <4>4 DEF AnswersTo, WaitsOrApplies
    <3> QED
      BY <1>0, <2>2, <3>1, <3>2 DEF Calm, WaitOf
  <2>6. \/ session[x].pc = "reserve" /\ RetriesTo(workflow[q], workflow'[q])
        \/ session[x].pc = "return" /\ AnswersTo(workflow[q], session[x], workflow'[q])
    BY <1>3, <2>1 DEF Leaves
  <2> QED
    BY <2>4, <2>5, <2>6
<1> QED
  BY <1>2, <1>3

LEMMA CalmTakes ==
    ASSUME Inv, Expected, Shaped, NEW x \in Slots, NEW r \in Runs, Takes(x, r),
           NEW q \in Runs, Calm(q)
    PROVE  Calm(q)'
<1>0. /\ TypeInv /\ UNCHANGED <<run, outbox, reconciler>>
      /\ \A y \in Slots \ {x} : session'[y] = session[y]
      /\ session[x].pc = "idle" /\ session'[x].run = r /\ session'[x].awaited
  BY DEF Inv, Takes, OnlySession
<1>1. StillFor(q)
  BY <1>0, SameIntents
<1>2. CASE q # r
  <2>1. workflow'[q] = workflow[q]
    BY <1>2 DEF Takes, OnlyWorkflow
  <2> QED
    BY <1>0, <1>1, <1>2, <2>1, CalmFrame DEF On
<1>3. CASE q = r
  <2>1. session'[x].pc \in {"start", "advance", "apply"}
    BY DEF Takes, Shaped, Shape
  <2>2. session'[x].pc \notin Fenced /\ ~GivesUp(x)' /\ On(x, q)'
    BY <1>0, <1>3, <2>1 DEF Fenced, Applying, GivesUp, On
  <2>3. ASSUME NEW y \in Slots, On(y, q)', y # x
        PROVE  /\ session'[y].awaited /\ (session'[y].pc \in Fenced => Current(y)')
               /\ ~GivesUp(y)'
    BY <1>0, <2>3 DEF On, Calm, Current, GivesUp
  <2>4. ASSUME NEW i \in Undelivered', outbox'[i].run = q
        PROVE  /\ run'[q].wait = WaitOf(outbox'[i].signal) /\ run'[q].status \in Waiting
               /\ workflow'[q].phase \in {"advance", "wait"}
    BY <1>0, <1>1, <1>3, <2>4 DEF StillFor, Calm, Takes
  <2> QED
    BY <1>0, <1>3, <2>2, <2>3, <2>4 DEF Calm, Takes, WaitOf
<1> QED
  BY <1>2, <1>3

LEMMA CalmTimesOut ==
    ASSUME Inv, NEW x \in Slots, TimesOut(x), NEW q \in Runs \ {session[x].run}, Calm(q)
    PROVE  Calm(q)'
<1>0. /\ UNCHANGED <<run, outbox, reconciler>>
      /\ \A y \in Slots \ {x} : session'[y] = session[y]
      /\ session'[x].run = session[x].run /\ workflow'[q] = workflow[q]
  BY DEF TimesOut, OnlySession, SameAttempt, OnlyWorkflow
<1>1. StillFor(q)
  BY <1>0, SameIntents
<1> QED
  BY <1>0, <1>1, CalmFrame DEF On

\* Nothing but a fault or a death of the process disturbs it.
LEMMA CalmKept ==
    ASSUME FollowInv, SoloInv, Sorts, ~Dies, faults' = faults, NEW q \in Runs, Calm(q)
    PROVE  Calm(q)'
<1>0. Inv /\ TypeInv /\ Expected /\ Heard /\ Shaped /\ Distinct
  BY DEF FollowInv, LifeInv, Inv
<1>1. CASE Aside
  BY <1>0, <1>1, CalmAside DEF SoloInv
<1>2. ASSUME NEW r \in Runs, Alone(r)
      PROVE  Calm(q)'
  BY <1>0, <1>2, CalmAlone
<1>3. ASSUME NEW x \in Slots, Steps(x)
      PROVE  Calm(q)'
  BY <1>0, <1>3, StepGoes, CalmGoes
<1>4. ASSUME NEW x \in Slots, Leaves(x)
      PROVE  Calm(q)'
  BY <1>0, <1>4, CalmLeaves DEF SoloInv
<1>5. ASSUME NEW x \in Slots, NEW r \in Runs, Takes(x, r)
      PROVE  Calm(q)'
  BY <1>0, <1>5, CalmTakes
<1>6. ASSUME NEW x \in Slots, TimesOut(x)
      PROVE  FALSE
  BY <1>0, <1>6, ConstantFacts DEF TimesOut, Fault, TypeInv, LedgerOK
<1> QED
  BY <1>1, <1>2, <1>3, <1>4, <1>5, <1>6 DEF Sorts

(*****************************************************************************)
(* With at most one fault, at most one attempt is given up, and what it can  *)
(* still write has been answered.                                            *)
(*****************************************************************************)

LEMMA FaultCount ==
    ASSUME Inv, Heard, Sorts, faults' <= 1
    PROVE  /\ faults \in {0, 1} /\ (faults' = faults \/ (faults = 0 /\ faults' = 1))
           /\ Fault => faults = 0
           /\ \A x \in Slots : TimesOut(x) => faults = 0 /\ faults' = 1
<1>0. faults \in Nat
  BY ConstantFacts DEF Inv, TypeInv, LedgerOK
<1>1. ASSUME NEW x \in Slots, Steps(x)
      PROVE  faults' = faults \/ Fault
  <2>1. Goes(x)
    BY <1>1, StepGoes
  <2> QED
    BY <2>1 DEF Goes
<1>2. faults' = faults \/ Fault
  BY <1>1 DEF Sorts, Aside, Dies, Alone, Leaves, TimesOut, Takes
<1>3. Fault => faults' = faults + 1
  BY DEF Fault
<1> QED
  BY <1>0, <1>2, <1>3 DEF TimesOut

\* The awaited attempts of a run, besides the orphan: none.
LEMMA Beside ==
    ASSUME TypeInv, Expected, Shaped, NEW x \in Slots, NEW y \in Slots, x # y,
           session[x].pc # "idle", session[y].awaited, session[y].run = session[x].run
    PROVE  Orphan(x)
  BY AwaitedFacts DEF Orphan

LEMMA OneFaultKept ==
    ASSUME FollowInv, SoloInv, Sorts, faults' <= 1
    PROVE  OneFault'
<1>0. /\ Inv /\ TypeInv /\ Expected /\ Heard /\ Shaped /\ OneFault
      /\ faults \in {0, 1} /\ (faults' = faults \/ (faults = 0 /\ faults' = 1))
      /\ Fault => faults = 0
  BY FaultCount DEF FollowInv, LifeInv, Inv, SoloInv
<1>1. CASE Aside \/ \E r \in Runs : Alone(r)
  <2>1. UNCHANGED <<run, session, faults>>
    BY <1>1 DEF Aside, Alone
  <2> QED
    BY <1>0, <2>1 DEF OneFault, Orphan, GivesUp, Current
<1>2. CASE Dies
  BY <1>2, IdleFacts DEF Dies, OneFault, Orphan, GivesUp
<1>3. ASSUME NEW x \in Slots, Steps(x)
      PROVE  OneFault'
  <2>1. Goes(x) /\ (SoftMove(x) \/ WriteMove(x))
    BY <1>0, <1>3, StepGoes
  <2>2. /\ \A y \in Slots : Orphan(y)' <=> Orphan(y)
        /\ \A y \in Slots : session'[y].awaited = session[y].awaited
    <3>1. session[x].pc # "idle" /\ session'[x].pc # "idle"
          /\ session'[x].awaited = session[x].awaited
          /\ \A y \in Slots \ {x} : session'[y] = session[y]
      BY <2>1, PlaceFacts DEF Goes, SameAttempt, OnlySession
    <3> QED
      BY <3>1 DEF Orphan
  <2>3. \A y \in Slots : GivesUp(y)' => GivesUp(y) \/ (y = x /\ Fault)
    BY <1>0, <2>1, NoneGivesUp
  <2>4. CASE Fault
    <3>1. \A y \in Slots : ~Orphan(y) /\ ~GivesUp(y)
      BY <1>0, <2>4 DEF OneFault
    <3>2. session[x].awaited /\ faults' = 1
      <4>1. session[x].pc # "idle" /\ session[x].awaited \in BOOLEAN
        BY <1>0, <2>1, SessionTypes DEF Goes, SameAttempt
      <4> QED
        BY <1>0, <2>4, <3>1, <4>1 DEF Orphan, Fault
    <3> QED
      BY <2>2, <2>3, <3>1, <3>2 DEF OneFault
  <2>5. CASE ~Fault
    <3>1. faults' = faults
      BY <2>1, <2>5 DEF Goes
    <3> QED
      BY <1>0, <2>2, <2>3, <2>5, <3>1 DEF OneFault
  <2> QED
    BY <2>4, <2>5
<1>4. ASSUME NEW x \in Slots, Leaves(x) \/ \E r \in Runs : Takes(x, r)
      PROVE  OneFault'
  <2>1. /\ UNCHANGED <<run, faults>> /\ \A y \in Slots \ {x} : session'[y] = session[y]
    BY <1>4 DEF Leaves, Takes, OnlySession
  <2>2. ~Orphan(x)' /\ ~GivesUp(x)'
    <3>1. CASE Leaves(x)
      BY <3>1, IdleFacts DEF Leaves, Orphan, GivesUp
    <3>2. ASSUME NEW r \in Runs, Takes(x, r)
          PROVE  ~Orphan(x)' /\ ~GivesUp(x)'
      BY <1>0, <3>2 DEF Takes, Shaped, Shape, Orphan, GivesUp
    <3> QED
      BY <1>4, <3>1, <3>2
  <2>3. \A y \in Slots : (Orphan(y)' => Orphan(y)) /\ (GivesUp(y)' => GivesUp(y) /\ y # x)
    BY <2>1, <2>2 DEF Orphan, GivesUp, Current
  <2> QED
    BY <1>0, <2>1, <2>3 DEF OneFault
<1>5. ASSUME NEW x \in Slots, TimesOut(x)
      PROVE  OneFault'
  <2>1. faults = 0 /\ faults' = 1
    BY <1>0, <1>5, FaultCount
  <2>2. \A y \in Slots : ~Orphan(y) /\ ~GivesUp(y)
    BY <1>0, <2>1 DEF OneFault
  <2>3. /\ UNCHANGED run /\ \A y \in Slots \ {x} : session'[y] = session[y]
        /\ session'[x].pc = session[x].pc /\ session'[x].run = session[x].run
        /\ session'[x].version = session[x].version
    BY <1>5 DEF TimesOut, OnlySession, SameAttempt
  <2>4. \A y \in Slots : ~GivesUp(y)' /\ (Orphan(y)' => y = x)
    BY <2>2, <2>3 DEF Orphan, GivesUp, Current
  <2> QED
    BY <2>1, <2>4 DEF OneFault
<1> QED
  BY <1>1, <1>2, <1>3, <1>4, <1>5 DEF Sorts

LEMMA LateKept ==
    ASSUME FollowInv, SoloInv, Sorts, faults' <= 1, NEW y \in Slots
    PROVE  Late(y)'
<1> SUFFICES ASSUME Orphan(y)', session'[y].pc \in Serving,
                    run'[session'[y].run].wait = WaitOf(session'[y].signal)
             PROVE  \/ workflow'[session'[y].run].phase = "failed"
                    \/ /\ workflow'[session'[y].run].phase = "apply"
                       /\ workflow'[session'[y].run].input = session'[y].signal
  BY DEF Late, WaitOf
<1>0. /\ Inv /\ TypeInv /\ TrueSignals /\ Expected /\ Heard /\ Shaped /\ OneFault /\ Late(y)
  BY DEF FollowInv, LifeInv, Inv, SoloInv, BooksInv
<1>1. ASSUME session[y].pc \in Serving, session'[y].run = session[y].run,
             session'[y].signal = session[y].signal
      PROVE  /\ session[y].run \in Runs
             /\ session[y].signal \in Signals /\ session[y].signal # NoSignal
             /\ IsTrue(session[y].run, session[y].signal)
  BY <1>0, <1>1, PlaceFacts, SessionTypes DEF Heard, TrueSignals
<1>2. CASE Aside \/ \E r \in Runs : Alone(r)
  <2>1. UNCHANGED <<run, session>>
    BY <1>2 DEF Aside, Alone
  <2>2. PICK q \in Runs : q = session[y].run
    BY <1>1, <2>1
  <2>3. \/ workflow[q].phase = "failed"
        \/ workflow[q].phase = "apply" /\ workflow[q].input = session[y].signal
    BY <1>0, <2>1, <2>2 DEF Late, Orphan, WaitOf
  <2>4. CASE workflow'[q] = workflow[q]
    BY <2>1, <2>2, <2>3, <2>4
  <2>5. ASSUME NEW r \in Runs, Alone(r), q = r
        PROVE  \/ workflow'[q].phase = "failed"
               \/ workflow'[q].phase = "apply" /\ workflow'[q].input = session[y].signal
    BY <2>3, <2>5 DEF Alone, Loses, Begins, Hears, RetriesTo, Open
  <2> QED
    BY <1>2, <2>1, <2>2, <2>4, <2>5 DEF Aside, Alone, OnlyWorkflow
<1>3. CASE Dies
  BY <1>3, IdleFacts DEF Dies, Orphan
<1>4. ASSUME NEW x \in Slots, Steps(x)
      PROVE  \/ workflow'[session'[y].run].phase = "failed"
             \/ /\ workflow'[session'[y].run].phase = "apply"
                /\ workflow'[session'[y].run].input = session'[y].signal
  <2>1. Goes(x) /\ (SoftMove(x) \/ WriteMove(x))
    BY <1>0, <1>4, StepGoes
  <2>2. /\ session'[y].run = session[y].run /\ session'[y].signal = session[y].signal
        /\ Orphan(y) /\ session[y].pc \in Serving
        /\ workflow' = workflow
    <3>1. /\ session[x].pc # "idle" /\ session'[x].run = session[x].run
          /\ session'[x].signal = session[x].signal
          /\ session'[x].awaited = session[x].awaited /\ workflow' = workflow
          /\ \A z \in Slots \ {x} : session'[z] = session[z]
      BY <2>1 DEF Goes, SameAttempt, OnlySession
    <3>2. session'[x].pc \in Serving => session[x].pc \in Serving
      BY <2>1, PlaceFacts DEF Goes
    <3> QED
      BY <3>1, <3>2 DEF Orphan
  <2>3. PICK q \in Runs, signal \in Signals :
          /\ q = session[y].run /\ signal = session[y].signal /\ signal # NoSignal
          /\ IsTrue(q, signal)
    BY <1>1, <2>2
  <2>4. run[q].wait = WaitOf(signal)
    <3>1. CASE run'[q] = run[q]
      BY <2>2, <2>3, <3>1
    <3>2. CASE q = session[x].run /\ Wrote(x)
      BY <1>0, <2>2, <2>3, <3>2, WaitStaysAnswered
    <3> QED
      BY <1>0, <2>1, <3>1, <3>2, RowGoes
  <2> QED
    BY <1>0, <2>2, <2>3, <2>4 DEF Late
<1>5. ASSUME NEW x \in Slots, Leaves(x)
      PROVE  \/ workflow'[session'[y].run].phase = "failed"
             \/ /\ workflow'[session'[y].run].phase = "apply"
                /\ workflow'[session'[y].run].input = session'[y].signal
  <2>1. y # x /\ session'[y] = session[y] /\ UNCHANGED run
    BY <1>5, IdleFacts DEF Leaves, OnlySession, Orphan
  <2>2. PICK q \in Runs : q = session[y].run
    BY <1>1, <2>1
  <2>3. \/ workflow[q].phase = "failed"
        \/ workflow[q].phase = "apply" /\ workflow[q].input = session[y].signal
    BY <1>0, <2>1, <2>2 DEF Late, Orphan, WaitOf
  <2>4. CASE workflow'[q] = workflow[q]
    BY <2>1, <2>2, <2>3, <2>4
  <2>5. CASE workflow'[q] # workflow[q]
    <3>1. session[x].awaited /\ session[x].run = q
      BY <1>5, <2>5 DEF Leaves, OnlyWorkflow
    <3>2. workflow[q].phase = "apply" /\ session[x].signal = session[y].signal
      BY <1>0, <2>3, <3>1, AwaitedFacts
    <3>3. CASE RetriesTo(workflow[q], workflow'[q])
      BY <2>1, <2>2, <2>3, <3>3 DEF RetriesTo
    <3>4. CASE session[x].pc = "return" /\ AnswersTo(workflow[q], session[x], workflow'[q])
      <4>1. session[x].result \in {"applied", "ignored"}
        BY <1>0, <3>1, <3>2, <3>4, PlaceFacts DEF Expected, Expects
      <4>2. run[q].wait # WaitOf(session[x].signal)
        BY <3>1, <3>4, <4>1 DEF SoloInv, Says
      <4> QED
        BY <2>1, <2>2, <3>2, <4>2
    <3> QED
      BY <1>5, <3>1, <3>3, <3>4 DEF Leaves
  <2> QED
    BY <2>4, <2>5
<1>6. ASSUME NEW x \in Slots, NEW r \in Runs, Takes(x, r)
      PROVE  \/ workflow'[session'[y].run].phase = "failed"
             \/ /\ workflow'[session'[y].run].phase = "apply"
                /\ workflow'[session'[y].run].input = session'[y].signal
  <2>1. y # x /\ session'[y] = session[y] /\ UNCHANGED run
    BY <1>6 DEF Takes, OnlySession, Orphan
  <2>2. PICK q \in Runs : q = session[y].run
    BY <1>1, <2>1
  <2>3. \/ workflow[q].phase = "failed"
        \/ workflow[q].phase = "apply" /\ workflow[q].input = session[y].signal
    BY <1>0, <2>1, <2>2 DEF Late, Orphan, WaitOf
  <2> QED
    BY <1>6, <2>1, <2>2, <2>3 DEF Takes, OnlyWorkflow
<1>7. ASSUME NEW x \in Slots, TimesOut(x)
      PROVE  \/ workflow'[session'[y].run].phase = "failed"
             \/ /\ workflow'[session'[y].run].phase = "apply"
                /\ workflow'[session'[y].run].input = session'[y].signal
  <2>1. faults = 0
    BY <1>0, <1>7, FaultCount
  <2>2. y = x
    BY <1>0, <1>7, <2>1 DEF TimesOut, OnlySession, OneFault, Orphan
  <2>3. PICK q \in Runs : /\ q = session[x].run /\ session'[x].run = q
                          /\ session'[x].signal = session[x].signal
                          /\ session[x].pc \in Serving
    BY <1>1, <1>7, <2>2 DEF TimesOut, SameAttempt
  <2>4. workflow[q].phase = "apply" /\ workflow[q].input = session[x].signal
    BY <1>0, <1>7, <2>3, AwaitedFacts, PlaceFacts DEF TimesOut
  <2> QED
    BY <1>7, <2>2, <2>3, <2>4 DEF TimesOut, RetriesTo
<1> QED
  BY <1>2, <1>3, <1>4, <1>5, <1>6, <1>7 DEF Sorts

\* The orphan beside an awaited attempt writes nothing the attempt relies on.
LEMMA SaysBeside ==
    ASSUME FollowInv, SoloInv, NEW x \in Slots, WriteMove(x), Wrote(x), NEW y \in Slots \ {x},
           session[y].awaited, session[y].run = session[x].run,
           session'[y] = session[y], workflow' = workflow
    PROVE  Says(y)'
<1>0. /\ Inv /\ TypeInv /\ TrueSignals /\ Expected /\ Heard /\ Shaped /\ OneFault
      /\ Late(x) /\ Says(y)
  BY DEF FollowInv, LifeInv, Inv, SoloInv, BooksInv
<1>1. PICK q \in Runs : q = session[x].run /\ session[x].pc # "idle"
  BY DEF WriteMove, Fenced, Applying
<1>2. Orphan(x)
  BY <1>0, <1>1, Beside
<1>3. /\ workflow[q].phase \in {"start", "advance", "apply"}
      /\ session[y].pc \in Places(workflow[q].phase)
      /\ session[y].signal = workflow[q].input
      /\ session[y].pc = "return" => session[y].result \in AnswersOf(workflow[q].phase)
  BY <1>0, <1>1, AwaitedFacts DEF Expected, Expects
<1>4. PICK signal \in Signals : signal = session[y].signal /\ IsTrue(q, signal)
  <2>1. session[y].pc # "idle"
    BY <1>0, AwaitedFacts
  <2> QED
    BY <1>0, <1>1, <2>1, SessionTypes DEF TrueSignals
<1>5. session[y].pc = "return" /\ session[y].result \in {"applied", "ignored"}
        => workflow[q].phase = "apply" /\ signal # NoSignal
  BY <1>0, <1>1, <1>3, <1>4, PlaceFacts DEF Shaped, Shape
<1>6. TellsWait(session[y]) => WaitStatus(session[y].wait) \in Waiting
  BY DEF WaitStatus, Waiting
<1>7. ~GivesUp(x)
  BY <1>0, <1>2 DEF OneFault
<1>8. CASE run[q].status \in {"queued", "running"}
  <2>1. /\ ~TellsWait(session[y])
        /\ session[y].pc = "return" => session[y].result \notin {"complete", "fail", "ignored"}
    BY <1>0, <1>1, <1>6, <1>8 DEF Says, Waiting, WaitsAs
  <2>2. session[y].pc = "return" /\ session[y].result = "applied" => run'[q].wait # WaitOf(signal)
    BY <1>0, <1>1, <1>4, <1>5, WaitStaysAnswered DEF Says
  <2> QED
    BY <1>1, <1>4, <2>1, <2>2 DEF Says, WaitOf, TellsWait
<1>9. CASE /\ session[x].pc = "settle" /\ run[q].wait = WaitOf(session[x].signal)
           /\ run[q].wait # NoWait /\ run'[q].wait = NoWait
  <2>1. workflow[q].phase = "apply" /\ signal = session[x].signal
    BY <1>0, <1>1, <1>2, <1>3, <1>4, <1>9 DEF Late, Serving, Applying
  <2>2. /\ ~TellsWait(session[y])
        /\ session[y].pc = "return" => session[y].result \in {"applied", "ignored"}
    BY <1>3, <2>1, PlaceFacts DEF TellsWait, Serving, Applying
  <2>3. session[y].pc # "return"
    BY <1>0, <1>1, <1>4, <1>9, <2>1, <2>2 DEF Says
  <2> QED
    BY <1>1, <2>2, <2>3 DEF Says, TellsWait
<1> QED
  BY <1>1, <1>7, <1>8, <1>9 DEF Wrote

LEMMA SaysGoes ==
    ASSUME FollowInv, SoloInv, NEW x \in Slots, Goes(x), NowSays(x), SoftMove(x) \/ WriteMove(x),
           NEW y \in Slots
    PROVE  Says(y)'
<1>0. /\ Inv /\ TypeInv /\ Expected /\ Heard /\ Shaped /\ OneFault /\ Says(x) /\ Says(y)
      /\ workflow' = workflow
  BY DEF FollowInv, LifeInv, Inv, SoloInv, Goes
<1>1. /\ session[x].pc # "idle" /\ session'[x].run = session[x].run
      /\ session'[x].signal = session[x].signal /\ session'[x].awaited = session[x].awaited
      /\ \A z \in Slots \ {x} : session'[z] = session[z]
  BY DEF Goes, SameAttempt, OnlySession
<1>2. CASE y # x
  <2>1. CASE ~session[y].awaited
    BY <1>1, <1>2, <2>1 DEF Says
  <2>2. CASE session[y].awaited
    <3>1. PICK q \in Runs : q = session[y].run
      BY <1>0, <2>2, AwaitedFacts
    <3>2. CASE run'[q] = run[q]
      BY <1>0, <1>1, <1>2, <3>1, <3>2 DEF Says, WaitsAs, WaitOf
    <3>3. CASE q = session[x].run /\ WriteMove(x) /\ Wrote(x)
      BY <1>0, <1>1, <1>2, <2>2, <3>1, <3>3, SaysBeside
    <3> QED
      BY <1>0, <3>1, <3>2, <3>3, RowGoes
  <2> QED
    BY <2>1, <2>2
<1>3. CASE y = x /\ session[x].awaited
  <2>1. PICK q \in Runs, phase \in {"start", "advance", "apply"} :
          /\ q = session[x].run /\ phase = workflow[q].phase /\ session[x].pc \in Places(phase)
    BY <1>0, <1>3, AwaitedFacts
  <2>2. TellsWait(session'[x]) =>
          /\ session'[x].wait # NoWait /\ run'[q].wait = session'[x].wait
          /\ run'[q].status = WaitStatus(session'[x].wait)
    <3>1. CASE session[x].pc \in {"enqueue", "mark"} /\ session'[x].wait = session[x].wait
               /\ UNCHANGED run
      BY <1>0, <1>3, <2>1, <3>1 DEF Says, TellsWait
    <3> QED
      BY <2>1, <3>1 DEF NowSays
  <2>3. ASSUME session'[x].pc = "return", session'[x].result \in {"applied", "ignored"}
        PROVE  phase = "apply" /\ session[x].pc \in Serving /\ session[x].signal # NoSignal
               /\ session[x].signal \in Signals
    <3>1. session[x].pc \in Serving
      BY <2>3, PlaceFacts DEF Goes
    <3> QED
      BY <1>0, <2>1, <3>1, PlaceFacts, SessionTypes DEF Heard
  <2>4. ASSUME session'[x].pc = "return", session'[x].result = "applied"
        PROVE  run'[q].wait # WaitOf(session[x].signal)
    BY <2>1, <2>3, <2>4, SignalCalls DEF NowSays
  <2>5. ASSUME session'[x].pc = "return", session'[x].result = "ignored"
        PROVE  run'[q].wait # WaitOf(session[x].signal) /\ WaitsAs(q)'
    <3>1. /\ session[x].pc = "apply" /\ UNCHANGED run /\ run[q].wait # WaitOf(session[x].signal)
          /\ ~(run[q].wait = NoWait /\ run[q].status = "running")
      BY <2>1, <2>5 DEF NowSays
    <3>2. WaitsAs(q) \/ Applied(q) \/ BackAgain(q)
      BY <2>1, <2>3, <2>5 DEF SoloInv, Follows
    <3>3. ~Applied(q)
      BY <1>0, <1>3, <2>1, <3>1, AwaitedFacts DEF Applied
    <3>4. WaitsAs(q)
      BY <3>1, <3>2, <3>3 DEF BackAgain
    <3> QED
      BY <1>0, <3>1, <3>4 DEF WaitsAs
  <2> QED
    BY <1>1, <1>3, <2>1, <2>2, <2>4, <2>5 DEF Says, NowSays, WaitOf
<1>4. CASE y = x /\ ~session[x].awaited
  BY <1>1, <1>4 DEF Says
<1> QED
  BY <1>2, <1>3, <1>4

LEMMA SaysKept ==
    ASSUME FollowInv, SoloInv, Sorts, NEW y \in Slots
    PROVE  Says(y)'
<1>0. /\ Inv /\ TypeInv /\ Expected /\ Heard /\ Shaped /\ Says(y)
  BY DEF FollowInv, LifeInv, Inv, SoloInv
<1>1. ASSUME UNCHANGED run, session'[y] = session[y],
             session[y].awaited =>
                 /\ workflow'[session[y].run].wait = workflow[session[y].run].wait
                 /\ workflow'[session[y].run].status = workflow[session[y].run].status
      PROVE  Says(y)'
  BY <1>0, <1>1 DEF Says, WaitsAs, WaitOf
<1>2. CASE ~session'[y].awaited
  BY <1>2 DEF Says
<1>3. session[y].awaited => session[y].run \in Runs
  BY <1>0, AwaitedFacts
<1>4. CASE Aside
  BY <1>1, <1>4 DEF Aside
<1>5. ASSUME NEW r \in Runs, Alone(r)
      PROVE  Says(y)'
  BY <1>1, <1>3, <1>5 DEF Alone, OnlyWorkflow
<1>6. CASE Dies
  BY <1>2, <1>6, IdleFacts DEF Dies
<1>7. ASSUME NEW x \in Slots, Steps(x)
      PROVE  Says(y)'
  BY <1>0, <1>7, StepGoes, SaysGoes
<1>8. ASSUME NEW x \in Slots, Leaves(x)
      PROVE  Says(y)'
  <2>1. CASE y = x
    BY <1>2, <1>8, <2>1, IdleFacts DEF Leaves
  <2>2. CASE y # x
    <3>1. session[y].awaited => workflow'[session[y].run] = workflow[session[y].run]
      BY <1>0, <1>3, <1>8, <2>2, AwaitedFacts DEF Leaves, OnlyWorkflow
    <3> QED
      BY <1>1, <1>8, <2>2, <3>1 DEF Leaves, OnlySession
  <2> QED
    BY <2>1, <2>2
<1>9. ASSUME NEW x \in Slots, NEW r \in Runs, Takes(x, r)
      PROVE  Says(y)'
  <2>1. CASE y = x
    <3>1. session'[x].pc \in {"start", "advance", "apply"}
      BY <1>0, <1>9 DEF Takes, Shaped, Shape
    <3> QED
      BY <2>1, <3>1 DEF Says, TellsWait
  <2>2. CASE y # x
    BY <1>1, <1>3, <1>9, <2>2 DEF Takes, OnlySession, OnlyWorkflow
  <2> QED
    BY <2>1, <2>2
<1>10. ASSUME NEW x \in Slots, TimesOut(x)
       PROVE  Says(y)'
  <2>1. CASE y = x
    BY <1>2, <1>10, <2>1 DEF TimesOut
  <2>2. CASE y # x
    <3>1. session[y].awaited => workflow'[session[y].run] = workflow[session[y].run]
      BY <1>0, <1>3, <1>10, <2>2, AwaitedFacts DEF TimesOut, OnlyWorkflow
    <3> QED
      BY <1>1, <1>10, <2>2, <3>1 DEF TimesOut, OnlySession
  <2> QED
    BY <2>1, <2>2
<1> QED
  BY <1>4, <1>5, <1>6, <1>7, <1>8, <1>9, <1>10 DEF Sorts

\* An attempt that brought the run out of its wait keeps the other runs calm.
LEMMA AppliedKept ==
    ASSUME FollowInv, SoloInv, Sorts, ~Dies, faults' <= 1, NEW r \in Runs, Applied(r),
           \A x \in Slots : (/\ session[x].awaited /\ session[x].run = r
                             /\ session[x].pc = "return" /\ session[x].result = "applied")
                                => session'[x] = session[x]
    PROVE  Applied(r)'
<1>1. faults' = faults /\ faults' = 1
  BY FaultCount DEF FollowInv, LifeInv, Applied
<1>2. \A q \in Runs \ {r} : Calm(q)'
  BY <1>1, CalmKept DEF Applied
<1> QED
  BY <1>1, <1>2 DEF Applied

LEMMA FollowsSame ==
    ASSUME NEW r \in Runs, Follows(r), run'[r] = run[r],
           workflow'[r].wait = workflow[r].wait, workflow'[r].status = workflow[r].status,
           \/ workflow'[r].phase = workflow[r].phase
           \/ workflow'[r].phase \notin {"wait", "returned", "apply"},
           \A x \in Slots : (Orphan(x)' /\ session'[x].run = r /\ session'[x].pc \in Looping
                             /\ workflow[r].phase = "apply")
                => Orphan(x) /\ session[x].run = r /\ session[x].pc \in Looping,
           workflow[r].phase = "apply" /\ Applied(r) => Applied(r)'
    PROVE  Follows(r)'
  BY DEF Follows, WaitsAs, BackAgain

LEMMA FollowsAlone ==
    ASSUME FollowInv, SoloInv, ~Dies, NEW r \in Runs, Alone(r), NEW q \in Runs, faults' <= 1
    PROVE  Follows(q)'
<1>0. /\ Inv /\ TypeInv /\ Expected /\ Heard /\ Shaped /\ Follows(q) /\ Sorts
      /\ UNCHANGED <<run, session, faults>> /\ OnlyWorkflow(r)
      /\ workflow'[r].wait = workflow[r].wait /\ workflow'[r].status = workflow[r].status
  BY DEF FollowInv, LifeInv, Inv, SoloInv, Alone, Sorts
<1>1. Applied(q) => Applied(q)'
  BY <1>0, AppliedKept
<1>2. workflow'[q].wait = workflow[q].wait /\ workflow'[q].status = workflow[q].status
      /\ run'[q] = run[q]
  BY <1>0 DEF OnlyWorkflow
<1>3. CASE \/ workflow'[q].phase = workflow[q].phase
           \/ workflow'[q].phase \notin {"wait", "returned", "apply"}
  BY <1>0, <1>1, <1>2, <1>3, FollowsSame DEF Orphan
<1>4. CASE q = r /\ workflow[r].phase = "wait" /\ workflow'[r].phase = "apply"
  BY <1>0, <1>2, <1>4 DEF Follows, WaitsAs
<1>5. \/ workflow'[q].phase = workflow[q].phase
      \/ workflow'[q].phase \notin {"wait", "returned", "apply"}
      \/ q = r /\ workflow[r].phase = "wait" /\ workflow'[r].phase = "apply"
  <2>1. CASE q # r
    BY <1>0, <2>1 DEF OnlyWorkflow
  <2>2. CASE q = r
    BY <2>2 DEF Alone, Loses, Begins, Hears, RetriesTo
  <2> QED
    BY <2>1, <2>2
<1> QED
  BY <1>3, <1>4, <1>5

LEMMA FollowsGoes ==
    ASSUME FollowInv, SoloInv, Sorts, ~Dies, NEW x \in Slots, Goes(x), NowSays(x),
           SoftMove(x) \/ WriteMove(x), NEW r \in Runs, faults' <= 1
    PROVE  Follows(r)'
<1>0. /\ Inv /\ TypeInv /\ Expected /\ Heard /\ Shaped /\ OneFault /\ Late(x) /\ Follows(r)
      /\ workflow' = workflow
  BY DEF FollowInv, LifeInv, Inv, SoloInv, Goes
<1>1. /\ session[x].pc # "idle" /\ session[x].pc # "return" /\ session'[x].run = session[x].run
      /\ session'[x].signal = session[x].signal /\ session'[x].awaited = session[x].awaited
      /\ \A z \in Slots \ {x} : session'[z] = session[z]
      /\ session'[x].pc \in Looping => session[x].pc \in Looping
  BY PlaceFacts DEF Goes, SameAttempt, OnlySession
<1>2. \A z \in Slots : (Orphan(z)' => Orphan(z)) /\ session'[z].run = session[z].run
                       /\ (session'[z].pc \in Looping => session[z].pc \in Looping)
  BY <1>1 DEF Orphan
<1>3. Applied(r) => Applied(r)'
  BY <1>1, AppliedKept
<1>4. CASE run'[r] = run[r]
  BY <1>0, <1>2, <1>3, <1>4, FollowsSame
<1>5. CASE r = session[x].run /\ WriteMove(x) /\ Wrote(x)
  <2>1. session[x].awaited \in BOOLEAN /\ session[x].pc \in Fenced
    BY <1>0, <1>5, SessionTypes DEF WriteMove
  <2>2. session[x].awaited => /\ workflow[r].phase \in {"start", "advance", "apply"}
                              /\ session[x].pc \in Places(workflow[r].phase)
    BY <1>0, <1>5, AwaitedFacts
  <2>3. ~session[x].awaited => Orphan(x) /\ ~GivesUp(x)
    BY <1>0, <1>1 DEF Orphan, OneFault
  <2>4. session[x].pc = "settle" => session[x].pc \in Serving /\ session[x].pc \notin Looping
    BY DEF Serving, Applying, Looping
  <2>5. session[x].pc \in {"prompt", "model", "finish"} => session[x].pc \in Looping
    BY DEF Looping
  <2>6. GivesUp(x) => session[x].pc = "finish" /\ run[r].status = "waiting_for_tool"
    BY <1>5 DEF GivesUp
  <2>7. CASE workflow[r].phase \in {"wait", "returned"}
    <3>1. ~session[x].awaited /\ run[r].status \in Waiting \cup Terminal
      BY <1>0, <2>2, <2>7 DEF Follows, WaitsAs
    <3>2. session[x].pc = "settle" /\ run[r].wait = WaitOf(session[x].signal)
      BY <1>5, <2>3, <3>1 DEF Wrote, Waiting, Terminal
    <3>3. workflow[r].phase \in {"failed", "apply"}
      BY <1>0, <1>5, <2>3, <2>4, <3>1, <3>2 DEF Late
    <3> QED
      BY <2>7, <3>3
  <2>8. CASE workflow[r].phase = "apply"
    <3>1. session[x].awaited => session[x].pc \in Serving
      BY <2>1, <2>2, <2>8, PlaceFacts DEF Fenced, Applying
    <3>2. CASE Applied(r)
      BY <1>0, <1>3, <2>8, <3>2 DEF Follows
    <3>3. CASE BackAgain(r)
      <4>1. session[x].pc \in {"prompt", "model", "finish"}
        BY <1>5, <2>6, <3>3 DEF Wrote, BackAgain
      <4>2. ~session[x].awaited
        BY <2>5, <3>1, <4>1, PlaceFacts
      <4> QED
        BY <1>5, <2>3, <2>5, <3>3, <4>1, <4>2 DEF BackAgain
    <3>4. CASE WaitsAs(r)
      <4>1. run[r].status \notin {"queued", "running"}
        BY <3>4 DEF WaitsAs, Waiting
      <4>2. ~GivesUp(x)
        BY <2>3, <2>5, <2>6, <3>1, PlaceFacts, <2>1
      <4>3. /\ session[x].pc = "settle" /\ session'[x].pc = "return"
            /\ run'[r].status = "running" /\ run'[r].wait = NoWait
        BY <1>5, <4>1, <4>2 DEF Wrote
      <4>4. CASE \A z \in Slots : (Orphan(z) /\ session[z].run = r) => session[z].pc \notin Looping
        BY <1>0, <1>2, <2>8, <4>3, <4>4 DEF Follows, BackAgain
      <4>5. ASSUME NEW z \in Slots, Orphan(z), session[z].run = r, session[z].pc \in Looping
            PROVE  Applied(r)'
        <5>1. session[x].awaited
          BY <1>0, <2>1, <2>3, <2>4, <4>3, <4>5 DEF OneFault
        <5>2. faults = 1 /\ faults' = 1
          BY <1>0, <4>5, FaultCount DEF OneFault
        <5>3. \A q \in Runs \ {r} : Calm(q)
          BY <4>5 DEF SoloInv, Blame
        <5>4. \A q \in Runs \ {r} : Calm(q)'
          BY <5>2, <5>3, CalmKept
        <5>5. session'[x].result = "applied"
          <6>1. session'[x].result \in {"applied", "ignored"}
            BY <4>3, PlaceFacts DEF Goes, Looping
          <6> QED
            BY <4>3, <6>1 DEF NowSays
        <5> QED
          BY <1>1, <1>5, <4>3, <5>1, <5>2, <5>4, <5>5 DEF Applied
      <4> QED
        BY <1>0, <2>8, <4>4, <4>5 DEF Follows
    <3> QED
      BY <1>0, <2>8, <3>2, <3>3, <3>4 DEF Follows
  <2> QED
    BY <1>0, <2>7, <2>8 DEF Follows
<1> QED
  BY <1>0, <1>4, <1>5, RowGoes

LEMMA FollowsLeaves ==
    ASSUME FollowInv, SoloInv, Sorts, ~Dies, NEW x \in Slots, Leaves(x), NEW r \in Runs,
           faults' <= 1
    PROVE  Follows(r)'
<1>0. /\ Inv /\ TypeInv /\ Expected /\ Heard /\ Shaped /\ Says(x) /\ Follows(r)
      /\ UNCHANGED run /\ \A z \in Slots \ {x} : session'[z] = session[z]
      /\ session'[x].pc = "idle" /\ session[x].pc # "idle"
  BY IdleFacts DEF FollowInv, LifeInv, Inv, SoloInv, Leaves, OnlySession
<1>1. \A z \in Slots : Orphan(z)' => Orphan(z) /\ session'[z] = session[z]
  BY <1>0 DEF Orphan
<1>2. CASE ~(session[x].awaited /\ session[x].run = r)
  <2>1. workflow'[r] = workflow[r]
    BY <1>2 DEF Leaves, OnlyWorkflow
  <2>2. Applied(r) => Applied(r)'
    BY <1>0, <1>2, AppliedKept
  <2> QED
    BY <1>0, <1>1, <2>1, <2>2, FollowsSame
<1>3. CASE session[x].awaited /\ session[x].run = r
  <2>1. /\ workflow[r].phase \in {"start", "advance", "apply"}
        /\ session[x].pc = "return" => session[x].result \in AnswersOf(workflow[r].phase)
    BY <1>0, <1>3, AwaitedFacts DEF Expected, Expects
  <2>2. CASE session[x].pc # "return" /\ RetriesTo(workflow[r], workflow'[r])
    <3>1. ~Applied(r)
      BY <1>0, <1>3, <2>2, AwaitedFacts DEF Applied
    <3> QED
      BY <1>0, <1>1, <2>1, <2>2, <3>1, FollowsSame DEF RetriesTo
  <2>3. CASE session[x].pc = "return" /\ AnswersTo(workflow[r], session[x], workflow'[r])
    <3>1. CASE session[x].result \in {"reconciled", "applied"}
      BY <2>3, <3>1 DEF AnswersTo, Follows
    <3>2. CASE session[x].result = "wait"
      <4>1. run[r].wait = session[x].wait /\ run[r].status = WaitStatus(session[x].wait)
        BY <1>0, <1>3, <2>3, <3>2 DEF Says, TellsWait
      <4>2. WaitsAs(r)' /\ workflow'[r].phase \in {"wait", "apply"}
        BY <1>0, <2>3, <3>2, <4>1 DEF AnswersTo, WaitsOrApplies, WaitsAs, WaitStatus, Waiting
      <4> QED
        BY <4>2 DEF Follows
    <3>3. CASE session[x].result = "ignored"
      <4>1. WaitsAs(r)
        BY <1>0, <1>3, <2>3, <3>3 DEF Says
      <4>2. WaitsAs(r)' /\ workflow'[r].phase \in {"wait", "apply"}
        BY <1>0, <2>3, <3>3, <4>1 DEF AnswersTo, WaitsOrApplies, WaitsAs
      <4> QED
        BY <4>2 DEF Follows
    <3>4. CASE session[x].result \in {"complete", "fail"}
      BY <1>0, <1>3, <2>3, <3>4 DEF AnswersTo, Says, Follows, Terminal
    <3> QED
      BY <2>1, <2>3, <3>1, <3>2, <3>3, <3>4, PlaceFacts
  <2> QED
    BY <1>3, <2>2, <2>3 DEF Leaves, Fenced, Applying
<1> QED
  BY <1>2, <1>3

LEMMA FollowsTakes ==
    ASSUME FollowInv, SoloInv, Sorts, ~Dies, NEW x \in Slots, NEW q \in Runs, Takes(x, q),
           NEW r \in Runs, faults' <= 1
    PROVE  Follows(r)'
<1>0. /\ Follows(r) /\ UNCHANGED run /\ \A z \in Slots \ {x} : session'[z] = session[z]
      /\ session'[x].awaited /\ session[x].pc = "idle"
  BY DEF SoloInv, Takes, OnlySession
<1>1. \A z \in Slots : Orphan(z)' => Orphan(z) /\ session'[z] = session[z]
  BY <1>0 DEF Orphan
<1>2. Applied(r) => Applied(r)'
  BY <1>0, AppliedKept
<1>3. /\ workflow'[r].phase = workflow[r].phase /\ workflow'[r].wait = workflow[r].wait
      /\ workflow'[r].status = workflow[r].status
  BY DEF Takes, OnlyWorkflow
<1> QED
  BY <1>0, <1>1, <1>2, <1>3, FollowsSame

LEMMA FollowsTimesOut ==
    ASSUME FollowInv, SoloInv, Sorts, NEW x \in Slots, TimesOut(x), NEW r \in Runs, faults' <= 1
    PROVE  Follows(r)'
<1>0. /\ Inv /\ TypeInv /\ Expected /\ Heard /\ Shaped /\ Follows(r) /\ UNCHANGED run
      /\ \A z \in Slots \ {x} : session'[z] = session[z]
      /\ session[x].awaited /\ session'[x].run = session[x].run /\ session'[x].pc = session[x].pc
  BY DEF FollowInv, LifeInv, Inv, SoloInv, TimesOut, OnlySession, SameAttempt
<1>1. ~Applied(r)
  BY <1>0, FaultCount DEF Applied
<1>2. (session[x].run = r /\ workflow[r].phase = "apply") => session[x].pc \notin Looping
  BY <1>0, AwaitedFacts, PlaceFacts
<1>3. /\ workflow'[r].wait = workflow[r].wait /\ workflow'[r].status = workflow[r].status
      /\ workflow'[r].phase = workflow[r].phase \/ workflow'[r].phase = "failed"
  BY DEF TimesOut, OnlyWorkflow, RetriesTo
<1>4. \A z \in Slots : (Orphan(z)' /\ z # x) => Orphan(z) /\ session'[z] = session[z]
  BY <1>0 DEF Orphan
<1> QED
  BY <1>0, <1>1, <1>2, <1>3, <1>4, FollowsSame

LEMMA FollowsDies ==
    ASSUME FollowInv, SoloInv, Dies, NEW r \in Runs, faults' <= 1
    PROVE  Follows(r)'
<1>0. /\ Follows(r) /\ UNCHANGED <<run, workflow, outbox>> /\ Sorts /\ Inv /\ Heard
      /\ \A z \in Slots : ~Orphan(z)'
  BY IdleFacts DEF SoloInv, Dies, Orphan, Sorts, FollowInv, LifeInv
<1>1. workflow[r].phase = "apply" => ~Applied(r)
  <2>1. CASE Fault
    BY <1>0, <2>1, FaultCount DEF Applied
  <2>2. CASE ~Fault
    <3>1. 1 \in Undelivered /\ ~Open(outbox[1].run) /\ outbox[1].run \in Runs
      BY <1>0, <2>2, IntentAt DEF Dies, Undelivered, Inv
    <3>2. workflow[r].phase = "apply" => outbox[1].run # r
      BY <3>1 DEF Open
    <3>3. ~Calm(outbox[1].run)
      BY <3>1 DEF Calm, Open
    <3> QED
      BY <3>1, <3>2, <3>3 DEF Applied
  <2> QED
    BY <2>1, <2>2
<1> QED
  BY <1>0, <1>1, FollowsSame

LEMMA FollowsKept ==
    ASSUME FollowInv, SoloInv, Sorts, faults' <= 1, NEW r \in Runs
    PROVE  Follows(r)'
<1>1. CASE Dies
  BY <1>1, FollowsDies
<1>2. CASE ~Dies
  <2>1. CASE Aside
    <3>1. Applied(r) => Applied(r)'
      BY <1>2, <2>1, AppliedKept DEF Aside
    <3> QED
      BY <2>1, <3>1, FollowsSame DEF Aside, SoloInv, Orphan
  <2>2. ASSUME NEW x \in Slots, Steps(x)
        PROVE  Follows(r)'
    <3>1. Inv /\ Heard
      BY DEF FollowInv, LifeInv
    <3> QED
      BY <1>2, <2>2, <3>1, StepGoes, FollowsGoes
  <2> QED
    BY <1>2, <2>1, <2>2, FollowsAlone, FollowsLeaves, FollowsTakes, FollowsTimesOut DEF Sorts
<1> QED
  BY <1>1, <1>2

LEMMA BlameKept ==
    ASSUME FollowInv, SoloInv, Sorts, faults' <= 1
    PROVE  Blame'
<1>0. /\ Inv /\ TypeInv /\ Heard /\ Blame /\ OneFault
      /\ (faults' = faults \/ (faults = 0 /\ faults' = 1)) /\ faults \in {0, 1}
  BY FaultCount DEF FollowInv, LifeInv, Inv, SoloInv
<1>1. CASE Dies
  <2>1. \A x \in Slots : ~Orphan(x)'
    BY <1>1, IdleFacts DEF Dies, Orphan
  <2>2. faults' # 0
    <3>1. CASE Fault
      BY <1>0, <3>1 DEF Fault
    <3>2. CASE ~Fault
      <4>1. 1 \in Undelivered /\ ~Open(outbox[1].run) /\ outbox[1].run \in Runs
        BY <1>0, <1>1, <3>2, IntentAt DEF Dies, Undelivered
      <4>2. ~Calm(outbox[1].run)
        BY <4>1 DEF Calm, Open
      <4> QED
        BY <1>0, <1>1, <3>2, <4>1, <4>2 DEF Dies, Blame
    <3> QED
      BY <3>1, <3>2
  <2> QED
    BY <2>1, <2>2 DEF Blame
<1>2. CASE ~Dies /\ faults' = faults
  <2>1. \A q \in Runs : Calm(q) => Calm(q)'
    BY <1>2, CalmKept
  <2>2. ASSUME NEW y \in Slots, Orphan(y)'
        PROVE  Orphan(y) /\ session'[y].run = session[y].run
    <3>1. CASE session'[y] = session[y]
      BY <2>2, <3>1 DEF Orphan
    <3>2. ASSUME NEW x \in Slots, Steps(x)
          PROVE  Orphan(y) /\ session'[y].run = session[y].run
      <4>1. Goes(x)
        BY <1>0, <3>2, StepGoes
      <4> QED
        BY <2>2, <4>1 DEF Goes, OnlySession, SameAttempt, Orphan
    <3>3. ASSUME NEW x \in Slots, Leaves(x)
          PROVE  Orphan(y) /\ session'[y].run = session[y].run
      BY <2>2, <3>1, <3>3, IdleFacts DEF Leaves, OnlySession, Orphan
    <3>4. ASSUME NEW x \in Slots, NEW r \in Runs, Takes(x, r)
          PROVE  Orphan(y) /\ session'[y].run = session[y].run
      BY <2>2, <3>1, <3>4 DEF Takes, OnlySession, Orphan
    <3>5. ASSUME NEW x \in Slots, TimesOut(x)
          PROVE  FALSE
      BY <1>0, <1>2, <3>5, FaultCount
    <3> QED
      BY <1>2, <3>1, <3>2, <3>3, <3>4, <3>5 DEF Sorts, Aside, Alone
  <2> QED
    BY <1>0, <1>2, <2>1, <2>2 DEF Blame
<1>3. CASE ~Dies /\ faults' # faults
  <2>1. \A q \in Runs : Calm(q)
    BY <1>0, <1>3 DEF Blame
  <2>2. \A y \in Slots : ~Orphan(y)
    BY <1>0, <1>3 DEF OneFault
  <2>3. ASSUME NEW x \in Slots, Steps(x)
        PROVE  Blame'
    <3>1. Goes(x)
      BY <1>0, <2>3, StepGoes
    <3>2. \A y \in Slots : ~Orphan(y)'
      BY <2>2, <3>1 DEF Goes, OnlySession, SameAttempt, Orphan
    <3> QED
      BY <1>0, <1>3, <3>2 DEF Blame
  <2>4. ASSUME NEW x \in Slots, TimesOut(x)
        PROVE  Blame'
    <3>1. \A y \in Slots : Orphan(y)' => y = x /\ session'[y].run = session[x].run
      BY <2>2, <2>4 DEF TimesOut, OnlySession, SameAttempt, Orphan
    <3>2. \A q \in Runs \ {session[x].run} : Calm(q)'
      BY <1>0, <2>1, <2>4, CalmTimesOut
    <3> QED
      BY <1>0, <1>3, <3>1, <3>2 DEF Blame
  <2> QED
    BY <1>3, <2>3, <2>4 DEF Sorts, Aside, Alone, Leaves, Takes
<1> QED
  BY <1>1, <1>2, <1>3

(*****************************************************************************)
(* The invariant, and what it is for.                                        *)
(*****************************************************************************)

LEMMA FollowInit ==
    ASSUME Init
    PROVE  FollowInv
<1>1. /\ \A x \in Slots : session[x] = Idle
      /\ \A r \in Runs : workflow[r] = Absent
      /\ \A r \in Runs : run[r].status = "queued" /\ run[r].wait = NoWait
      /\ outbox = <<>> /\ faults = 0
  BY DEF Init
<1>2. LifeInv
  BY LifeInit
<1>3. /\ \A x \in Slots : session[x].pc = "idle" /\ ~session[x].awaited
      /\ \A r \in Runs : /\ workflow[r].phase = "absent" /\ workflow[r].task = "none"
                         /\ workflow[r].wait = NoWait /\ workflow[r].accepted = NoSignal
      /\ Len(outbox) = 0
  BY <1>1 DEF Idle, Absent
<1>4. Expected /\ Heard /\ Shaped /\ Distinct
  BY <1>3 DEF Expected, Expects, Heard, Shaped, Shape, Distinct, Serving, Applying
<1>5. \A q \in Runs : Calm(q)
  BY <1>1, <1>3 DEF Calm, On, Undelivered
<1>6. OneFault /\ Blame
  BY <1>3, <1>5 DEF OneFault, Blame, Orphan, GivesUp
<1>7. \A x \in Slots : Late(x) /\ Says(x)
  BY <1>3 DEF Late, Says, Orphan
<1>8. \A r \in Runs : Follows(r)
  BY <1>3 DEF Follows
<1> QED
  BY <1>2, <1>4, <1>6, <1>7, <1>8 DEF FollowInv, SoloInv

LEMMA FollowStep ==
    ASSUME FollowInv, [Next]_vars
    PROVE  FollowInv'
<1>1. LifeInv'
  BY LifeStep DEF FollowInv
<1>2. /\ LifeInv /\ Inv /\ Expected /\ Heard /\ Shaped /\ Distinct
  BY DEF FollowInv, LifeInv
<1>3. Sorts
  <2>1. CASE Next
    <3>1. TypeInv'
      BY <1>1 DEF LifeInv, Inv
    <3> QED
      BY <1>2, <2>1, <3>1, StepSorts
  <2>2. CASE UNCHANGED vars
    BY <2>2 DEF vars, dbVars, Sorts, Aside
  <2> QED
    BY <2>1, <2>2
<1>4. Expected' /\ Heard' /\ Shaped' /\ Distinct'
  BY <1>2, <1>3, ExpectedKept, HeardStays, ShapedKept, DistinctKept
<1>5. ASSUME faults' <= 1
      PROVE  SoloInv'
  <2>1. faults <= 1
    BY <1>2, <1>3, <1>5, FaultCount
  <2>2. SoloInv
    BY <2>1 DEF FollowInv
  <2>3. OneFault' /\ Blame'
    BY <1>3, <1>5, <2>2, OneFaultKept, BlameKept
  <2>4. \A x \in Slots : Late(x)' /\ Says(x)'
    BY <1>3, <1>5, <2>2, LateKept, SaysKept
  <2>5. \A r \in Runs : Follows(r)'
    BY <1>3, <1>5, <2>2, FollowsKept
  <2> QED
    BY <2>3, <2>4, <2>5 DEF SoloInv
<1> QED
  BY <1>1, <1>4, <1>5 DEF FollowInv

\* The status and the wait the workflow keeps for itself are the row's whenever no
\* activity is under way (stateWorkflow beside completeStateWorkflowRun,
\* enterStateWorkflowWait and resolveStateWorkflowWait), after at most one fault:
\* one timed out attempt that goes on writing, one lost hand-over, or one crash, at
\* any moment.  With a second fault it is false.
THEOREM WorkflowFollows == Spec => [](faults <= 1 => WorkflowFollowsRun)
<1>1. Init => FollowInv
  BY FollowInit
<1>2. FollowInv /\ [Next]_vars => FollowInv'
  BY FollowStep
<1>3. FollowInv => (faults <= 1 => WorkflowFollowsRun)
  BY DEF FollowInv, SoloInv, Follows, WaitsAs, WorkflowFollowsRun
<1> QED
  BY <1>1, <1>2, <1>3, PTL DEF Spec
=============================================================================
