-------------------------- MODULE SimpleLoopProofs --------------------------
(*****************************************************************************)
(* The first theorems of SimpleLoop, for every number of runs, workers,      *)
(* steps, faults and lapses: its types and the five moves every step of it   *)
(* is one of, and over the moves, one writer, the statuses' table, and one   *)
(* email.                                                                    *)
(*****************************************************************************)
EXTENDS SimpleLoop, TLAPS

\* Writing one cell of a table of tables.  A key that names no cell writes none.
LEMMA CellUpdate ==
    ASSUME NEW D, NEW E, NEW V, NEW f \in [D -> [E -> V]], NEW d \in D, NEW e, NEW v,
           e \in E => v \in V
    PROVE  /\ [f EXCEPT ![d][e] = v] \in [D -> [E -> V]]
           /\ \A x \in D, y \in E : [f EXCEPT ![d][e] = v][x][y] =
                 IF x = d /\ y = e THEN v ELSE f[x][y]
  OBVIOUS

LEMMA CellType ==
    ASSUME NEW D, NEW E, NEW V, NEW f \in [D -> [E -> V]], NEW d, NEW e, NEW v,
           e \in E => v \in V, NEW g, g = [f EXCEPT ![d][e] = v]
    PROVE  g \in [D -> [E -> V]]
  OBVIOUS

LEMMA CellMissing ==
    ASSUME NEW D, NEW E, NEW V, NEW f \in [D -> [E -> V]], NEW d \in D, NEW e, NEW v,
           e \notin E, NEW g, g = [f EXCEPT ![d][e] = v]
    PROVE  g = f
  OBVIOUS

(*****************************************************************************)
(* The type invariant, cut along the variables the actions write together,   *)
(* with the two facts it needs to be inductive: a session that talks to the  *)
(* model has paid for a step, and a delivery that can still fail has attempts *)
(* left.                                                                     *)
(*****************************************************************************)

LEMMA ConstantFacts ==
    /\ StepBudget \in Nat /\ StepBudget >= 1
    /\ MaxAttempts \in Nat /\ MaxAttempts >= 1
    /\ MaxFaults \in Nat
    /\ Skills \subseteq SkillNames
  BY ConstantsAssumption

LEMMA IdleFacts ==
    /\ NoWait \in Waits
    /\ Idle \in Sessions
    /\ Idle.pc = "idle"
    /\ NoJob \in JobRows
  BY ConstantFacts DEF NoWait, Waits, Idle, Sessions, Locations, Intents, NoJob, JobRows

RunOK == run \in [Runs -> RunRows]

SessionOK ==
    /\ session \in [Workers -> Sessions]
    /\ \A w \in Workers :
        /\ session[w].pc # "idle" => session[w].run \in Runs
        /\ session[w].pc = "finish" => session[w].verdict \in Terminal

JobOK ==
    /\ job \in [Runs -> JobRows]
    /\ \A r \in Runs :
        job[r].delivery \in {"queued", "active", "repeat"} => job[r].attempts >= 1

LedgerOK ==
    /\ toolCalls \in [Runs -> [Calls -> CallStatuses]]
    /\ approvals \in [Runs -> [Calls -> ApprovalStatuses]]
    /\ overdue \subseteq Runs \X Calls
    /\ sends \in [Runs -> [Calls -> {"none", "reserved", "sent"}]]
    /\ emails \in [Runs -> [Calls -> Nat]]
    /\ results \in [Runs -> [Calls -> Nat]]
    /\ intents \in [Runs -> [Intents -> {"none", "pending", "dispatched"}]]
    /\ batch \in [Workers -> SUBSET (Runs \X Intents)]
    /\ faults \in 0..MaxFaults

StepPaid ==
    \A w \in Workers :
        session[w].pc = "model" => run[session[w].run].consumedSteps >= 1

TypeInv == RunOK /\ SessionOK /\ JobOK /\ LedgerOK /\ StepPaid

LEMMA TypeInvTypeOK == TypeInv => TypeOK
  BY DEF TypeInv, TypeOK, RunOK, SessionOK, JobOK, LedgerOK

LEMMA TypeInit == Init => TypeInv
  BY ConstantFacts, IdleFacts
     DEF Init, TypeInv, RunOK, SessionOK, JobOK, LedgerOK, StepPaid, RunRows, Statuses,
         Waiting, Terminal, NoJob, Intents, Calls, CallStatuses, ApprovalStatuses, Idle

(*****************************************************************************)
(* What a step does to the sessions and the runs.  Every action is one of    *)
(* five moves, and the theorems below argue about the moves:                 *)
(*   - the soft move of a session, which writes no run;                      *)
(*   - the claim of a lease;                                                 *)
(*   - a write under the lease;                                              *)
(*   - the lapse of a lease;                                                 *)
(*   - no move.                                                              *)
(*****************************************************************************)

OnlySession(w) ==
    /\ session' \in [Workers -> Sessions]
    /\ session'[w].pc # "idle" => session'[w].run \in Runs
    /\ session'[w].pc = "finish" => session'[w].verdict \in Terminal
    /\ \A u \in Workers \ {w} : session'[u] = session[u]

OnlyRun(r) ==
    /\ run' \in [Runs -> RunRows]
    /\ \A q \in Runs \ {r} : run'[q] = run[q]

SoftMove(w) ==
    LET s == session[w]
        t == session'[w] IN
    /\ OnlySession(w)
    /\ UNCHANGED run
    /\ t.pc # "enqueue"
    /\ \/ t.pc \notin Leased
       \/ /\ s.pc \in Leased
          /\ t.run = s.run /\ t.version = s.version /\ t.fencing = s.fencing
          /\ \/ /\ s.pc = "restore"
                /\ t.pc = IF run[s.run].wait = NoWait THEN "prompt" ELSE "resolve"
                /\ t.wait = run[s.run].wait
             \/ /\ s.pc \in {"resolve", "reserve", "send", "sent"}
                /\ t.pc \in {"reserve", "send", "sent", "settle"}
                /\ t.wait = s.wait
                /\ t.pc = "send" => ReserveSimulatedSend(w)
                /\ \/ ResolveDeferredCall(w) \/ ReserveSimulatedSend(w)
                   \/ ExecuteApprovedSend(w) \/ CompleteSimulatedSend(w)
             \/ /\ s.pc = "prompt" /\ t.pc = "finish"
                /\ \/ run[s.run].consumedSteps >= StepBudget
                   \/ FailBeforeStep(w) /\ t.verdict = "failed"
                /\ t.wait = s.wait
             \/ /\ s.pc = "model" /\ t.pc \in {"prompt", "finish"}
                /\ t.wait = s.wait \/ (t.pc = "finish" /\ t.verdict = "failed")

ClaimMove(w) ==
    LET r == session[w].run
        t == session'[w] IN
    /\ OnlySession(w)
    /\ OnlyRun(r)
    /\ r \in Runs
    /\ run[r].status \notin Terminal
    /\ run'[r].version = run[r].version + 1
    /\ run'[r].fencingVersion = run[r].fencingVersion + 1
    /\ run'[r].leaseOwner = w
    /\ run'[r].status = run[r].status
    /\ run'[r].wait = run[r].wait
    /\ run'[r].consumedSteps = run[r].consumedSteps
    /\ t.pc = "restore" /\ t.run = r
    /\ t.version = run[r].version + 1 /\ t.fencing = run[r].fencingVersion + 1

WriteMove(w) ==
    LET s == session[w]
        t == session'[w]
        r == session[w].run IN
    /\ OnlySession(w)
    /\ OnlyRun(r)
    /\ r \in Runs
    /\ s.pc \in Leased
    /\ LeaseHeld(w)
    /\ run'[r].version = run[r].version + 1
    /\ run'[r].fencingVersion = run[r].fencingVersion
    /\ t.run = r
    /\ t.pc \in Leased =>
        /\ run'[r].leaseOwner = run[r].leaseOwner
        /\ t.version = s.version + 1 /\ t.fencing = s.fencing
    /\ \/ /\ s.pc = "settle" /\ t.pc = "prompt" /\ t.wait = NoWait
          /\ ResolveSimpleLoopWait(w)
          /\ run'[r].status = "running" /\ run'[r].wait = NoWait
          /\ run'[r].consumedSteps = run[r].consumedSteps
       \/ /\ s.pc = "prompt" /\ t.pc = "model" /\ t.wait = s.wait
          /\ run'[r].status = "running" /\ run'[r].wait = run[r].wait
          /\ run'[r].consumedSteps = run[r].consumedSteps + 1
       \/ /\ s.pc = "model" /\ t.pc \in {"prompt", "finish"} /\ t.wait = s.wait
          /\ run'[r].status = run[r].status /\ run'[r].wait = run[r].wait
          /\ run'[r].consumedSteps = run[r].consumedSteps
       \/ /\ s.pc = "model" /\ t.pc \in {"enqueue", "ack"}
          /\ run'[r].wait.call = run[r].consumedSteps /\ run'[r].wait # NoWait
          /\ \/ /\ PersistReportWait(w) /\ t.pc = "enqueue"
                /\ run'[r].status = "waiting_for_tool" /\ run'[r].wait.kind = "report"
             \/ /\ PersistApprovalWait(w) /\ t.pc = "ack"
                /\ run'[r].status = "waiting_for_admin" /\ run'[r].wait.kind = "approval"
          /\ run'[r].leaseOwner = None
          /\ run'[r].consumedSteps = run[r].consumedSteps
       \/ /\ s.pc = "finish" /\ t.pc = "ack"
          /\ run'[r].status = s.verdict /\ s.verdict \in Terminal /\ run'[r].wait = s.wait
          /\ run'[r].leaseOwner = None
          /\ run'[r].consumedSteps = run[r].consumedSteps

LapseMove(r) ==
    /\ UNCHANGED session
    /\ OnlyRun(r)
    /\ run[r].leaseOwner # None
    /\ run'[r].leaseExpired
    /\ run'[r].status = run[r].status /\ run'[r].version = run[r].version
    /\ run'[r].leaseOwner = run[r].leaseOwner
    /\ run'[r].fencingVersion = run[r].fencingVersion
    /\ run'[r].consumedSteps = run[r].consumedSteps
    /\ run'[r].wait = run[r].wait

Move ==
    \/ \E w \in Workers : SoftMove(w) \/ ClaimMove(w) \/ WriteMove(w)
    \/ \E r \in Runs : LapseMove(r)
    \/ UNCHANGED <<run, session>>

LEMMA SessionUpdate ==
    ASSUME SessionOK, NEW w \in Workers, NEW s \in Sessions,
           s.pc # "idle" => s.run \in Runs, s.pc = "finish" => s.verdict \in Terminal,
           Becomes(w, s)
    PROVE  OnlySession(w) /\ session'[w] = s
  BY DEF Becomes, SessionOK, OnlySession

LEMMA RunUpdate ==
    ASSUME RunOK, NEW r \in Runs, NEW row \in RunRows, run' = [run EXCEPT ![r] = row]
    PROVE  OnlyRun(r) /\ run'[r] = row
  BY DEF RunOK, OnlyRun

LEMMA SessionTypes ==
    ASSUME TypeInv, NEW w \in Workers
    PROVE  /\ session[w] \in Sessions
           /\ session[w].pc \in Locations /\ session[w].version \in Nat
           /\ session[w].fencing \in Nat /\ session[w].wait \in Waits
           /\ session[w].fatal \in BOOLEAN
           /\ session[w].intent \in Intents
           /\ session[w].pc # "idle" =>
                /\ session[w].run \in Runs
                /\ run[session[w].run] \in RunRows
  BY DEF TypeInv, SessionOK, RunOK, Sessions

LEMMA RowTypes ==
    ASSUME NEW row \in RunRows
    PROVE  /\ row.status \in Statuses /\ row.version \in Nat /\ row.fencingVersion \in Nat
           /\ row.consumedSteps \in 0..StepBudget /\ row.consumedSteps \in Nat
           /\ row.wait \in Waits
  BY ConstantFacts DEF RunRows

LEMMA GoMove ==
    ASSUME TypeInv, NEW w \in Workers, session[w].pc # "idle", NEW pc \in Locations \ {"finish"},
           Go(w, pc)
    PROVE  /\ OnlySession(w)
           /\ session'[w].pc = pc /\ session'[w].run = session[w].run
           /\ session'[w].version = session[w].version
           /\ session'[w].fencing = session[w].fencing
           /\ session'[w].wait = session[w].wait
<1> DEFINE s == session[w]
           t == [s EXCEPT !.pc = pc]
<1>0. s \in Sessions /\ s = session[w] /\ t = [s EXCEPT !.pc = pc]
  BY SessionTypes
<1>2. Becomes(w, t)
  BY DEF Go
<1> HIDE DEF s, t
<1>1. /\ t \in Sessions /\ t.pc = pc /\ t.run = s.run
      /\ t.version = s.version /\ t.fencing = s.fencing /\ t.wait = s.wait
  BY <1>0 DEF Sessions
<1> USE DEF s
<1> QED
  BY <1>1, <1>2, SessionTypes, SessionUpdate DEF TypeInv

LEMMA EndMove ==
    ASSUME TypeInv, NEW w \in Workers, EndSession(w)
    PROVE  OnlySession(w) /\ session'[w] = Idle /\ session'[w].pc = "idle"
  BY IdleFacts, SessionUpdate DEF EndSession, TypeInv

LEMMA ReturnMove ==
    ASSUME TypeInv, NEW w \in Workers, session[w].pc # "idle", Becomes(w, Returned(w))
    PROVE  /\ OnlySession(w)
           /\ session'[w].pc = "ack" /\ session'[w].run = session[w].run
<1>1. Returned(w) \in Sessions /\ Returned(w).run = session[w].run /\ Returned(w).pc = "ack"
  BY SessionTypes, IdleFacts DEF Returned, Idle, Sessions, Locations
<1> QED
  BY <1>1, SessionTypes, SessionUpdate DEF TypeInv

LEMMA FinishMove ==
    ASSUME TypeInv, NEW w \in Workers, session[w].pc # "idle",
           NEW verdict \in Terminal, NEW version \in Nat,
           Finish(w, verdict, version)
    PROVE  /\ OnlySession(w)
           /\ session'[w].pc = "finish" /\ session'[w].run = session[w].run
           /\ session'[w].version = version
           /\ session'[w].fencing = session[w].fencing
           /\ session'[w].wait = session[w].wait
           /\ session'[w].verdict = verdict
<1> DEFINE s == session[w]
           t == [s EXCEPT !.pc = "finish", !.version = version, !.verdict = verdict]
<1>1. s \in Sessions /\ "finish" \in Locations /\ Becomes(w, t)
  BY SessionTypes DEF Locations, Finish
<1>a. t = [s EXCEPT !.pc = "finish", !.version = version, !.verdict = verdict]
  OBVIOUS
<1> HIDE DEF s, t
<1>2. /\ t \in Sessions /\ t.pc = "finish" /\ t.run = s.run
      /\ t.version = version /\ t.fencing = s.fencing /\ t.wait = s.wait
      /\ t.verdict = verdict
  BY <1>1, <1>a DEF Sessions, Terminal
<1> USE DEF s
<1> QED
  BY <1>1, <1>2, SessionTypes, SessionUpdate DEF TypeInv

LEMMA ToolMove ==
    ASSUME TypeInv, NEW w \in Workers, session[w].pc # "idle",
           NEW fatal \in BOOLEAN, NEW version \in Nat, AfterTool(w, version, fatal)
    PROVE  /\ OnlySession(w)
           /\ session'[w].pc \in {"prompt", "finish"} /\ session'[w].run = session[w].run
           /\ session'[w].version = version
           /\ session'[w].fencing = session[w].fencing
           /\ session'[w].wait = session[w].wait
<1> DEFINE s == session[w]
           t == [s EXCEPT !.pc = "prompt", !.version = version, !.fatal = fatal]
<1>0. s \in Sessions /\ "prompt" \in Locations
  BY SessionTypes DEF Locations
<1>2. Becomes(w, t) \/ Finish(w, "failed", version)
  BY DEF AfterTool
<1>a. t = [s EXCEPT !.pc = "prompt", !.version = version, !.fatal = fatal]
  OBVIOUS
<1> HIDE DEF s, t
<1>1. /\ t \in Sessions /\ t.pc = "prompt" /\ t.run = s.run
      /\ t.version = version /\ t.fencing = s.fencing /\ t.wait = s.wait
  BY <1>0, <1>a DEF Sessions
<1> USE DEF s
<1>3. CASE Becomes(w, t)
  BY <1>1, <1>3, SessionTypes, SessionUpdate DEF TypeInv
<1>4. CASE Finish(w, "failed", version)
  BY <1>4, FinishMove DEF Terminal
<1> QED
  BY <1>2, <1>3, <1>4


(*****************************************************************************)
(* The soft moves.                                                           *)
(*****************************************************************************)

LEMMA Passive ==
    ASSUME NEW w \in Workers, OnlySession(w), UNCHANGED run,
           session'[w].pc \notin Leased \cup {"enqueue"}
    PROVE  SoftMove(w)
  BY DEF SoftMove

LEMMA IdleStep ==
    ASSUME TypeInv, NEW w \in Workers, EndSession(w), UNCHANGED run
    PROVE  SoftMove(w)
  BY EndMove, Passive DEF Leased

LEMMA PickIntentMove ==
    ASSUME TypeInv, NEW w \in Workers, PickIntent(w)
    PROVE  SoftMove(w)
<1>1. PICK x \in batch[w] : Becomes(w, [Idle EXCEPT !.pc = "read", !.run = x[1], !.intent = x[2]])
  BY DEF PickIntent
<1>2. x[1] \in Runs /\ x[2] \in Intents
  BY <1>1 DEF TypeInv, LedgerOK
<1> DEFINE r == x[1]  i == x[2]
           t == [Idle EXCEPT !.pc = "read", !.run = r, !.intent = i]
<1>3. r \in Runs /\ i \in Intents /\ Becomes(w, t) /\ Idle \in Sessions
  BY <1>1, <1>2, IdleFacts
<1>4. t = [Idle EXCEPT !.pc = "read", !.run = r, !.intent = i]
  OBVIOUS
<1> HIDE DEF r, i, t
<1>5. t \in Sessions /\ t.pc = "read" /\ t.run = r
  BY <1>3, <1>4 DEF Sessions, Locations
<1>6. OnlySession(w) /\ session'[w].pc = "read"
  BY <1>3, <1>5, SessionUpdate DEF TypeInv
<1> QED
  BY <1>6, Passive DEF PickIntent, dbVars, Leased

LEMMA ReadRunMove ==
    ASSUME TypeInv, NEW w \in Workers, ReadRun(w)
    PROVE  SoftMove(w)
<1>1. session[w].pc # "idle"
  BY DEF ReadRun, At
<1> DEFINE s == session[w]
           wait == run[s.run].wait
           pc == IF wait = NoWait THEN "assign" ELSE "check"
           t == [s EXCEPT !.pc = pc, !.wait = wait]
<1>2. /\ s \in Sessions /\ s.run \in Runs /\ wait \in Waits /\ Becomes(w, t)
      /\ pc \in {"assign", "check"} /\ pc \in Locations
  BY <1>1, SessionTypes, RowTypes DEF ReadRun, Locations
<1>3. t = [s EXCEPT !.pc = pc, !.wait = wait]
  OBVIOUS
<1> HIDE DEF s, wait, pc, t
<1>4. t \in Sessions /\ t.pc = pc /\ t.run = s.run
  BY <1>2, <1>3 DEF Sessions
<1>5. OnlySession(w) /\ session'[w].pc = pc
  BY <1>2, <1>4, SessionUpdate DEF TypeInv
<1> QED
  BY <1>2, <1>5, Passive DEF ReadRun, dbVars, Leased

LEMMA CheckWaitMove ==
    ASSUME TypeInv, NEW w \in Workers, CheckWait(w)
    PROVE  SoftMove(w)
<1>1. session[w].pc # "idle"
  BY DEF CheckWait, At
<1> DEFINE s == session[w]
           t == [s EXCEPT !.pc = "assign", !.wait = NoWait]
<1>2. /\ s \in Sessions /\ s.run \in Runs /\ NoWait \in Waits
      /\ Becomes(w, t) \/ Becomes(w, Returned(w))
  BY <1>1, SessionTypes, IdleFacts DEF CheckWait
<1>3. t = [s EXCEPT !.pc = "assign", !.wait = NoWait]
  OBVIOUS
<1> HIDE DEF s, t
<1>4. t \in Sessions /\ t.pc = "assign" /\ t.run = s.run
  BY <1>2, <1>3 DEF Sessions, Locations
<1>5. CASE Becomes(w, t)
  <2>1. OnlySession(w) /\ session'[w].pc = "assign"
    BY <1>2, <1>4, <1>5, SessionUpdate DEF TypeInv
  <2> QED
    BY <2>1, Passive DEF CheckWait, dbVars, Leased
<1>6. CASE Becomes(w, Returned(w))
  BY <1>1, <1>6, ReturnMove, Passive DEF CheckWait, dbVars, Leased
<1> QED
  BY <1>2, <1>5, <1>6

LEMMA ReadAssignmentMove ==
    ASSUME TypeInv, NEW w \in Workers, ReadAssignment(w)
    PROVE  SoftMove(w)
<1>1. session[w].pc # "idle"
  BY DEF ReadAssignment, At
<1> DEFINE s == session[w]
           version == run[s.run].version
           t == [s EXCEPT !.pc = "claim", !.version = version]
<1>2. s \in Sessions /\ s.run \in Runs /\ version \in Nat /\ Becomes(w, t)
  BY <1>1, SessionTypes, RowTypes DEF ReadAssignment
<1>3. t = [s EXCEPT !.pc = "claim", !.version = version]
  OBVIOUS
<1> HIDE DEF s, version, t
<1>4. t \in Sessions /\ t.pc = "claim" /\ t.run = s.run
  BY <1>2, <1>3 DEF Sessions, Locations
<1>5. OnlySession(w) /\ session'[w].pc = "claim"
  BY <1>2, <1>4, SessionUpdate DEF TypeInv
<1> QED
  BY <1>5, Passive DEF ReadAssignment, dbVars, Leased

LEMMA RestoreMove ==
    ASSUME TypeInv, NEW w \in Workers, RestoreSession(w)
    PROVE  SoftMove(w)
<1>1. session[w].pc = "restore" /\ session[w].pc # "idle" /\ UNCHANGED run
  BY DEF RestoreSession, At, dbVars
<1> DEFINE s == session[w]
           wait == run[s.run].wait
           pc == IF wait = NoWait THEN "prompt" ELSE "resolve"
           t == [s EXCEPT !.pc = pc, !.wait = wait]
<1>2. /\ s \in Sessions /\ s.run \in Runs /\ wait \in Waits /\ Becomes(w, t)
      /\ pc \in Locations /\ wait = run[s.run].wait
      /\ pc = IF wait = NoWait THEN "prompt" ELSE "resolve"
      /\ s = session[w]
  BY <1>1, SessionTypes, RowTypes DEF RestoreSession, Locations
<1>3. t = [s EXCEPT !.pc = pc, !.wait = wait]
  OBVIOUS
<1> HIDE DEF s, wait, pc, t
<1>4. /\ t \in Sessions /\ t.pc = pc /\ t.run = s.run /\ t.version = s.version
      /\ t.fencing = s.fencing /\ t.wait = wait
  BY <1>2, <1>3 DEF Sessions
<1>5. OnlySession(w) /\ session'[w] = t
  BY <1>2, <1>4, SessionUpdate DEF TypeInv
<1> QED
  BY <1>1, <1>2, <1>4, <1>5 DEF SoftMove, Leased

LEMMA SoftGo ==
    ASSUME TypeInv, NEW w \in Workers, NEW pc \in Locations, Go(w, pc), UNCHANGED run,
           session[w].pc \in {"resolve", "reserve", "send", "sent"},
           pc \in {"reserve", "send", "sent", "settle"},
           pc = "send" => ReserveSimulatedSend(w),
           \/ ResolveDeferredCall(w) \/ ReserveSimulatedSend(w)
           \/ ExecuteApprovedSend(w) \/ CompleteSimulatedSend(w)
    PROVE  SoftMove(w)
<1>1. /\ OnlySession(w)
      /\ session'[w].pc = pc /\ session'[w].run = session[w].run
      /\ session'[w].version = session[w].version
      /\ session'[w].fencing = session[w].fencing
      /\ session'[w].wait = session[w].wait
  BY GoMove
<1> QED
  BY <1>1 DEF SoftMove, Leased

LEMMA SendMoves ==
    ASSUME TypeInv, NEW w \in Workers,
           \/ ResolveDeferredCall(w) \/ ReserveSimulatedSend(w) \/ ReserveRefused(w)
           \/ ExecuteApprovedSend(w) \/ CompleteSimulatedSend(w)
    PROVE  SoftMove(w)
<1> {"resolve", "reserve", "send", "sent", "settle"} \subseteq Locations
  BY DEF Locations
<1>1. CASE ResolveDeferredCall(w)
  <2>1. EndSession(w) \/ Go(w, "reserve") \/ Go(w, "settle")
    BY <1>1 DEF ResolveDeferredCall
  <2> QED
    BY <1>1, <2>1, IdleStep, SoftGo DEF ResolveDeferredCall, At, dbVars
<1>2. CASE ReserveSimulatedSend(w)
  BY <1>2, SoftGo DEF ReserveSimulatedSend, At
<1>3. CASE ReserveRefused(w)
  BY <1>3, IdleStep DEF ReserveRefused, dbVars
<1>4. CASE ExecuteApprovedSend(w)
  BY <1>4, SoftGo DEF ExecuteApprovedSend, At, dbVars
<1>5. CASE CompleteSimulatedSend(w)
  BY <1>5, SoftGo DEF CompleteSimulatedSend, At
<1> QED
  BY <1>1, <1>2, <1>3, <1>4, <1>5

LEMMA EndingMoves ==
    ASSUME TypeInv, NEW w \in Workers,
           \/ AcknowledgeSimpleLoopDispatch(w) \/ AcknowledgeStaleDispatch(w)
           \/ EnqueueFails(w) \/ AbandonStale(w) \/ Crash(w)
    PROVE  SoftMove(w)
  BY IdleStep DEF AcknowledgeSimpleLoopDispatch, AcknowledgeStaleDispatch, EnqueueFails,
                  AbandonStale, Crash, dbVars

LEMMA PassiveGo ==
    ASSUME TypeInv, NEW w \in Workers, NEW pc \in Locations \ (Leased \cup {"enqueue"}),
           Go(w, pc), UNCHANGED run,
           session[w].pc # "idle"
    PROVE  SoftMove(w)
<1> pc \in Locations \ {"finish"}
  BY DEF Leased
<1> QED
  BY GoMove, Passive

LEMMA PassiveMoves ==
    ASSUME TypeInv, NEW w \in Workers,
           ClaimRefused(w) \/ EnqueueReport(w) \/ MarkReportDispatched(w)
    PROVE  SoftMove(w)
<1> {"stale", "mark"} \subseteq Locations \ (Leased \cup {"enqueue"})
  BY DEF Locations, Leased
<1>1. CASE ClaimRefused(w)
  BY <1>1, IdleStep, PassiveGo DEF ClaimRefused, At, dbVars
<1>2. CASE EnqueueReport(w)
  BY <1>2, PassiveGo DEF EnqueueReport, At
<1>3. CASE MarkReportDispatched(w)
  BY <1>3, ReturnMove, Passive DEF MarkReportDispatched, At, Leased
<1> QED
  BY <1>1, <1>2, <1>3

LEMMA FinishSoft ==
    ASSUME TypeInv, NEW w \in Workers, NEW verdict \in Terminal,
           Finish(w, verdict, session[w].version), UNCHANGED run,
           \/ session[w].pc = "model"
           \/ session[w].pc = "prompt" /\ run[session[w].run].consumedSteps >= StepBudget
           \/ session[w].pc = "prompt" /\ FailBeforeStep(w) /\ verdict = "failed"
    PROVE  SoftMove(w)
<1>1. /\ OnlySession(w)
      /\ session'[w].pc = "finish" /\ session'[w].run = session[w].run
      /\ session'[w].version = session[w].version
      /\ session'[w].fencing = session[w].fencing
      /\ session'[w].wait = session[w].wait /\ session'[w].verdict = verdict
  BY FinishMove, SessionTypes
<1>2. session[w].pc \in Leased /\ session'[w].pc # "enqueue"
  BY <1>1 DEF Leased
<1> QED
  BY <1>1, <1>2 DEF SoftMove

LEMMA FinishMoves ==
    ASSUME TypeInv, NEW w \in Workers,
           BudgetExhausted(w) \/ FailBeforeStep(w) \/ EndGeneration(w) \/ FailAgent(w)
    PROVE  SoftMove(w)
<1>1. CASE FailBeforeStep(w)
  <2>1. /\ session[w].pc = "prompt" /\ UNCHANGED run /\ "failed" \in Terminal
        /\ Finish(w, "failed", session[w].version)
    BY <1>1 DEF FailBeforeStep, At, dbVars, Terminal
  <2> QED
    BY <1>1, <2>1, FinishSoft
<1>2. CASE BudgetExhausted(w) \/ EndGeneration(w) \/ FailAgent(w)
  BY <1>2, FinishSoft DEF BudgetExhausted, EndGeneration, FailAgent, At, dbVars, Terminal
<1> QED
  BY <1>1, <1>2

LEMMA SkillRefusedMove ==
    ASSUME TypeInv, NEW w \in Workers, SkillRefused(w)
    PROVE  SoftMove(w)
<1>1. /\ session[w].pc = "model" /\ session[w].pc # "idle" /\ UNCHANGED run
      /\ AfterTool(w, session[w].version, TRUE)
  BY DEF SkillRefused, At, dbVars
<1>2. /\ OnlySession(w)
      /\ session'[w].pc \in {"prompt", "finish"} /\ session'[w].run = session[w].run
      /\ session'[w].version = session[w].version
      /\ session'[w].fencing = session[w].fencing
      /\ session'[w].wait = session[w].wait
  BY <1>1, ToolMove, SessionTypes
<1>3. session[w].pc \in Leased /\ session'[w].pc # "enqueue"
  BY <1>1, <1>2 DEF Leased
<1> QED
  BY <1>1, <1>2, <1>3 DEF SoftMove

LEMMA ReportRefusedMove ==
    ASSUME TypeInv, NEW w \in Workers, ReportRefused(w)
    PROVE  SoftMove(w)
<1>1. session[w].pc = "model" /\ session[w].pc # "idle" /\ UNCHANGED run
  BY DEF ReportRefused, At, dbVars
<1> DEFINE s == session[w]
           wait == [kind |-> "report", call |-> run[s.run].consumedSteps]
           t == [s EXCEPT !.pc = "finish", !.verdict = "failed", !.wait = wait]
<1>2. s \in Sessions /\ s.run \in Runs /\ s = session[w] /\ Becomes(w, t)
  BY <1>1, SessionTypes DEF ReportRefused
<1>3. run[s.run].consumedSteps \in Calls
  BY <1>1, SessionTypes, RowTypes DEF TypeInv, StepPaid, Calls
<1>4. wait \in Waits
  BY <1>3 DEF Waits
<1>5. t = [s EXCEPT !.pc = "finish", !.verdict = "failed", !.wait = wait]
  OBVIOUS
<1> HIDE DEF s, wait, t
<1>6. /\ t \in Sessions /\ t.pc = "finish" /\ t.run = s.run /\ t.version = s.version
      /\ t.fencing = s.fencing /\ t.verdict = "failed" /\ "failed" \in Terminal
  BY <1>2, <1>4, <1>5 DEF Sessions, Locations, Terminal
<1>7. OnlySession(w) /\ session'[w] = t
  BY <1>2, <1>6, SessionUpdate DEF TypeInv
<1> QED
  BY <1>1, <1>2, <1>6, <1>7 DEF SoftMove, Leased

(*****************************************************************************)
(* The claim, the writes under the lease and the lapses.                     *)
(*****************************************************************************)

LEMMA ClaimRunLeaseMove ==
    ASSUME TypeInv, NEW w \in Workers, ClaimRunLease(w)
    PROVE  ClaimMove(w)
<1>1. session[w].pc # "idle"
  BY DEF ClaimRunLease, At
<1> DEFINE s == session[w]
           row == run[s.run]
           version == row.version + 1
           fencing == row.fencingVersion + 1
           t == [s EXCEPT !.pc = "restore", !.version = version, !.fencing = fencing]
           new == [row EXCEPT !.leaseOwner = w, !.leaseExpired = FALSE,
                              !.fencingVersion = fencing, !.version = version]
<1>2. /\ s \in Sessions /\ s.run \in Runs /\ row \in RunRows
      /\ version \in Nat /\ fencing \in Nat
      /\ version = run[s.run].version + 1 /\ fencing = run[s.run].fencingVersion + 1
      /\ row = run[s.run] /\ s = session[w] /\ row.status \notin Terminal
      /\ Becomes(w, t) /\ run' = [run EXCEPT ![s.run] = new]
  BY <1>1, SessionTypes, RowTypes DEF ClaimRunLease
<1>3. t = [s EXCEPT !.pc = "restore", !.version = version, !.fencing = fencing]
  OBVIOUS
<1>4. new = [row EXCEPT !.leaseOwner = w, !.leaseExpired = FALSE,
                        !.fencingVersion = fencing, !.version = version]
  OBVIOUS
<1> HIDE DEF s, row, version, fencing, t, new
<1>5. /\ t \in Sessions /\ t.pc = "restore" /\ t.run = s.run /\ t.version = version
      /\ t.fencing = fencing
  BY <1>2, <1>3 DEF Sessions, Locations
<1>6. /\ new \in RunRows
      /\ new.status = row.status /\ new.version = version
      /\ new.leaseOwner = w /\ new.fencingVersion = fencing
      /\ new.consumedSteps = row.consumedSteps /\ new.wait = row.wait
  BY <1>2, <1>4 DEF RunRows
<1>7. OnlySession(w) /\ session'[w] = t
  BY <1>2, <1>5, SessionUpdate DEF TypeInv
<1>8. OnlyRun(s.run) /\ run'[s.run] = new
  BY <1>2, <1>6, RunUpdate DEF TypeInv
<1> QED
  BY <1>2, <1>5, <1>6, <1>7, <1>8 DEF ClaimMove

LEMMA PersistMove ==
    ASSUME TypeInv, NEW w \in Workers, session[w].pc # "idle",
           NEW row \in RunRows, Persist(w, row)
    PROVE  LET r == session[w].run IN
           /\ LeaseHeld(w)
           /\ r \in Runs
           /\ OnlyRun(r)
           /\ run'[r].version = row.version + 1
           /\ run'[r].status = row.status /\ run'[r].wait = row.wait
           /\ run'[r].leaseOwner = row.leaseOwner
           /\ run'[r].fencingVersion = row.fencingVersion
           /\ run'[r].consumedSteps = row.consumedSteps
<1> DEFINE r == session[w].run
           version == row.version + 1
           new == [row EXCEPT !.version = version]
<1>1. /\ r \in Runs /\ version \in Nat /\ LeaseHeld(w)
      /\ run' = [run EXCEPT ![r] = new]
      /\ r = session[w].run /\ version = row.version + 1
  BY SessionTypes, RowTypes DEF Persist
<1>2. new = [row EXCEPT !.version = version]
  OBVIOUS
<1> HIDE DEF r, version, new
<1>3. /\ new \in RunRows
      /\ new.status = row.status /\ new.version = version
      /\ new.leaseOwner = row.leaseOwner /\ new.fencingVersion = row.fencingVersion
      /\ new.consumedSteps = row.consumedSteps /\ new.wait = row.wait
  BY <1>1, <1>2 DEF RunRows
<1>4. OnlyRun(r) /\ run'[r] = new
  BY <1>1, <1>3, RunUpdate DEF TypeInv
<1> QED
  BY <1>1, <1>3, <1>4

LEMMA ResolveWaitMove ==
    ASSUME TypeInv, NEW w \in Workers, ResolveSimpleLoopWait(w)
    PROVE  WriteMove(w)
<1>1. session[w].pc = "settle" /\ session[w].pc # "idle"
  BY DEF ResolveSimpleLoopWait, At
<1> DEFINE s == session[w]
           row == run[s.run]
           version == s.version + 1
           new == [row EXCEPT !.status = "running", !.wait = NoWait]
           t == [s EXCEPT !.pc = "prompt", !.wait = NoWait, !.version = version]
<1>2. /\ s \in Sessions /\ s.run \in Runs /\ row \in RunRows /\ version \in Nat
      /\ row = run[s.run] /\ s = session[w] /\ version = s.version + 1
      /\ "running" \in Statuses /\ NoWait \in Waits
      /\ Persist(w, new) /\ Becomes(w, t)
  BY <1>1, SessionTypes, IdleFacts DEF ResolveSimpleLoopWait, Statuses
<1>3. t = [s EXCEPT !.pc = "prompt", !.wait = NoWait, !.version = version]
  OBVIOUS
<1>4. new = [row EXCEPT !.status = "running", !.wait = NoWait]
  OBVIOUS
<1> HIDE DEF s, row, version, t, new
<1>5. /\ t \in Sessions /\ t.pc = "prompt" /\ t.run = s.run /\ t.version = version
      /\ t.fencing = s.fencing /\ t.wait = NoWait
  BY <1>2, <1>3 DEF Sessions, Locations
<1>6. /\ new \in RunRows
      /\ new.status = "running" /\ new.version = row.version
      /\ new.leaseOwner = row.leaseOwner /\ new.fencingVersion = row.fencingVersion
      /\ new.consumedSteps = row.consumedSteps /\ new.wait = NoWait
  BY <1>2, <1>4 DEF RunRows
<1>7. OnlySession(w) /\ session'[w] = t
  BY <1>2, <1>5, SessionUpdate DEF TypeInv
<1> QED
  BY <1>1, <1>2, <1>5, <1>6, <1>7, PersistMove DEF WriteMove, Leased

LEMMA ConsumeMove ==
    ASSUME TypeInv, NEW w \in Workers, ConsumeSimpleLoopStep(w)
    PROVE  WriteMove(w)
<1>1. session[w].pc = "prompt" /\ session[w].pc # "idle"
  BY DEF ConsumeSimpleLoopStep, At
<1> DEFINE s == session[w]
           row == run[s.run]
           version == s.version + 1
           steps == row.consumedSteps + 1
           new == [row EXCEPT !.status = "running", !.consumedSteps = steps]
           t == [s EXCEPT !.pc = "model", !.version = version]
<1>2. /\ s \in Sessions /\ s.run \in Runs /\ row \in RunRows /\ version \in Nat
      /\ row = run[s.run] /\ s = session[w] /\ version = s.version + 1
      /\ steps = row.consumedSteps + 1 /\ steps \in 0..StepBudget
      /\ "running" \in Statuses
      /\ Persist(w, new) /\ Becomes(w, t)
  BY <1>1, SessionTypes, RowTypes, ConstantFacts DEF ConsumeSimpleLoopStep, Statuses
<1>3. t = [s EXCEPT !.pc = "model", !.version = version]
  OBVIOUS
<1>4. new = [row EXCEPT !.status = "running", !.consumedSteps = steps]
  OBVIOUS
<1> HIDE DEF s, row, version, steps, t, new
<1>5. /\ t \in Sessions /\ t.pc = "model" /\ t.run = s.run /\ t.version = version
      /\ t.fencing = s.fencing /\ t.wait = s.wait
  BY <1>2, <1>3 DEF Sessions, Locations
<1>6. /\ new \in RunRows
      /\ new.status = "running" /\ new.version = row.version
      /\ new.leaseOwner = row.leaseOwner /\ new.fencingVersion = row.fencingVersion
      /\ new.consumedSteps = steps /\ new.wait = row.wait
  BY <1>2, <1>4 DEF RunRows
<1>7. OnlySession(w) /\ session'[w] = t
  BY <1>2, <1>5, SessionUpdate DEF TypeInv
<1> QED
  BY <1>1, <1>2, <1>5, <1>6, <1>7, PersistMove DEF WriteMove, Leased

\* A write from "model" that leaves status, wait and budget as they are.
LEMMA ModelWrite ==
    ASSUME TypeInv, NEW w \in Workers, session[w].pc = "model",
           NEW row \in RunRows, Persist(w, row),
           row.version = run[session[w].run].version,
           row.status = run[session[w].run].status,
           row.wait = run[session[w].run].wait,
           row.leaseOwner = run[session[w].run].leaseOwner,
           row.fencingVersion = run[session[w].run].fencingVersion,
           row.consumedSteps = run[session[w].run].consumedSteps,
           OnlySession(w), session'[w].pc \in {"prompt", "finish"},
           session'[w].run = session[w].run,
           session'[w].version = session[w].version + 1,
           session'[w].fencing = session[w].fencing,
           session'[w].wait = session[w].wait
    PROVE  WriteMove(w)
  BY PersistMove DEF WriteMove, Leased

LEMMA SkillMove ==
    ASSUME TypeInv, NEW w \in Workers, PersistSimpleLoopSkill(w)
    PROVE  WriteMove(w)
<1>1. /\ session[w].pc = "model" /\ session[w].pc # "idle"
      /\ AfterTool(w, session[w].version + 1, session[w].fatal)
  BY DEF PersistSimpleLoopSkill, At
<1>2. PICK skill \in Skills : Persist(w, [run[session[w].run] EXCEPT !.skill = skill])
  BY DEF PersistSimpleLoopSkill
<1>3. /\ OnlySession(w)
      /\ session'[w].pc \in {"prompt", "finish"} /\ session'[w].run = session[w].run
      /\ session'[w].version = session[w].version + 1
      /\ session'[w].fencing = session[w].fencing
      /\ session'[w].wait = session[w].wait
  BY <1>1, ToolMove, SessionTypes
<1> DEFINE row == run[session[w].run]
           new == [row EXCEPT !.skill = skill]
<1>4. /\ row \in RunRows /\ skill \in SkillNames /\ row = run[session[w].run]
      /\ Persist(w, new)
  BY <1>1, <1>2, SessionTypes, ConstantFacts
<1>5. new = [row EXCEPT !.skill = skill]
  OBVIOUS
<1> HIDE DEF row, new
<1>6. /\ new \in RunRows
      /\ new.status = row.status /\ new.version = row.version
      /\ new.leaseOwner = row.leaseOwner /\ new.fencingVersion = row.fencingVersion
      /\ new.consumedSteps = row.consumedSteps /\ new.wait = row.wait
  BY <1>4, <1>5 DEF RunRows
<1> QED
  BY <1>1, <1>3, <1>4, <1>6, ModelWrite

LEMMA ToolOutcomeMove ==
    ASSUME TypeInv, NEW w \in Workers, NEW outcome,
           PersistToolOutcome(w, outcome) \/ PersistMappedToolFailure(w, outcome)
    PROVE  WriteMove(w)
<1>1. /\ session[w].pc = "model" /\ session[w].pc # "idle"
      /\ Persist(w, run[session[w].run])
      /\ \/ AfterTool(w, session[w].version + 1, session[w].fatal)
         \/ Finish(w, "failed", session[w].version + 1)
  BY DEF PersistToolOutcome, PersistMappedToolFailure, At
<1>2. session[w].version + 1 \in Nat /\ session[w].fatal \in BOOLEAN
  BY SessionTypes
<1>3. /\ OnlySession(w)
      /\ session'[w].pc \in {"prompt", "finish"} /\ session'[w].run = session[w].run
      /\ session'[w].version = session[w].version + 1
      /\ session'[w].fencing = session[w].fencing
      /\ session'[w].wait = session[w].wait
  <2>1. CASE AfterTool(w, session[w].version + 1, session[w].fatal)
    BY <1>1, <1>2, <2>1, ToolMove
  <2>2. CASE Finish(w, "failed", session[w].version + 1)
    BY <1>1, <1>2, <2>2, FinishMove DEF Terminal
  <2> QED
    BY <1>1, <2>1, <2>2
<1> QED
  BY <1>1, <1>3, SessionTypes, ModelWrite

\* A write that gives the lease up.
LEMMA ReleaseWrite ==
    ASSUME TypeInv, NEW w \in Workers, session[w].pc # "idle",
           NEW status \in Statuses, NEW wait \in Waits,
           Persist(w, Released(run[session[w].run], status, wait))
    PROVE  LET r == session[w].run IN
           /\ LeaseHeld(w)
           /\ r \in Runs
           /\ OnlyRun(r)
           /\ run'[r].version = run[r].version + 1
           /\ run'[r].status = status /\ run'[r].wait = wait
           /\ run'[r].leaseOwner = None
           /\ run'[r].fencingVersion = run[r].fencingVersion
           /\ run'[r].consumedSteps = run[r].consumedSteps
<1> DEFINE row == run[session[w].run]
           new == Released(row, status, wait)
<1>1. row \in RunRows /\ Persist(w, new) /\ new = Released(row, status, wait)
  BY SessionTypes
<1> HIDE DEF row, new
<1>2. /\ new \in RunRows
      /\ new.status = status /\ new.version = row.version
      /\ new.leaseOwner = None /\ new.fencingVersion = row.fencingVersion
      /\ new.consumedSteps = row.consumedSteps /\ new.wait = wait
  BY <1>1 DEF RunRows, Released
<1>3. /\ LeaseHeld(w)
      /\ session[w].run \in Runs
      /\ OnlyRun(session[w].run)
      /\ run'[session[w].run].version = new.version + 1
      /\ run'[session[w].run].status = new.status /\ run'[session[w].run].wait = new.wait
      /\ run'[session[w].run].leaseOwner = new.leaseOwner
      /\ run'[session[w].run].fencingVersion = new.fencingVersion
      /\ run'[session[w].run].consumedSteps = new.consumedSteps
  BY <1>1, <1>2, PersistMove
<1> QED
  BY <1>2, <1>3 DEF row

LEMMA CallOfModel ==
    ASSUME TypeInv, NEW w \in Workers, session[w].pc = "model"
    PROVE  run[session[w].run].consumedSteps \in Calls
<1>1. session[w].run \in Runs /\ run[session[w].run] \in RunRows
  BY SessionTypes
<1> QED
  BY <1>1, RowTypes, ConstantFacts DEF TypeInv, StepPaid, Calls

LEMMA ReportWaitMove ==
    ASSUME TypeInv, NEW w \in Workers, PersistReportWait(w)
    PROVE  WriteMove(w)
<1>1. session[w].pc = "model" /\ session[w].pc # "idle"
  BY DEF PersistReportWait, At
<1> DEFINE s == session[w]
           wait == [kind |-> "report", call |-> run[s.run].consumedSteps]
           version == s.version + 1
           t == [s EXCEPT !.pc = "enqueue", !.wait = wait, !.version = version]
<1>2. /\ s \in Sessions /\ s.run \in Runs /\ version \in Nat
      /\ s = session[w] /\ version = s.version + 1
      /\ "waiting_for_tool" \in Statuses \cap Waiting
      /\ Persist(w, Released(run[s.run], "waiting_for_tool", wait)) /\ Becomes(w, t)
  BY <1>1, SessionTypes DEF PersistReportWait, Statuses, Waiting
<1>3. /\ wait \in Waits /\ wait # NoWait
      /\ wait.kind = "report" /\ wait.call = run[session[w].run].consumedSteps
  BY <1>1, CallOfModel DEF Waits, NoWait
<1>4. t = [s EXCEPT !.pc = "enqueue", !.wait = wait, !.version = version]
  OBVIOUS
<1> HIDE DEF s, wait, version, t
<1>5. t \in Sessions /\ t.pc = "enqueue" /\ t.run = s.run
  BY <1>2, <1>3, <1>4 DEF Sessions, Locations
<1>6. OnlySession(w) /\ session'[w] = t
  BY <1>2, <1>5, SessionUpdate DEF TypeInv
<1> QED
  BY <1>1, <1>2, <1>3, <1>5, <1>6, ReleaseWrite DEF WriteMove, Leased

LEMMA ApprovalWaitMove ==
    ASSUME TypeInv, NEW w \in Workers, PersistApprovalWait(w)
    PROVE  WriteMove(w)
<1>1. session[w].pc = "model" /\ session[w].pc # "idle" /\ Becomes(w, Returned(w))
  BY DEF PersistApprovalWait, At
<1> DEFINE wait == [kind |-> "approval", call |-> run[session[w].run].consumedSteps]
<1>2. /\ "waiting_for_admin" \in Statuses \cap Waiting
      /\ Persist(w, Released(run[session[w].run], "waiting_for_admin", wait))
  BY DEF PersistApprovalWait, Statuses, Waiting
<1>3. /\ wait \in Waits /\ wait # NoWait
      /\ wait.kind = "approval" /\ wait.call = run[session[w].run].consumedSteps
  BY <1>1, CallOfModel DEF Waits, NoWait
<1> HIDE DEF wait
<1> QED
  BY <1>1, <1>2, <1>3, ReturnMove, ReleaseWrite DEF WriteMove, Leased

LEMMA CompleteMove ==
    ASSUME TypeInv, NEW w \in Workers, CompleteSimpleLoopRun(w)
    PROVE  WriteMove(w)
<1>1. session[w].pc = "finish" /\ session[w].pc # "idle" /\ Becomes(w, Returned(w))
  BY DEF CompleteSimpleLoopRun, At
<1>2. /\ session[w].verdict \in Statuses \cap Terminal /\ session[w].wait \in Waits
      /\ Persist(w, Released(run[session[w].run], session[w].verdict, session[w].wait))
  BY <1>1, SessionTypes DEF CompleteSimpleLoopRun, Statuses, Terminal, TypeInv, SessionOK
<1> QED
  BY <1>1, <1>2, ReturnMove, ReleaseWrite DEF WriteMove, Leased

LEMMA LapseMoves ==
    ASSUME TypeInv, NEW r \in Runs, LeaseLapses(r) \/ LeaseOutrun(r)
    PROVE  LapseMove(r)
<1> DEFINE row == run[r]
           new == [row EXCEPT !.leaseExpired = TRUE]
<1>1. /\ row \in RunRows /\ run' = [run EXCEPT ![r] = new] /\ row.leaseOwner # None
      /\ row = run[r] /\ UNCHANGED session
  BY DEF LeaseLapses, LeaseOutrun, TypeInv, RunOK
<1>2. new = [row EXCEPT !.leaseExpired = TRUE]
  OBVIOUS
<1> HIDE DEF row, new
<1>3. /\ new \in RunRows /\ new.leaseExpired
      /\ new.status = row.status /\ new.version = row.version
      /\ new.leaseOwner = row.leaseOwner /\ new.fencingVersion = row.fencingVersion
      /\ new.consumedSteps = row.consumedSteps /\ new.wait = row.wait
  BY <1>1, <1>2 DEF RunRows
<1>4. OnlyRun(r) /\ run'[r] = new
  BY <1>1, <1>3, RunUpdate DEF TypeInv
<1> QED
  BY <1>1, <1>3, <1>4 DEF LapseMove

LEMMA StepMove ==
    ASSUME TypeInv, Next
    PROVE  Move
<1>1. ASSUME NEW w \in Workers, Resumption(w)
      PROVE  Move
  BY <1>1, ReadRunMove, CheckWaitMove, ReadAssignmentMove, ClaimRunLeaseMove, PassiveMoves,
     RestoreMove, SendMoves, ResolveWaitMove DEF Resumption, Move
<1>2. ASSUME NEW w \in Workers, AgentLoop(w)
      PROVE  Move
  BY <1>2, ConsumeMove, FinishMoves, SkillMove, SkillRefusedMove, ToolOutcomeMove,
     ReportWaitMove, ReportRefusedMove, PassiveMoves, ApprovalWaitMove, CompleteMove,
     EndingMoves DEF AgentLoop, Move
<1>3. ASSUME NEW w \in Workers, WorkerStep(w) \/ FailBeforeStep(w) \/ EnqueueFails(w) \/ Crash(w)
      PROVE  Move
  <2>1. CASE ListPending(w)
    BY <2>1 DEF ListPending, dbVars, Move
  <2>2. CASE PickIntent(w)
    BY <2>2, PickIntentMove DEF Move
  <2>3. CASE AcknowledgeSimpleLoopDispatch(w) \/ AcknowledgeStaleDispatch(w)
             \/ EnqueueFails(w) \/ Crash(w)
    BY <2>3, EndingMoves DEF Move
  <2>4. CASE FailBeforeStep(w)
    BY <2>4, FinishMoves DEF Move
  <2> QED
    BY <1>1, <1>2, <1>3, <2>1, <2>2, <2>3, <2>4 DEF WorkerStep
<1>4. ASSUME NEW r \in Runs, LeaseLapses(r) \/ LeaseOutrun(r)
      PROVE  Move
  BY <1>4, LapseMoves DEF Move
<1>5. ASSUME NEW r \in Runs,
             \/ ReportStep(r) \/ AdminStep(r) \/ ReportAttemptFails(r)
             \/ \E c \in Calls : ApprovalDeadline(r, c)
      PROVE  Move
  BY <1>5 DEF ReportStep, RecordReportProgress, CompleteReportJob, AdminStep, DecideApproval,
              ExpireOnDecide, ReportAttemptFails, ApprovalDeadline, dbVars, Move
<1> QED
  BY <1>3, <1>4, <1>5 DEF Next

(*****************************************************************************)
(* The type invariant is kept.                                               *)
(*****************************************************************************)

LEMMA MoveTypes ==
    ASSUME TypeInv, Move
    PROVE  RunOK' /\ SessionOK' /\ StepPaid'
<1>1. ASSUME NEW w \in Workers, SoftMove(w)
      PROVE  RunOK' /\ SessionOK' /\ StepPaid'
  <2>1. session'[w].pc # "model"
    BY <1>1 DEF SoftMove, Leased
  <2> QED
    BY <1>1, <2>1 DEF TypeInv, SoftMove, OnlySession, RunOK, SessionOK, StepPaid
<1>2. ASSUME NEW w \in Workers, ClaimMove(w)
      PROVE  RunOK' /\ SessionOK' /\ StepPaid'
  <2>1. /\ session'[w].pc # "model"
        /\ \A r \in Runs : run'[r].consumedSteps = run[r].consumedSteps
        /\ OnlySession(w) /\ OnlyRun(session[w].run)
    BY <1>2 DEF ClaimMove, OnlyRun
  <2> QED
    BY <2>1 DEF TypeInv, OnlySession, OnlyRun, RunOK, SessionOK, StepPaid
<1>3. ASSUME NEW w \in Workers, WriteMove(w)
      PROVE  RunOK' /\ SessionOK' /\ StepPaid'
  <2>1. \A r \in Runs : run[r].consumedSteps \in Nat
    BY RowTypes DEF TypeInv, RunOK
  <2>2. /\ \A r \in Runs : run'[r].consumedSteps >= run[r].consumedSteps
        /\ session'[w].pc = "model" => run'[session'[w].run].consumedSteps >= 1
        /\ OnlySession(w) /\ OnlyRun(session[w].run)
    BY <1>3, <2>1 DEF WriteMove, OnlyRun
  <2>3. \A r \in Runs : run'[r].consumedSteps \in Nat
    BY <2>2, RowTypes DEF OnlyRun
  <2> QED
    BY <2>1, <2>2, <2>3 DEF TypeInv, OnlySession, OnlyRun, RunOK, SessionOK, StepPaid
<1>4. ASSUME NEW r \in Runs, LapseMove(r)
      PROVE  RunOK' /\ SessionOK' /\ StepPaid'
  <2>1. /\ \A q \in Runs : run'[q].consumedSteps = run[q].consumedSteps
        /\ OnlyRun(r) /\ UNCHANGED session
    BY <1>4 DEF LapseMove, OnlyRun
  <2> QED
    BY <2>1 DEF TypeInv, OnlyRun, RunOK, SessionOK, StepPaid
<1>5. CASE UNCHANGED <<run, session>>
  BY <1>5 DEF TypeInv, RunOK, SessionOK, StepPaid
<1> QED
  BY <1>1, <1>2, <1>3, <1>4, <1>5 DEF Move

LEMMA JobUpdate ==
    ASSUME JobOK, NEW r \in Runs, NEW new \in JobRows, job' = [job EXCEPT ![r] = new],
           new.delivery \in {"queued", "active", "repeat"} => new.attempts >= 1
    PROVE  JobOK'
  BY DEF JobOK

LEMMA JobStep ==
    ASSUME TypeInv, Next
    PROVE  JobOK'
<1> USE DEF TypeInv
<1>1. CASE UNCHANGED job
  BY <1>1 DEF JobOK
<1>2. ASSUME NEW w \in Workers, PersistReportWait(w)
      PROVE  JobOK'
  <2> DEFINE r == session[w].run
             c == run[r].consumedSteps
             new == [NoJob EXCEPT !.status = "queued", !.call = c, !.intent = "pending"]
  <2>1. r \in Runs /\ c \in Calls /\ job' = [job EXCEPT ![r] = new]
    BY <1>2, SessionTypes, CallOfModel DEF PersistReportWait, At
  <2>2. NoJob \in JobRows /\ NoJob.delivery = "none"
    BY IdleFacts DEF NoJob
  <2>3. c \in Intents
    BY <2>1 DEF Calls, Intents
  <2>4. new = [NoJob EXCEPT !.status = "queued", !.call = c, !.intent = "pending"]
    OBVIOUS
  <2> HIDE DEF r, c, new
  <2>5. new \in JobRows /\ new.delivery = "none"
    BY <2>2, <2>3, <2>4 DEF JobRows
  <2> QED
    BY <2>1, <2>5, JobUpdate
<1>3. ASSUME NEW w \in Workers, EnqueueReport(w) \/ MarkReportDispatched(w)
      PROVE  JobOK'
  <2> DEFINE r == session[w].run
             old == job[r]
             queued == [old EXCEPT !.delivery = "queued", !.attempts = MaxAttempts]
             marked == [old EXCEPT !.intent = "dispatched"]
  <2>1. /\ r \in Runs /\ old \in JobRows /\ MaxAttempts \in 0..MaxAttempts /\ MaxAttempts >= 1
        /\ job' = [job EXCEPT ![r] = queued] \/ job' = [job EXCEPT ![r] = marked]
        /\ old.delivery \in {"queued", "active", "repeat"} => old.attempts >= 1
    BY <1>3, SessionTypes, ConstantFacts DEF EnqueueReport, MarkReportDispatched, At, JobOK
  <2>2. /\ queued = [old EXCEPT !.delivery = "queued", !.attempts = MaxAttempts]
        /\ marked = [old EXCEPT !.intent = "dispatched"]
    OBVIOUS
  <2> HIDE DEF r, old, queued, marked
  <2>3. queued \in JobRows /\ queued.attempts = MaxAttempts
    BY <2>1, <2>2 DEF JobRows
  <2>4. marked \in JobRows /\ marked.delivery = old.delivery /\ marked.attempts = old.attempts
    BY <2>1, <2>2 DEF JobRows
  <2> QED
    BY <2>1, <2>3, <2>4, JobUpdate
<1>4. ASSUME NEW r \in Runs, RecordReportProgress(r) \/ CompleteReportJob(r)
      PROVE  JobOK'
  <2> DEFINE old == job[r]
             status == IF old.status = "queued" THEN "running" ELSE old.status
             next == IF old.delivery = "active" THEN "repeat" ELSE "done"
             begun == [old EXCEPT !.delivery = "active", !.status = status]
             done == [old EXCEPT !.status = "completed", !.delivery = next]
  <2>1. /\ old \in JobRows /\ old.attempts >= 1
        /\ job' = [job EXCEPT ![r] = begun] \/ job' = [job EXCEPT ![r] = done]
    BY <1>4 DEF RecordReportProgress, CompleteReportJob, JobOK
  <2>2. /\ status \in {"none", "queued", "running", "completed"}
        /\ next \in {"none", "queued", "active", "repeat", "done", "failed"}
    BY <2>1 DEF JobRows
  <2>3. /\ begun = [old EXCEPT !.delivery = "active", !.status = status]
        /\ done = [old EXCEPT !.status = "completed", !.delivery = next]
    OBVIOUS
  <2> HIDE DEF old, status, next, begun, done
  <2>4. begun \in JobRows /\ begun.attempts = old.attempts
    BY <2>1, <2>2, <2>3 DEF JobRows
  <2>5. done \in JobRows /\ done.attempts = old.attempts
    BY <2>1, <2>2, <2>3 DEF JobRows
  <2> QED
    BY <2>1, <2>4, <2>5, JobUpdate
<1>5. ASSUME NEW r \in Runs, ReportAttemptFails(r)
      PROVE  JobOK'
  <2> DEFINE old == job[r]
             left == old.attempts - 1
             next == IF old.attempts > 1 THEN "queued" ELSE "failed"
             new == [old EXCEPT !.attempts = left, !.delivery = next]
  <2>1. old \in JobRows /\ old.attempts >= 1 /\ job' = [job EXCEPT ![r] = new]
    BY <1>5 DEF ReportAttemptFails, JobOK
  <2>2. /\ left \in 0..MaxAttempts
        /\ next = "queued" => left >= 1
        /\ next \in {"queued", "failed"}
    BY <2>1, ConstantFacts DEF JobRows
  <2>3. new = [old EXCEPT !.attempts = left, !.delivery = next]
    OBVIOUS
  <2> HIDE DEF old, left, next, new
  <2>4. new \in JobRows /\ new.attempts = left /\ new.delivery = next
    BY <2>1, <2>2, <2>3 DEF JobRows
  <2> QED
    BY <2>1, <2>2, <2>4, JobUpdate
<1>6. ASSUME NEW w \in Workers, Resumption(w)
      PROVE  JobOK'
  BY <1>1, <1>6 DEF Resumption, ReadRun, CheckWait, ReadAssignment, ClaimRunLease, ClaimRefused,
     RestoreSession, ResolveDeferredCall, ReserveSimulatedSend, ReserveRefused,
     ExecuteApprovedSend, CompleteSimulatedSend, ResolveSimpleLoopWait, dbVars
<1>7. ASSUME NEW w \in Workers, AgentLoop(w)
      PROVE  JobOK'
  BY <1>1, <1>2, <1>3, <1>7 DEF AgentLoop, ConsumeSimpleLoopStep, BudgetExhausted,
     PersistSimpleLoopSkill, SkillRefused, PersistToolOutcome, PersistMappedToolFailure,
     EndGeneration, FailAgent, ReportRefused, PersistApprovalWait, CompleteSimpleLoopRun,
     AbandonStale, dbVars
<1>8. ASSUME NEW w \in Workers, WorkerStep(w) \/ FailBeforeStep(w) \/ EnqueueFails(w) \/ Crash(w)
      PROVE  JobOK'
  BY <1>1, <1>6, <1>7, <1>8 DEF WorkerStep, ListPending, PickIntent,
     AcknowledgeSimpleLoopDispatch, AcknowledgeStaleDispatch, FailBeforeStep, EnqueueFails,
     Crash, dbVars
<1>9. ASSUME NEW r \in Runs,
             AdminStep(r) \/ LeaseLapses(r) \/ LeaseOutrun(r)
                \/ \E c \in Calls : ApprovalDeadline(r, c)
      PROVE  JobOK'
  BY <1>1, <1>9 DEF AdminStep, DecideApproval, ExpireOnDecide, LeaseLapses, LeaseOutrun,
     ApprovalDeadline, dbVars
<1> QED
  BY <1>4, <1>5, <1>8, <1>9 DEF Next, ReportStep

LEMMA ListingStep ==
    ASSUME TypeInv, NEW w \in Workers,
           \/ ListPending(w) \/ PickIntent(w)
           \/ AcknowledgeSimpleLoopDispatch(w) \/ AcknowledgeStaleDispatch(w)
    PROVE  LedgerOK'
<1> USE DEF TypeInv
<1>1. CASE ListPending(w)
  <2>1. batch' \in [Workers -> SUBSET (Runs \X Intents)]
    BY <1>1 DEF ListPending, LedgerOK
  <2> QED
    BY <1>1, <2>1 DEF ListPending, LedgerOK, dbVars
<1>2. CASE PickIntent(w)
  <2>1. PICK x \in batch[w] : batch' = [batch EXCEPT ![w] = batch[w] \ {x}]
    BY <1>2 DEF PickIntent
  <2>2. batch' \in [Workers -> SUBSET (Runs \X Intents)]
    BY <2>1 DEF LedgerOK
  <2> QED
    BY <1>2, <2>2 DEF PickIntent, LedgerOK, dbVars
<1>3. CASE AcknowledgeSimpleLoopDispatch(w) \/ AcknowledgeStaleDispatch(w)
  <2> DEFINE new == [intents EXCEPT ![session[w].run][session[w].intent] = "dispatched"]
  <2>1. /\ session[w].run \in Runs
        /\ intents \in [Runs -> [Intents -> {"none", "pending", "dispatched"}]]
    BY <1>3, SessionTypes DEF AcknowledgeSimpleLoopDispatch, AcknowledgeStaleDispatch, At, LedgerOK
  <2>2. new \in [Runs -> [Intents -> {"none", "pending", "dispatched"}]]
    BY <2>1
  <2>3. intents' = new \/ intents' = intents
    BY <1>3 DEF AcknowledgeSimpleLoopDispatch, AcknowledgeStaleDispatch
  <2> HIDE DEF new
  <2>4. intents' \in [Runs -> [Intents -> {"none", "pending", "dispatched"}]]
    BY <2>1, <2>2, <2>3
  <2> QED
    BY <1>3, <2>4 DEF AcknowledgeSimpleLoopDispatch, AcknowledgeStaleDispatch, LedgerOK
<1> QED
  BY <1>1, <1>2, <1>3

LEMMA SendStep ==
    ASSUME TypeInv, NEW w \in Workers,
           \/ ReserveSimulatedSend(w) \/ ExecuteApprovedSend(w) \/ CompleteSimulatedSend(w)
           \/ ResolveSimpleLoopWait(w)
    PROVE  LedgerOK'
<1> USE DEF TypeInv
<1> DEFINE r == session[w].run
           c == session[w].wait.call
<1>1. r \in Runs
  BY SessionTypes DEF ReserveSimulatedSend, ExecuteApprovedSend, CompleteSimulatedSend,
                      ResolveSimpleLoopWait, At
<1>2. CASE ReserveSimulatedSend(w) \/ CompleteSimulatedSend(w)
  <2>1. sends' = [sends EXCEPT ![r][c] = "reserved"] \/ sends' = [sends EXCEPT ![r][c] = "sent"]
    BY <1>2 DEF ReserveSimulatedSend, CompleteSimulatedSend
  <2> HIDE DEF r, c
  <2>2. sends' \in [Runs -> [Calls -> {"none", "reserved", "sent"}]]
    <3>1. sends \in [Runs -> [Calls -> {"none", "reserved", "sent"}]]
      BY DEF LedgerOK
    <3>2. "reserved" \in {"none", "reserved", "sent"} /\ "sent" \in {"none", "reserved", "sent"}
      OBVIOUS
    <3> QED
      BY <3>1, <3>2, <2>1, CellType
  <2> QED
    BY <1>2, <2>2 DEF ReserveSimulatedSend, CompleteSimulatedSend, LedgerOK
<1>3. CASE ExecuteApprovedSend(w)
  <2>1. emails' = [emails EXCEPT ![r][c] = emails[r][c] + 1]
    BY <1>3 DEF ExecuteApprovedSend
  <2> HIDE DEF r, c
  <2>2. emails \in [Runs -> [Calls -> Nat]] /\ c \in Calls => emails[r][c] + 1 \in Nat
    BY <1>1 DEF LedgerOK
  <2>3. emails \in [Runs -> [Calls -> Nat]]
    BY DEF LedgerOK
  <2>4. emails' \in [Runs -> [Calls -> Nat]]
    BY <1>1, <2>1, <2>2, <2>3, CellUpdate
  <2> QED
    BY <1>3, <2>4 DEF ExecuteApprovedSend, LedgerOK, dbVars
<1>4. CASE ResolveSimpleLoopWait(w)
  <2> DEFINE outcome == IF approvals[r][c] = "rejected" THEN "rejected" ELSE "completed"
  <2>1. /\ toolCalls' = [toolCalls EXCEPT ![r][c] = outcome] /\ outcome \in CallStatuses
        /\ results' = [results EXCEPT ![r][c] = results[r][c] + 1]
    BY <1>4 DEF ResolveSimpleLoopWait, CallStatuses
  <2> HIDE DEF r, c, outcome
  <2>2. c \in Calls => results[r][c] + 1 \in Nat
    BY <1>1 DEF LedgerOK
  <2>3. results \in [Runs -> [Calls -> Nat]] /\ toolCalls \in [Runs -> [Calls -> CallStatuses]]
    BY DEF LedgerOK
  <2>4. results' \in [Runs -> [Calls -> Nat]]
    BY <1>1, <2>1, <2>2, <2>3, CellUpdate
  <2>5. toolCalls' \in [Runs -> [Calls -> CallStatuses]]
    BY <1>1, <2>1, <2>3, CellUpdate
  <2> QED
    BY <1>4, <2>4, <2>5 DEF ResolveSimpleLoopWait, LedgerOK
<1> QED
  BY <1>2, <1>3, <1>4

LEMMA CallStep ==
    ASSUME TypeInv, NEW w \in Workers,
           \/ \E outcome \in {"completed", "failed"} : PersistToolOutcome(w, outcome)
           \/ \E outcome \in {"failed", "rejected"} : PersistMappedToolFailure(w, outcome)
           \/ PersistReportWait(w) \/ PersistApprovalWait(w)
    PROVE  LedgerOK'
<1> USE DEF TypeInv
<1> DEFINE r == session[w].run
           c == run[r].consumedSteps
<1>1. r \in Runs /\ toolCalls \in [Runs -> [Calls -> CallStatuses]]
  BY SessionTypes DEF PersistToolOutcome, PersistMappedToolFailure, PersistReportWait,
                      PersistApprovalWait, At, LedgerOK
<1>2. PICK status \in CallStatuses : toolCalls' = [toolCalls EXCEPT ![r][c] = status]
  BY DEF PersistToolOutcome, PersistMappedToolFailure, PersistReportWait, PersistApprovalWait,
         CallStatuses
<1>3. \/ approvals' = approvals
      \/ approvals' = [approvals EXCEPT ![r][c] = "pending"]
  BY DEF PersistToolOutcome, PersistMappedToolFailure, PersistReportWait, PersistApprovalWait
<1> HIDE DEF r, c
<1>4. toolCalls' \in [Runs -> [Calls -> CallStatuses]]
  BY <1>1, <1>2, CellType
<1>5. approvals' \in [Runs -> [Calls -> ApprovalStatuses]]
  <2>1. approvals \in [Runs -> [Calls -> ApprovalStatuses]] /\ "pending" \in ApprovalStatuses
    BY DEF LedgerOK, ApprovalStatuses
  <2>2. CASE approvals' = approvals
    BY <2>1, <2>2
  <2>3. CASE approvals' = [approvals EXCEPT ![r][c] = "pending"]
    BY <2>1, <2>3, CellType
  <2> QED
    BY <1>3, <2>2, <2>3
<1> QED
  BY <1>4, <1>5 DEF PersistToolOutcome, PersistMappedToolFailure, PersistReportWait,
                    PersistApprovalWait, LedgerOK

LEMMA AdminLedger ==
    ASSUME TypeInv, NEW r \in Runs, AdminStep(r) \/ \E c \in Calls : ApprovalDeadline(r, c)
    PROVE  LedgerOK'
<1> USE DEF TypeInv
<1>1. PICK c \in Calls :
        \/ \E decision \in {"approved", "rejected"} : DecideApproval(r, c, decision)
        \/ ExpireOnDecide(r, c)
        \/ ApprovalDeadline(r, c)
  BY DEF AdminStep
<1>2. CASE \E decision \in {"approved", "rejected"} : DecideApproval(r, c, decision)
  <2>1. PICK decision \in {"approved", "rejected"} : DecideApproval(r, c, decision)
    BY <1>2
  <2>2. c \in Intents
    BY DEF Calls, Intents
  <2>3. PICK status \in CallStatuses : toolCalls' = [toolCalls EXCEPT ![r][c] = status]
    BY <2>1 DEF DecideApproval, CallStatuses
  <2>4. toolCalls' \in [Runs -> [Calls -> CallStatuses]]
    <3>1. toolCalls \in [Runs -> [Calls -> CallStatuses]]
      BY DEF LedgerOK
    <3> QED
      BY <2>3, <3>1, CellType
  <2>5. approvals' \in [Runs -> [Calls -> ApprovalStatuses]]
    <3>1. /\ approvals \in [Runs -> [Calls -> ApprovalStatuses]] /\ decision \in ApprovalStatuses
          /\ approvals' = [approvals EXCEPT ![r][c] = decision]
      BY <2>1 DEF DecideApproval, LedgerOK, ApprovalStatuses
    <3> QED
      BY <3>1, CellType
  <2>6. intents' \in [Runs -> [Intents -> {"none", "pending", "dispatched"}]]
    BY <2>1, <2>2, CellUpdate DEF DecideApproval, LedgerOK
  <2> QED
    BY <2>1, <2>4, <2>5, <2>6 DEF DecideApproval, LedgerOK
<1>3. CASE ExpireOnDecide(r, c)
  <2>1. approvals' \in [Runs -> [Calls -> ApprovalStatuses]]
    BY <1>3, CellUpdate DEF ExpireOnDecide, LedgerOK, ApprovalStatuses
  <2> QED
    BY <1>3, <2>1 DEF ExpireOnDecide, LedgerOK
<1>4. CASE ApprovalDeadline(r, c)
  BY <1>4 DEF ApprovalDeadline, LedgerOK, dbVars
<1> QED
  BY <1>1, <1>2, <1>3, <1>4

LEMMA ReportLedger ==
    ASSUME TypeInv, NEW r \in Runs, ReportStep(r)
    PROVE  LedgerOK'
<1> USE DEF TypeInv
<1>1. CASE RecordReportProgress(r)
  BY <1>1 DEF RecordReportProgress, LedgerOK
<1>2. CASE CompleteReportJob(r)
  <2> DEFINE c == job[r].call
             status == IF toolCalls[r][c] = "waiting_job" THEN "completed" ELSE toolCalls[r][c]
  <2>1. /\ c \in Intents
        /\ toolCalls \in [Runs -> [Calls -> CallStatuses]]
        /\ intents \in [Runs -> [Intents -> {"none", "pending", "dispatched"}]]
    BY <1>2 DEF JobOK, JobRows, LedgerOK
  <2>2. c \in Calls => status \in CallStatuses
    BY <2>1 DEF CallStatuses
  <2>3. /\ toolCalls' = toolCalls \/ toolCalls' = [toolCalls EXCEPT ![r][c] = status]
        /\ intents' = intents \/ intents' = [intents EXCEPT ![r][c] = "pending"]
    BY <1>2 DEF CompleteReportJob
  <2> HIDE DEF c, status
  <2>4. toolCalls' \in [Runs -> [Calls -> CallStatuses]]
    <3>1. CASE toolCalls' = toolCalls
      BY <2>1, <3>1
    <3>2. CASE toolCalls' = [toolCalls EXCEPT ![r][c] = status]
      <4>1. CASE c \in Calls
        BY <2>1, <2>2, <3>2, <4>1, CellType
      <4>2. CASE c \notin Calls
        BY <2>1, <3>2, <4>2, CellMissing
      <4> QED
        BY <4>1, <4>2
    <3> QED
      BY <2>3, <3>1, <3>2
  <2>5. intents' \in [Runs -> [Intents -> {"none", "pending", "dispatched"}]]
    <3>1. CASE intents' = intents
      BY <2>1, <3>1
    <3>2. CASE intents' = [intents EXCEPT ![r][c] = "pending"]
      <4>1. "pending" \in {"none", "pending", "dispatched"}
        OBVIOUS
      <4> QED
        BY <2>1, <3>2, <4>1, CellType
    <3> QED
      BY <2>3, <3>1, <3>2
  <2> QED
    BY <1>2, <2>4, <2>5 DEF CompleteReportJob, LedgerOK
<1> QED
  BY <1>1, <1>2 DEF ReportStep

LEMMA FaultLedger ==
    ASSUME TypeInv,
           \/ \E w \in Workers : FailBeforeStep(w) \/ EnqueueFails(w) \/ Crash(w)
           \/ \E r \in Runs : LeaseOutrun(r)
    PROVE  LedgerOK'
<1>1. faults' \in 0..MaxFaults
  <2>1. faults < MaxFaults /\ faults' = faults + 1
    BY DEF FailBeforeStep, EnqueueFails, Crash, LeaseOutrun, Fault
  <2> QED
    BY <2>1, ConstantFacts DEF TypeInv, LedgerOK
<1>2. batch' \in [Workers -> SUBSET (Runs \X Intents)]
  BY DEF FailBeforeStep, EnqueueFails, Crash, LeaseOutrun, TypeInv, LedgerOK
<1> QED
  BY <1>1, <1>2 DEF FailBeforeStep, EnqueueFails, Crash, LeaseOutrun, TypeInv, LedgerOK, dbVars

LEMMA LedgerStep ==
    ASSUME TypeInv, Next
    PROVE  LedgerOK'
<1>1. CASE UNCHANGED <<toolCalls, approvals, overdue, sends, emails, results, intents,
                       batch, faults>>
  BY <1>1 DEF TypeInv, LedgerOK
<1>2. ASSUME NEW w \in Workers, Resumption(w)
      PROVE  LedgerOK'
  BY <1>1, <1>2, SendStep DEF Resumption, ReadRun, CheckWait, ReadAssignment, ClaimRunLease,
     ClaimRefused, RestoreSession, ResolveDeferredCall, ReserveRefused, dbVars
<1>3. ASSUME NEW w \in Workers, AgentLoop(w)
      PROVE  LedgerOK'
  BY <1>1, <1>3, CallStep DEF AgentLoop, ConsumeSimpleLoopStep, BudgetExhausted,
     PersistSimpleLoopSkill, SkillRefused, EndGeneration, FailAgent, ReportRefused,
     EnqueueReport, MarkReportDispatched, CompleteSimpleLoopRun, AbandonStale, dbVars
<1>4. ASSUME NEW w \in Workers, WorkerStep(w) \/ FailBeforeStep(w) \/ EnqueueFails(w) \/ Crash(w)
      PROVE  LedgerOK'
  BY <1>2, <1>3, <1>4, ListingStep, FaultLedger DEF WorkerStep
<1>5. ASSUME NEW r \in Runs, LeaseLapses(r) \/ ReportAttemptFails(r)
      PROVE  LedgerOK'
  BY <1>1, <1>5 DEF LeaseLapses, ReportAttemptFails
<1> QED
  BY <1>4, <1>5, AdminLedger, ReportLedger, FaultLedger DEF Next

LEMMA TypeStep == TypeInv /\ [Next]_vars => TypeInv'
<1> SUFFICES ASSUME TypeInv, [Next]_vars
             PROVE  TypeInv'
  OBVIOUS
<1>1. CASE Next
  BY <1>1, StepMove, MoveTypes, JobStep, LedgerStep DEF TypeInv
<1>2. CASE UNCHANGED vars
  BY <1>2 DEF vars, TypeInv, RunOK, SessionOK, JobOK, LedgerOK, StepPaid
<1> QED
  BY <1>1, <1>2

LEMMA TypeInvariance == Spec => []TypeInv
<1> QED
  BY TypeInit, TypeStep, PTL DEF Spec

\* Every variable keeps its type in every run of every instance: the rows hold
\* statuses of the contracts, the budget is never overdrawn, and a session that
\* is at work names a run.
THEOREM TypeCorrect == Spec => []TypeOK
  BY TypeInvariance, TypeInvTypeOK, PTL

(*****************************************************************************)
(* One writer.  The version a session insists on is never ahead of the row's, *)
(* and as long as it is the row's, the row still says that the session holds *)
(* the lease: every write moves the version, so every other session falls    *)
(* behind.                                                                   *)
(*****************************************************************************)

LeaseInv ==
    \A w \in Workers : session[w].pc \in Leased =>
        /\ session[w].version <= run[session[w].run].version
        /\ session[w].version = run[session[w].run].version =>
            /\ run[session[w].run].leaseOwner = w
            /\ run[session[w].run].fencingVersion = session[w].fencing

LEMMA LeasedTypes ==
    ASSUME TypeInv
    PROVE  /\ \A w \in Workers : session[w].pc \in Leased =>
                session[w].run \in Runs /\ session[w].version \in Nat
           /\ \A r \in Runs : run[r].version \in Nat /\ run[r].consumedSteps \in Nat
<1>1. ASSUME NEW w \in Workers, session[w].pc \in Leased
      PROVE  session[w].run \in Runs /\ session[w].version \in Nat
  BY <1>1, SessionTypes DEF Leased
<1>2. ASSUME NEW r \in Runs
      PROVE  run[r].version \in Nat /\ run[r].consumedSteps \in Nat
  BY <1>2, RowTypes DEF TypeInv, RunOK
<1> QED
  BY <1>1, <1>2

LEMMA LeaseStep ==
    ASSUME TypeInv, LeaseInv, Move
    PROVE  LeaseInv'
<1>1. ASSUME NEW w \in Workers, SoftMove(w)
      PROVE  LeaseInv'
  BY <1>1 DEF SoftMove, OnlySession, LeaseInv
<1>2. ASSUME NEW w \in Workers, ClaimMove(w)
      PROVE  LeaseInv'
  BY <1>2, LeasedTypes DEF ClaimMove, OnlySession, OnlyRun, LeaseInv
<1>3. ASSUME NEW w \in Workers, WriteMove(w)
      PROVE  LeaseInv'
  <2> SUFFICES ASSUME NEW u \in Workers, session'[u].pc \in Leased
               PROVE  /\ session'[u].version <= run'[session'[u].run].version
                      /\ session'[u].version = run'[session'[u].run].version =>
                            /\ run'[session'[u].run].leaseOwner = u
                            /\ run'[session'[u].run].fencingVersion = session'[u].fencing
    BY DEF LeaseInv
  <2> DEFINE r == session[w].run
  <2>1. /\ OnlySession(w) /\ OnlyRun(r) /\ r \in Runs
        /\ run'[r].version = run[r].version + 1
        /\ run'[r].fencingVersion = run[r].fencingVersion
        /\ run[r].version = session[w].version /\ run[r].leaseOwner = w
        /\ run[r].fencingVersion = session[w].fencing
    BY <1>3 DEF WriteMove, LeaseHeld
  <2>2. CASE u = w
    <3>1. /\ session'[w].run = r /\ run'[r].leaseOwner = run[r].leaseOwner
          /\ session'[w].version = session[w].version + 1
          /\ session'[w].fencing = session[w].fencing
      BY <1>3, <2>2 DEF WriteMove
    <3>2. run'[r].version \in Nat
      BY <2>1, LeasedTypes
    <3> QED
      BY <2>1, <2>2, <3>1, <3>2
  <2>3. CASE u # w
    <3>1. session'[u] = session[u]
      BY <2>1, <2>3 DEF OnlySession
    <3>2. /\ session[u].version <= run[session[u].run].version
          /\ session[u].version = run[session[u].run].version =>
                /\ run[session[u].run].leaseOwner = u
                /\ run[session[u].run].fencingVersion = session[u].fencing
          /\ session[u].run \in Runs /\ session[u].version \in Nat
          /\ run[session[u].run].version \in Nat
      BY <3>1, LeasedTypes DEF LeaseInv
    <3>3. CASE session[u].run = r
      BY <2>1, <3>1, <3>2, <3>3
    <3>4. CASE session[u].run # r
      BY <2>1, <3>1, <3>2, <3>4 DEF OnlyRun
    <3> QED
      BY <3>3, <3>4
  <2> QED
    BY <2>2, <2>3
<1>4. ASSUME NEW r \in Runs, LapseMove(r)
      PROVE  LeaseInv'
  BY <1>4, LeasedTypes DEF LapseMove, OnlyRun, LeaseInv
<1>5. CASE UNCHANGED <<run, session>>
  BY <1>5 DEF LeaseInv
<1> QED
  BY <1>1, <1>2, <1>3, <1>4, <1>5 DEF Move

(*****************************************************************************)
(* The status a current session meets.  Only the session itself can change   *)
(* the row while it is current, so the place it has reached in the program   *)
(* says what the row's status may be.                                        *)
(*****************************************************************************)

RowInv ==
    \A r \in Runs :
        /\ run[r].status = "queued" => run[r].consumedSteps = 0
        /\ run[r].status \in Waiting => run[r].wait # NoWait
        /\ run[r].status \in {"queued", "running"} => run[r].wait = NoWait

Meets(w) ==
    LET status == run[session[w].run].status IN
    /\ session[w].pc = "restore" => status \notin Terminal
    /\ session[w].pc \in {"resolve", "reserve", "send", "sent", "settle"} => status \in Waiting
    /\ session[w].pc = "prompt" => status \in {"queued", "running"}
    /\ session[w].pc = "model" => status = "running"
    /\ session[w].pc = "finish" =>
        \/ status = "running"
        \/ status = "queued" /\ session[w].verdict = "failed" /\ faults > 0

StatusInv == RowInv /\ \A w \in Workers : IsCurrent(w) => Meets(w)

LEMMA StatusTypes ==
    ASSUME TypeInv, NEW r \in Runs
    PROVE  run[r].status \in {"queued", "running"} \cup Waiting \cup Terminal
  BY RowTypes DEF TypeInv, RunOK, Statuses

\* A row another session has just written is nobody else's.
LEMMA OthersFallBehind ==
    ASSUME TypeInv, LeaseInv, NEW w \in Workers, ClaimMove(w) \/ WriteMove(w),
           NEW u \in Workers, u # w, IsCurrent(u)'
    PROVE  /\ session'[u] = session[u] /\ IsCurrent(u)
           /\ run'[session[u].run] = run[session[u].run]
<1>1. /\ OnlySession(w) /\ OnlyRun(session[w].run) /\ session[w].run \in Runs
      /\ run'[session[w].run].version = run[session[w].run].version + 1
  BY DEF ClaimMove, WriteMove
<1>2. session'[u] = session[u]
  BY <1>1 DEF OnlySession
<1>3. /\ session[u].pc \in Leased /\ session[u].version = run'[session[u].run].version
      /\ session[u].run \in Runs /\ run[session[u].run].version \in Nat
      /\ session[u].version <= run[session[u].run].version
  BY <1>2, LeasedTypes DEF IsCurrent, LeaseInv
<1>4. session[u].run # session[w].run
  BY <1>1, <1>3, LeasedTypes
<1> QED
  BY <1>1, <1>2, <1>3, <1>4 DEF OnlyRun, IsCurrent

LEMMA FaultsStay ==
    ASSUME TypeInv, Next, faults > 0
    PROVE  faults' > 0
<1>1. CASE faults' = faults
  BY <1>1
<1>2. CASE Fault
  BY <1>2 DEF Fault, TypeInv, LedgerOK
<1>3. ASSUME NEW w \in Workers, Resumption(w)
      PROVE  faults' = faults
  BY <1>3 DEF Resumption, ReadRun, CheckWait, ReadAssignment, ClaimRunLease, ClaimRefused,
     RestoreSession, ResolveDeferredCall, ReserveSimulatedSend, ReserveRefused,
     ExecuteApprovedSend, CompleteSimulatedSend, ResolveSimpleLoopWait
<1>4. ASSUME NEW w \in Workers, AgentLoop(w)
      PROVE  faults' = faults
  BY <1>4 DEF AgentLoop, ConsumeSimpleLoopStep, BudgetExhausted, PersistSimpleLoopSkill,
     SkillRefused, PersistToolOutcome, PersistMappedToolFailure, EndGeneration, FailAgent,
     PersistReportWait, ReportRefused, EnqueueReport, MarkReportDispatched,
     PersistApprovalWait, CompleteSimpleLoopRun, AbandonStale
<1>5. ASSUME NEW w \in Workers, WorkerStep(w)
      PROVE  faults' = faults
  BY <1>3, <1>4, <1>5 DEF WorkerStep, ListPending, PickIntent, AcknowledgeSimpleLoopDispatch,
     AcknowledgeStaleDispatch
<1>6. ASSUME NEW w \in Workers, FailBeforeStep(w) \/ EnqueueFails(w) \/ Crash(w)
      PROVE  Fault
  BY <1>6 DEF FailBeforeStep, EnqueueFails, Crash
<1>7. ASSUME NEW r \in Runs,
             \/ ReportStep(r) \/ AdminStep(r) \/ ReportAttemptFails(r) \/ LeaseLapses(r)
             \/ \E c \in Calls : ApprovalDeadline(r, c)
      PROVE  faults' = faults
  BY <1>7 DEF ReportStep, RecordReportProgress, CompleteReportJob, AdminStep, DecideApproval,
     ExpireOnDecide, ReportAttemptFails, LeaseLapses, ApprovalDeadline
<1>8. ASSUME NEW r \in Runs, LeaseOutrun(r)
      PROVE  Fault
  BY <1>8 DEF LeaseOutrun
<1> QED
  BY <1>1, <1>2, <1>5, <1>6, <1>7, <1>8 DEF Next

LEMMA StatusStep ==
    ASSUME TypeInv, LeaseInv, StatusInv, Move, faults > 0 => faults' > 0
    PROVE  StatusInv'
<1>1. ASSUME NEW w \in Workers, SoftMove(w)
      PROVE  StatusInv'
  <2> SUFFICES ASSUME NEW u \in Workers, IsCurrent(u)'
               PROVE  Meets(u)'
    BY <1>1 DEF StatusInv, RowInv, SoftMove
  <2>1. CASE u # w
    BY <1>1, <2>1 DEF SoftMove, OnlySession, StatusInv, IsCurrent, Meets
  <2>2. CASE u = w
    <3> DEFINE s == session[w]
               t == session'[w]
               status == run[s.run].status
    <3>1. /\ t.pc \in Leased /\ s.pc \in Leased /\ t.run = s.run /\ run' = run
          /\ t.version = s.version
      BY <1>1, <2>2 DEF SoftMove, IsCurrent
    <3>2. Meets(w) /\ s.run \in Runs
      BY <2>2, <3>1, LeasedTypes DEF IsCurrent, StatusInv
    <3>3. /\ status \in {"queued", "running"} \cup Waiting \cup Terminal
          /\ status = "queued" => run[s.run].consumedSteps = 0
          /\ status \in Waiting => run[s.run].wait # NoWait
          /\ status \in {"queued", "running"} => run[s.run].wait = NoWait
      BY <3>2, StatusTypes DEF StatusInv, RowInv
    <3>4. /\ t.pc = "prompt" => status \in {"queued", "running"}
          /\ t.pc \in {"resolve", "reserve", "send", "sent", "settle"} => status \in Waiting
          /\ t.pc = "finish" => \/ status = "running"
                                \/ /\ status = "queued" /\ t.verdict = "failed"
                                   /\ FailBeforeStep(w)
          /\ t.pc # "restore" /\ t.pc # "model"
      BY <1>1, <3>1, <3>2, <3>3, ConstantFacts DEF SoftMove, Meets
    <3>5. FailBeforeStep(w) => faults' > 0
      BY DEF FailBeforeStep, Fault, TypeInv, LedgerOK
    <3> QED
      BY <2>2, <3>1, <3>4, <3>5 DEF Meets
  <2> QED
    BY <2>1, <2>2
<1>2. ASSUME NEW w \in Workers, ClaimMove(w)
      PROVE  StatusInv'
  <2>1. RowInv'
    BY <1>2 DEF ClaimMove, OnlyRun, StatusInv, RowInv
  <2>2. ASSUME NEW u \in Workers, IsCurrent(u)'
        PROVE  Meets(u)'
    <3>1. CASE u # w
      BY <1>2, <2>2, <3>1, OthersFallBehind DEF StatusInv, Meets
    <3>2. CASE u = w
      BY <1>2, <3>2 DEF ClaimMove, Meets
    <3> QED
      BY <3>1, <3>2
  <2> QED
    BY <2>1, <2>2 DEF StatusInv
<1>3. ASSUME NEW w \in Workers, WriteMove(w)
      PROVE  StatusInv'
  <2>1. /\ session[w].run \in Runs /\ Meets(w)
        /\ session[w].pc \in Leased
        /\ OnlySession(w) /\ OnlyRun(session[w].run)
    BY <1>3 DEF WriteMove, LeaseHeld, IsCurrent, StatusInv
  <2>2. /\ run[session[w].run].status = "queued" => run[session[w].run].consumedSteps = 0
        /\ run[session[w].run].status \in Waiting => run[session[w].run].wait # NoWait
        /\ run[session[w].run].status \in {"queued", "running"} => run[session[w].run].wait = NoWait
    BY <2>1 DEF StatusInv, RowInv
  <2>3. /\ run'[session[w].run].status = "queued" => run'[session[w].run].consumedSteps = 0
        /\ run'[session[w].run].status \in Waiting => run'[session[w].run].wait # NoWait
        /\ run'[session[w].run].status \in {"queued", "running"} =>
              run'[session[w].run].wait = NoWait
    BY <1>3, <2>1, <2>2 DEF WriteMove, Meets, Waiting, Terminal
  <2>4. RowInv'
    BY <2>1, <2>3 DEF OnlyRun, StatusInv, RowInv
  <2>5. ASSUME NEW u \in Workers, IsCurrent(u)'
        PROVE  Meets(u)'
    <3>1. CASE u # w
      BY <1>3, <2>5, <3>1, OthersFallBehind DEF StatusInv, Meets
    <3>2. CASE u = w
      BY <1>3, <2>1, <2>5, <3>2 DEF WriteMove, Meets, IsCurrent, Leased
    <3> QED
      BY <3>1, <3>2
  <2> QED
    BY <2>4, <2>5 DEF StatusInv
<1>4. ASSUME NEW r \in Runs, LapseMove(r)
      PROVE  StatusInv'
  <2>1. \A q \in Runs : /\ run'[q].status = run[q].status /\ run'[q].version = run[q].version
                        /\ run'[q].wait = run[q].wait
                        /\ run'[q].consumedSteps = run[q].consumedSteps
    BY <1>4 DEF LapseMove, OnlyRun
  <2>2. \A w \in Workers : session[w].pc \in Leased => session[w].run \in Runs
    BY LeasedTypes
  <2>3. session' = session
    BY <1>4 DEF LapseMove
  <2> QED
    BY <2>1, <2>2, <2>3 DEF StatusInv, RowInv, IsCurrent, Meets
<1>5. CASE UNCHANGED <<run, session>>
  BY <1>5 DEF StatusInv, RowInv, IsCurrent, Meets
<1> QED
  BY <1>1, <1>2, <1>3, <1>4, <1>5 DEF Move

(*****************************************************************************)

ControlInv == TypeInv /\ LeaseInv /\ StatusInv

LEMMA ControlInit == Init => ControlInv
<1> SUFFICES ASSUME Init
             PROVE  ControlInv
  OBVIOUS
<1>1. \A w \in Workers : session[w].pc \notin Leased
  BY IdleFacts DEF Init, Leased
<1>2. \A r \in Runs : /\ run[r].status = "queued" /\ run[r].consumedSteps = 0
                      /\ run[r].wait = NoWait
  BY DEF Init
<1> QED
  BY <1>1, <1>2, TypeInit DEF ControlInv, LeaseInv, StatusInv, RowInv, IsCurrent, Waiting

LEMMA ControlStep == ControlInv /\ [Next]_vars => ControlInv'
<1> SUFFICES ASSUME ControlInv, [Next]_vars
             PROVE  ControlInv'
  OBVIOUS
<1>1. CASE Next
  BY <1>1, StepMove, TypeStep, LeaseStep, StatusStep, FaultsStay DEF ControlInv
<1>2. CASE UNCHANGED vars
  BY <1>2, TypeStep DEF vars, ControlInv, LeaseInv, StatusInv, RowInv, IsCurrent, Meets
<1> QED
  BY <1>1, <1>2

LEMMA ControlInvariance == Spec => []ControlInv
  BY ControlInit, ControlStep, PTL DEF Spec

LEMMA ControlSingleWriter == ControlInv => SingleWriter
  BY DEF ControlInv, LeaseInv, SingleWriter, IsCurrent

\* For any number of runs and workers, whatever crashes and however leases run
\* out: only one session at a time can write a run, and it is the one with the
\* lease and the newest fencing version.
THEOREM OneWriter == Spec => []SingleWriter
  BY ControlInvariance, ControlSingleWriter, PTL

LEMMA StatusChange ==
    ASSUME ControlInv, Next, NEW r \in Runs, run'[r].status # run[r].status
    PROVE  /\ <<run[r].status, run'[r].status>> \in RunTransitions
           /\ run'[r].status \in Terminal =>
                \/ run[r].status = "running"
                \/ /\ run[r].status = "queued"
                   /\ run'[r].status = "failed"
                   /\ faults > 0
<1>1. PICK w \in Workers : WriteMove(w) /\ session[w].run = r
  BY StepMove DEF ControlInv, Move, SoftMove, ClaimMove, WriteMove, LapseMove, OnlyRun
<1>2. Meets(w)
  BY <1>1 DEF ControlInv, StatusInv, WriteMove, LeaseHeld, IsCurrent
<1> QED
  BY <1>1, <1>2 DEF WriteMove, Meets, RunTransitions, Waiting, Terminal

\* In every step of every instance a run ends out of "running", as
\* completeSimpleLoopRun announces it, or it fails out of the queue after a call has
\* failed, when the announcement is wrong: it never ends out of a wait, whoever
\* crashes and however stale the session that ends it.
THEOREM Announced == Spec => EndsAnnounced
<1>1. ControlInv /\ [Next]_vars =>
        [\A r \in Runs :
            run[r].status \notin Terminal /\ run'[r].status \in Terminal =>
                \/ run[r].status = "running"
                \/ /\ run[r].status = "queued"
                   /\ run'[r].status = "failed"
                   /\ faults > 0]_vars
  BY StatusChange DEF vars
<1> QED
  BY <1>1, ControlInvariance, PTL DEF Spec, EndsAnnounced

\* Runs move along the table of the contracts, in every step of every instance,
\* though almost no handler consults it.
THEOREM LegalRuns == Spec => LegalRunTransitions
<1>1. ControlInv /\ [Next]_vars =>
        [\A r \in Runs :
            run'[r].status # run[r].status =>
                <<run[r].status, run'[r].status>> \in RunTransitions]_vars
  BY StatusChange DEF vars
<1> QED
  BY <1>1, ControlInvariance, PTL DEF Spec, LegalRunTransitions

(*****************************************************************************)
(* One email.  The reservation is not covered by the lease, so the argument  *)
(* is another one: whoever stands before executeApprovedSend has made the    *)
(* call's only reservation, and nobody has sent yet.                         *)
(*****************************************************************************)

DeferredInv ==
    \A w \in Workers :
        session[w].pc \in {"resolve", "reserve", "send", "sent", "settle"} =>
            session[w].wait.call \in Calls

LEMMA CallOfWait == \A wait \in Waits : wait # NoWait => wait.call \in Calls
  BY DEF Waits, NoWait

LEMMA DeferredStep ==
    ASSUME TypeInv, DeferredInv, Move
    PROVE  DeferredInv'
<1>1. ASSUME NEW w \in Workers, SoftMove(w)
      PROVE  DeferredInv'
  <2>1. CASE session'[w].pc \in {"resolve", "reserve", "send", "sent", "settle"}
    <3>1. /\ session[w].pc \in Leased
          /\ \/ /\ session[w].pc = "restore" /\ session'[w].wait = run[session[w].run].wait
                /\ run[session[w].run].wait # NoWait
             \/ /\ session[w].pc \in {"resolve", "reserve", "send", "sent"}
                /\ session'[w].wait = session[w].wait
      BY <1>1, <2>1 DEF SoftMove, Leased
    <3>2. run[session[w].run].wait \in Waits
      BY <3>1, LeasedTypes, RowTypes DEF TypeInv, RunOK
    <3>3. session'[w].wait.call \in Calls
      BY <3>1, <3>2, CallOfWait DEF DeferredInv
    <3> QED
      BY <1>1, <3>3 DEF SoftMove, OnlySession, DeferredInv
  <2>2. CASE session'[w].pc \notin {"resolve", "reserve", "send", "sent", "settle"}
    BY <1>1, <2>2 DEF SoftMove, OnlySession, DeferredInv
  <2> QED
    BY <2>1, <2>2
<1>2. ASSUME NEW w \in Workers, ClaimMove(w) \/ WriteMove(w)
      PROVE  DeferredInv'
  <2>1. OnlySession(w) /\ session'[w].pc \notin {"resolve", "reserve", "send", "sent", "settle"}
    BY <1>2 DEF ClaimMove, WriteMove
  <2> QED
    BY <2>1 DEF OnlySession, DeferredInv
<1>3. CASE UNCHANGED session
  BY <1>3 DEF DeferredInv
<1> QED
  BY <1>1, <1>2, <1>3 DEF Move, LapseMove

Cell(w) == <<session[w].run, session[w].wait.call>>

SentOnce ==
    \A r \in Runs, c \in Calls :
        \/ emails[r][c] = 0
        \/ emails[r][c] = 1 /\ sends[r][c] # "none" /\ approvals[r][c] = "approved"

AboutToSend ==
    \A w \in Workers : session[w].pc = "send" =>
        /\ sends[session[w].run][session[w].wait.call] # "none"
        /\ emails[session[w].run][session[w].wait.call] = 0
        /\ approvals[session[w].run][session[w].wait.call] = "approved"
        /\ \A u \in Workers \ {w} : session[u].pc = "send" => Cell(u) # Cell(w)

AskedOfCalls ==
    \A r \in Runs, c \in Calls : approvals[r][c] # "none" => toolCalls[r][c] # "none"

EmailInv == TypeInv /\ DeferredInv /\ SentOnce /\ AboutToSend /\ AskedOfCalls

\* A step that reserves nothing brings nobody before executeApprovedSend.
LEMMA SendersOnly ==
    ASSUME TypeInv, DeferredInv, Move, sends' = sends
    PROVE  \A u \in Workers : session'[u].pc = "send" => session'[u] = session[u]
<1>1. ASSUME NEW w \in Workers, ReserveSimulatedSend(w)
      PROVE  FALSE
  <2> DEFINE r == session[w].run
             c == session[w].wait.call
  <2>1. /\ session[w].pc = "reserve" /\ sends[r][c] = "none"
        /\ sends' = [sends EXCEPT ![r][c] = "reserved"]
    BY <1>1 DEF ReserveSimulatedSend, MayReserve, At
  <2>2. r \in Runs /\ c \in Calls
    BY <2>1, SessionTypes DEF DeferredInv
  <2>3. sends \in [Runs -> [Calls -> {"none", "reserved", "sent"}]]
    BY DEF TypeInv, LedgerOK
  <2> HIDE DEF r, c
  <2> QED
    BY <2>1, <2>2, <2>3, "reserved" # "none"
<1>2. ASSUME NEW w \in Workers, SoftMove(w)
      PROVE  \A u \in Workers : session'[u].pc = "send" => session'[u] = session[u]
  BY <1>1, <1>2 DEF SoftMove, OnlySession, Leased
<1>3. ASSUME NEW w \in Workers, ClaimMove(w) \/ WriteMove(w)
      PROVE  \A u \in Workers : session'[u].pc = "send" => session'[u] = session[u]
  BY <1>3 DEF ClaimMove, WriteMove, OnlySession
<1> QED
  BY <1>2, <1>3 DEF Move, LapseMove

LEMMA KeptCells ==
    ASSUME NEW D, NEW E, NEW V, NEW f \in [D -> [E -> V]], NEW d \in D, NEW e, NEW v, NEW n,
           v # n \/ v = f[d][e], NEW g, g = [f EXCEPT ![d][e] = v]
    PROVE  \A x \in D, y \in E : f[x][y] # n => g[x][y] # n
  OBVIOUS

\* What a step does to the calls, the approvals and the sends.
CallsKept == \A r \in Runs, c \in Calls : toolCalls[r][c] # "none" => toolCalls'[r][c] # "none"

Calm == CallsKept /\ UNCHANGED <<approvals, sends, emails>>

Asked(r, c) ==
    /\ CallsKept
    /\ toolCalls'[r][c] # "none"
    /\ approvals[r][c] # "approved"
    /\ \E status \in ApprovalStatuses : approvals' = [approvals EXCEPT ![r][c] = status]
    /\ UNCHANGED <<sends, emails>>

Effect ==
    \/ Calm
    \/ \E r \in Runs, c \in Calls : Asked(r, c)
    \/ \E w \in Workers :
        ReserveSimulatedSend(w) \/ ExecuteApprovedSend(w) \/ CompleteSimulatedSend(w)

LEMMA CallWritten ==
    ASSUME TypeInv, NEW r \in Runs, NEW c, NEW status, status # "none",
           toolCalls' = [toolCalls EXCEPT ![r][c] = status]
    PROVE  CallsKept
<1>1. toolCalls \in [Runs -> [Calls -> CallStatuses]]
  BY DEF TypeInv, LedgerOK
<1> QED
  BY <1>1, KeptCells DEF CallsKept

LEMMA ModelEffect ==
    ASSUME EmailInv, NEW w \in Workers,
           \/ \E outcome \in {"completed", "failed"} : PersistToolOutcome(w, outcome)
           \/ \E outcome \in {"failed", "rejected"} : PersistMappedToolFailure(w, outcome)
           \/ PersistReportWait(w) \/ PersistApprovalWait(w)
    PROVE  Effect
<1> DEFINE r == session[w].run
           c == run[r].consumedSteps
<1>1. session[w].pc = "model"
  BY DEF PersistToolOutcome, PersistMappedToolFailure, PersistReportWait, PersistApprovalWait, At
<1>2. r \in Runs /\ c \in Calls
  BY <1>1, SessionTypes, CallOfModel DEF EmailInv
<1>3. PICK status \in CallStatuses :
        /\ toolCalls' = [toolCalls EXCEPT ![r][c] = status]
        /\ status # "none" /\ toolCalls[r][c] = "none"
  BY DEF PersistToolOutcome, PersistMappedToolFailure, PersistReportWait, PersistApprovalWait,
         CallStatuses
<1>4. \/ UNCHANGED <<approvals, sends, emails>>
      \/ /\ approvals' = [approvals EXCEPT ![r][c] = "pending"]
         /\ UNCHANGED <<sends, emails>>
  BY DEF PersistToolOutcome, PersistMappedToolFailure, PersistReportWait, PersistApprovalWait
<1>5. toolCalls \in [Runs -> [Calls -> CallStatuses]]
  BY DEF EmailInv, TypeInv, LedgerOK
<1>6. approvals[r][c] = "none"
  BY <1>2, <1>3 DEF EmailInv, AskedOfCalls
<1> HIDE DEF r, c
<1>7. CallsKept
  BY <1>2, <1>3, CallWritten DEF EmailInv
<1>8. toolCalls'[r][c] # "none"
  BY <1>2, <1>3, <1>5
<1> QED
  BY <1>2, <1>4, <1>6, <1>7, <1>8 DEF Effect, Calm, Asked, ApprovalStatuses

LEMMA ResumptionEffect ==
    ASSUME EmailInv, NEW w \in Workers, Resumption(w)
    PROVE  Effect
<1>1. CASE ResolveSimpleLoopWait(w)
  <2> DEFINE r == session[w].run
             c == session[w].wait.call
             outcome == IF approvals[r][c] = "rejected" THEN "rejected" ELSE "completed"
  <2>1. /\ session[w].pc = "settle" /\ outcome # "none"
        /\ toolCalls' = [toolCalls EXCEPT ![r][c] = outcome]
        /\ UNCHANGED <<approvals, sends, emails>>
    BY <1>1 DEF ResolveSimpleLoopWait, At
  <2>2. r \in Runs
    BY <2>1, SessionTypes DEF EmailInv
  <2> HIDE DEF r, c, outcome
  <2>3. CallsKept
    BY <2>1, <2>2, CallWritten DEF EmailInv
  <2> QED
    BY <2>1, <2>3 DEF Effect, Calm
<1>2. CASE ~ResolveSimpleLoopWait(w)
  BY <1>2 DEF Resumption, ReadRun, CheckWait, ReadAssignment, ClaimRunLease, ClaimRefused,
     RestoreSession, ResolveDeferredCall, ReserveRefused, dbVars, Effect, Calm, CallsKept
<1> QED
  BY <1>1, <1>2

LEMMA AdminEffect ==
    ASSUME EmailInv, NEW r \in Runs, AdminStep(r)
    PROVE  Effect
<1>1. PICK c \in Calls :
        \/ \E decision \in {"approved", "rejected"} : DecideApproval(r, c, decision)
        \/ ExpireOnDecide(r, c)
  BY DEF AdminStep
<1>2. toolCalls \in [Runs -> [Calls -> CallStatuses]]
  BY DEF EmailInv, TypeInv, LedgerOK
<1>3. CASE \E decision \in {"approved", "rejected"} : DecideApproval(r, c, decision)
  <2>1. PICK decision \in {"approved", "rejected"} : DecideApproval(r, c, decision)
    BY <1>3
  <2> DEFINE status == IF decision = "approved" THEN "running" ELSE "rejected"
  <2>2. /\ toolCalls' = [toolCalls EXCEPT ![r][c] = status] /\ status # "none"
        /\ approvals' = [approvals EXCEPT ![r][c] = decision]
        /\ approvals[r][c] # "approved" /\ decision \in ApprovalStatuses
        /\ UNCHANGED <<sends, emails>>
    BY <2>1 DEF DecideApproval, ApprovalStatuses
  <2> HIDE DEF status
  <2>3. CallsKept
    BY <2>2, CallWritten DEF EmailInv
  <2>4. toolCalls'[r][c] # "none"
    BY <1>2, <2>2
  <2> QED
    BY <2>2, <2>3, <2>4 DEF Effect, Asked
<1>4. CASE ExpireOnDecide(r, c)
  <2>1. toolCalls[r][c] # "none"
    BY <1>4 DEF ExpireOnDecide, EmailInv, AskedOfCalls
  <2> QED
    BY <1>4, <2>1 DEF ExpireOnDecide, Effect, Asked, CallsKept, ApprovalStatuses
<1> QED
  BY <1>1, <1>3, <1>4

LEMMA ReportEffect ==
    ASSUME EmailInv, NEW r \in Runs, ReportStep(r)
    PROVE  Effect
<1>1. CASE RecordReportProgress(r)
  BY <1>1 DEF RecordReportProgress, Effect, Calm, CallsKept
<1>2. CASE CompleteReportJob(r)
  <2> DEFINE c == job[r].call
             status == IF toolCalls[r][c] = "waiting_job" THEN "completed" ELSE toolCalls[r][c]
  <2>1. toolCalls \in [Runs -> [Calls -> CallStatuses]]
    BY DEF EmailInv, TypeInv, LedgerOK
  <2>2. /\ UNCHANGED <<approvals, sends, emails>>
        /\ toolCalls' = toolCalls \/ toolCalls' = [toolCalls EXCEPT ![r][c] = status]
        /\ status # "none" \/ status = toolCalls[r][c]
    BY <1>2 DEF CompleteReportJob
  <2> HIDE DEF c, status
  <2>3. CASE toolCalls' = toolCalls
    BY <2>2, <2>3 DEF Effect, Calm, CallsKept
  <2>4. CASE toolCalls' = [toolCalls EXCEPT ![r][c] = status]
    <3>1. CallsKept
      BY <2>1, <2>2, <2>4, KeptCells DEF CallsKept
    <3> QED
      BY <2>2, <3>1 DEF Effect, Calm
  <2> QED
    BY <2>2, <2>3, <2>4
<1> QED
  BY <1>1, <1>2 DEF ReportStep

LEMMA StepEffect ==
    ASSUME EmailInv, Next
    PROVE  Effect
<1>1. CASE UNCHANGED <<toolCalls, approvals, sends, emails>>
  BY <1>1 DEF Effect, Calm, CallsKept
<1>2. ASSUME NEW w \in Workers, AgentLoop(w)
      PROVE  Effect
  BY <1>1, <1>2, ModelEffect DEF AgentLoop, ConsumeSimpleLoopStep, BudgetExhausted,
     PersistSimpleLoopSkill, SkillRefused, EndGeneration, FailAgent, ReportRefused,
     EnqueueReport, MarkReportDispatched, CompleteSimpleLoopRun, AbandonStale, dbVars
<1>3. ASSUME NEW w \in Workers, WorkerStep(w) \/ FailBeforeStep(w) \/ EnqueueFails(w) \/ Crash(w)
      PROVE  Effect
  BY <1>1, <1>2, <1>3, ResumptionEffect DEF WorkerStep, ListPending, PickIntent,
     AcknowledgeSimpleLoopDispatch, AcknowledgeStaleDispatch, FailBeforeStep, EnqueueFails,
     Crash, dbVars
<1>4. ASSUME NEW r \in Runs,
             ReportAttemptFails(r) \/ LeaseLapses(r) \/ LeaseOutrun(r)
                \/ \E c \in Calls : ApprovalDeadline(r, c)
      PROVE  Effect
  BY <1>1, <1>4 DEF ReportAttemptFails, LeaseLapses, LeaseOutrun, ApprovalDeadline, dbVars
<1> QED
  BY <1>3, <1>4, AdminEffect, ReportEffect DEF Next

LEMMA LedgerTables ==
    ASSUME TypeInv
    PROVE  /\ approvals \in [Runs -> [Calls -> ApprovalStatuses]]
           /\ sends \in [Runs -> [Calls -> {"none", "reserved", "sent"}]]
           /\ emails \in [Runs -> [Calls -> Nat]]
  BY DEF TypeInv, LedgerOK

LEMMA Senders ==
    ASSUME TypeInv, DeferredInv, NEW w \in Workers, session[w].pc \in {"reserve", "send", "sent"}
    PROVE  session[w].run \in Runs /\ session[w].wait.call \in Calls
  BY SessionTypes DEF DeferredInv

LEMMA EmailStep ==
    ASSUME EmailInv, Next
    PROVE  SentOnce' /\ AboutToSend' /\ AskedOfCalls'
<1> USE DEF EmailInv
<1>0. Move
  BY StepMove
<1>1. CASE Calm
  <2>1. \A u \in Workers : session'[u].pc = "send" => session'[u] = session[u]
    BY <1>0, <1>1, SendersOnly DEF Calm
  <2>2. approvals' = approvals /\ sends' = sends /\ emails' = emails /\ CallsKept
    BY <1>1 DEF Calm
  <2>3. AboutToSend'
    BY <2>1, <2>2 DEF AboutToSend, Cell
  <2> QED
    BY <2>2, <2>3 DEF SentOnce, AskedOfCalls, CallsKept
<1>2. ASSUME NEW r \in Runs, NEW c \in Calls, Asked(r, c)
      PROVE  SentOnce' /\ AboutToSend' /\ AskedOfCalls'
  <2>1. \A u \in Workers : session'[u].pc = "send" => session'[u] = session[u]
    BY <1>0, <1>2, SendersOnly DEF Asked
  <2>2. PICK status \in ApprovalStatuses : approvals' = [approvals EXCEPT ![r][c] = status]
    BY <1>2 DEF Asked
  <2>3. \A q \in Runs, d \in Calls : <<q, d>> # <<r, c>> => approvals'[q][d] = approvals[q][d]
    BY <2>2, LedgerTables
  <2>4. sends' = sends /\ emails' = emails /\ approvals[r][c] # "approved" /\ CallsKept
        /\ toolCalls'[r][c] # "none"
    BY <1>2 DEF Asked
  <2>5. SentOnce'
    BY <2>3, <2>4 DEF SentOnce
  <2>6. AskedOfCalls'
    BY <2>3, <2>4 DEF AskedOfCalls, CallsKept
  <2>7. AboutToSend'
    <3> SUFFICES ASSUME NEW u \in Workers, session'[u].pc = "send"
                 PROVE  /\ sends'[session'[u].run][session'[u].wait.call] # "none"
                        /\ emails'[session'[u].run][session'[u].wait.call] = 0
                        /\ approvals'[session'[u].run][session'[u].wait.call] = "approved"
                        /\ \A v \in Workers \ {u} :
                            session'[v].pc = "send" => Cell(v)' # Cell(u)'
      BY DEF AboutToSend
    <3>1. session'[u] = session[u] /\ session[u].pc = "send"
      BY <2>1
    <3>2. session[u].run \in Runs /\ session[u].wait.call \in Calls
      BY <3>1, Senders
    <3>3. approvals[session[u].run][session[u].wait.call] = "approved"
      BY <3>1 DEF AboutToSend
    <3>4. approvals'[session[u].run][session[u].wait.call] = "approved"
      BY <2>3, <2>4, <3>2, <3>3
    <3> QED
      BY <2>1, <2>4, <3>1, <3>4 DEF AboutToSend, Cell
  <2> QED
    BY <2>5, <2>6, <2>7
<1>3. ASSUME NEW w \in Workers, ReserveSimulatedSend(w)
      PROVE  SentOnce' /\ AboutToSend' /\ AskedOfCalls'
  <2> DEFINE r == session[w].run
             c == session[w].wait.call
  <2>1. /\ session[w].pc = "reserve" /\ sends[r][c] = "none" /\ approvals[r][c] = "approved"
        /\ sends' = [sends EXCEPT ![r][c] = "reserved"]
        /\ approvals' = approvals /\ emails' = emails /\ toolCalls' = toolCalls
        /\ Go(w, "send")
    BY <1>3 DEF ReserveSimulatedSend, MayReserve, At
  <2>2. r \in Runs /\ c \in Calls
    BY <2>1, Senders
  <2>3. /\ OnlySession(w) /\ session'[w].run = r /\ session'[w].wait = session[w].wait
    BY <2>1, GoMove DEF Locations
  <2>4. /\ sends'[r][c] # "none"
        /\ \A q \in Runs, d \in Calls : <<q, d>> # <<r, c>> => sends'[q][d] = sends[q][d]
    <3> HIDE DEF r, c
    <3> QED
      BY <2>1, <2>2, LedgerTables
  <2>5. emails[r][c] = 0
    BY <2>1, <2>2 DEF SentOnce
  <2>6. \A q \in Runs, d \in Calls : sends[q][d] # "none" => sends'[q][d] # "none"
    BY <2>4
  <2>7. SentOnce' /\ AskedOfCalls'
    BY <2>1, <2>6 DEF SentOnce, AskedOfCalls
  <2>8. \A u \in Workers \ {w} : session'[u] = session[u]
    BY <2>3 DEF OnlySession
  <2>9. \A u \in Workers \ {w} : session[u].pc = "send" =>
            /\ session[u].run \in Runs /\ session[u].wait.call \in Calls
            /\ sends[session[u].run][session[u].wait.call] # "none"
            /\ Cell(u) # <<r, c>>
    BY <2>1, Senders DEF AboutToSend, Cell
  <2>10. AboutToSend'
    <3> SUFFICES ASSUME NEW u \in Workers, session'[u].pc = "send"
                 PROVE  /\ sends'[session'[u].run][session'[u].wait.call] # "none"
                        /\ emails'[session'[u].run][session'[u].wait.call] = 0
                        /\ approvals'[session'[u].run][session'[u].wait.call] = "approved"
                        /\ \A v \in Workers \ {u} :
                            session'[v].pc = "send" => Cell(v)' # Cell(u)'
      BY DEF AboutToSend
    <3>1. CASE u = w
      BY <2>1, <2>3, <2>4, <2>5, <2>8, <2>9, <3>1 DEF Cell
    <3>2. CASE u # w
      <4>1. session'[u] = session[u] /\ session[u].pc = "send"
        BY <2>8, <3>2
      <4>2. /\ sends'[session[u].run][session[u].wait.call] # "none"
            /\ Cell(u) # <<r, c>>
        BY <2>6, <2>9, <3>2, <4>1
      <4>3. \A v \in Workers \ {u} : session'[v].pc = "send" => Cell(v)' # Cell(u)'
        BY <2>3, <2>8, <4>1, <4>2 DEF AboutToSend, Cell
      <4> QED
        BY <2>1, <4>1, <4>2, <4>3 DEF AboutToSend
    <3> QED
      BY <3>1, <3>2
  <2> QED
    BY <2>7, <2>10
<1>4. ASSUME NEW w \in Workers, ExecuteApprovedSend(w)
      PROVE  SentOnce' /\ AboutToSend' /\ AskedOfCalls'
  <2> DEFINE r == session[w].run
             c == session[w].wait.call
  <2>1. /\ session[w].pc = "send" /\ Go(w, "sent")
        /\ emails' = [emails EXCEPT ![r][c] = emails[r][c] + 1]
        /\ approvals' = approvals /\ sends' = sends /\ toolCalls' = toolCalls
    BY <1>4 DEF ExecuteApprovedSend, At, dbVars
  <2>2. r \in Runs /\ c \in Calls
    BY <2>1, Senders
  <2>3. emails[r][c] = 0 /\ sends[r][c] # "none" /\ approvals[r][c] = "approved"
    BY <2>1 DEF AboutToSend
  <2>4. /\ emails'[r][c] = 1
        /\ \A q \in Runs, d \in Calls : <<q, d>> # <<r, c>> => emails'[q][d] = emails[q][d]
    <3> HIDE DEF r, c
    <3> QED
      BY <2>1, <2>2, <2>3, LedgerTables
  <2>5. SentOnce' /\ AskedOfCalls'
    BY <2>1, <2>3, <2>4 DEF SentOnce, AskedOfCalls
  <2>6. \A u \in Workers : session'[u].pc = "send" => u # w /\ session'[u] = session[u]
    BY <2>1, GoMove DEF OnlySession, Locations
  <2>7. \A u \in Workers \ {w} : session[u].pc = "send" =>
            /\ session[u].run \in Runs /\ session[u].wait.call \in Calls
            /\ Cell(u) # <<r, c>>
    BY <2>1, Senders DEF AboutToSend, Cell
  <2>8. \A u \in Workers \ {w} : session[u].pc = "send" =>
            emails'[session[u].run][session[u].wait.call] =
                emails[session[u].run][session[u].wait.call]
    BY <2>4, <2>7 DEF Cell
  <2>9. AboutToSend'
    BY <2>1, <2>6, <2>8 DEF AboutToSend, Cell
  <2> QED
    BY <2>5, <2>9
<1>5. ASSUME NEW w \in Workers, CompleteSimulatedSend(w)
      PROVE  SentOnce' /\ AboutToSend' /\ AskedOfCalls'
  <2> DEFINE r == session[w].run
             c == session[w].wait.call
  <2>1. /\ session[w].pc = "sent" /\ Go(w, "settle")
        /\ sends' = [sends EXCEPT ![r][c] = "sent"]
        /\ approvals' = approvals /\ emails' = emails /\ toolCalls' = toolCalls
    BY <1>5 DEF CompleteSimulatedSend, At
  <2>2. r \in Runs /\ c \in Calls
    BY <2>1, Senders
  <2>3. \A q \in Runs, d \in Calls : sends[q][d] # "none" => sends'[q][d] # "none"
    <3> HIDE DEF r, c
    <3> QED
      BY <2>1, <2>2, LedgerTables, KeptCells, "sent" # "none"
  <2>4. SentOnce' /\ AskedOfCalls'
    BY <2>1, <2>3 DEF SentOnce, AskedOfCalls
  <2>5. \A u \in Workers : session'[u].pc = "send" => session'[u] = session[u]
    BY <2>1, GoMove DEF OnlySession, Locations
  <2>6. \A u \in Workers : session[u].pc = "send" =>
            session[u].run \in Runs /\ session[u].wait.call \in Calls
    BY Senders
  <2>7. AboutToSend'
    BY <2>1, <2>3, <2>5, <2>6 DEF AboutToSend, Cell
  <2> QED
    BY <2>4, <2>7
<1> QED
  BY <1>1, <1>2, <1>3, <1>4, <1>5, StepEffect DEF Effect

LEMMA EmailInit == Init => EmailInv
<1> SUFFICES ASSUME Init
             PROVE  EmailInv
  OBVIOUS
<1>1. \A w \in Workers : session[w].pc = "idle"
  BY IdleFacts DEF Init
<1>2. \A r \in Runs, c \in Calls : emails[r][c] = 0 /\ approvals[r][c] = "none"
  BY DEF Init
<1> QED
  BY <1>1, <1>2, TypeInit DEF EmailInv, DeferredInv, SentOnce, AboutToSend, AskedOfCalls

LEMMA EmailKept == EmailInv /\ [Next]_vars => EmailInv'
<1> SUFFICES ASSUME EmailInv, [Next]_vars
             PROVE  EmailInv'
  OBVIOUS
<1>1. CASE Next
  BY <1>1, EmailStep, StepMove, TypeStep, DeferredStep DEF EmailInv
<1>2. CASE UNCHANGED vars
  BY <1>2, TypeStep DEF vars, EmailInv, DeferredInv, SentOnce, AboutToSend, AskedOfCalls, Cell
<1> QED
  BY <1>1, <1>2

LEMMA EmailInvariance == Spec => []EmailInv
  BY EmailInit, EmailKept, PTL DEF Spec

\* For any number of runs and workers, whatever crashes and whatever stale
\* worker retries: a message that needs approval is sent at most once, and only
\* after the administrator approved it.
THEOREM OneEmail == Spec => []OneEmailPerApproval
<1>1. EmailInv => OneEmailPerApproval
  BY DEF EmailInv, SentOnce, OneEmailPerApproval
<1> QED
  BY <1>1, EmailInvariance, PTL
=============================================================================
