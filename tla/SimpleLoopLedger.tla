--------------------------- MODULE SimpleLoopLedger ---------------------------
(*****************************************************************************)
(* What the run's row, the ledger of its calls, the approvals, the sends and *)
(* the report job say of each other in SimpleLoop, for every value of the    *)
(* constants: the waits agree, the calls move along their tables, the model  *)
(* is told the truth once, and a stranded run stays stranded.                *)
(*****************************************************************************)
EXTENDS SimpleLoopProofs

(*****************************************************************************)
(* The wait.  A session that talks to the model carries none, and one that   *)
(* resumes a run it can still write carries the wait the run is in.          *)
(*****************************************************************************)

Resuming == {"resolve", "reserve", "send", "sent", "settle"}

SessionWaits ==
    \A w \in Workers :
        /\ session[w].pc \in {"prompt", "model"} => session[w].wait = NoWait
        /\ session[w].pc = "finish" =>
            session[w].verdict = "failed" \/ session[w].wait = NoWait
        /\ (IsCurrent(w) /\ session[w].pc \in Resuming) =>
            session[w].wait = run[session[w].run].wait

RowWaits ==
    \A r \in Runs :
        /\ run[r].status = "completed" => run[r].wait = NoWait
        /\ run[r].status = "waiting_for_tool" => run[r].wait.kind = "report"
        /\ run[r].status = "waiting_for_admin" => run[r].wait.kind = "approval"

WaitInv == SessionWaits /\ RowWaits

\* What SessionWaits says of one session.
CarriesWait(w) ==
    /\ session[w].pc \in {"prompt", "model"} => session[w].wait = NoWait
    /\ session[w].pc = "finish" =>
        session[w].verdict = "failed" \/ session[w].wait = NoWait
    /\ (IsCurrent(w) /\ session[w].pc \in Resuming) =>
        session[w].wait = run[session[w].run].wait

LEMMA SoftWaits ==
    ASSUME TypeInv, WaitInv, NEW w \in Workers, SoftMove(w)
    PROVE  WaitInv'
<1>1. RowWaits'
  BY DEF SoftMove, WaitInv, RowWaits
<1>2. ASSUME NEW u \in Workers, u # w
      PROVE  CarriesWait(u)'
  BY <1>2 DEF SoftMove, OnlySession, WaitInv, SessionWaits, CarriesWait, IsCurrent
<1>3. CarriesWait(w)'
  <2> DEFINE s == session[w]
             t == session'[w]
             wait == run[s.run].wait
  <2>1. CASE t.pc \notin Leased
    BY <2>1 DEF CarriesWait, IsCurrent, Leased
  <2>2. CASE t.pc \in Leased
    <3>1. /\ s.pc \in Leased /\ t.run = s.run /\ t.version = s.version /\ run' = run
          /\ \/ /\ s.pc = "restore" /\ t.wait = wait
                /\ t.pc = IF wait = NoWait THEN "prompt" ELSE "resolve"
             \/ /\ s.pc \in {"resolve", "reserve", "send", "sent"}
                /\ t.pc \in {"reserve", "send", "sent", "settle"}
                /\ t.wait = s.wait
             \/ s.pc = "prompt" /\ t.pc = "finish" /\ t.wait = s.wait
             \/ /\ s.pc = "model" /\ t.pc \in {"prompt", "finish"}
                /\ t.wait = s.wait \/ (t.pc = "finish" /\ t.verdict = "failed")
      BY <2>2 DEF SoftMove
    <3>2. /\ s.pc \in {"prompt", "model"} => s.wait = NoWait
          /\ (s.pc \in Resuming /\ s.version = run[s.run].version) => s.wait = wait
      BY <3>1 DEF WaitInv, SessionWaits, IsCurrent
    <3>3. /\ t.pc \in {"prompt", "model"} => t.wait = NoWait
          /\ t.pc = "finish" => t.verdict = "failed" \/ t.wait = NoWait
          /\ (t.version = run[t.run].version /\ t.pc \in Resuming) => t.wait = run[t.run].wait
      BY <3>1, <3>2 DEF Resuming
    <3> QED
      BY <3>1, <3>3 DEF CarriesWait, IsCurrent
  <2> QED
    BY <2>1, <2>2
<1> QED
  BY <1>1, <1>2, <1>3 DEF WaitInv, SessionWaits, CarriesWait

LEMMA OthersWaits ==
    ASSUME TypeInv, LeaseInv, WaitInv, NEW w \in Workers, ClaimMove(w) \/ WriteMove(w),
           NEW u \in Workers, u # w
    PROVE  CarriesWait(u)'
<1>1. session'[u] = session[u]
  BY DEF ClaimMove, WriteMove, OnlySession
<1>2. CASE IsCurrent(u)'
  BY <1>1, <1>2, OthersFallBehind DEF WaitInv, SessionWaits, CarriesWait
<1>3. CASE ~IsCurrent(u)'
  BY <1>1, <1>3 DEF WaitInv, SessionWaits, CarriesWait
<1> QED
  BY <1>2, <1>3

LEMMA WaitStep ==
    ASSUME TypeInv, LeaseInv, WaitInv, Move
    PROVE  WaitInv'
<1>1. ASSUME NEW w \in Workers, ClaimMove(w)
      PROVE  WaitInv'
  <2>1. RowWaits'
    BY <1>1 DEF ClaimMove, OnlyRun, WaitInv, RowWaits
  <2>2. CarriesWait(w)'
    BY <1>1 DEF ClaimMove, CarriesWait, Resuming
  <2> QED
    BY <1>1, <2>1, <2>2, OthersWaits DEF WaitInv, SessionWaits, CarriesWait
<1>2. ASSUME NEW w \in Workers, WriteMove(w)
      PROVE  WaitInv'
  <2> DEFINE r == session[w].run
  <2>1. /\ run'[r].status = "completed" => run'[r].wait = NoWait
        /\ run'[r].status = "waiting_for_tool" => run'[r].wait.kind = "report"
        /\ run'[r].status = "waiting_for_admin" => run'[r].wait.kind = "approval"
    BY <1>2 DEF WriteMove, WaitInv, SessionWaits, RowWaits, Terminal
  <2>2. RowWaits'
    BY <1>2, <2>1 DEF WriteMove, OnlyRun, WaitInv, RowWaits
  <2>3. CarriesWait(w)'
    BY <1>2 DEF WriteMove, WaitInv, SessionWaits, CarriesWait, Resuming
  <2> QED
    BY <1>2, <2>2, <2>3, OthersWaits DEF WaitInv, SessionWaits, CarriesWait
<1>3. ASSUME NEW r \in Runs, LapseMove(r)
      PROVE  WaitInv'
  <2>1. \A q \in Runs : /\ run'[q].status = run[q].status /\ run'[q].version = run[q].version
                        /\ run'[q].wait = run[q].wait
    BY <1>3 DEF LapseMove, OnlyRun
  <2>2. \A w \in Workers : session[w].pc \in Leased => session[w].run \in Runs
    BY LeasedTypes
  <2>3. session' = session
    BY <1>3 DEF LapseMove
  <2> QED
    BY <2>1, <2>2, <2>3 DEF WaitInv, SessionWaits, RowWaits, IsCurrent
<1>4. CASE UNCHANGED <<run, session>>
  BY <1>4 DEF WaitInv, SessionWaits, RowWaits, IsCurrent
<1> QED
  BY <1>1, <1>2, <1>3, <1>4, SoftWaits DEF Move

(*****************************************************************************)
(* What the tables say of each other.                                        *)
(*****************************************************************************)

\* The status of a call follows that of its approval.
AnswerOf(approval, call) ==
    \/ approval = "none" /\ call \notin {"approval_required", "running"}
    \/ approval \in {"pending", "expired"} /\ call = "approval_required"
    \/ approval = "approved" /\ call \in {"running", "completed"}
    \/ approval = "rejected" /\ call = "rejected"

Answered == \A r \in Runs, c \in Calls : AnswerOf(approvals[r][c], toolCalls[r][c])

\* A report job belongs to a call of the ledger, and as long as it is not
\* completed its run waits.
JobAgrees(r) ==
    /\ job[r].status = "none" <=> job[r].call \notin Calls
    /\ job[r].status = "none" => job[r].delivery = "none"
    /\ job[r].status \in {"queued", "running"} =>
        /\ toolCalls[r][job[r].call] = "waiting_job"
        /\ run[r].status = "waiting_for_tool"
    /\ job[r].status = "completed" => toolCalls[r][job[r].call] = "completed"

Reported == \A r \in Runs : JobAgrees(r)

\* A run that waits has a request or a job for the call it waits for, and the
\* call has not been answered.
WaitAgrees(r) ==
    LET c == run[r].wait.call IN
    /\ run[r].status = "waiting_for_tool" => job[r].call = c
    /\ run[r].status = "waiting_for_admin" =>
        approvals[r][c] # "none" /\ toolCalls[r][c] # "completed"
    /\ run[r].status \in Waiting => results[r][c] = 0

Awaited == \A r \in Runs : WaitAgrees(r)

\* Whoever is about to hand a job to the queue has accepted the run's only one.
QueueAt(w) ==
    session[w].pc = "enqueue" =>
        /\ job[session[w].run].status # "none"
        /\ job[session[w].run].delivery = "none"
        /\ \A u \in Workers \ {w} :
            session[u].pc = "enqueue" => session[u].run # session[w].run

AtQueue == \A w \in Workers : QueueAt(w)

\* What has happened by the time a session settles a wait.
Approved(r, wait) == wait.kind = "approval" /\ approvals[r][wait.call] = "approved"

Settled(r, wait) ==
    \/ wait.kind = "report" /\ job[r].status = "completed"
    \/ wait.kind = "approval" /\ approvals[r][wait.call] = "rejected"
    \/ Approved(r, wait) /\ emails[r][wait.call] = 1 /\ sends[r][wait.call] = "sent"

ResumedAt(w) ==
    /\ session[w].pc \in {"reserve", "send", "sent"} => Approved(session[w].run, session[w].wait)
    /\ session[w].pc = "sent" => emails[session[w].run][session[w].wait.call] = 1
    /\ session[w].pc = "settle" => Settled(session[w].run, session[w].wait)

Resumed == \A w \in Workers : ResumedAt(w)

\* The body of ResultsTold, for one call.
ToldTruly(r, c) ==
    /\ results[r][c] <= 1
    /\ results[r][c] = 1 =>
        \/ toolCalls[r][c] = "completed" /\ emails[r][c] = 1 /\ sends[r][c] = "sent"
        \/ toolCalls[r][c] = "rejected" /\ approvals[r][c] = "rejected" /\ emails[r][c] = 0
        \/ toolCalls[r][c] = "completed" /\ job[r].call = c /\ job[r].status = "completed"

Told == \A r \in Runs, c \in Calls : ToldTruly(r, c)

BooksInv == Answered /\ Reported /\ Awaited /\ AtQueue /\ Resumed /\ Told

LedgerInv == ControlInv /\ EmailInv /\ WaitInv /\ BooksInv

(*****************************************************************************)
(* What each handler that writes a table does to it, cell by cell.           *)
(*****************************************************************************)

OneCell(new, old, r, c, value) ==
    \A q \in Runs, d \in Calls : new[q][d] = IF q = r /\ d = c THEN value ELSE old[q][d]

LEMMA Tables ==
    ASSUME TypeInv
    PROVE  /\ toolCalls \in [Runs -> [Calls -> CallStatuses]]
           /\ approvals \in [Runs -> [Calls -> ApprovalStatuses]]
           /\ sends \in [Runs -> [Calls -> {"none", "reserved", "sent"}]]
           /\ emails \in [Runs -> [Calls -> Nat]]
           /\ results \in [Runs -> [Calls -> Nat]]
           /\ job \in [Runs -> JobRows]
           /\ run \in [Runs -> RunRows]
           /\ intents \in [Runs -> [Intents -> {"none", "pending", "dispatched"}]]
  BY DEF TypeInv, LedgerOK, JobOK, RunOK

LEMMA CellWritten ==
    ASSUME NEW V, NEW f \in [Runs -> [Calls -> V]], NEW r \in Runs, NEW c \in Calls, NEW v,
           NEW g, g = [f EXCEPT ![r][c] = v]
    PROVE  OneCell(g, f, r, c, v)
  BY DEF OneCell

\* The calls of the sessions that resume a run.
LEMMA ResumingTypes ==
    ASSUME TypeInv, DeferredInv, NEW w \in Workers, session[w].pc \in Resuming
    PROVE  session[w].run \in Runs /\ session[w].wait.call \in Calls /\ session[w].wait \in Waits
  BY SessionTypes DEF DeferredInv, Resuming

\* One session goes on to pc with its run and its wait.
GoesOn(w, pc) ==
    /\ OnlySession(w)
    /\ session'[w].pc = pc /\ session'[w].run = session[w].run
    /\ session'[w].wait = session[w].wait
    /\ session'[w].version = session[w].version

LEMMA ReserveChange ==
    ASSUME TypeInv, DeferredInv, NEW w \in Workers, ReserveSimulatedSend(w)
    PROVE  LET r == session[w].run
               c == session[w].wait.call IN
           /\ session[w].pc = "reserve" /\ GoesOn(w, "send")
           /\ r \in Runs /\ c \in Calls
           /\ MayReserve(r, c)
           /\ OneCell(sends', sends, r, c, "reserved")
           /\ UNCHANGED <<run, toolCalls, approvals, emails, results, job, intents>>
<1> DEFINE r == session[w].run
           c == session[w].wait.call
<1>1. /\ session[w].pc = "reserve" /\ Go(w, "send") /\ MayReserve(r, c)
      /\ sends' = [sends EXCEPT ![r][c] = "reserved"]
      /\ UNCHANGED <<run, toolCalls, approvals, emails, results, job, intents>>
  BY DEF ReserveSimulatedSend, At
<1>2. GoesOn(w, "send")
  BY <1>1, GoMove DEF Locations, GoesOn
<1>3. r \in Runs /\ c \in Calls
  BY <1>1, ResumingTypes DEF Resuming
<1> HIDE DEF r, c
<1>4. OneCell(sends', sends, r, c, "reserved")
  BY <1>1, <1>3, Tables, CellWritten
<1> QED
  BY <1>1, <1>2, <1>3, <1>4 DEF r, c

LEMMA ExecuteChange ==
    ASSUME TypeInv, DeferredInv, NEW w \in Workers, ExecuteApprovedSend(w)
    PROVE  LET r == session[w].run
               c == session[w].wait.call IN
           /\ session[w].pc = "send" /\ GoesOn(w, "sent")
           /\ r \in Runs /\ c \in Calls
           /\ OneCell(emails', emails, r, c, emails[r][c] + 1)
           /\ UNCHANGED <<run, toolCalls, approvals, sends, results, job, intents>>
<1> DEFINE r == session[w].run
           c == session[w].wait.call
<1>1. /\ session[w].pc = "send" /\ Go(w, "sent")
      /\ emails' = [emails EXCEPT ![r][c] = emails[r][c] + 1]
      /\ UNCHANGED <<run, toolCalls, approvals, sends, results, job, intents>>
  BY DEF ExecuteApprovedSend, At, dbVars
<1>2. GoesOn(w, "sent")
  BY <1>1, GoMove DEF Locations, GoesOn
<1>3. r \in Runs /\ c \in Calls
  BY <1>1, ResumingTypes DEF Resuming
<1> HIDE DEF r, c
<1>4. OneCell(emails', emails, r, c, emails[r][c] + 1)
  BY <1>1, <1>3, Tables, CellWritten
<1> QED
  BY <1>1, <1>2, <1>3, <1>4 DEF r, c

LEMMA CompleteSendChange ==
    ASSUME TypeInv, DeferredInv, NEW w \in Workers, CompleteSimulatedSend(w)
    PROVE  LET r == session[w].run
               c == session[w].wait.call IN
           /\ session[w].pc = "sent" /\ GoesOn(w, "settle")
           /\ r \in Runs /\ c \in Calls
           /\ OneCell(sends', sends, r, c, "sent")
           /\ UNCHANGED <<run, toolCalls, approvals, emails, results, job, intents>>
<1> DEFINE r == session[w].run
           c == session[w].wait.call
<1>1. /\ session[w].pc = "sent" /\ Go(w, "settle")
      /\ sends' = [sends EXCEPT ![r][c] = "sent"]
      /\ UNCHANGED <<run, toolCalls, approvals, emails, results, job, intents>>
  BY DEF CompleteSimulatedSend, At
<1>2. GoesOn(w, "settle")
  BY <1>1, GoMove DEF Locations, GoesOn
<1>3. r \in Runs /\ c \in Calls
  BY <1>1, ResumingTypes DEF Resuming
<1> HIDE DEF r, c
<1>4. OneCell(sends', sends, r, c, "sent")
  BY <1>1, <1>3, Tables, CellWritten
<1> QED
  BY <1>1, <1>2, <1>3, <1>4 DEF r, c

\* What a settled wait makes of its call.
Outcome(r, c, old, new) ==
    \/ /\ run[r].status = "waiting_for_tool" /\ approvals[r][c] # "rejected"
       /\ job[r].call = c /\ job[r].status = "completed"
       /\ old = "completed" /\ new = "completed"
    \/ /\ run[r].status = "waiting_for_admin" /\ approvals[r][c] = "approved"
       /\ emails[r][c] = 1 /\ sends[r][c] = "sent"
       /\ old = "running" /\ new = "completed"
    \/ /\ run[r].status = "waiting_for_admin" /\ approvals[r][c] = "rejected"
       /\ emails[r][c] = 0
       /\ old = "rejected" /\ new = "rejected"

\* A session that still holds its run resumes the wait the run is in.
LEMMA CurrentWait ==
    ASSUME LedgerInv, NEW w \in Workers, LeaseHeld(w), session[w].pc \in Resuming
    PROVE  /\ session[w].run \in Runs /\ session[w].wait.call \in Calls
           /\ run[session[w].run].wait = session[w].wait
           /\ run[session[w].run].status \in Waiting
<1>1. IsCurrent(w)
  BY DEF LeaseHeld, IsCurrent, Resuming, Leased
<1> QED
  BY <1>1, ResumingTypes DEF LedgerInv, ControlInv, StatusInv, Meets, EmailInv, WaitInv,
     SessionWaits, Resuming

LEMMA SettleOutcome ==
    ASSUME LedgerInv, NEW w \in Workers, LeaseHeld(w), session[w].pc = "settle"
    PROVE  LET r == session[w].run
               c == session[w].wait.call IN
           Outcome(r, c, toolCalls[r][c],
                   IF approvals[r][c] = "rejected" THEN "rejected" ELSE "completed")
<1> DEFINE r == session[w].run
           c == session[w].wait.call
<1>1. /\ r \in Runs /\ c \in Calls /\ run[r].wait = session[w].wait
      /\ run[r].status \in Waiting
  BY CurrentWait DEF Resuming
<1>2. Settled(r, session[w].wait)
  BY DEF LedgerInv, BooksInv, Resumed, ResumedAt
<1>3. /\ run[r].status = "waiting_for_tool" => session[w].wait.kind = "report"
      /\ run[r].status = "waiting_for_admin" => session[w].wait.kind = "approval"
      /\ run[r].status \in {"waiting_for_tool", "waiting_for_admin"}
  BY <1>1 DEF LedgerInv, WaitInv, RowWaits, Waiting
<1>4. WaitAgrees(r) /\ JobAgrees(r) /\ AnswerOf(approvals[r][c], toolCalls[r][c])
  BY <1>1 DEF LedgerInv, BooksInv, Awaited, Reported, Answered
<1>5. emails[r][c] = 0 \/ approvals[r][c] = "approved"
  BY <1>1 DEF LedgerInv, EmailInv, SentOnce
<1>6. CASE run[r].status = "waiting_for_tool"
  <2>1. /\ job[r].call = c /\ job[r].status = "completed" /\ toolCalls[r][c] = "completed"
    BY <1>1, <1>2, <1>3, <1>4, <1>6 DEF Settled, Approved, WaitAgrees, JobAgrees
  <2>2. approvals[r][c] # "rejected"
    BY <1>4, <2>1 DEF AnswerOf
  <2> QED
    BY <1>6, <2>1, <2>2 DEF Outcome
<1>7. CASE run[r].status = "waiting_for_admin"
  <2>1. toolCalls[r][c] # "completed"
    BY <1>1, <1>4, <1>7 DEF WaitAgrees
  <2>2. \/ approvals[r][c] = "rejected"
        \/ /\ approvals[r][c] = "approved"
           /\ emails[r][c] = 1 /\ sends[r][c] = "sent"
    BY <1>2, <1>3, <1>7 DEF Settled, Approved
  <2>3. CASE approvals[r][c] = "rejected"
    <3>1. toolCalls[r][c] = "rejected" /\ emails[r][c] = 0
      BY <1>4, <1>5, <2>3 DEF AnswerOf
    <3> QED
      BY <1>7, <2>3, <3>1 DEF Outcome
  <2>4. CASE approvals[r][c] = "approved" /\ emails[r][c] = 1 /\ sends[r][c] = "sent"
    <3>1. toolCalls[r][c] = "running"
      BY <1>4, <2>1, <2>4 DEF AnswerOf
    <3> QED
      BY <1>7, <2>4, <3>1 DEF Outcome
  <2> QED
    BY <2>2, <2>3, <2>4
<1> QED
  BY <1>3, <1>6, <1>7

LEMMA SettleChange ==
    ASSUME LedgerInv, NEW w \in Workers, ResolveSimpleLoopWait(w)
    PROVE  LET r == session[w].run
               c == session[w].wait.call IN
           /\ OnlySession(w) /\ OnlyRun(r)
           /\ session'[w].pc = "prompt"
           /\ run'[r].status = "running" /\ run'[r].wait = NoWait
           /\ r \in Runs /\ c \in Calls
           /\ run[r].wait = session[w].wait /\ run[r].status \in Waiting
           /\ OneCell(results', results, r, c, results[r][c] + 1)
           /\ \E status \in CallStatuses :
                /\ OneCell(toolCalls', toolCalls, r, c, status)
                /\ Outcome(r, c, toolCalls[r][c], status)
           /\ UNCHANGED <<approvals, sends, emails, job, intents>>
<1> DEFINE r == session[w].run
           c == session[w].wait.call
           status == IF approvals[r][c] = "rejected" THEN "rejected" ELSE "completed"
<1>0. TypeInv
  BY DEF LedgerInv, ControlInv
<1>1. /\ session[w].pc = "settle" /\ LeaseHeld(w)
      /\ toolCalls' = [toolCalls EXCEPT ![r][c] = status]
      /\ results' = [results EXCEPT ![r][c] = results[r][c] + 1]
      /\ UNCHANGED <<approvals, sends, emails, job, intents>>
  BY DEF ResolveSimpleLoopWait, At, Persist
<1>2. WriteMove(w)
  BY <1>0, ResolveWaitMove
<1>3. /\ OnlySession(w) /\ OnlyRun(r) /\ session'[w].pc = "prompt"
      /\ run'[r].status = "running" /\ run'[r].wait = NoWait
  BY <1>1, <1>2 DEF WriteMove
<1>4. /\ r \in Runs /\ c \in Calls /\ run[r].wait = session[w].wait
      /\ run[r].status \in Waiting
  BY <1>1, CurrentWait DEF Resuming
<1>5. Outcome(r, c, toolCalls[r][c], status)
  BY <1>1, SettleOutcome
<1>6. status \in CallStatuses
  BY DEF CallStatuses
<1> HIDE DEF r, c, status
<1>7. /\ OneCell(results', results, r, c, results[r][c] + 1)
      /\ OneCell(toolCalls', toolCalls, r, c, status)
  BY <1>0, <1>1, <1>4, Tables, CellWritten
<1> QED
  BY <1>1, <1>3, <1>4, <1>5, <1>6, <1>7 DEF r, c

\* The model's own calls: a tool's outcome or a refusal.
LEMMA OutcomeChange ==
    ASSUME TypeInv, NEW w \in Workers,
           \/ \E outcome \in {"completed", "failed"} : PersistToolOutcome(w, outcome)
           \/ \E outcome \in {"failed", "rejected"} : PersistMappedToolFailure(w, outcome)
    PROVE  LET r == session[w].run
               c == run[r].consumedSteps IN
           /\ OnlySession(w) /\ OnlyRun(r)
           /\ session'[w].pc \in {"prompt", "finish"}
           /\ run'[r].status = run[r].status /\ run'[r].wait = run[r].wait
           /\ r \in Runs /\ c \in Calls
           /\ toolCalls[r][c] = "none"
           /\ \E status \in {"completed", "failed", "rejected"} :
                OneCell(toolCalls', toolCalls, r, c, status)
           /\ UNCHANGED <<approvals, sends, emails, results, job, intents>>
<1> DEFINE r == session[w].run
           c == run[r].consumedSteps
<1>1. /\ session[w].pc = "model" /\ toolCalls[r][c] = "none"
      /\ \E status \in {"completed", "failed", "rejected"} :
            toolCalls' = [toolCalls EXCEPT ![r][c] = status]
      /\ UNCHANGED <<approvals, sends, emails, results, job, intents>>
  BY DEF PersistToolOutcome, PersistMappedToolFailure, At
<1>2. WriteMove(w) /\ r \in Runs /\ c \in Calls
  BY <1>1, ToolOutcomeMove, SessionTypes, CallOfModel
<1>a. session'[w].pc \in {"prompt", "finish"}
  BY <1>1, ToolMove, FinishMove, SessionTypes DEF PersistToolOutcome, PersistMappedToolFailure,
     Terminal
<1>3. /\ OnlySession(w) /\ OnlyRun(r)
      /\ run'[r].status = run[r].status /\ run'[r].wait = run[r].wait
  BY <1>1, <1>2, <1>a DEF WriteMove
<1> HIDE DEF r, c
<1>4. \E status \in {"completed", "failed", "rejected"} :
        OneCell(toolCalls', toolCalls, r, c, status)
  BY <1>1, <1>2, Tables, CellWritten
<1> QED
  BY <1>1, <1>2, <1>3, <1>4, <1>a DEF r, c

LEMMA ReportWaitChange ==
    ASSUME TypeInv, NEW w \in Workers, PersistReportWait(w)
    PROVE  LET r == session[w].run
               c == run[r].consumedSteps IN
           /\ OnlySession(w) /\ OnlyRun(r)
           /\ session'[w].pc = "enqueue" /\ session'[w].run = r
           /\ run'[r].status = "waiting_for_tool" /\ run'[r].wait.call = c
           /\ r \in Runs /\ c \in Calls
           /\ toolCalls[r][c] = "none" /\ job[r] = NoJob
           /\ OneCell(toolCalls', toolCalls, r, c, "waiting_job")
           /\ \A q \in Runs \ {r} : job'[q] = job[q]
           /\ job'[r].status = "queued" /\ job'[r].call = c /\ job'[r].delivery = "none"
           /\ UNCHANGED <<approvals, sends, emails, results, intents>>
<1> DEFINE r == session[w].run
           c == run[r].consumedSteps
           new == [NoJob EXCEPT !.status = "queued", !.call = c, !.intent = "pending"]
<1>1. /\ session[w].pc = "model" /\ toolCalls[r][c] = "none" /\ job[r] = NoJob
      /\ toolCalls' = [toolCalls EXCEPT ![r][c] = "waiting_job"]
      /\ job' = [job EXCEPT ![r] = new]
      /\ UNCHANGED <<approvals, sends, emails, results, intents>>
  BY DEF PersistReportWait, At
<1>2. WriteMove(w) /\ r \in Runs /\ c \in Calls
  BY <1>1, ReportWaitMove, SessionTypes, CallOfModel
<1>a. session'[w].pc = "enqueue"
  <2> DEFINE s == session[w]
             wait == [kind |-> "report", call |-> run[s.run].consumedSteps]
             version == s.version + 1
             t == [s EXCEPT !.pc = "enqueue", !.wait = wait, !.version = version]
  <2>1. s \in Sessions /\ session' = [session EXCEPT ![w] = t] /\ session \in [Workers -> Sessions]
    BY SessionTypes DEF PersistReportWait, Becomes, TypeInv, SessionOK
  <2>2. t = [s EXCEPT !.pc = "enqueue", !.wait = wait, !.version = version]
    OBVIOUS
  <2> HIDE DEF s, wait, version, t
  <2>3. t.pc = "enqueue"
    BY <2>1, <2>2 DEF Sessions
  <2> QED
    BY <2>1, <2>3
<1>3. /\ OnlySession(w) /\ OnlyRun(r) /\ session'[w].run = r
      /\ run'[r].status = "waiting_for_tool" /\ run'[r].wait.call = c
  BY <1>1, <1>2, <1>a DEF WriteMove
<1>4. new.status = "queued" /\ new.call = c /\ new.delivery = "none"
  BY DEF NoJob
<1> HIDE DEF r, c, new
<1>5. /\ \A q \in Runs \ {r} : job'[q] = job[q]
      /\ job'[r] = new
  BY <1>1, <1>2, Tables
<1>6. OneCell(toolCalls', toolCalls, r, c, "waiting_job")
  BY <1>1, <1>2, Tables, CellWritten
<1> QED
  BY <1>1, <1>2, <1>3, <1>4, <1>5, <1>6, <1>a DEF r, c

LEMMA ApprovalWaitChange ==
    ASSUME TypeInv, NEW w \in Workers, PersistApprovalWait(w)
    PROVE  LET r == session[w].run
               c == run[r].consumedSteps IN
           /\ OnlySession(w) /\ OnlyRun(r)
           /\ session'[w].pc = "ack"
           /\ run'[r].status = "waiting_for_admin" /\ run'[r].wait.call = c
           /\ r \in Runs /\ c \in Calls
           /\ toolCalls[r][c] = "none"
           /\ OneCell(toolCalls', toolCalls, r, c, "approval_required")
           /\ OneCell(approvals', approvals, r, c, "pending")
           /\ UNCHANGED <<sends, emails, results, job, intents>>
<1> DEFINE r == session[w].run
           c == run[r].consumedSteps
<1>1. /\ session[w].pc = "model" /\ toolCalls[r][c] = "none"
      /\ toolCalls' = [toolCalls EXCEPT ![r][c] = "approval_required"]
      /\ approvals' = [approvals EXCEPT ![r][c] = "pending"]
      /\ Becomes(w, Returned(w))
      /\ UNCHANGED <<sends, emails, results, job, intents>>
  BY DEF PersistApprovalWait, At
<1>2. WriteMove(w) /\ r \in Runs /\ c \in Calls /\ session'[w].pc = "ack"
  BY <1>1, ApprovalWaitMove, SessionTypes, CallOfModel, ReturnMove
<1>3. /\ OnlySession(w) /\ OnlyRun(r)
      /\ run'[r].status = "waiting_for_admin" /\ run'[r].wait.call = c
  BY <1>1, <1>2 DEF WriteMove
<1> HIDE DEF r, c
<1>4. /\ OneCell(toolCalls', toolCalls, r, c, "approval_required")
      /\ OneCell(approvals', approvals, r, c, "pending")
  BY <1>1, <1>2, Tables, CellWritten
<1> QED
  BY <1>1, <1>2, <1>3, <1>4 DEF r, c

\* The report job's own row: who writes it and what stays.
OtherJobs(r) == \A q \in Runs \ {r} : job'[q] = job[q]

LEMMA EnqueueChange ==
    ASSUME TypeInv, NEW w \in Workers, EnqueueReport(w)
    PROVE  LET r == session[w].run IN
           /\ session[w].pc = "enqueue" /\ GoesOn(w, "mark") /\ r \in Runs
           /\ OtherJobs(r)
           /\ job'[r].status = job[r].status /\ job'[r].call = job[r].call
           /\ job'[r].delivery = "queued"
           /\ UNCHANGED <<run, toolCalls, approvals, sends, emails, results, intents>>
<1> DEFINE r == session[w].run
           old == job[r]
           new == [old EXCEPT !.delivery = "queued", !.attempts = MaxAttempts]
<1>1. /\ session[w].pc = "enqueue" /\ Go(w, "mark")
      /\ job' = [job EXCEPT ![r] = new]
      /\ UNCHANGED <<run, toolCalls, approvals, sends, emails, results, intents>>
  BY DEF EnqueueReport, At
<1>2. GoesOn(w, "mark") /\ r \in Runs /\ old \in JobRows /\ old = job[r]
  BY <1>1, GoMove, SessionTypes, Tables DEF Locations, GoesOn
<1>3. new = [old EXCEPT !.delivery = "queued", !.attempts = MaxAttempts]
  OBVIOUS
<1> HIDE DEF r, old, new
<1>4. new.status = old.status /\ new.call = old.call /\ new.delivery = "queued"
  BY <1>2, <1>3 DEF JobRows
<1>5. OtherJobs(r) /\ job'[r] = new
  BY <1>1, <1>2, Tables DEF OtherJobs
<1> QED
  BY <1>1, <1>2, <1>4, <1>5 DEF r

LEMMA MarkChange ==
    ASSUME TypeInv, NEW w \in Workers, MarkReportDispatched(w)
    PROVE  LET r == session[w].run IN
           /\ session[w].pc = "mark" /\ OnlySession(w) /\ session'[w].pc = "ack" /\ r \in Runs
           /\ OtherJobs(r)
           /\ job'[r].status = job[r].status /\ job'[r].call = job[r].call
           /\ job'[r].delivery = job[r].delivery
           /\ UNCHANGED <<run, toolCalls, approvals, sends, emails, results, intents>>
<1> DEFINE r == session[w].run
           old == job[r]
           new == [old EXCEPT !.intent = "dispatched"]
<1>1. /\ session[w].pc = "mark" /\ Becomes(w, Returned(w))
      /\ job' = [job EXCEPT ![r] = new]
      /\ UNCHANGED <<run, toolCalls, approvals, sends, emails, results, intents>>
  BY DEF MarkReportDispatched, At
<1>2. /\ OnlySession(w) /\ session'[w].pc = "ack"
      /\ r \in Runs /\ old \in JobRows /\ old = job[r]
  BY <1>1, ReturnMove, SessionTypes, Tables
<1>3. new = [old EXCEPT !.intent = "dispatched"]
  OBVIOUS
<1> HIDE DEF r, old, new
<1>4. new.status = old.status /\ new.call = old.call /\ new.delivery = old.delivery
  BY <1>2, <1>3 DEF JobRows
<1>5. OtherJobs(r) /\ job'[r] = new
  BY <1>1, <1>2, Tables DEF OtherJobs
<1> QED
  BY <1>1, <1>2, <1>4, <1>5 DEF r

LEMMA DeliveryChange ==
    ASSUME TypeInv, NEW r \in Runs, RecordReportProgress(r) \/ ReportAttemptFails(r)
    PROVE  /\ OtherJobs(r)
           /\ job[r].delivery \in {"queued", "active", "repeat"}
           /\ job'[r].call = job[r].call
           /\ \/ job'[r].status = job[r].status
              \/ job[r].status = "queued" /\ job'[r].status = "running"
           /\ job[r].delivery = "queued" => job'[r].delivery = "active"
           /\ job'[r].delivery \in {"active", "queued", "failed"}
           /\ UNCHANGED <<run, session, toolCalls, approvals, sends, emails, results, intents>>
<1> DEFINE old == job[r]
           left == old.attempts - 1
           next == IF old.attempts > 1 THEN "queued" ELSE "failed"
           status == IF old.status = "queued" THEN "running" ELSE old.status
           failed == [old EXCEPT !.attempts = left, !.delivery = next]
           begun == [old EXCEPT !.delivery = "active", !.status = status]
<1>1. /\ old.delivery \in {"queued", "active", "repeat"} /\ old \in JobRows /\ old = job[r]
      /\ \/ old.delivery = "queued" /\ job' = [job EXCEPT ![r] = begun]
         \/ old.delivery # "queued" /\ job' = [job EXCEPT ![r] = failed]
      /\ next \in {"queued", "failed"}
      /\ status = old.status \/ (old.status = "queued" /\ status = "running")
      /\ UNCHANGED <<run, session, toolCalls, approvals, sends, emails, results, intents>>
  BY Tables DEF RecordReportProgress, ReportAttemptFails
<1>2. /\ failed = [old EXCEPT !.attempts = left, !.delivery = next]
      /\ begun = [old EXCEPT !.delivery = "active", !.status = status]
  OBVIOUS
<1> HIDE DEF old, left, next, status, failed, begun
<1>3. failed.status = old.status /\ failed.call = old.call /\ failed.delivery = next
  BY <1>1, <1>2 DEF JobRows
<1>4. begun.status = status /\ begun.call = old.call /\ begun.delivery = "active"
  BY <1>1, <1>2 DEF JobRows
<1>5. OtherJobs(r) /\ job'[r] \in {begun, failed}
  BY <1>1, Tables DEF OtherJobs
<1>6. CASE old.delivery = "queued"
  BY <1>1, <1>4, <1>5, <1>6, Tables
<1>7. CASE old.delivery # "queued"
  BY <1>1, <1>3, <1>5, <1>7, Tables
<1> QED
  BY <1>6, <1>7

\* A completed job: its call, its run and its run's intent follow at once.
LEMMA CompleteJobChange ==
    ASSUME TypeInv, Reported, NEW r \in Runs, CompleteReportJob(r)
    PROVE  LET c == job[r].call IN
           /\ OtherJobs(r) /\ c \in Calls
           /\ job[r].delivery \in {"active", "repeat"}
           /\ job[r].status \in {"queued", "running", "completed"}
           /\ job'[r].call = c /\ job'[r].status = "completed"
           /\ job'[r].delivery \in {"repeat", "done"}
           /\ \/ job[r].status = "completed" /\ UNCHANGED <<toolCalls, intents>>
              \/ /\ job[r].status # "completed"
                 /\ run[r].status = "waiting_for_tool" /\ toolCalls[r][c] = "waiting_job"
                 /\ OneCell(toolCalls', toolCalls, r, c, "completed")
                 /\ intents' = [intents EXCEPT ![r][c] = "pending"]
           /\ UNCHANGED <<run, session, approvals, sends, emails, results>>
<1> DEFINE old == job[r]
           c == old.call
           next == IF old.delivery = "active" THEN "repeat" ELSE "done"
           new == [old EXCEPT !.status = "completed", !.delivery = next]
<1>1. /\ old.delivery \in {"active", "repeat"} /\ old \in JobRows /\ old = job[r]
      /\ job' = [job EXCEPT ![r] = new] /\ next \in {"repeat", "done"}
      /\ UNCHANGED <<run, session, approvals, sends, emails, results>>
  BY Tables DEF CompleteReportJob
<1>2. old.status \in {"queued", "running", "completed"} /\ c \in Calls
  BY <1>1 DEF JobRows, Reported, JobAgrees
<1>3. old.status # "completed" =>
        run[r].status = "waiting_for_tool" /\ toolCalls[r][c] = "waiting_job"
  BY <1>2 DEF Reported, JobAgrees
<1>4. \/ old.status = "completed" /\ UNCHANGED <<toolCalls, intents>>
      \/ /\ old.status # "completed"
         /\ toolCalls' = [toolCalls EXCEPT ![r][c] =
                            IF toolCalls[r][c] = "waiting_job" THEN "completed"
                            ELSE toolCalls[r][c]]
         /\ run[r].status = "waiting_for_tool" =>
                intents' = [intents EXCEPT ![r][c] = "pending"]
  BY DEF CompleteReportJob
<1>5. new = [old EXCEPT !.status = "completed", !.delivery = next]
  OBVIOUS
<1>6. \/ old.status = "completed" /\ UNCHANGED <<toolCalls, intents>>
      \/ /\ old.status # "completed"
         /\ toolCalls' = [toolCalls EXCEPT ![r][c] = "completed"]
         /\ intents' = [intents EXCEPT ![r][c] = "pending"]
  BY <1>3, <1>4
<1> HIDE DEF old, c, next, new
<1>7. new.status = "completed" /\ new.call = old.call /\ new.delivery = next
  BY <1>1, <1>5 DEF JobRows
<1>8. OtherJobs(r) /\ job'[r] = new
  BY <1>1, Tables DEF OtherJobs
<1>9. old.status # "completed" => OneCell(toolCalls', toolCalls, r, c, "completed")
  BY <1>2, <1>6, Tables, CellWritten
<1> QED
  BY <1>1, <1>2, <1>3, <1>6, <1>7, <1>8, <1>9 DEF old, c

LEMMA DecideChange ==
    ASSUME TypeInv, NEW r \in Runs, NEW c \in Calls, NEW decision \in {"approved", "rejected"},
           DecideApproval(r, c, decision)
    PROVE  /\ approvals[r][c] = "pending" /\ toolCalls[r][c] = "approval_required"
           /\ run[r].status \notin Terminal
           /\ OneCell(approvals', approvals, r, c, decision)
           /\ OneCell(toolCalls', toolCalls, r, c,
                      IF decision = "approved" THEN "running" ELSE "rejected")
           /\ IF run[r].status = "waiting_for_admin"
              THEN intents' = [intents EXCEPT ![r][c] = "pending"]
              ELSE intents' = intents
           /\ UNCHANGED <<run, session, sends, emails, results, job>>
  BY Tables, CellWritten DEF DecideApproval

LEMMA ExpireChange ==
    ASSUME TypeInv, NEW r \in Runs, NEW c \in Calls, ExpireOnDecide(r, c)
    PROVE  /\ approvals[r][c] = "pending"
           /\ OneCell(approvals', approvals, r, c, "expired")
           /\ UNCHANGED <<run, session, toolCalls, sends, emails, results, job, intents>>
  BY Tables, CellWritten DEF ExpireOnDecide

(*****************************************************************************)
(* Every step writes the tables as one of those handlers does, or not at all. *)
(*****************************************************************************)

WorkerWrites(w) ==
    \/ ReserveSimulatedSend(w) \/ ExecuteApprovedSend(w) \/ CompleteSimulatedSend(w)
    \/ ResolveSimpleLoopWait(w)
    \/ \E outcome \in {"completed", "failed"} : PersistToolOutcome(w, outcome)
    \/ \E outcome \in {"failed", "rejected"} : PersistMappedToolFailure(w, outcome)
    \/ PersistReportWait(w) \/ PersistApprovalWait(w)
    \/ EnqueueReport(w) \/ MarkReportDispatched(w)

OthersWrite(r) ==
    \/ RecordReportProgress(r) \/ ReportAttemptFails(r) \/ CompleteReportJob(r)
    \/ AdminStep(r)

Quiet ==
    /\ UNCHANGED <<toolCalls, approvals, sends, emails, results, job>>
    /\ \A w \in Workers : ~WorkerWrites(w)

LEMMA StepWrites ==
    ASSUME Next
    PROVE  \/ \E w \in Workers : WorkerWrites(w)
           \/ \E r \in Runs : OthersWrite(r)
           \/ Quiet
<1> DEFINE Kept == UNCHANGED <<toolCalls, approvals, sends, emails, results, job>>
<1>1. ASSUME NEW w \in Workers, AgentLoop(w)
      PROVE  WorkerWrites(w) \/ Kept
  BY <1>1 DEF AgentLoop, WorkerWrites, ConsumeSimpleLoopStep, BudgetExhausted,
     PersistSimpleLoopSkill, SkillRefused, EndGeneration, FailAgent, ReportRefused,
     CompleteSimpleLoopRun, AbandonStale, dbVars
<1>2. ASSUME NEW w \in Workers, Resumption(w)
      PROVE  WorkerWrites(w) \/ Kept
  BY <1>2 DEF Resumption, WorkerWrites, ReadRun, CheckWait, ReadAssignment, ClaimRunLease,
     ClaimRefused, RestoreSession, ResolveDeferredCall, ReserveRefused, dbVars
<1>3. ASSUME NEW w \in Workers, WorkerStep(w) \/ FailBeforeStep(w) \/ EnqueueFails(w) \/ Crash(w)
      PROVE  WorkerWrites(w) \/ Kept
  BY <1>1, <1>2, <1>3 DEF WorkerStep, ListPending, PickIntent,
     AcknowledgeSimpleLoopDispatch, AcknowledgeStaleDispatch, FailBeforeStep, EnqueueFails,
     Crash, dbVars
<1>4. ASSUME NEW r \in Runs,
             LeaseLapses(r) \/ LeaseOutrun(r) \/ \E c \in Calls : ApprovalDeadline(r, c)
      PROVE  Kept
  BY <1>4 DEF LeaseLapses, LeaseOutrun, ApprovalDeadline, dbVars
<1> QED
  BY <1>3, <1>4 DEF Next, OthersWrite, ReportStep, Quiet

\* What never changes back, whoever writes.
Stable ==
    \A r \in Runs :
        /\ job[r].status = "completed" => job'[r].status = "completed"
        /\ job[r].status # "none" => job'[r].status # "none" /\ job'[r].call = job[r].call
        /\ \A c \in Calls :
            /\ approvals[r][c] \in {"approved", "rejected"} => approvals'[r][c] = approvals[r][c]
            /\ approvals[r][c] = "rejected" => emails'[r][c] = emails[r][c]
            /\ emails[r][c] = 1 => emails'[r][c] = 1
            /\ sends[r][c] = "sent" => sends'[r][c] = "sent"
            /\ sends[r][c] # "none" => sends'[r][c] # "none"
            /\ toolCalls[r][c] \in {"completed", "failed", "rejected"} =>
                toolCalls'[r][c] = toolCalls[r][c]

LEMMA ResumedKept ==
    ASSUME TypeInv, DeferredInv, Stable, NEW u \in Workers, session'[u] = session[u],
           ResumedAt(u)
    PROVE  ResumedAt(u)'
<1>1. CASE session[u].pc \in Resuming
  <2>1. session[u].run \in Runs /\ session[u].wait.call \in Calls
    BY <1>1, ResumingTypes
  <2> QED
    BY <2>1 DEF Stable, ResumedAt, Approved, Settled
<1>2. CASE session[u].pc \notin Resuming
  BY <1>2 DEF ResumedAt, Resuming
<1> QED
  BY <1>1, <1>2

LEMMA ToldKept ==
    ASSUME Stable, NEW r \in Runs, NEW c \in Calls, results'[r][c] = results[r][c],
           ToldTruly(r, c)
    PROVE  ToldTruly(r, c)'
<1>1. /\ toolCalls[r][c] \in {"completed", "rejected"} => toolCalls'[r][c] = toolCalls[r][c]
      /\ emails[r][c] = 1 => emails'[r][c] = 1
      /\ sends[r][c] = "sent" => sends'[r][c] = "sent"
      /\ approvals[r][c] = "rejected" =>
            approvals'[r][c] = "rejected" /\ emails'[r][c] = emails[r][c]
      /\ job[r].status = "completed" =>
            job'[r].status = "completed" /\ job'[r].call = job[r].call
  BY DEF Stable
<1> QED
  BY <1>1 DEF ToldTruly

LEMMA ResolveChange ==
    ASSUME TypeInv, DeferredInv, NEW w \in Workers, ResolveDeferredCall(w)
    PROVE  LET r == session[w].run
               wait == session[w].wait IN
           /\ session[w].pc = "resolve" /\ OnlySession(w) /\ r \in Runs /\ wait.call \in Calls
           /\ \/ session'[w].pc = "idle"
              \/ GoesOn(w, "reserve") /\ Approved(r, wait)
              \/ GoesOn(w, "settle") /\ Settled(r, wait) /\ ~Approved(r, wait)
           /\ UNCHANGED <<dbVars, emails>>
<1> DEFINE r == session[w].run
           wait == session[w].wait
<1>1. /\ session[w].pc = "resolve"
      /\ \/ EndSession(w)
         \/ Go(w, "reserve") /\ Approved(r, wait)
         \/ Go(w, "settle") /\ WaitIsReady(r, wait) /\ ~Approved(r, wait)
      /\ UNCHANGED <<dbVars, emails>>
  BY DEF ResolveDeferredCall, At, Approved
<1>2. r \in Runs /\ wait.call \in Calls
  BY <1>1, ResumingTypes DEF Resuming
<1>3. Go(w, "reserve") => GoesOn(w, "reserve")
  BY <1>1, GoMove DEF Locations, GoesOn
<1>4. Go(w, "settle") => GoesOn(w, "settle")
  BY <1>1, GoMove DEF Locations, GoesOn
<1>5. EndSession(w) => OnlySession(w) /\ session'[w].pc = "idle"
  BY EndMove
<1>6. (WaitIsReady(r, wait) /\ ~Approved(r, wait)) => Settled(r, wait)
  BY DEF WaitIsReady, Approved, Settled
<1> QED
  BY <1>1, <1>2, <1>3, <1>4, <1>5, <1>6 DEF GoesOn

\* A quiet step leaves the waiting rows as they are.
LEMMA QuietRows ==
    ASSUME ControlInv, Move, Quiet, NEW r \in Runs
    PROVE  \/ run'[r].status = run[r].status /\ run'[r].wait = run[r].wait
           \/ run[r].status \notin Waiting /\ run'[r].status \notin Waiting
<1>1. ASSUME NEW w \in Workers, WriteMove(w)
      PROVE  \/ run'[r].status = run[r].status /\ run'[r].wait = run[r].wait
             \/ run[r].status \notin Waiting /\ run'[r].status \notin Waiting
  <2>1. Meets(w)
    BY <1>1 DEF ControlInv, StatusInv, WriteMove, LeaseHeld, IsCurrent
  <2>2. ~ResolveSimpleLoopWait(w) /\ ~PersistReportWait(w) /\ ~PersistApprovalWait(w)
    BY DEF Quiet, WorkerWrites
  <2>3. CASE r = session[w].run
    BY <1>1, <2>1, <2>2, <2>3 DEF WriteMove, Meets, Waiting, Terminal
  <2>4. CASE r # session[w].run
    BY <1>1, <2>4 DEF WriteMove, OnlyRun
  <2> QED
    BY <2>3, <2>4
<1>2. ASSUME NEW w \in Workers, SoftMove(w) \/ ClaimMove(w)
      PROVE  run'[r].status = run[r].status /\ run'[r].wait = run[r].wait
  BY <1>2 DEF SoftMove, ClaimMove, OnlyRun
<1>3. ASSUME NEW q \in Runs, LapseMove(q)
      PROVE  run'[r].status = run[r].status /\ run'[r].wait = run[r].wait
  BY <1>3 DEF LapseMove, OnlyRun
<1> QED
  BY <1>1, <1>2, <1>3 DEF Move

\* A quiet step brings a session to the queue or to a resumption's later half only
\* by resolving the wait.
LEMMA QuietSessions ==
    ASSUME TypeInv, Move, Quiet, NEW u \in Workers
    PROVE  \/ session'[u] = session[u]
           \/ session'[u].pc \notin {"enqueue", "reserve", "send", "sent", "settle"}
           \/ ResolveDeferredCall(u)
<1>1. ~WorkerWrites(u)
  BY DEF Quiet
<1>2. ASSUME NEW w \in Workers, SoftMove(w)
      PROVE  \/ session'[u] = session[u]
             \/ session'[u].pc \notin {"enqueue", "reserve", "send", "sent", "settle"}
             \/ ResolveDeferredCall(u)
  <2>1. CASE w = u
    BY <1>1, <1>2, <2>1 DEF SoftMove, WorkerWrites, Leased
  <2>2. CASE w # u
    BY <1>2, <2>2 DEF SoftMove, OnlySession
  <2> QED
    BY <2>1, <2>2
<1>3. ASSUME NEW w \in Workers, ClaimMove(w) \/ WriteMove(w)
      PROVE  \/ session'[u] = session[u]
             \/ session'[u].pc \notin {"enqueue", "reserve", "send", "sent", "settle"}
  <2>1. CASE w = u
    BY <1>1, <1>3, <2>1 DEF ClaimMove, WriteMove, WorkerWrites
  <2>2. CASE w # u
    BY <1>3, <2>2 DEF ClaimMove, WriteMove, OnlySession
  <2> QED
    BY <2>1, <2>2
<1> QED
  BY <1>2, <1>3 DEF Move, LapseMove

(*****************************************************************************)
(* The tables agree after every step: one lemma per handler.                 *)
(*****************************************************************************)

\* Nobody comes to the queue, and the jobs of those who are there are untouched.
LEMMA QueueKept ==
    ASSUME TypeInv, AtQueue,
           \A u \in Workers : session'[u].pc = "enqueue" =>
                /\ session'[u] = session[u]
                /\ job'[session[u].run].status = job[session[u].run].status
                /\ job'[session[u].run].delivery = job[session[u].run].delivery
    PROVE  AtQueue'
  BY DEF AtQueue, QueueAt

LEMMA QuietBooks ==
    ASSUME LedgerInv, Move, Quiet
    PROVE  BooksInv' /\ Stable
<1> USE DEF LedgerInv, ControlInv, EmailInv
<1>0. UNCHANGED <<toolCalls, approvals, sends, emails, results, job>> /\ BooksInv
  BY DEF Quiet
<1>1. Stable
  BY <1>0 DEF Stable
<1>2. Answered' /\ Told'
  BY <1>0 DEF BooksInv, Answered, Told, ToldTruly
<1>3. ASSUME NEW r \in Runs
      PROVE  JobAgrees(r)' /\ WaitAgrees(r)'
  <2>1. JobAgrees(r) /\ WaitAgrees(r)
    BY <1>0 DEF BooksInv, Reported, Awaited
  <2>2. \/ run'[r].status = run[r].status /\ run'[r].wait = run[r].wait
        \/ run[r].status \notin Waiting /\ run'[r].status \notin Waiting
    BY QuietRows
  <2> QED
    BY <1>0, <2>1, <2>2 DEF JobAgrees, WaitAgrees, Waiting
<1>4. ASSUME NEW u \in Workers
      PROVE  /\ session'[u].pc = "enqueue" => session'[u] = session[u]
             /\ ResumedAt(u)'
  <2>1. CASE session'[u] = session[u]
    <3>1. ResumedAt(u)
      BY <1>0 DEF BooksInv, Resumed
    <3> QED
      BY <1>1, <2>1, <3>1, ResumedKept
  <2>2. CASE session'[u].pc \notin {"enqueue", "reserve", "send", "sent", "settle"}
    BY <2>2 DEF ResumedAt
  <2>3. CASE ResolveDeferredCall(u)
    BY <1>0, <2>3, ResolveChange DEF ResumedAt, GoesOn, Approved, Settled
  <2> QED
    BY <2>1, <2>2, <2>3, QuietSessions
<1>5. AtQueue'
  BY <1>0, <1>4, QueueKept DEF BooksInv
<1> QED
  BY <1>1, <1>2, <1>3, <1>4, <1>5 DEF BooksInv, Reported, Awaited, Resumed

\* The three steps of an approved send write no run, no call and no approval.
LEMMA SendBooks ==
    ASSUME LedgerInv, NEW w \in Workers,
           ReserveSimulatedSend(w) \/ ExecuteApprovedSend(w) \/ CompleteSimulatedSend(w)
    PROVE  BooksInv' /\ Stable
<1> USE DEF LedgerInv, ControlInv, EmailInv
<1> DEFINE r == session[w].run
           c == session[w].wait.call
<1>1. /\ UNCHANGED <<run, toolCalls, approvals, results, job>>
      /\ r \in Runs /\ c \in Calls /\ OnlySession(w)
      /\ session'[w].run = r /\ session'[w].wait = session[w].wait
      /\ session[w].pc \in {"reserve", "send", "sent"}
      /\ session'[w].pc \in {"send", "sent", "settle"}
      /\ BooksInv
  BY ReserveChange, ExecuteChange, CompleteSendChange DEF GoesOn
<1>2. /\ Approved(r, session[w].wait)
      /\ session[w].pc = "sent" => emails[r][c] = 1
  BY <1>1 DEF BooksInv, Resumed, ResumedAt
<1>3. session[w].pc = "send" => emails[r][c] = 0
  BY DEF AboutToSend
<1>4. \/ /\ OneCell(sends', sends, r, c, "reserved") /\ emails' = emails
         /\ sends[r][c] = "none" /\ session'[w].pc = "send"
      \/ /\ OneCell(emails', emails, r, c, 1) /\ sends' = sends
         /\ emails[r][c] = 0 /\ session'[w].pc = "sent"
      \/ /\ OneCell(sends', sends, r, c, "sent") /\ emails' = emails
         /\ emails[r][c] = 1 /\ session'[w].pc = "settle"
  <2>1. CASE ReserveSimulatedSend(w)
    BY <2>1, ReserveChange DEF GoesOn, MayReserve
  <2>2. CASE ExecuteApprovedSend(w)
    <3>1. emails[r][c] + 1 = 1 /\ emails[r][c] = 0
      BY <1>3, <2>2, ExecuteChange
    <3> QED
      BY <2>2, <3>1, ExecuteChange DEF GoesOn
  <2>3. CASE CompleteSimulatedSend(w)
    BY <1>2, <2>3, CompleteSendChange DEF GoesOn
  <2> QED
    BY <2>1, <2>2, <2>3
<1>5. approvals[r][c] = "approved"
  BY <1>2 DEF Approved
<1> HIDE DEF r, c
<1>6. Stable
  BY <1>1, <1>4, <1>5 DEF Stable, OneCell
<1>7. Answered' /\ Reported' /\ Awaited'
  BY <1>1 DEF BooksInv, Answered, Reported, Awaited, JobAgrees, WaitAgrees
<1>8. Told'
  BY <1>1, <1>6, ToldKept DEF BooksInv, Told
<1>9. AtQueue'
  BY <1>1, QueueKept DEF BooksInv, OnlySession
<1>10. ASSUME NEW u \in Workers, u # w
       PROVE  ResumedAt(u)'
  BY <1>1, <1>6, <1>10, ResumedKept DEF OnlySession, BooksInv, Resumed
<1>11. ResumedAt(w)'
  <2>1. Approved(session[w].run, session[w].wait)'
    BY <1>1, <1>2 DEF Approved, r
  <2>2. session'[w].pc = "sent" => emails'[r][c] = 1
    BY <1>1, <1>4 DEF OneCell
  <2>3. session'[w].pc = "settle" => sends'[r][c] = "sent" /\ emails'[r][c] = 1
    BY <1>1, <1>4 DEF OneCell
  <2> QED
    BY <1>1, <2>1, <2>2, <2>3 DEF ResumedAt, Settled, r, c
<1> QED
  BY <1>1, <1>6, <1>7, <1>8, <1>9, <1>10, <1>11 DEF BooksInv, Resumed

LEMMA WaitingCall ==
    ASSUME ControlInv, NEW r \in Runs, run[r].status \in Waiting
    PROVE  run[r].wait.call \in Calls
<1>1. run[r].wait \in Waits /\ run[r].wait # NoWait
  BY RowTypes DEF ControlInv, TypeInv, RunOK, StatusInv, RowInv
<1> QED
  BY <1>1, CallOfWait

\* One session moves, to a place where it has nothing to show.
LEMMA SessionsKept ==
    ASSUME LedgerInv, Stable, NEW w \in Workers, OnlySession(w),
           session'[w].pc \in {"prompt", "finish", "ack", "mark", "enqueue"}
    PROVE  Resumed'
<1>1. ASSUME NEW u \in Workers, u # w
      PROVE  ResumedAt(u)'
  BY <1>1, ResumedKept DEF OnlySession, LedgerInv, EmailInv, BooksInv, Resumed
<1>2. ResumedAt(w)'
  BY DEF ResumedAt
<1> QED
  BY <1>1, <1>2 DEF Resumed

LEMMA SettleBooks ==
    ASSUME LedgerInv, NEW w \in Workers, ResolveSimpleLoopWait(w)
    PROVE  BooksInv' /\ Stable
<1> USE DEF LedgerInv, ControlInv, EmailInv
<1>0. PICK r \in Runs, c \in Calls, status \in CallStatuses :
        /\ OnlySession(w) /\ OnlyRun(r) /\ session'[w].pc = "prompt"
        /\ run'[r].status = "running"
        /\ run[r].wait.call = c /\ run[r].status \in Waiting
        /\ OneCell(results', results, r, c, results[r][c] + 1)
        /\ UNCHANGED <<approvals, sends, emails, job>>
        /\ OneCell(toolCalls', toolCalls, r, c, status)
        /\ Outcome(r, c, toolCalls[r][c], status)
  BY SettleChange
<1>1. /\ OnlySession(w) /\ OnlyRun(r) /\ session'[w].pc = "prompt"
      /\ run'[r].status = "running"
      /\ run[r].wait.call = c /\ run[r].status \in Waiting
      /\ OneCell(results', results, r, c, results[r][c] + 1)
      /\ UNCHANGED <<approvals, sends, emails, job>>
      /\ BooksInv
  BY <1>0
<1>2. OneCell(toolCalls', toolCalls, r, c, status) /\ Outcome(r, c, toolCalls[r][c], status)
  BY <1>0
<1>3. toolCalls[r][c] \in {"completed", "failed", "rejected"} => status = toolCalls[r][c]
  BY <1>2 DEF Outcome
<1>4. Stable
  BY <1>1, <1>2, <1>3 DEF Stable, OneCell
<1>5. Answered'
  <2>1. AnswerOf(approvals[r][c], status)
    BY <1>1, <1>2 DEF Outcome, BooksInv, Answered, AnswerOf
  <2> QED
    BY <1>1, <1>2, <2>1 DEF BooksInv, Answered, OneCell
<1>6. Reported'
  <2>1. JobAgrees(r) /\ job[r].status \in {"none", "queued", "running", "completed"}
    BY <1>1, Tables DEF BooksInv, Reported, JobRows
  <2>2. job[r].status \in {"none", "completed"}
    BY <1>2, <2>1 DEF Outcome, JobAgrees
  <2>3. JobAgrees(r)'
    BY <1>1, <1>4, <2>1, <2>2 DEF Stable, JobAgrees
  <2>4. ASSUME NEW q \in Runs, q # r
        PROVE  JobAgrees(q)'
    <3>1. JobAgrees(q) /\ run'[q] = run[q] /\ job'[q] = job[q]
      BY <1>1, <2>4 DEF BooksInv, Reported, OnlyRun
    <3>2. job[q].status # "none" => toolCalls'[q][job[q].call] = toolCalls[q][job[q].call]
      BY <1>1, <1>2, <2>4, <3>1 DEF JobAgrees, OneCell
    <3> QED
      BY <3>1, <3>2 DEF JobAgrees
  <2> QED
    BY <2>3, <2>4 DEF Reported
<1>7. Awaited'
  <2>1. ASSUME NEW q \in Runs, q # r
        PROVE  WaitAgrees(q)'
    <3>1. WaitAgrees(q) /\ run'[q] = run[q] /\ job'[q] = job[q]
      BY <1>1, <2>1 DEF BooksInv, Awaited, OnlyRun
    <3>2. run[q].status \in Waiting => run[q].wait.call \in Calls
      BY WaitingCall
    <3> QED
      BY <1>1, <1>2, <2>1, <3>1, <3>2 DEF WaitAgrees, OneCell, Waiting
  <2> QED
    BY <1>1, <2>1 DEF Awaited, WaitAgrees, Waiting
<1>8. AtQueue'
  BY <1>1, QueueKept DEF BooksInv, OnlySession
<1>9. Told'
  <2>1. results[r][c] = 0
    BY <1>1 DEF BooksInv, Awaited, WaitAgrees
  <2>2. ToldTruly(r, c)'
    BY <1>1, <1>2, <2>1 DEF ToldTruly, OneCell, Outcome
  <2>3. ASSUME NEW q \in Runs, NEW d \in Calls, q # r \/ d # c
        PROVE  ToldTruly(q, d)'
    BY <1>1, <1>4, <2>3, ToldKept DEF BooksInv, Told, OneCell
  <2> QED
    BY <2>2, <2>3 DEF Told
<1> QED
  BY <1>1, <1>4, <1>5, <1>6, <1>7, <1>8, <1>9, SessionsKept DEF BooksInv

\* A call that is not in the ledger yet has no approval, no job, no result and
\* nobody who waits for it.
LEMMA NewCall ==
    ASSUME LedgerInv, NEW r \in Runs, NEW c \in Calls, toolCalls[r][c] = "none"
    PROVE  /\ approvals[r][c] = "none" /\ results[r][c] = 0
           /\ job[r].status # "none" => job[r].call # c
           /\ run[r].status = "waiting_for_admin" => run[r].wait.call # c
<1>1. /\ AnswerOf(approvals[r][c], toolCalls[r][c]) /\ JobAgrees(r) /\ WaitAgrees(r)
      /\ ToldTruly(r, c) /\ results[r][c] \in Nat
      /\ approvals[r][c] \in ApprovalStatuses
      /\ job[r].status \in {"none", "queued", "running", "completed"}
  BY Tables DEF LedgerInv, ControlInv, BooksInv, Answered, Reported, Awaited, Told, JobRows
<1>2. approvals[r][c] = "none"
  BY <1>1 DEF AnswerOf
<1>3. results[r][c] = 0
  BY <1>1 DEF ToldTruly
<1> QED
  BY <1>1, <1>2, <1>3 DEF JobAgrees, WaitAgrees

LEMMA OutcomeBooks ==
    ASSUME LedgerInv, NEW w \in Workers,
           \/ \E outcome \in {"completed", "failed"} : PersistToolOutcome(w, outcome)
           \/ \E outcome \in {"failed", "rejected"} : PersistMappedToolFailure(w, outcome)
    PROVE  BooksInv' /\ Stable
<1> USE DEF LedgerInv, ControlInv
<1>1. PICK r \in Runs, c \in Calls :
        /\ OnlySession(w) /\ OnlyRun(r) /\ session'[w].pc \in {"prompt", "finish"}
        /\ run'[r].status = run[r].status /\ run'[r].wait = run[r].wait
        /\ toolCalls[r][c] = "none"
        /\ \E status \in {"completed", "failed", "rejected"} :
                OneCell(toolCalls', toolCalls, r, c, status)
        /\ UNCHANGED <<approvals, sends, emails, results, job>>
        /\ BooksInv
  BY OutcomeChange
<1>2. PICK status \in {"completed", "failed", "rejected"} :
        OneCell(toolCalls', toolCalls, r, c, status)
  BY <1>1
<1>3. Stable
  BY <1>1, <1>2 DEF Stable, OneCell
<1>4. Answered'
  <2>1. AnswerOf(approvals[r][c], status)
    BY <1>1, NewCall DEF AnswerOf
  <2> QED
    BY <1>1, <1>2, <2>1 DEF BooksInv, Answered, OneCell
<1>5. \A q \in Runs : run'[q].status = run[q].status /\ run'[q].wait = run[q].wait
  BY <1>1 DEF OnlyRun
<1>6. ASSUME NEW q \in Runs
      PROVE  JobAgrees(q)' /\ WaitAgrees(q)'
  <2>1. /\ JobAgrees(q) /\ WaitAgrees(q)
        /\ run'[q].status = run[q].status /\ run'[q].wait = run[q].wait
    BY <1>1, <1>5 DEF BooksInv, Reported, Awaited
  <2>2. job[q].status # "none" => toolCalls'[q][job[q].call] = toolCalls[q][job[q].call]
    BY <1>1, <1>2, <2>1, NewCall DEF JobAgrees, OneCell
  <2>3. run[q].status = "waiting_for_admin" =>
            toolCalls'[q][run[q].wait.call] = toolCalls[q][run[q].wait.call]
    BY <1>1, <1>2, NewCall, WaitingCall DEF OneCell, Waiting
  <2> QED
    BY <1>1, <2>1, <2>2, <2>3 DEF JobAgrees, WaitAgrees
<1>7. AtQueue'
  BY <1>1, QueueKept DEF BooksInv, OnlySession
<1>8. Told'
  BY <1>1, <1>3, ToldKept DEF BooksInv, Told
<1> QED
  BY <1>1, <1>3, <1>4, <1>6, <1>7, <1>8, SessionsKept DEF BooksInv, Reported, Awaited


LEMMA ModelRuns ==
    ASSUME LedgerInv, NEW w \in Workers, LeaseHeld(w), session[w].pc = "model"
    PROVE  run[session[w].run].status = "running"
<1>1. IsCurrent(w)
  BY DEF LeaseHeld, IsCurrent, Leased
<1> QED
  BY <1>1 DEF LedgerInv, ControlInv, StatusInv, Meets

LEMMA ReportWaitBooks ==
    ASSUME LedgerInv, NEW w \in Workers, PersistReportWait(w)
    PROVE  BooksInv' /\ Stable
<1> USE DEF LedgerInv, ControlInv
<1>1. PICK r \in Runs, c \in Calls :
        /\ OnlySession(w) /\ OnlyRun(r)
        /\ session'[w].pc = "enqueue" /\ session'[w].run = r
        /\ run'[r].status = "waiting_for_tool" /\ run'[r].wait.call = c
        /\ toolCalls[r][c] = "none" /\ job[r] = NoJob
        /\ OneCell(toolCalls', toolCalls, r, c, "waiting_job")
        /\ \A q \in Runs \ {r} : job'[q] = job[q]
        /\ job'[r].status = "queued" /\ job'[r].call = c /\ job'[r].delivery = "none"
        /\ UNCHANGED <<approvals, sends, emails, results>>
        /\ BooksInv
  BY ReportWaitChange
<1>2. /\ job[r].status = "none"
      /\ approvals[r][c] = "none" /\ results[r][c] = 0
  BY <1>1, NewCall DEF NoJob
<1>3. Stable
  BY <1>1, <1>2 DEF Stable, OneCell
<1>4. Answered'
  <2>1. AnswerOf(approvals[r][c], "waiting_job")
    BY <1>2 DEF AnswerOf
  <2> QED
    BY <1>1, <2>1 DEF BooksInv, Answered, OneCell
<1>5. ASSUME NEW q \in Runs
      PROVE  JobAgrees(q)' /\ WaitAgrees(q)'
  <2>1. CASE q = r
    BY <1>1, <1>2, <2>1 DEF JobAgrees, WaitAgrees, OneCell
  <2>2. CASE q # r
    <3>1. /\ JobAgrees(q) /\ WaitAgrees(q) /\ run'[q] = run[q] /\ job'[q] = job[q]
          /\ \A d \in Calls : toolCalls'[q][d] = toolCalls[q][d]
      BY <1>1, <2>2 DEF BooksInv, Reported, Awaited, OnlyRun, OneCell
    <3>2. run[q].status \in Waiting => run[q].wait.call \in Calls
      BY WaitingCall
    <3> QED
      BY <1>1, <3>1, <3>2 DEF JobAgrees, WaitAgrees, Waiting
  <2> QED
    BY <2>1, <2>2
<1>6. AtQueue'
  <2>1. ASSUME NEW u \in Workers \ {w}, session'[u].pc = "enqueue"
        PROVE  /\ session'[u] = session[u] /\ session[u].run # r
               /\ session[u].run \in Runs /\ QueueAt(u)
    BY <1>1, <1>2, <2>1, SessionTypes DEF OnlySession, BooksInv, AtQueue, QueueAt
  <2>2. QueueAt(w)'
    BY <1>1, <2>1 DEF QueueAt
  <2>3. ASSUME NEW u \in Workers \ {w}
        PROVE  QueueAt(u)'
    BY <1>1, <2>1 DEF QueueAt, OnlySession
  <2> QED
    BY <2>2, <2>3 DEF AtQueue
<1>7. Told'
  BY <1>1, <1>3, ToldKept DEF BooksInv, Told
<1> QED
  BY <1>1, <1>3, <1>4, <1>5, <1>6, <1>7, SessionsKept DEF BooksInv, Reported, Awaited

LEMMA ApprovalWaitBooks ==
    ASSUME LedgerInv, NEW w \in Workers, PersistApprovalWait(w)
    PROVE  BooksInv' /\ Stable
<1> USE DEF LedgerInv, ControlInv
<1>0. LeaseHeld(w) /\ session[w].pc = "model"
  BY DEF PersistApprovalWait, Persist, At
<1>1. PICK r \in Runs, c \in Calls :
        /\ OnlySession(w) /\ OnlyRun(r) /\ session'[w].pc = "ack"
        /\ run[r].status = "running"
        /\ run'[r].status = "waiting_for_admin" /\ run'[r].wait.call = c
        /\ toolCalls[r][c] = "none"
        /\ OneCell(toolCalls', toolCalls, r, c, "approval_required")
        /\ OneCell(approvals', approvals, r, c, "pending")
        /\ UNCHANGED <<sends, emails, results, job>>
        /\ BooksInv
  BY <1>0, ApprovalWaitChange, ModelRuns
<1>2. /\ approvals[r][c] = "none" /\ results[r][c] = 0
      /\ job[r].status # "none" => job[r].call # c
  BY <1>1, NewCall
<1>3. Stable
  BY <1>1, <1>2 DEF Stable, OneCell
<1>4. Answered'
  <2>1. AnswerOf("pending", "approval_required")
    BY DEF AnswerOf
  <2> QED
    BY <1>1, <2>1 DEF BooksInv, Answered, OneCell
<1>5. ASSUME NEW q \in Runs
      PROVE  JobAgrees(q)' /\ WaitAgrees(q)'
  <2>1. CASE q = r
    <3>1. JobAgrees(r) /\ job[r].status \notin {"queued", "running"}
      BY <1>1 DEF BooksInv, Reported, JobAgrees
    <3>2. job[r].status = "completed" => toolCalls'[r][job[r].call] = "completed"
      BY <1>1, <1>2, <3>1 DEF JobAgrees, OneCell
    <3> QED
      BY <1>1, <1>2, <2>1, <3>1, <3>2 DEF JobAgrees, WaitAgrees, OneCell
  <2>2. CASE q # r
    <3>1. /\ JobAgrees(q) /\ WaitAgrees(q) /\ run'[q] = run[q] /\ job'[q] = job[q]
          /\ \A d \in Calls : /\ toolCalls'[q][d] = toolCalls[q][d]
                              /\ approvals'[q][d] = approvals[q][d]
      BY <1>1, <2>2 DEF BooksInv, Reported, Awaited, OnlyRun, OneCell
    <3>2. run[q].status \in Waiting => run[q].wait.call \in Calls
      BY WaitingCall
    <3> QED
      BY <1>1, <3>1, <3>2 DEF JobAgrees, WaitAgrees, Waiting
  <2> QED
    BY <2>1, <2>2
<1>6. AtQueue'
  BY <1>1, QueueKept DEF BooksInv, OnlySession
<1>7. Told'
  BY <1>1, <1>3, ToldKept DEF BooksInv, Told
<1> QED
  BY <1>1, <1>3, <1>4, <1>5, <1>6, <1>7, SessionsKept DEF BooksInv, Reported, Awaited

\* The queue and its mark touch the job's delivery and intent, and no more.
LEMMA DispatchBooks ==
    ASSUME LedgerInv, NEW w \in Workers, EnqueueReport(w) \/ MarkReportDispatched(w)
    PROVE  BooksInv' /\ Stable
<1> USE DEF LedgerInv, ControlInv
<1>1. PICK r \in Runs :
        /\ OnlySession(w) /\ OtherJobs(r) /\ session[w].run = r
        /\ session'[w].pc \in {"mark", "ack"}
        /\ session[w].pc \in {"enqueue", "mark"}
        /\ job'[r].status = job[r].status /\ job'[r].call = job[r].call
        /\ session[w].pc = "enqueue" \/ job'[r].delivery = job[r].delivery
        /\ UNCHANGED <<run, toolCalls, approvals, sends, emails, results>>
        /\ BooksInv
        /\ session[w].pc = "mark" => session'[w].pc = "ack"
  BY EnqueueChange, MarkChange DEF GoesOn
<1>2. \A q \in Runs : job'[q].status = job[q].status /\ job'[q].call = job[q].call
  BY <1>1 DEF OtherJobs
<1>3. Stable
  BY <1>1, <1>2 DEF Stable
<1>4. Answered' /\ Awaited'
  BY <1>1, <1>2 DEF BooksInv, Answered, Awaited, WaitAgrees
<1>5. job[r].status = "none" => job'[r].delivery = "none"
  BY <1>1 DEF BooksInv, Reported, JobAgrees, AtQueue, QueueAt
<1>6. Reported'
  BY <1>1, <1>2, <1>5 DEF BooksInv, Reported, JobAgrees, OtherJobs
<1>7. AtQueue'
  <2> SUFFICES ASSUME NEW u \in Workers, session'[u].pc = "enqueue"
               PROVE  /\ session'[u] = session[u]
                      /\ job'[session[u].run].status = job[session[u].run].status
                      /\ job'[session[u].run].delivery = job[session[u].run].delivery
    BY <1>1, QueueKept DEF BooksInv
  <2>1. /\ u # w /\ session'[u] = session[u] /\ session[u].run \in Runs
        /\ QueueAt(u)
    BY <1>1, SessionTypes DEF OnlySession, BooksInv, AtQueue
  <2>2. session[w].pc = "enqueue" => session[u].run # r
    BY <1>1, <2>1 DEF QueueAt
  <2> QED
    BY <1>1, <1>2, <2>1, <2>2 DEF OtherJobs
<1>8. Told'
  BY <1>1, <1>3, ToldKept DEF BooksInv, Told
<1> QED
  BY <1>1, <1>3, <1>4, <1>6, <1>7, <1>8, SessionsKept DEF BooksInv

\* A step that no session takes: what was shown to a session is still shown.
LEMMA NobodyMoved ==
    ASSUME LedgerInv, Stable, session' = session
    PROVE  Resumed'
  BY ResumedKept DEF LedgerInv, ControlInv, EmailInv, BooksInv, Resumed

LEMMA DeliveryBooks ==
    ASSUME LedgerInv, NEW r \in Runs, RecordReportProgress(r) \/ ReportAttemptFails(r)
    PROVE  BooksInv' /\ Stable
<1> USE DEF LedgerInv, ControlInv
<1>1. /\ OtherJobs(r)
      /\ job[r].delivery # "none"
      /\ job'[r].call = job[r].call
      /\ \/ job'[r].status = job[r].status
         \/ job[r].status = "queued" /\ job'[r].status = "running"
      /\ UNCHANGED <<run, session, toolCalls, approvals, sends, emails, results>>
      /\ BooksInv
  BY DeliveryChange
<1>2. Stable
  BY <1>1 DEF Stable, OtherJobs
<1>3. Answered'
  BY <1>1 DEF BooksInv, Answered
<1>4. ASSUME NEW q \in Runs
      PROVE  JobAgrees(q)' /\ WaitAgrees(q)'
  <2>1. JobAgrees(q) /\ WaitAgrees(q)
    BY <1>1 DEF BooksInv, Reported, Awaited
  <2>2. CASE q = r
    BY <1>1, <2>1, <2>2 DEF JobAgrees, WaitAgrees
  <2>3. CASE q # r
    BY <1>1, <2>1, <2>3 DEF JobAgrees, WaitAgrees, OtherJobs
  <2> QED
    BY <2>2, <2>3
<1>5. AtQueue'
  <2> SUFFICES ASSUME NEW u \in Workers, session'[u].pc = "enqueue"
               PROVE  /\ session'[u] = session[u]
                      /\ job'[session[u].run].status = job[session[u].run].status
                      /\ job'[session[u].run].delivery = job[session[u].run].delivery
    BY <1>1, QueueKept DEF BooksInv
  <2>1. session[u].run \in Runs /\ session[u].run # r
    BY <1>1, SessionTypes DEF BooksInv, AtQueue, QueueAt
  <2> QED
    BY <1>1, <2>1 DEF OtherJobs
<1>6. Told'
  BY <1>1, <1>2, ToldKept DEF BooksInv, Told
<1> QED
  BY <1>1, <1>2, <1>3, <1>4, <1>5, <1>6, NobodyMoved DEF BooksInv, Reported, Awaited

LEMMA CompleteJobBooks ==
    ASSUME LedgerInv, NEW r \in Runs, CompleteReportJob(r)
    PROVE  BooksInv' /\ Stable
<1> USE DEF LedgerInv, ControlInv
<1>1. PICK c \in Calls :
        /\ OtherJobs(r) /\ job[r].call = c
        /\ job[r].delivery # "none" /\ job[r].status # "none"
        /\ job'[r].call = c /\ job'[r].status = "completed"
        /\ \/ job[r].status = "completed" /\ toolCalls' = toolCalls
           \/ /\ job[r].status # "completed"
              /\ run[r].status = "waiting_for_tool" /\ toolCalls[r][c] = "waiting_job"
              /\ OneCell(toolCalls', toolCalls, r, c, "completed")
        /\ UNCHANGED <<run, session, approvals, sends, emails, results>>
        /\ BooksInv
  BY CompleteJobChange DEF BooksInv
<1>2. Stable
  BY <1>1 DEF Stable, OtherJobs, OneCell
<1>3. Answered'
  <2>1. toolCalls[r][c] = "waiting_job" => AnswerOf(approvals[r][c], "completed")
    BY <1>1 DEF BooksInv, Answered, AnswerOf
  <2> QED
    BY <1>1, <2>1 DEF BooksInv, Answered, OneCell
<1>4. ASSUME NEW q \in Runs
      PROVE  JobAgrees(q)' /\ WaitAgrees(q)'
  <2>1. JobAgrees(q) /\ WaitAgrees(q)
    BY <1>1 DEF BooksInv, Reported, Awaited
  <2>2. CASE q = r
    <3>1. toolCalls'[r][c] = "completed"
      BY <1>1, <2>1, <2>2 DEF JobAgrees, OneCell
    <3> QED
      BY <1>1, <2>1, <2>2, <3>1 DEF JobAgrees, WaitAgrees
  <2>3. CASE q # r
    <3>1. \A d \in Calls : toolCalls'[q][d] = toolCalls[q][d]
      BY <1>1, <2>3 DEF OneCell
    <3>2. run[q].status \in Waiting => run[q].wait.call \in Calls
      BY WaitingCall
    <3>3. job'[q] = job[q]
      BY <1>1, <2>3 DEF OtherJobs
    <3> QED
      BY <1>1, <2>1, <3>1, <3>2, <3>3 DEF JobAgrees, WaitAgrees, Waiting
  <2> QED
    BY <2>2, <2>3
<1>5. AtQueue'
  <2> SUFFICES ASSUME NEW u \in Workers, session'[u].pc = "enqueue"
               PROVE  /\ session'[u] = session[u]
                      /\ job'[session[u].run].status = job[session[u].run].status
                      /\ job'[session[u].run].delivery = job[session[u].run].delivery
    BY <1>1, QueueKept DEF BooksInv
  <2>1. session[u].run \in Runs /\ session[u].run # r
    BY <1>1, SessionTypes DEF BooksInv, AtQueue, QueueAt
  <2> QED
    BY <1>1, <2>1 DEF OtherJobs
<1>6. Told'
  BY <1>1, <1>2, ToldKept DEF BooksInv, Told
<1> QED
  BY <1>1, <1>2, <1>3, <1>4, <1>5, <1>6, NobodyMoved DEF BooksInv, Reported, Awaited

\* A decision, or the record that it came too late.
LEMMA DecisionBooks ==
    ASSUME LedgerInv, NEW r \in Runs, AdminStep(r)
    PROVE  BooksInv' /\ Stable
<1> USE DEF LedgerInv, ControlInv
<1>1. PICK c \in Calls :
        /\ approvals[r][c] = "pending"
        /\ \/ \E decision \in {"approved", "rejected"} : DecideApproval(r, c, decision)
           \/ ExpireOnDecide(r, c)
  BY DEF AdminStep, DecideApproval, ExpireOnDecide
<1>2. PICK decision \in {"approved", "rejected", "expired"},
           status \in {"running", "rejected", "approval_required"} :
        /\ OneCell(approvals', approvals, r, c, decision)
        /\ \/ OneCell(toolCalls', toolCalls, r, c, status)
        /\ AnswerOf(decision, status)
        /\ UNCHANGED <<run, session, sends, emails, results, job>>
        /\ BooksInv /\ toolCalls[r][c] = "approval_required"
  <2>1. toolCalls[r][c] = "approval_required" /\ BooksInv
    BY <1>1 DEF BooksInv, Answered, AnswerOf
  <2>2. CASE \E decision \in {"approved", "rejected"} : DecideApproval(r, c, decision)
    BY <2>1, <2>2, DecideChange DEF AnswerOf
  <2>3. CASE ExpireOnDecide(r, c)
    BY <2>1, <2>3, ExpireChange DEF AnswerOf, OneCell
  <2> QED
    BY <1>1, <2>2, <2>3
<1>3. Stable
  BY <1>1, <1>2 DEF Stable, OneCell
<1>4. Answered'
  BY <1>2 DEF BooksInv, Answered, OneCell
<1>5. ASSUME NEW q \in Runs
      PROVE  JobAgrees(q)' /\ WaitAgrees(q)'
  <2>1. JobAgrees(q) /\ WaitAgrees(q)
        /\ job[q].status \in {"none", "queued", "running", "completed"}
    BY <1>2, Tables DEF BooksInv, Reported, Awaited, JobRows
  <2>2. job[q].status # "none" => toolCalls'[q][job[q].call] = toolCalls[q][job[q].call]
    BY <1>2, <2>1 DEF JobAgrees, OneCell
  <2>3. run[q].status = "waiting_for_admin" =>
            /\ approvals'[q][run[q].wait.call] # "none"
            /\ toolCalls'[q][run[q].wait.call] # "completed"
    BY <1>2, <2>1, WaitingCall DEF WaitAgrees, OneCell, Waiting
  <2> QED
    BY <1>2, <2>1, <2>2, <2>3 DEF JobAgrees, WaitAgrees
<1>6. AtQueue'
  BY <1>2, QueueKept DEF BooksInv
<1>7. Told'
  BY <1>2, <1>3, ToldKept DEF BooksInv, Told
<1> QED
  BY <1>2, <1>3, <1>4, <1>5, <1>6, <1>7, NobodyMoved DEF BooksInv, Reported, Awaited

LEMMA BooksStep ==
    ASSUME LedgerInv, Next
    PROVE  BooksInv' /\ Stable
<1>1. Move
  BY StepMove DEF LedgerInv, ControlInv
<1>2. ASSUME NEW w \in Workers, WorkerWrites(w)
      PROVE  BooksInv' /\ Stable
  BY <1>2, SendBooks, SettleBooks, OutcomeBooks, ReportWaitBooks, ApprovalWaitBooks,
     DispatchBooks DEF WorkerWrites
<1>3. ASSUME NEW r \in Runs, OthersWrite(r)
      PROVE  BooksInv' /\ Stable
  BY <1>3, DeliveryBooks, CompleteJobBooks, DecisionBooks DEF OthersWrite
<1> QED
  BY <1>1, <1>2, <1>3, QuietBooks, StepWrites

LEMMA LedgerInit == Init => LedgerInv
<1> SUFFICES ASSUME Init
             PROVE  LedgerInv
  OBVIOUS
<1>1. \A w \in Workers : session[w].pc = "idle"
  BY IdleFacts DEF Init
<1>2. ControlInv /\ EmailInv
  BY ControlInit, EmailInit
<1>3. WaitInv
  BY <1>1 DEF Init, WaitInv, SessionWaits, RowWaits, IsCurrent, Leased, Resuming
<1>4. Reported
  BY DEF Init, Reported, JobAgrees, NoJob, Calls
<1>5. Answered /\ Awaited /\ Told
  BY DEF Init, Answered, AnswerOf, Awaited, WaitAgrees, Told, ToldTruly, Waiting
<1>6. AtQueue /\ Resumed
  BY <1>1 DEF AtQueue, QueueAt, Resumed, ResumedAt
<1> QED
  BY <1>2, <1>3, <1>4, <1>5, <1>6 DEF LedgerInv, BooksInv

LEMMA LedgerKept == LedgerInv /\ [Next]_vars => LedgerInv'
<1> SUFFICES ASSUME LedgerInv, [Next]_vars
             PROVE  LedgerInv'
  OBVIOUS
<1>1. CASE Next
  <2>1. Move
    BY <1>1, StepMove DEF LedgerInv, ControlInv
  <2>2. ControlInv' /\ EmailInv' /\ WaitInv'
    BY <1>1, <2>1, ControlStep, EmailKept, WaitStep DEF LedgerInv, ControlInv
  <2> QED
    BY <1>1, <2>2, BooksStep DEF LedgerInv
<1>2. CASE UNCHANGED vars
  <2>1. ControlInv' /\ EmailInv'
    BY <1>2, ControlStep, EmailKept DEF LedgerInv, ControlInv
  <2>2. WaitInv'
    BY <1>2 DEF vars, LedgerInv, WaitInv, SessionWaits, RowWaits, IsCurrent
  <2>3. Answered' /\ Reported' /\ Awaited' /\ Told'
    BY <1>2 DEF vars, LedgerInv, BooksInv, Answered, Reported, JobAgrees, Awaited, WaitAgrees,
       Told, ToldTruly
  <2>4. AtQueue' /\ Resumed'
    BY <1>2 DEF vars, LedgerInv, BooksInv, AtQueue, QueueAt, Resumed, ResumedAt, Approved,
       Settled
  <2> QED
    BY <2>1, <2>2, <2>3, <2>4 DEF LedgerInv, BooksInv
<1> QED
  BY <1>1, <1>2

LEMMA LedgerInvariance == Spec => []LedgerInv
  BY LedgerInit, LedgerKept, PTL DEF Spec

\* For every number of runs, workers, steps, faults and lapses: a run that waits
\* names a call that the ledger and the table of jobs or approvals also hold as
\* deferred, and a run that does not wait has no wait left over, though the row,
\* the ledger and the tables are written by different handlers at different times.
THEOREM WaitsAgree == Spec => []WaitAgreement
<1>1. ASSUME LedgerInv, NEW r \in Runs
      PROVE  LET row == run[r]  c == row.wait.call IN
             /\ row.status = "waiting_for_tool" =>
                 /\ row.wait.kind = "report"
                 /\ job[r].call = c
                 /\ toolCalls[r][c] = IF job[r].status = "completed" THEN "completed"
                                      ELSE "waiting_job"
             /\ row.status = "waiting_for_admin" =>
                 /\ row.wait.kind = "approval"
                 /\ <<approvals[r][c], toolCalls[r][c]>> \in
                         {<<"pending", "approval_required">>, <<"approved", "running">>,
                          <<"rejected", "rejected">>, <<"expired", "approval_required">>}
             /\ row.status \in {"queued", "running", "completed"} => row.wait = NoWait
  <2> USE DEF LedgerInv, ControlInv, BooksInv
  <2> DEFINE c == run[r].wait.call
  <2>1. /\ run[r].status = "waiting_for_tool" => run[r].wait.kind = "report"
        /\ run[r].status = "waiting_for_admin" => run[r].wait.kind = "approval"
        /\ run[r].status \in {"queued", "running", "completed"} => run[r].wait = NoWait
    BY <1>1 DEF WaitInv, RowWaits, StatusInv, RowInv
  <2>2. run[r].status \in Waiting => c \in Calls
    BY <1>1, WaitingCall
  <2>3. WaitAgrees(r) /\ JobAgrees(r)
        /\ job[r].status \in {"none", "queued", "running", "completed"}
    BY <1>1, Tables DEF Awaited, Reported, JobRows
  <2>4. c \in Calls => AnswerOf(approvals[r][c], toolCalls[r][c])
    BY <1>1 DEF Answered
  <2>5. run[r].status = "waiting_for_tool" =>
            /\ job[r].call = c
            /\ toolCalls[r][c] = IF job[r].status = "completed" THEN "completed"
                                 ELSE "waiting_job"
    BY <2>2, <2>3 DEF WaitAgrees, JobAgrees, Waiting
  <2>6. run[r].status = "waiting_for_admin" =>
            <<approvals[r][c], toolCalls[r][c]>> \in
                    {<<"pending", "approval_required">>, <<"approved", "running">>,
                     <<"rejected", "rejected">>, <<"expired", "approval_required">>}
    BY <2>2, <2>3, <2>4 DEF WaitAgrees, AnswerOf, Waiting
  <2> QED
    BY <2>1, <2>5, <2>6
<1>2. LedgerInv => WaitAgreement
  BY <1>1 DEF WaitAgreement
<1> QED
  BY <1>2, LedgerInvariance, PTL

\* For every value of the constants: a deferred call is answered at most once, and
\* what the model is told of it is what happened.
THEOREM ToldOnce == Spec => []ResultsTold
<1>1. LedgerInv => ResultsTold
  BY DEF LedgerInv, BooksInv, Told, ToldTruly, ResultsTold
<1> QED
  BY <1>1, LedgerInvariance, PTL

(*****************************************************************************)
(* The tables of the contracts.                                              *)
(*****************************************************************************)

\* The body of LegalCallTransitions, for one run.
MovesLegally(r) ==
    /\ job'[r].status # job[r].status =>
        <<job[r].status, job'[r].status>> \in JobTransitions
    /\ \A c \in Calls :
        /\ toolCalls'[r][c] # toolCalls[r][c] =>
            <<toolCalls[r][c], toolCalls'[r][c]>> \in ToolCallTransitions
        /\ approvals'[r][c] # approvals[r][c] =>
            <<approvals[r][c], approvals'[r][c]>> \in ApprovalTransitions

LEMMA TablesMove ==
    ASSUME LedgerInv, Next, NEW q \in Runs
    PROVE  MovesLegally(q)
<1> USE DEF LedgerInv, ControlInv, EmailInv
<1>1. ASSUME NEW w \in Workers,
             ReserveSimulatedSend(w) \/ ExecuteApprovedSend(w) \/ CompleteSimulatedSend(w)
      PROVE  MovesLegally(q)
  BY <1>1, ReserveChange, ExecuteChange, CompleteSendChange DEF MovesLegally
<1>2. ASSUME NEW w \in Workers, ResolveSimpleLoopWait(w)
      PROVE  MovesLegally(q)
  <2>1. PICK r \in Runs, c \in Calls, status \in CallStatuses :
          /\ OneCell(toolCalls', toolCalls, r, c, status)
          /\ Outcome(r, c, toolCalls[r][c], status)
          /\ UNCHANGED <<approvals, job>>
    BY <1>2, SettleChange
  <2>2. toolCalls[r][c] # status => <<toolCalls[r][c], status>> \in ToolCallTransitions
    BY <2>1 DEF Outcome, ToolCallTransitions
  <2> QED
    BY <2>1, <2>2 DEF MovesLegally, OneCell
<1>3. ASSUME NEW w \in Workers,
             \/ \E outcome \in {"completed", "failed"} : PersistToolOutcome(w, outcome)
             \/ \E outcome \in {"failed", "rejected"} : PersistMappedToolFailure(w, outcome)
      PROVE  MovesLegally(q)
  <2>1. PICK r \in Runs, c \in Calls, status \in {"completed", "failed", "rejected"} :
          /\ OneCell(toolCalls', toolCalls, r, c, status) /\ toolCalls[r][c] = "none"
          /\ UNCHANGED <<approvals, job>>
    BY <1>3, OutcomeChange
  <2>2. <<"none", status>> \in ToolCallTransitions
    BY DEF ToolCallTransitions, CallStatuses
  <2> QED
    BY <2>1, <2>2 DEF MovesLegally, OneCell
<1>4. ASSUME NEW w \in Workers, PersistReportWait(w)
      PROVE  MovesLegally(q)
  <2>1. PICK r \in Runs, c \in Calls :
          /\ OneCell(toolCalls', toolCalls, r, c, "waiting_job") /\ toolCalls[r][c] = "none"
          /\ \A p \in Runs \ {r} : job'[p] = job[p]
          /\ job[r] = NoJob /\ job'[r].status = "queued" /\ UNCHANGED approvals
    BY <1>4, ReportWaitChange
  <2>2. <<"none", "waiting_job">> \in ToolCallTransitions /\ <<"none", "queued">> \in JobTransitions
    BY DEF ToolCallTransitions, CallStatuses, JobTransitions
  <2>3. job'[q].status = job[q].status \/ (job[q].status = "none" /\ job'[q].status = "queued")
    BY <2>1 DEF NoJob
  <2> QED
    BY <2>1, <2>2, <2>3 DEF MovesLegally, OneCell
<1>5. ASSUME NEW w \in Workers, PersistApprovalWait(w)
      PROVE  MovesLegally(q)
  <2>1. PICK r \in Runs, c \in Calls :
          /\ OneCell(toolCalls', toolCalls, r, c, "approval_required")
          /\ OneCell(approvals', approvals, r, c, "pending")
          /\ toolCalls[r][c] = "none" /\ UNCHANGED job
    BY <1>5, ApprovalWaitChange
  <2>2. approvals[r][c] = "none"
    BY <2>1, NewCall
  <2>3. /\ <<"none", "approval_required">> \in ToolCallTransitions
        /\ <<"none", "pending">> \in ApprovalTransitions
    BY DEF ToolCallTransitions, CallStatuses, ApprovalTransitions
  <2> QED
    BY <2>1, <2>2, <2>3 DEF MovesLegally, OneCell
<1>6. ASSUME NEW w \in Workers, EnqueueReport(w) \/ MarkReportDispatched(w)
      PROVE  MovesLegally(q)
  <2>1. job'[q].status = job[q].status /\ UNCHANGED <<toolCalls, approvals>>
    BY <1>6, EnqueueChange, MarkChange DEF OtherJobs
  <2> QED
    BY <2>1 DEF MovesLegally
<1>7. ASSUME NEW r \in Runs, RecordReportProgress(r) \/ ReportAttemptFails(r)
      PROVE  MovesLegally(q)
  <2>1. /\ UNCHANGED <<toolCalls, approvals>>
        /\ \/ job'[q].status = job[q].status
           \/ job[q].status = "queued" /\ job'[q].status = "running"
    BY <1>7, DeliveryChange DEF OtherJobs
  <2>2. <<"queued", "running">> \in JobTransitions
    BY DEF JobTransitions
  <2> QED
    BY <2>1, <2>2 DEF MovesLegally
<1>8. ASSUME NEW r \in Runs, CompleteReportJob(r)
      PROVE  MovesLegally(q)
  <2>1. PICK c \in Calls :
          /\ OtherJobs(r) /\ UNCHANGED approvals
          /\ job[r].status \in {"queued", "running", "completed"}
          /\ job'[r].status = "completed"
          /\ \/ UNCHANGED toolCalls
             \/ /\ toolCalls[r][c] = "waiting_job"
                /\ OneCell(toolCalls', toolCalls, r, c, "completed")
    BY <1>8, CompleteJobChange DEF BooksInv
  <2>2. /\ <<"waiting_job", "completed">> \in ToolCallTransitions
        /\ <<"queued", "completed">> \in JobTransitions
        /\ <<"running", "completed">> \in JobTransitions
    BY DEF ToolCallTransitions, JobTransitions
  <2> QED
    BY <2>1, <2>2 DEF MovesLegally, OneCell, OtherJobs
<1>9. ASSUME NEW r \in Runs, AdminStep(r)
      PROVE  MovesLegally(q)
  <2>1. PICK c \in Calls :
          /\ approvals[r][c] = "pending" /\ UNCHANGED job
          /\ \/ \E decision \in {"approved", "rejected"} :
                  /\ OneCell(approvals', approvals, r, c, decision)
                  /\ toolCalls[r][c] = "approval_required"
                  /\ \E status \in {"running", "rejected"} :
                        OneCell(toolCalls', toolCalls, r, c, status)
             \/ OneCell(approvals', approvals, r, c, "expired") /\ UNCHANGED toolCalls
    <3>1. PICK c \in Calls :
            \/ \E decision \in {"approved", "rejected"} : DecideApproval(r, c, decision)
            \/ ExpireOnDecide(r, c)
      BY <1>9 DEF AdminStep
    <3>2. CASE \E decision \in {"approved", "rejected"} : DecideApproval(r, c, decision)
      BY <3>2, DecideChange
    <3>3. CASE ExpireOnDecide(r, c)
      BY <3>3, ExpireChange
    <3> QED
      BY <3>1, <3>2, <3>3
  <2>2. /\ {<<"approval_required", "running">>, <<"approval_required", "rejected">>}
              \subseteq ToolCallTransitions
        /\ {<<"pending", "approved">>, <<"pending", "rejected">>, <<"pending", "expired">>}
              \subseteq ApprovalTransitions
    BY DEF ToolCallTransitions, ApprovalTransitions
  <2> QED
    BY <2>1, <2>2 DEF MovesLegally, OneCell
<1>10. CASE Quiet
  BY <1>10 DEF Quiet, MovesLegally
<1> QED
  BY <1>1, <1>2, <1>3, <1>4, <1>5, <1>6, <1>7, <1>8, <1>9, <1>10, StepWrites
     DEF WorkerWrites, OthersWrite

\* For every value of the constants, in every step: calls, approvals and report jobs
\* move along the tables of the contracts, which most handlers of the loop do not consult.
THEOREM LegalCalls == Spec => LegalCallTransitions
<1>1. LedgerInv /\ [Next]_vars =>
        [\A r \in Runs :
            /\ job'[r].status # job[r].status =>
                <<job[r].status, job'[r].status>> \in JobTransitions
            /\ \A c \in Calls :
                /\ toolCalls'[r][c] # toolCalls[r][c] =>
                    <<toolCalls[r][c], toolCalls'[r][c]>> \in ToolCallTransitions
                /\ approvals'[r][c] # approvals[r][c] =>
                    <<approvals[r][c], approvals'[r][c]>> \in ApprovalTransitions]_vars
  BY TablesMove DEF MovesLegally
<1> QED
  BY <1>1, LedgerInvariance, PTL DEF Spec, LegalCallTransitions

(*****************************************************************************)
(* Stranded runs.  The row of a run that waits moves only when a session that *)
(* holds it settles the wait, and no step makes such a session for a stranded *)
(* run.                                                                      *)
(*****************************************************************************)

LEMMA RowStays ==
    ASSUME LedgerInv, Move, NEW r \in Runs, run[r].status \in Waiting,
           \A w \in Workers : ~(session[w].run = r /\ session[w].pc = "settle" /\ LeaseHeld(w))
    PROVE  run'[r].status = run[r].status /\ run'[r].wait = run[r].wait
<1>1. ASSUME NEW w \in Workers, WriteMove(w)
      PROVE  session[w].run # r
  <2>1. Meets(w)
    BY <1>1 DEF LedgerInv, ControlInv, StatusInv, WriteMove, LeaseHeld, IsCurrent
  <2> QED
    BY <1>1, <2>1 DEF WriteMove, Meets, Waiting
<1>2. ASSUME NEW w \in Workers, SoftMove(w) \/ ClaimMove(w) \/ WriteMove(w)
      PROVE  run'[r].status = run[r].status /\ run'[r].wait = run[r].wait
  BY <1>1, <1>2 DEF SoftMove, ClaimMove, WriteMove, OnlyRun
<1>3. ASSUME NEW q \in Runs, LapseMove(q)
      PROVE  run'[r].status = run[r].status /\ run'[r].wait = run[r].wait
  BY <1>3 DEF LapseMove, OnlyRun
<1> QED
  BY <1>2, <1>3 DEF Move

\* An approval's time does not come back.
LEMMA OverdueKept ==
    ASSUME Next
    PROVE  overdue \subseteq overdue'
<1>1. ASSUME NEW w \in Workers, WorkerStep(w) \/ FailBeforeStep(w) \/ EnqueueFails(w) \/ Crash(w)
      PROVE  overdue' = overdue
  <2>1. ASSUME AgentLoop(w)
        PROVE  overdue' = overdue
    BY <2>1 DEF AgentLoop, ConsumeSimpleLoopStep, BudgetExhausted, PersistSimpleLoopSkill,
       SkillRefused, PersistToolOutcome, PersistMappedToolFailure, EndGeneration, FailAgent,
       PersistReportWait, ReportRefused, EnqueueReport, MarkReportDispatched,
       PersistApprovalWait, CompleteSimpleLoopRun, AbandonStale
  <2>2. ASSUME Resumption(w)
        PROVE  overdue' = overdue
    BY <2>2 DEF Resumption, ReadRun, CheckWait, ReadAssignment, ClaimRunLease, ClaimRefused,
       RestoreSession, ResolveDeferredCall, ReserveSimulatedSend, ReserveRefused,
       ExecuteApprovedSend, CompleteSimulatedSend, ResolveSimpleLoopWait
  <2> QED
    BY <1>1, <2>1, <2>2 DEF WorkerStep, ListPending, PickIntent,
       AcknowledgeSimpleLoopDispatch, AcknowledgeStaleDispatch, FailBeforeStep, EnqueueFails, Crash
<1>2. ASSUME NEW r \in Runs,
             \/ ReportStep(r) \/ AdminStep(r) \/ ReportAttemptFails(r)
             \/ LeaseLapses(r) \/ LeaseOutrun(r) \/ \E c \in Calls : ApprovalDeadline(r, c)
      PROVE  overdue \subseteq overdue'
  BY <1>2 DEF ReportStep, RecordReportProgress, CompleteReportJob, AdminStep, DecideApproval,
     ExpireOnDecide, ReportAttemptFails, LeaseLapses, LeaseOutrun, ApprovalDeadline
<1> QED
  BY <1>1, <1>2 DEF Next

\* No session comes to hold a stranded run between its reservation and its result.
LEMMA NoNewSender ==
    ASSUME LedgerInv, Move, NEW r \in Runs, SendStranded(r), NEW w \in Workers
    PROVE  ~(session'[w].run = r /\ session'[w].pc \in {"send", "sent", "settle"}
                /\ LeaseHeld(w)')
<1> SUFFICES ASSUME session'[w].run = r, session'[w].pc \in {"send", "sent", "settle"},
                    LeaseHeld(w)'
             PROVE  FALSE
  OBVIOUS
<1> DEFINE c == run[r].wait.call
<1>1. /\ run[r].status = "waiting_for_admin" /\ run[r].wait.kind = "approval"
      /\ approvals[r][c] = "approved" /\ ~MayReserve(r, c)
      /\ ~(session[w].run = r /\ session[w].pc \in {"send", "sent", "settle"} /\ LeaseHeld(w))
  BY DEF SendStranded, MayReserve, LedgerInv, WaitInv, RowWaits
<1>2. CASE SoftMove(w)
  <2>1. /\ run' = run /\ session[w].run = r /\ session[w].pc \in {"resolve", "reserve"}
        /\ session'[w].version = session[w].version
        /\ session'[w].fencing = session[w].fencing
        /\ ResolveDeferredCall(w) \/ ReserveSimulatedSend(w)
           \/ ExecuteApprovedSend(w) \/ CompleteSimulatedSend(w)
    BY <1>1, <1>2 DEF SoftMove, LeaseHeld, Leased
  <2>2. LeaseHeld(w)
    BY <2>1 DEF LeaseHeld
  <2>3. session[w].wait = run[r].wait
    BY <2>1, <2>2, CurrentWait DEF Resuming
  <2>4. CASE ResolveDeferredCall(w)
    <3>1. Approved(r, session[w].wait)
      BY <1>1, <2>3 DEF Approved
    <3> QED
      BY <2>1, <2>4, <3>1, ResolveChange DEF LedgerInv, ControlInv, EmailInv, GoesOn
  <2>5. CASE ReserveSimulatedSend(w)
    BY <1>1, <2>1, <2>3, <2>5, ReserveChange DEF LedgerInv, ControlInv, EmailInv
  <2>6. CASE ExecuteApprovedSend(w) \/ CompleteSimulatedSend(w)
    BY <2>1, <2>6 DEF ExecuteApprovedSend, CompleteSimulatedSend, At
  <2> QED
    BY <2>1, <2>4, <2>5, <2>6
<1>3. CASE ClaimMove(w) \/ WriteMove(w)
  BY <1>3 DEF ClaimMove, WriteMove
<1>4. ASSUME NEW u \in Workers, u # w, SoftMove(u) \/ ClaimMove(u) \/ WriteMove(u)
      PROVE  FALSE
  <2>1. session'[w] = session[w]
    BY <1>4 DEF SoftMove, ClaimMove, WriteMove, OnlySession
  <2>2. CASE SoftMove(u)
    BY <1>1, <2>1, <2>2 DEF SoftMove, LeaseHeld
  <2>3. CASE ClaimMove(u)
    BY <1>1, <1>4, <2>1, <2>3 DEF ClaimMove, OnlyRun, LeaseHeld
  <2>4. CASE WriteMove(u)
    <3>1. Meets(u)
      BY <2>4 DEF LedgerInv, ControlInv, StatusInv, WriteMove, LeaseHeld, IsCurrent
    <3>2. session[u].run # r
      BY <1>1, <2>4, <3>1 DEF WriteMove, Meets, Waiting, SendStranded
    <3> QED
      BY <1>1, <2>1, <2>4, <3>2 DEF WriteMove, OnlyRun, LeaseHeld
  <2> QED
    BY <1>4, <2>2, <2>3, <2>4
<1>5. ASSUME NEW q \in Runs, LapseMove(q)
      PROVE  FALSE
  BY <1>1, <1>5 DEF LapseMove, OnlyRun, LeaseHeld
<1>6. CASE UNCHANGED <<run, session>>
  BY <1>1, <1>6 DEF LeaseHeld
<1> QED
  BY <1>2, <1>3, <1>4, <1>5, <1>6 DEF Move

LEMMA SendStaysStranded ==
    ASSUME LedgerInv, Next, NEW r \in Runs, SendStranded(r)
    PROVE  SendStranded(r)'
<1>1. Move /\ Stable /\ overdue \subseteq overdue'
  BY StepMove, BooksStep, OverdueKept DEF LedgerInv, ControlInv
<1>2. run'[r].status = run[r].status /\ run'[r].wait = run[r].wait
  BY <1>1, RowStays DEF SendStranded, Waiting
<1>3. run[r].wait.call \in Calls
  BY WaitingCall DEF SendStranded, LedgerInv, Waiting
<1>4. \A w \in Workers :
        ~(session'[w].run = r /\ session'[w].pc \in {"send", "sent", "settle"} /\ LeaseHeld(w)')
  BY <1>1, NoNewSender
<1>5. approvals'[r][run[r].wait.call] = "approved"
  BY <1>1, <1>3 DEF SendStranded, Stable
<1>6. sends'[r][run[r].wait.call] # "none" \/ <<r, run[r].wait.call>> \in overdue'
  BY <1>1, <1>3 DEF SendStranded, Stable
<1> QED
  BY <1>2, <1>4, <1>5, <1>6 DEF SendStranded

\* Nobody delivers, completes or replaces the job of a stranded run.
LEMMA StrandedJob ==
    ASSUME LedgerInv, Next, NEW r \in Runs, ReportStranded(r)
    PROVE  job'[r].status = job[r].status /\ job'[r].delivery = job[r].delivery
<1> USE DEF LedgerInv, ControlInv, EmailInv
<1>1. /\ job[r].status \in {"queued", "running"}
      /\ job[r].delivery \in {"failed", "none"}
      /\ \A w \in Workers :
            session[w].pc = "enqueue" => session[w].run # r
  BY DEF ReportStranded, BooksInv, AtQueue, QueueAt
<1>2. ASSUME NEW w \in Workers, WorkerWrites(w)
      PROVE  job'[r].status = job[r].status /\ job'[r].delivery = job[r].delivery
  <2>1. CASE EnqueueReport(w)
    BY <1>1, <2>1, EnqueueChange DEF OtherJobs
  <2>2. CASE MarkReportDispatched(w)
    BY <2>2, MarkChange DEF OtherJobs
  <2>3. CASE PersistReportWait(w)
    BY <1>1, <2>3, ReportWaitChange DEF NoJob
  <2>4. CASE \/ ReserveSimulatedSend(w) \/ ExecuteApprovedSend(w) \/ CompleteSimulatedSend(w)
             \/ ResolveSimpleLoopWait(w) \/ PersistApprovalWait(w)
    BY <2>4, ReserveChange, ExecuteChange, CompleteSendChange, SettleChange, ApprovalWaitChange
  <2>5. CASE \/ \E outcome \in {"completed", "failed"} : PersistToolOutcome(w, outcome)
             \/ \E outcome \in {"failed", "rejected"} : PersistMappedToolFailure(w, outcome)
    BY <2>5, OutcomeChange
  <2> QED
    BY <1>2, <2>1, <2>2, <2>3, <2>4, <2>5 DEF WorkerWrites
<1>3. ASSUME NEW q \in Runs, OthersWrite(q)
      PROVE  job'[r].status = job[r].status /\ job'[r].delivery = job[r].delivery
  <2>1. CASE RecordReportProgress(q) \/ ReportAttemptFails(q)
    BY <1>1, <2>1, DeliveryChange DEF OtherJobs
  <2>2. CASE CompleteReportJob(q)
    BY <1>1, <2>2, CompleteJobChange DEF OtherJobs, BooksInv
  <2>3. CASE AdminStep(q)
    BY <2>3 DEF AdminStep, DecideApproval, ExpireOnDecide
  <2> QED
    BY <1>3, <2>1, <2>2, <2>3 DEF OthersWrite
<1> QED
  BY <1>2, <1>3, StepWrites DEF Quiet

LEMMA ReportStaysStranded ==
    ASSUME LedgerInv, Next, NEW r \in Runs, ReportStranded(r)
    PROVE  ReportStranded(r)'
<1>1. Move
  BY StepMove DEF LedgerInv, ControlInv
<1>2. job'[r].status = job[r].status /\ job'[r].delivery = job[r].delivery
  BY StrandedJob
<1>3. ASSUME NEW w \in Workers, session[w].run = r, session[w].pc = "settle", LeaseHeld(w)
      PROVE  FALSE
  BY <1>3, SettleOutcome DEF ReportStranded, Outcome
<1>4. run'[r].status = run[r].status
  BY <1>1, <1>3, RowStays DEF ReportStranded, Waiting
<1>5. ASSUME NEW w \in Workers, session'[w].pc = "enqueue", session'[w].run = r
      PROVE  session[w].pc = "enqueue" /\ session[w].run = r
  <2>1. ~PersistReportWait(w) \/ session[w].run # r
    BY DEF PersistReportWait, ReportStranded, NoJob
  <2>2. session'[w] = session[w] \/ SoftMove(w) \/ ClaimMove(w) \/ WriteMove(w)
    <3>1. ASSUME NEW u \in Workers, u # w, SoftMove(u) \/ ClaimMove(u) \/ WriteMove(u)
          PROVE  session'[w] = session[w]
      BY <3>1 DEF SoftMove, ClaimMove, WriteMove, OnlySession
    <3> QED
      BY <1>1, <3>1 DEF Move, LapseMove
  <2>3. ~SoftMove(w) /\ ~ClaimMove(w)
    BY <1>5 DEF SoftMove, ClaimMove
  <2>4. ~WriteMove(w)
    BY <1>5, <2>1 DEF WriteMove
  <2> QED
    BY <1>5, <2>2, <2>3, <2>4
<1> QED
  BY <1>2, <1>4, <1>5 DEF ReportStranded

\* For every value of the constants: a run whose approved send was lost with the
\* session that had reserved it, or was not made in time, and a run whose report job
\* was never handed to the queue or was given up by it, wait for ever: no sequence of
\* steps of any actor brings them on.
THEOREM NoWayOut == Spec => StrandedForever
<1>1. ASSUME LedgerInv, UNCHANGED vars, NEW r \in Runs
      PROVE  /\ SendStranded(r) => SendStranded(r)'
             /\ ReportStranded(r) => ReportStranded(r)'
  BY <1>1 DEF vars, SendStranded, ReportStranded, LeaseHeld
<1>2. LedgerInv /\ [Next]_vars =>
        [\A r \in Runs :
            /\ SendStranded(r) => SendStranded(r)'
            /\ ReportStranded(r) => ReportStranded(r)']_vars
  BY <1>1, SendStaysStranded, ReportStaysStranded
<1> QED
  BY <1>2, LedgerInvariance, PTL DEF Spec, StrandedForever
=============================================================================
