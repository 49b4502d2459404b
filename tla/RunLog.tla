------------------------------- MODULE RunLog -------------------------------
(***************************************************************************)
(* The server as its browser pages see it: the conversations' runs, each   *)
(* with a status, an approval and a log of events, and the queries that    *)
(* read them.  A transaction of a runtime changes a run and appends to its *)
(* log at once; how it comes to do so is the matter of SimpleLoop,         *)
(* StateWorkflow and AdminGuidance, whose transactions are repeated here   *)
(* with nothing but their effect on status and log.                        *)
(***************************************************************************)
EXTENDS Contracts, Naturals, Sequences, FiniteSets

CONSTANTS
    Conversations, \* conversations of the user
    None,          \* no conversation
    Features,      \* what a run may do: "work", "guidance", "approval", "failure"
    MaxLogs        \* bound: how many runs are admitted, and the events of each

ASSUME ServerAssumption ==
    /\ Features \subseteq {"work", "guidance", "approval", "failure"}
    /\ MaxLogs \in Seq(Nat \ {0}) \ {<<>>}

\* The database keeps the present only.  The past is kept here for the queries:
\* each of their statements reads one of the moments since the call was made.
VARIABLE past      \* past[m][n]: the n-th admitted run at moment m

-----------------------------------------------------------------------------

Now == Len(past)
runs == past[Now]

\* visibility: "user" in the schema of every event that is not listed here; a
\* sequence number is an event's position in the log.
HiddenEvents == {"approval.requested", "approval.approved", "approval.rejected",
                 "admin.command.applied"}
ApprovalEvents == {"approval.requested", "approval.approved", "approval.rejected"}
EventTypes == HiddenEvents \cup
    {"message.completed", "run.status_changed", "tool.call.started",
     "tool.call.completed", "tool.call.rejected"}

RunRecords ==
    [home: Conversations, status: Statuses, approval: ApprovalStatuses,
     log: Seq(EventTypes)]

RunNumbers == 1..Len(MaxLogs)   \* 0 stands for no run
Positions == UNION {0..MaxLogs[n] : n \in RunNumbers}

PastTypeOK == past \in Seq(Seq(RunRecords)) /\ Now > 0

Admitted == 1..Len(runs)
LogLength(n) == Len(runs[n].log)

\* The positions of a run's log that a viewer is shown (projectEvents and the
\* subscription's include), and the next one after a cursor, 0 if there is none.
UserEvents == EventTypes \ HiddenEvents
ShownTo(types, n) == {i \in 1..LogLength(n) : runs[n].log[i] \in types}
NextShown(types, n, cursor) ==
    LET later == {i \in ShownTo(types, n) : i > cursor} IN
    IF later = {} THEN 0 ELSE CHOOSE i \in later : \A j \in later : i <= j

\* readConversationApiProjection: the conversation's messages, and its latest run.
RunsOf(c, m) == {n \in 1..Len(past[m]) : past[m][n].home = c}
Messages(c, m) ==
    (RunsOf(c, m) \X {"user"}) \cup
    ({n \in RunsOf(c, m) : past[m][n].status \in Terminal} \X {"ai"})
LatestRun(c, m) ==
    IF RunsOf(c, m) = {} THEN 0
    ELSE CHOOSE n \in RunsOf(c, m) : \A k \in RunsOf(c, m) : k <= n

\* createProjectionService.get reads the run, then the events for the cursor, then
\* the events to show: three statements, at moments since the call at which the
\* run changed.
LengthAt(n, m) == Len(past[m][n].log)
Changes(n, since) == {m \in since..Now : m = since \/ past[m][n] # past[m - 1][n]}
SnapshotMoments(n, since) ==
    LET moments == Changes(n, since) IN
    {at \in moments \X moments \X moments : at[1] <= at[2] /\ at[2] <= at[3]}

\* The events of a run at moment m that a viewer is shown, in their order: the k-th
\* is the one up to which k are shown.
ShownAt(types, n, m) == {i \in 1..LengthAt(n, m) : past[m][n].log[i] \in types}
EventsAt(types, n, m) ==
    LET shown == ShownAt(types, n, m) IN
    [k \in 1..Cardinality(shown) |->
        <<n, CHOOSE i \in shown : Cardinality({j \in shown : j <= i}) = k>>]

-----------------------------------------------------------------------------
(* The transactions.                                                       *)

PastInit == past = <<<<>>>>

\* admitNewRun: the run, its user's message and its first event.
AdmitNewRun(c) ==
    /\ Len(runs) < Len(MaxLogs)
    /\ past' = Append(past, Append(runs,
            [home |-> c, status |-> "queued", approval |-> "none",
             log |-> <<"message.completed">>]))

\* Status and events of one transaction.
Commit(n, status, approval, events) ==
    LET run == runs[n] IN
    /\ LogLength(n) + Len(events) <= MaxLogs[n]
    /\ past' = Append(past, [runs EXCEPT ![n] =
            [run EXCEPT !.status = status, !.approval = approval, !.log = run.log \o events]])

\* The first step of a run.
ConsumeFirstStep(n) ==
    /\ runs[n].status = "queued"
    /\ Commit(n, "running", runs[n].approval, <<"run.status_changed">>)

\* A tool the worker executes itself.
PersistToolOutcome(n) ==
    /\ "work" \in Features
    /\ runs[n].status = "running"
    /\ Commit(n, "running", runs[n].approval, <<"tool.call.started", "tool.call.completed">>)

\* A hidden command is applied at a boundary.
ApplyAdminCommand(n) ==
    /\ "guidance" \in Features
    /\ runs[n].status \in {"queued", "running"}
    /\ Commit(n, runs[n].status, runs[n].approval, <<"admin.command.applied">>)

PersistApprovalWait(n) ==
    /\ "approval" \in Features
    /\ runs[n].status = "running"
    /\ runs[n].approval = "none"
    /\ Commit(n, "waiting_for_admin", "pending", <<"approval.requested", "run.status_changed">>)

DecideApproval(n, decision) ==
    /\ runs[n].approval = "pending"
    /\ runs[n].status \notin Terminal
    /\ Commit(n, runs[n].status, decision,
              IF decision = "approved" THEN <<"approval.approved">> ELSE <<"approval.rejected">>)

\* A decision after expiresAt: the approval expires, and no event says so.
ExpireOnDecide(n) ==
    /\ runs[n].approval = "pending"
    /\ Commit(n, runs[n].status, "expired", <<>>)

ResolveWait(n) ==
    /\ runs[n].status = "waiting_for_admin"
    /\ runs[n].approval \in {"approved", "rejected"}
    /\ Commit(n, "running", runs[n].approval,
              IF runs[n].approval = "approved"
              THEN <<"tool.call.completed", "run.status_changed">>
              ELSE <<"tool.call.rejected", "run.status_changed">>)

\* The answer and the end of the run, which fails before its first step if a call
\* does that the step makes.
CompleteRun(n, verdict) ==
    /\ verdict = "completed" \/ "failure" \in Features
    /\ runs[n].status = "running" \/ (runs[n].status = "queued" /\ verdict = "failed")
    /\ Commit(n, verdict, runs[n].approval, <<"message.completed", "run.status_changed">>)

RuntimeStep(n) ==
    \/ ConsumeFirstStep(n) \/ PersistToolOutcome(n) \/ ApplyAdminCommand(n)
    \/ PersistApprovalWait(n) \/ ResolveWait(n)
    \/ \E verdict \in Terminal : CompleteRun(n, verdict)
=============================================================================
