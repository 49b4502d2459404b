---------------------------- MODULE ApprovalsPage ----------------------------
(***************************************************************************)
(* The admin's approvals page: the cards it shows, the calls it has under  *)
(* way and the runs it is subscribed to.                                   *)
(*                                                                         *)
(* When it opens, the page fetches the pending approvals and the list of   *)
(* runs, subscribes to every run that has not ended, fetches the approvals *)
(* once more and only then shows the cards.  An approval event of a run it *)
(* is subscribed to makes it fetch approvals and runs again.  Each fetch of *)
(* approvals and each decision takes a version; the answer to a fetch that *)
(* is not the latest any more is dropped.                                  *)
(***************************************************************************)
EXTENDS RunLog

CONSTANTS
    MaxCalls,      \* bound: calls under way at a time
    MaxVersion,    \* bound: fetches and decisions of the page
    MaxBroken      \* bound: calls that fail

ASSUME PanelAssumption == MaxCalls \in Nat \ {0} /\ MaxVersion \in Nat /\ MaxBroken \in Nat

VARIABLES
    panel,    \* what the hook's refs and states hold
    watch,    \* watch[n]: the subscription to a run, with the position it was fed to
    call,     \* call[i]: a call to the server and what it has done so far
    broken    \* calls that failed (bounded by MaxBroken)

panelVars == <<past, panel, watch, call, broken>>

-----------------------------------------------------------------------------

Runs == 1..Len(MaxLogs)       \* 0 stands for no run
CallSlots == 1..MaxCalls
Decisions == {"approved", "rejected"}

\* A run has one approval, so its card is named by the run.  "starting" counts
\* the first calls of the page that are still under way.
Panels ==
    [open: BOOLEAN, cards: [Runs -> {"absent", "pending"} \cup Decisions],
     deciding: Runs \cup {0}, version: 0..MaxVersion,
     starting: 0..2, initialized: BOOLEAN, error: BOOLEAN]

\* "first" says that the page subscribed when it opened.
NotWatched == [on |-> FALSE, at |-> 0, first |-> FALSE]
Watches ==
    [on: BOOLEAN, at: UNION {0..MaxLogs[n] : n \in Runs}, first: BOOLEAN]

\* "starts" marks the calls the page opens with and "finishes" the fetch that
\* follows them; "amid" are the runs that were being decided when it was made.
Idle == [kind |-> "idle", version |-> 0, starts |-> FALSE, finishes |-> FALSE, amid |-> {},
         run |-> 0, decision |-> "approved", outcome |-> "open", since |-> 1]
Calls ==
    [kind: {"idle", "approvals", "runs", "decide"}, version: 0..MaxVersion,
     starts: BOOLEAN, finishes: BOOLEAN, amid: SUBSET Runs,
     run: Runs \cup {0}, decision: Decisions, outcome: {"open", "done", "refused"},
     since: Nat]

PanelTypeOK ==
    /\ PastTypeOK
    /\ panel \in Panels
    /\ watch \in [Runs -> Watches]
    /\ call \in [CallSlots -> Calls]
    /\ broken \in 0..MaxBroken

PanelInit ==
    /\ PastInit
    /\ panel = [open |-> FALSE, cards |-> [n \in Runs |-> "absent"], deciding |-> 0,
                version |-> 0, starting |-> 0, initialized |-> FALSE,
                error |-> FALSE]
    /\ watch = [n \in Runs |-> NotWatched]
    /\ call = [i \in CallSlots |-> Idle]
    /\ broken = 0

-----------------------------------------------------------------------------

UnderDecision == {call[i].run : i \in {i \in CallSlots : call[i].kind = "decide"}}

FetchApprovals(version) ==
    [Idle EXCEPT !.kind = "approvals", !.version = version, !.amid = UnderDecision, !.since = Now]
FetchRuns == [Idle EXCEPT !.kind = "runs", !.since = Now]

\* Calls are made: they take the first idle slots.
IdleSlots == {i \in CallSlots : call[i].kind = "idle"}
FirstOf(S) == CHOOSE i \in S : \A j \in S : i <= j
Start(q) == IdleSlots # {} /\ call' = [call EXCEPT ![FirstOf(IdleSlots)] = q]
StartBoth(q, r) ==
    LET i == FirstOf(IdleSlots) IN
    /\ Cardinality(IdleSlots) >= 2
    /\ call' = [call EXCEPT ![i] = q, ![FirstOf(IdleSlots \ {i})] = r]

Done(i) == [call EXCEPT ![i] = Idle]

\* The effect that opens the page.
Open ==
    /\ ~panel.open
    /\ panel.version < MaxVersion
    /\ panel' = [panel EXCEPT !.open = TRUE, !.version = @ + 1, !.starting = 2]
    /\ StartBoth([FetchApprovals(panel.version + 1) EXCEPT !.starts = TRUE],
                 [FetchRuns EXCEPT !.starts = TRUE])
    /\ UNCHANGED <<past, watch, broken>>

\* Mutant: the page is ready when its first calls are answered.
ReadyAtOnce(i, next) ==
    LET last == call[i].starts /\ panel.starting = 1 IN
    /\ panel' = [next EXCEPT !.starting = IF call[i].starts THEN @ - 1 ELSE @,
                             !.initialized = @ \/ last]
    /\ call' = Done(i)

\* Mutant: every answer counts as one to the first calls.
CountEveryAnswer(i, next) ==
    IF panel.starting = 1
    THEN /\ panel.version < MaxVersion
         /\ panel' = [next EXCEPT !.starting = 0, !.version = @ + 1]
         /\ call' = [call EXCEPT ![i] =
                        [FetchApprovals(panel.version + 1) EXCEPT !.finishes = TRUE]]
    ELSE /\ panel' = [next EXCEPT !.starting = @ - 1]
         /\ call' = Done(i)

\* The page goes on to "next" with the answer to call i; when both first calls
\* are answered, the approvals are fetched once more.
Answered(i, next) ==
    IF call[i].starts /\ panel.starting = 1
    THEN /\ panel.version < MaxVersion
         /\ panel' = [next EXCEPT !.starting = 0, !.version = @ + 1]
         /\ call' = [call EXCEPT ![i] =
                        [FetchApprovals(panel.version + 1) EXCEPT !.finishes = TRUE]]
    ELSE /\ panel' = [next EXCEPT !.starting = IF call[i].starts THEN @ - 1 ELSE @]
         /\ call' = Done(i)

\* Mutant: only the card being decided is retained.
MergedForgetful(pending) ==
    [n \in Runs |->
        IF n \in pending THEN "pending"
        ELSE IF panel.cards[n] = "pending" /\ panel.deciding = n
        THEN panel.cards[n] ELSE "absent"]

\* The cards that are pending at the server, those that were decided, and the one
\* whose decision is under way.
Merged(pending) ==
    [n \in Runs |->
        IF n \in pending THEN "pending"
        ELSE IF panel.cards[n] \in Decisions \/ panel.deciding = n
        THEN panel.cards[n] ELSE "absent"]

PendingAt(m) == {n \in 1..Len(past[m]) : past[m][n].approval = "pending"}

\* load, the answer.
TakeApprovals(i) ==
    LET q == call[i] IN
    /\ q.kind = "approvals"
    /\ IF q.version # panel.version
       THEN Answered(i, panel)
       ELSE \E m \in q.since..Now :
            Answered(i, [panel EXCEPT !.cards = Merged(PendingAt(m)),
                                      !.initialized = @ \/ q.finishes])
    /\ UNCHANGED <<past, watch, broken>>

\* runs.list reads the runs' names, then of each run its row and its cursor.
Rows(n, m) ==
    {[live |-> past[at[1]][n].status \notin Terminal, at |-> LengthAt(n, at[2])] :
        at \in {at \in Changes(n, m) \X Changes(n, m) : at[1] <= at[2]}}
Listings(m) ==
    LET listed == 1..Len(past[m])
        rows == [n \in listed |-> Rows(n, m)] IN
    {list \in [listed -> UNION {rows[n] : n \in listed}] : \A n \in listed : list[n] \in rows[n]}

\* reconcileSubscriptions, the answer; nothing keeps an old one from being taken.
TakeRuns(i) ==
    LET q == call[i] IN
    /\ q.kind = "runs"
    /\ \E m \in q.since..Now : \E list \in Listings(m) :
        watch' = [n \in Runs |->
                    IF n \notin DOMAIN list \/ ~list[n].live THEN NotWatched
                    ELSE IF watch[n].on THEN watch[n]
                    ELSE [on |-> TRUE, at |-> list[n].at, first |-> q.starts]]
    /\ Answered(i, panel)
    /\ UNCHANGED <<past, broken>>

\* onEvent: refresh.
ApprovalEvent(n) ==
    LET next == NextShown(ApprovalEvents, n, watch[n].at) IN
    /\ watch[n].on
    /\ next # 0
    /\ panel.version < MaxVersion
    /\ watch' = [watch EXCEPT ![n].at = next]
    /\ panel' = [panel EXCEPT !.version = @ + 1]
    /\ StartBoth(FetchApprovals(panel.version + 1), FetchRuns)
    /\ UNCHANGED <<past, broken>>

\* approve and reject; the card being decided is disabled, the others are not.
Decide(n, decision) ==
    /\ panel.initialized
    /\ panel.cards[n] = "pending"
    /\ panel.deciding # n
    /\ panel.version < MaxVersion
    /\ panel' = [panel EXCEPT !.version = @ + 1, !.deciding = n,
                              !.error = FALSE]
    /\ Start([Idle EXCEPT !.kind = "decide", !.run = n, !.decision = decision])
    /\ UNCHANGED <<past, watch, broken>>

\* The server decides, refuses what is decided, or finds that it is too late.
ServerDecides(i) ==
    LET q == call[i] IN
    /\ q.kind = "decide"
    /\ q.outcome = "open"
    /\ \/ /\ DecideApproval(q.run, q.decision)
          /\ call' = [call EXCEPT ![i].outcome = "done"]
       \/ /\ ExpireOnDecide(q.run)
          /\ call' = [call EXCEPT ![i].outcome = "refused"]
       \/ /\ runs[q.run].approval # "pending"
          /\ call' = [call EXCEPT ![i].outcome = "refused"]
          /\ UNCHANGED past
    /\ UNCHANGED <<panel, watch, broken>>

\* upsert, or the error, and in either case no decision under way.
TakeDecision(i) ==
    LET q == call[i] IN
    /\ q.kind = "decide"
    /\ q.outcome # "open"
    /\ panel' = [panel EXCEPT !.cards[q.run] = IF q.outcome = "done" THEN q.decision ELSE @,
                              !.deciding = 0, !.error = @ \/ q.outcome = "refused"]
    /\ call' = Done(i)
    /\ UNCHANGED <<past, watch, broken>>

\* A call fails, before or after the server did its part.
Break(i) ==
    LET q == call[i] IN
    /\ q.kind # "idle"
    /\ broken < MaxBroken
    /\ broken' = broken + 1
    /\ panel' = [panel EXCEPT !.deciding = IF q.kind = "decide" THEN 0 ELSE @,
                              !.error = TRUE]
    /\ call' = Done(i)
    /\ UNCHANGED <<past, watch>>

-----------------------------------------------------------------------------
(* Others: the user's page, the runtimes, and another page of the admin.   *)

OthersAct ==
    /\ \/ \E c \in Conversations : AdmitNewRun(c)
       \/ \E n \in Admitted : RuntimeStep(n) \/ \E d \in Decisions : DecideApproval(n, d)
    /\ UNCHANGED <<panel, watch, call, broken>>

Answer(i) == TakeApprovals(i) \/ TakeRuns(i) \/ TakeDecision(i)

PanelNext ==
    \/ Open
    \/ OthersAct
    \/ \E n \in Runs : ApprovalEvent(n) \/ \E d \in Decisions : Decide(n, d)
    \/ \E i \in CallSlots : Answer(i) \/ ServerDecides(i) \/ Break(i)

PanelSpec == PanelInit /\ [][PanelNext]_panelVars

\* The page opens, events and answers arrive, and the server does what it is asked.
PanelFairness ==
    /\ WF_panelVars(Open)
    /\ \A n \in Runs : WF_panelVars(ApprovalEvent(n))
    /\ \A i \in CallSlots : WF_panelVars(Answer(i)) /\ WF_panelVars(ServerDecides(i))

PanelFairSpec == PanelSpec /\ PanelFairness

-----------------------------------------------------------------------------
(* Properties.                                                             *)

\* No call under way and no event to come.
PanelAtRest ==
    /\ panel.open
    /\ IdleSlots = CallSlots
    /\ \A n \in Runs : watch[n].on => NextShown(ApprovalEvents, n, watch[n].at) = 0
    /\ broken = 0

\* A page at rest that shows no error shows every pending approval of the runs it
\* subscribed to when it opened, and as pending only those and the ones that
\* expired, of which no event tells: the fetch after the subscriptions leaves no
\* gap, and a fetch that was dropped for a decision is made up for by the
\* decision's own event (useApprovals' effect), if the page is subscribed to it.
ListIsComplete ==
    /\ PanelAtRest
    /\ ~panel.error
    /\ \A n \in Runs : panel.cards[n] \in Decisions => watch[n].first
    =>
        \A n \in Admitted : watch[n].first =>
            /\ runs[n].approval = "pending" => panel.cards[n] = "pending"
            /\ panel.cards[n] = "pending" => runs[n].approval \in {"pending", "expired"}

\* "The prepared snapshot remains mounted for review": a recorded decision stays
\* on the screen, whatever is fetched after it; only the answer to a fetch that
\* was made while it was under way may show it as pending again.
DecisionStays ==
    [][\A n \in Runs :
        panel.cards[n] \in Decisions /\ panel'.cards[n] # panel.cards[n] =>
            /\ panel'.cards[n] = "pending"
            /\ \E i \in CallSlots : n \in call[i].amid /\ call'[i].kind = "idle"]_panelVars

\* "New exact snapshots appear without a page refresh": an approval that waits is
\* shown in the end, unless it is decided before.
PendingNow == PendingAt(Now)
OnScreen == {n \in Runs : panel.initialized /\ panel.cards[n] # "absent"}
PendingAppears == \A n \in Runs : n \in PendingNow ~> n \in OnScreen \/ n \notin PendingNow
=============================================================================
