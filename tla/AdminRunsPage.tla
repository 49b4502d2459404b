---------------------------- MODULE AdminRunsPage ----------------------------
(***************************************************************************)
(* The admin's runs page: the listing of runs, the run that is selected,   *)
(* its projection and events, hidden ones included, and the subscription.  *)
(*                                                                         *)
(* A projection is taken only if its run is still selected and no other    *)
(* projection was asked for since; a listing is taken whenever it comes.   *)
(* An event of the selected run makes the page ask for both again.         *)
(* Sending a hidden command only shows that it is under way, and is left   *)
(* out; so is the choice of its conversation.                              *)
(***************************************************************************)
EXTENDS RunLog

CONSTANTS
    MaxVisits,     \* bound: calls under way at a time
    MaxChoices,    \* bound: runs the admin selects, one after the other
    MaxMisses      \* bound: calls that fail

ASSUME DeskAssumption ==
    /\ MaxVisits \in Nat \ {0}
    /\ MaxChoices \in Nat \ {0}
    /\ MaxMisses \in Nat

VARIABLES
    desk,      \* what the hook's refs and states hold
    feed,      \* the subscription: its run, and the position it has been fed to
    visit,     \* visit[i]: a call to the server
    misses     \* calls that failed (bounded by MaxMisses)

deskVars == <<past, desk, feed, visit, misses>>

-----------------------------------------------------------------------------

VisitSlots == 1..MaxVisits

\* "newest" is the call for a projection that projectionRequest numbers, if it is
\* under way; "changed" are the states whose effects are still to run.
NoView == [run |-> 0, status |-> "queued", cursor |-> 0, whole |-> TRUE]
Desks ==
    [open: BOOLEAN, list: SUBSET RunNumbers, run: RunNumbers \cup {0},
     view: [run: RunNumbers \cup {0}, status: Statuses, cursor: Positions, whole: BOOLEAN],
     shown: Seq(RunNumbers \X Positions), newest: VisitSlots \cup {0},
     choices: 0..MaxChoices, changed: SUBSET {"run", "view"}]

NoFeed == [run |-> 0, at |-> 0]
NoVisit == [kind |-> "none", run |-> 0, since |-> 1]

DeskTypeOK ==
    /\ PastTypeOK
    /\ desk \in Desks
    /\ feed \in [run: RunNumbers \cup {0}, at: Positions]
    /\ visit \in [VisitSlots ->
            [kind: {"none", "run", "list"}, run: RunNumbers \cup {0}, since: Nat]]
    /\ misses \in 0..MaxMisses

DeskInit ==
    /\ PastInit
    /\ desk = [open |-> FALSE, list |-> {}, run |-> 0, view |-> NoView, shown |-> <<>>,
               newest |-> 0, choices |-> 0, changed |-> {}]
    /\ feed = NoFeed
    /\ visit = [i \in VisitSlots |-> NoVisit]
    /\ misses = 0

-----------------------------------------------------------------------------

AskRun(n) == [kind |-> "run", run |-> n, since |-> Now]
AskList == [kind |-> "list", run |-> 0, since |-> Now]

OpenSlots == {i \in VisitSlots : visit[i].kind = "none"}
FirstSlot(S) == CHOOSE i \in S : \A j \in S : i <= j
Ended(i) == [visit EXCEPT ![i] = NoVisit]

\* The effect that opens the page.
OpenDesk ==
    /\ ~desk.open
    /\ desk' = [desk EXCEPT !.open = TRUE]
    /\ visit' = [visit EXCEPT ![FirstSlot(OpenSlots)] = AskList]
    /\ UNCHANGED <<past, feed, misses>>

\* selectRun; the number of the request goes up.
Selected(d, n) ==
    [d EXCEPT !.run = n, !.newest = 0, !.view = NoView, !.shown = <<>>,
              !.choices = @ + 1, !.changed = @ \cup {"run", "view"}]

SelectRun(n) ==
    /\ desk.changed = {}
    /\ n \in desk.list
    /\ n # desk.run
    /\ desk.choices < MaxChoices
    /\ desk' = Selected(desk, n)
    /\ UNCHANGED <<past, feed, visit, misses>>

\* The effects of a render: a selected run is asked for, and the subscription is
\* made anew from the projection's cursor, which is of the selected run.
Render ==
    LET slot == FirstSlot(OpenSlots) IN
    /\ desk.changed # {}
    /\ feed' = IF desk.run = 0 \/ desk.view = NoView THEN NoFeed
               ELSE [run |-> desk.run, at |-> desk.view.cursor]
    /\ IF "run" \in desk.changed
       THEN /\ OpenSlots # {}
            /\ visit' = [visit EXCEPT ![slot] = AskRun(desk.run)]
            /\ desk' = [desk EXCEPT !.changed = {}, !.newest = slot]
       ELSE /\ desk' = [desk EXCEPT !.changed = {}]
            /\ UNCHANGED visit
    /\ UNCHANGED <<past, misses>>

\* loadRuns, the answer: the first run listed is selected if none is.  Which one
\* comes first is left open.
TakeList(i) ==
    LET q == visit[i] IN
    /\ desk.changed = {}
    /\ q.kind = "list"
    /\ \E m \in q.since..Now :
        LET listed == [desk EXCEPT !.list = 1..Len(past[m])] IN
        IF desk.run # 0 \/ past[m] = <<>>
        THEN desk' = listed
        ELSE \E n \in 1..Len(past[m]) : desk' = Selected(listed, n)
    /\ visit' = Ended(i)
    /\ UNCHANGED <<past, feed, misses>>

\* loadRun, the answer.
TakeRun(i) ==
    LET q == visit[i] IN
    /\ desk.changed = {}
    /\ q.kind = "run"
    /\ IF desk.run = q.run /\ desk.newest = i
       THEN \E at \in SnapshotMoments(q.run, q.since) :
            desk' = [desk EXCEPT
                !.view = [run |-> q.run, status |-> past[at[1]][q.run].status,
                          cursor |-> LengthAt(q.run, at[2]), whole |-> at[1] = at[3]],
                !.shown = EventsAt(EventTypes, q.run, at[3]),
                !.newest = 0, !.changed = {"view"}]
       ELSE UNCHANGED desk
    /\ visit' = Ended(i)
    /\ UNCHANGED <<past, feed, misses>>

\* Mutant: the event makes the page ask for the listing only.
ArriveListsOnly ==
    LET next == NextShown(EventTypes, feed.run, feed.at)
        event == <<feed.run, next>> IN
    /\ feed.run # 0
    /\ next # 0
    /\ feed' = [feed EXCEPT !.at = next]
    /\ IF desk.run = feed.run /\ \A k \in 1..Len(desk.shown) : desk.shown[k] # event
       THEN /\ OpenSlots # {}
            /\ desk' = [desk EXCEPT !.shown = Append(@, event)]
            /\ visit' = [visit EXCEPT ![FirstSlot(OpenSlots)] = AskList]
       ELSE UNCHANGED <<desk, visit>>
    /\ UNCHANGED <<past, misses>>

\* onEvent
FeedArrives ==
    LET next == NextShown(EventTypes, feed.run, feed.at)
        event == <<feed.run, next>>
        first == FirstSlot(OpenSlots)
        second == FirstSlot(OpenSlots \ {first}) IN
    /\ feed.run # 0
    /\ next # 0
    /\ feed' = [feed EXCEPT !.at = next]
    /\ IF desk.run = feed.run /\ \A k \in 1..Len(desk.shown) : desk.shown[k] # event
       THEN /\ Cardinality(OpenSlots) >= 2
            /\ desk' = [desk EXCEPT !.shown = Append(@, event), !.newest = first]
            /\ visit' = [visit EXCEPT ![first] = AskRun(feed.run), ![second] = AskList]
       ELSE UNCHANGED <<desk, visit>>
    /\ UNCHANGED <<past, misses>>

\* A call fails; after an event nobody hears of it.
Miss(i) ==
    /\ visit[i].kind # "none"
    /\ misses < MaxMisses
    /\ misses' = misses + 1
    /\ desk' = [desk EXCEPT !.newest = IF @ = i THEN 0 ELSE @]
    /\ visit' = Ended(i)
    /\ UNCHANGED <<past, feed>>

-----------------------------------------------------------------------------

ServerActs ==
    /\ \/ \E c \in Conversations : AdmitNewRun(c)
       \/ \E n \in Admitted :
            RuntimeStep(n) \/ \E d \in {"approved", "rejected"} : DecideApproval(n, d)
    /\ UNCHANGED <<desk, feed, visit, misses>>

DeskNext ==
    \/ OpenDesk \/ Render \/ FeedArrives \/ ServerActs
    \/ \E n \in RunNumbers : SelectRun(n)
    \/ \E i \in VisitSlots : TakeList(i) \/ TakeRun(i) \/ Miss(i)

-----------------------------------------------------------------------------
(* Properties.                                                             *)

DeskShown == {desk.shown[k] : k \in 1..Len(desk.shown)}

\* What is on the screen is of the selected run, each event once.
DeskBelongs ==
    /\ desk.view.run \in {0, desk.run}
    /\ \A e \in DeskShown : e[1] = desk.run
    /\ Cardinality(DeskShown) = Len(desk.shown)

DeskAtRest ==
    /\ OpenSlots = VisitSlots
    /\ desk.changed = {}
    /\ feed.run # 0 => NextShown(EventTypes, feed.run, feed.at) = 0
    /\ misses = 0

DeskIsCurrent ==
    /\ desk.view.run = desk.run
    /\ DeskShown = {<<desk.run, k>> : k \in 1..LogLength(desk.run)}
    /\ desk.view.whole => desk.view.status = runs[desk.run].status

\* Whatever projections and listings come late, the page shows the selected run,
\* and at rest the whole of it: every event, hidden ones included, and its status
\* unless the run went on between the statements of the last projection
\* (projectionRequest, receivedIds).
DeskShowsItsRun == DeskBelongs /\ (DeskAtRest /\ desk.run # 0 => DeskIsCurrent)
=============================================================================
