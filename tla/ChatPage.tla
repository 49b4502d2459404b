------------------------------ MODULE ChatPage ------------------------------
(***************************************************************************)
(* The user's chat page: the session that is selected, the run it follows, *)
(* the messages and events it shows, the requests it has under way and its *)
(* live subscription.                                                      *)
(*                                                                         *)
(* The answer to a request is taken only if the session and the run it was *)
(* asked for are still the selected ones.  An event from the subscription  *)
(* is shown if it is new, and makes the page fetch everything again; a new *)
(* projection makes the page subscribe anew, from the cursor that came with *)
(* it.  The queries of one snapshot are statements of their own, between   *)
(* which the run goes on.                                                  *)
(***************************************************************************)
EXTENDS RunLog

CONSTANTS
    MaxEpochs,     \* bound: sessions the user selects, one after the other
    MaxRequests,   \* bound: requests under way at a time
    MaxFailures    \* bound: requests that fail

ASSUME PageAssumption ==
    /\ MaxEpochs \in Nat
    /\ MaxRequests \in Nat \ {0}
    /\ MaxFailures \in Nat
    /\ None \notin Conversations

VARIABLES
    page,      \* what the hook's refs and states hold
    stream,    \* the subscription, with the position it has been fed to
    request,   \* request[i]: a call to the server and what it has read so far
    failures   \* requests that failed (bounded by MaxFailures)

chatVars == <<past, page, stream, request, failures>>

-----------------------------------------------------------------------------

Epochs == 0..MaxEpochs
Slots == 1..MaxRequests

\* A shown event is named by its run and sequence number.  receivedIds always
\* holds the events shown, so it is left out.  The projection is the snapshot of
\* a run; "whole" says that nothing was committed between its statements, and
\* "talkWhole" that the messages are no older.
NoProjection == [run |-> 0, status |-> "queued", cursor |-> 0, whole |-> TRUE, talkWhole |-> TRUE]
Projections ==
    [run: RunNumbers \cup {0}, status: Statuses, cursor: Positions,
     whole: BOOLEAN, talkWhole: BOOLEAN]
NoTalk == [conversation |-> None, messages |-> {}]

Pages ==
    [chosen: Conversations \cup {None}, epoch: Epochs, run: RunNumbers \cup {0},
     talk: [conversation: Conversations \cup {None},
            messages: SUBSET (RunNumbers \X {"user", "ai"})],
     projection: Projections, events: Seq(RunNumbers \X Positions),
     busy: BOOLEAN, changed: BOOLEAN]

\* cursorRun is the run the cursor belongs to.
NoStream == [chosen |-> None, epoch |-> 0, run |-> 0, cursorRun |-> 0, at |-> 0]
Streams ==
    [chosen: Conversations \cup {None}, epoch: Epochs, run: RunNumbers \cup {0},
     cursorRun: RunNumbers \cup {0}, at: Positions]

\* A request remembers the moment it was made at; "sends" marks the refresh that
\* ends a send.
Free == [kind |-> "free", chosen |-> None, epoch |-> 0, run |-> 0, sends |-> FALSE, since |-> 1]
Requests ==
    [kind: {"free", "load", "run", "refresh", "send"}, chosen: Conversations \cup {None},
     epoch: Epochs, run: RunNumbers \cup {0}, sends: BOOLEAN, since: Nat]

TypeOK ==
    /\ PastTypeOK
    /\ page \in Pages
    /\ stream \in Streams
    /\ request \in [Slots -> Requests]
    /\ failures \in 0..MaxFailures

ChatInit ==
    /\ PastInit
    /\ page = [chosen |-> None, epoch |-> 0, run |-> 0, talk |-> NoTalk,
               projection |-> NoProjection, events |-> <<>>, busy |-> FALSE, changed |-> FALSE]
    /\ stream = NoStream
    /\ request = [i \in Slots |-> Free]
    /\ failures = 0

-----------------------------------------------------------------------------

\* Mutant: answers are taken while any session is selected.
CurrentIfChosen(q) == page.chosen # None

\* isCurrent
IsCurrent(q) == page.chosen = q.chosen /\ page.epoch = q.epoch

Ask(kind, run) ==
    [kind |-> kind, chosen |-> page.chosen, epoch |-> page.epoch, run |-> run,
     sends |-> FALSE, since |-> Now]

\* A call is made: it takes the first free slot.
FreeSlots == {i \in Slots : request[i].kind = "free"}
Issue(q) ==
    /\ FreeSlots # {}
    /\ LET i == CHOOSE i \in FreeSlots : \A j \in FreeSlots : i <= j IN
       request' = [request EXCEPT ![i] = q]

Settle(i) == request' = [request EXCEPT ![i] = Free]

Shown == {page.events[i] : i \in 1..Len(page.events)}

-----------------------------------------------------------------------------
(* What the server answers.                                                *)

\* conversations.get reads messages and runs side by side, each at some moment
\* since the call.
Talks(q) == {[conversation |-> q.chosen, messages |-> Messages(q.chosen, m)] : m \in q.since..Now}
Latests(q) == {LatestRun(q.chosen, m) : m \in q.since..Now}

\* runs.get, of the run's row, its cursor and its events.
Moments(q) == SnapshotMoments(q.run, q.since)

Snapshot(n, at, talk) ==
    [run |-> n, status |-> past[at[1]][n].status, cursor |-> LengthAt(n, at[2]),
     whole |-> at[1] = at[3], talkWhole |-> Messages(page.chosen, at[3]) \subseteq talk.messages]

\* chat.sendMessage
AdmitSend(i) ==
    LET q == request[i] IN
    /\ q.kind = "send"
    /\ q.run = 0
    /\ AdmitNewRun(q.chosen)
    /\ request' = [request EXCEPT ![i].run = Len(runs) + 1]
    /\ UNCHANGED <<page, stream, failures>>

-----------------------------------------------------------------------------
(* The page.  React runs the effects of one render before it starts on the   *)
(* next, so that only events of the old subscription come in between.      *)

\* Mutant: the composer stays as the session left behind had it.
SelectKeepsBusy(c) ==
    /\ ~page.changed
    /\ page.chosen # c
    /\ page.epoch < MaxEpochs
    /\ page' = [chosen |-> c, epoch |-> page.epoch + 1, run |-> 0, talk |-> NoTalk,
                projection |-> NoProjection, events |-> <<>>, busy |-> page.busy, changed |-> TRUE]
    /\ Issue([Ask("load", 0) EXCEPT !.chosen = c, !.epoch = page.epoch + 1])
    /\ UNCHANGED <<past, stream, failures>>

\* selectConversation
SelectConversation(c) ==
    /\ ~page.changed
    /\ page.chosen # c
    /\ page.epoch < MaxEpochs
    /\ page' = [chosen |-> c, epoch |-> page.epoch + 1, run |-> 0, talk |-> NoTalk,
                projection |-> NoProjection, events |-> <<>>, busy |-> FALSE, changed |-> TRUE]
    /\ Issue([Ask("load", 0) EXCEPT !.chosen = c, !.epoch = page.epoch + 1])
    /\ UNCHANGED <<past, stream, failures>>

\* When the page opens it selects the first conversation listed, or one it creates
\* if there is none; which one comes first is left open.  Until then, no other can
\* be chosen.
FirstSession(c) == page.chosen = None /\ SelectConversation(c)

\* The user picks one from the list, or has created one.
ChooseSession(c) == page.chosen # None /\ SelectConversation(c)

\* loadConversation: the latest run becomes the selected one, and is fetched.
LoadConversation(i) ==
    LET q == request[i] IN
    /\ ~page.changed
    /\ q.kind = "load"
    /\ IF ~IsCurrent(q)
       THEN Settle(i) /\ UNCHANGED page
       ELSE \E talk \in Talks(q), latest \in Latests(q) :
            /\ page' = [page EXCEPT !.talk = talk, !.run = latest,
                                    !.changed = @ \/ page.run # latest]
            /\ IF latest = 0 THEN Settle(i)
               ELSE request' = [request EXCEPT ![i] = Ask("run", latest)]
    /\ UNCHANGED <<past, stream, failures>>

\* What a snapshot puts on the page.
Projected(q, at, talk) ==
    [page EXCEPT !.talk = talk, !.changed = TRUE,
                 !.projection = Snapshot(q.run, at, talk),
                 !.events = EventsAt(UserEvents, q.run, at[3])]

Taken(q) == IsCurrent(q) /\ page.run = q.run

\* loadRun
LoadRun(i) ==
    LET q == request[i] IN
    /\ ~page.changed
    /\ q.kind = "run"
    /\ IF Taken(q)
       THEN \E at \in Moments(q) : page' = Projected(q, at, page.talk)
       ELSE UNCHANGED page
    /\ Settle(i)
    /\ UNCHANGED <<past, stream, failures>>

\* refresh; a send ends with it, whether or not it was taken.
Refresh(i) ==
    LET q == request[i]
        busy == page.busy /\ ~(q.sends /\ IsCurrent(q)) IN
    /\ ~page.changed
    /\ q.kind = "refresh"
    /\ IF Taken(q)
       THEN \E at \in Moments(q), talk \in Talks(q) :
                page' = [Projected(q, at, talk) EXCEPT !.busy = busy]
       ELSE page' = [page EXCEPT !.busy = busy]
    /\ Settle(i)
    /\ UNCHANGED <<past, stream, failures>>

\* send; the composer is disabled while one is under way.
Send ==
    /\ ~page.changed
    /\ page.chosen # None
    /\ ~page.busy
    /\ page' = [page EXCEPT !.busy = TRUE]
    /\ Issue(Ask("send", 0))
    /\ UNCHANGED <<past, stream, failures>>

TakeReceipt(i) ==
    LET q == request[i] IN
    /\ ~page.changed
    /\ q.kind = "send"
    /\ q.run # 0
    /\ IF IsCurrent(q)
       THEN /\ page' = [page EXCEPT !.run = q.run, !.events = <<>>,
                                    !.projection = NoProjection, !.changed = TRUE]
            /\ request' = [request EXCEPT ![i] = [Ask("refresh", q.run) EXCEPT !.sends = TRUE]]
       ELSE Settle(i) /\ UNCHANGED page
    /\ UNCHANGED <<past, stream, failures>>

\* A call fails, before or after the server did its part (reportBoundaryError).
Fail(i) ==
    LET q == request[i] IN
    /\ q.kind # "free"
    /\ failures < MaxFailures
    /\ failures' = failures + 1
    /\ page' = [page EXCEPT !.busy = @ /\ ~((q.sends \/ q.kind = "send") /\ IsCurrent(q))]
    /\ Settle(i)
    /\ UNCHANGED <<past, stream>>

-----------------------------------------------------------------------------
(* The subscription.                                                       *)

\* The effect: the old subscription is cancelled and a new one made, with the
\* cursor of the projection, whatever run that is of.
Subscribe ==
    /\ page.changed
    /\ page' = [page EXCEPT !.changed = FALSE]
    /\ stream' = IF page.chosen = None \/ page.run = 0 \/ page.projection = NoProjection
                 THEN NoStream
                 ELSE [chosen |-> page.chosen, epoch |-> page.epoch, run |-> page.run,
                       cursorRun |-> page.projection.run, at |-> page.projection.cursor]
    /\ UNCHANGED <<past, request, failures>>

\* resolveCursor refuses the cursor of another run and asks for a refetch.
Refuse ==
    /\ stream.run # stream.cursorRun
    /\ IF IsCurrent(stream)
       THEN Issue(Ask("refresh", stream.run))
       ELSE UNCHANGED request
    /\ stream' = NoStream
    /\ UNCHANGED <<past, page, failures>>

\* Mutant: the event is shown, and that is all.
ArriveShowsOnly ==
    /\ stream.run # 0
    /\ stream.run = stream.cursorRun
    /\ LET next == NextShown(UserEvents, stream.run, stream.at)
           event == <<stream.run, next>> IN
       /\ next # 0
       /\ stream' = [stream EXCEPT !.at = next]
       /\ page' = IF IsCurrent(stream) /\ page.run = stream.run /\ event \notin Shown
                  THEN [page EXCEPT !.events = Append(@, event)] ELSE page
    /\ UNCHANGED <<past, request, failures>>

\* onEvent.  Delivery says why the next event to show is what comes next.
Arrive ==
    /\ stream.run # 0
    /\ stream.run = stream.cursorRun
    /\ LET next == NextShown(UserEvents, stream.run, stream.at)
           event == <<stream.run, next>> IN
       /\ next # 0
       /\ stream' = [stream EXCEPT !.at = next]
       /\ IF IsCurrent(stream) /\ page.run = stream.run /\ event \notin Shown
          THEN /\ page' = [page EXCEPT !.events = Append(@, event)]
               /\ Issue(Ask("refresh", stream.run))
          ELSE UNCHANGED <<page, request>>
    /\ UNCHANGED <<past, failures>>

-----------------------------------------------------------------------------

\* Another page of the user admits a run.
AdmitElsewhere(c) == AdmitNewRun(c) /\ UNCHANGED <<page, stream, request, failures>>

Work(n) == RuntimeStep(n) /\ UNCHANGED <<page, stream, request, failures>>

PageTakes(i) == LoadConversation(i) \/ LoadRun(i) \/ Refresh(i) \/ TakeReceipt(i)

ChatNext ==
    \/ \E c \in Conversations : FirstSession(c) \/ ChooseSession(c) \/ AdmitElsewhere(c)
    \/ \E n \in Admitted : Work(n)
    \/ \E i \in Slots : AdmitSend(i) \/ PageTakes(i) \/ Fail(i)
    \/ Send \/ Subscribe \/ Refuse \/ Arrive

-----------------------------------------------------------------------------
(* Properties.                                                             *)

\* Whatever answers come late, in whatever order, the page shows nothing of
\* another session: its messages, run and events are of the selected one, the
\* events of one run, each once, and none of them hidden (isCurrent, receivedIds).
ScreenBelongs ==
    /\ page.talk.conversation \in {None, page.chosen}
    /\ \A m \in page.talk.messages : runs[m[1]].home = page.chosen
    /\ page.projection.run # 0 => runs[page.projection.run].home = page.chosen
    /\ \A e \in Shown : /\ runs[e[1]].home = page.chosen
                        /\ runs[e[1]].log[e[2]] \in UserEvents
                        /\ e[1] = page.events[1][1]
                        /\ page.projection.run \in {0, e[1]}
    /\ Cardinality(Shown) = Len(page.events)

\* Nothing under way and nothing to come: no request, no effect, no event.
AtRest ==
    /\ FreeSlots = Slots
    /\ ~page.changed
    /\ stream.run = stream.cursorRun
    /\ stream.run # 0 => NextShown(UserEvents, stream.run, stream.at) = 0
    /\ failures = 0

\* A page at rest shows its run with every event; the status and the messages
\* are old only if the run went on between the statements of the last snapshot,
\* for then no event is left that would make the page look again.
RestIsCurrent ==
    AtRest /\ page.run # 0 =>
        /\ page.projection.run = page.run
        /\ Shown = {<<page.run, i>> : i \in ShownTo(UserEvents, page.run)}
        /\ page.projection.whole => page.projection.status = runs[page.run].status
        /\ page.projection.talkWhole =>
            \A m \in Messages(page.chosen, Now) : m[1] = page.run => m \in page.talk.messages

\* The composer is disabled exactly while a send of this session is under way:
\* one that was left behind neither enables nor disables it.
BusyWhileSending ==
    page.busy <=>
        \E i \in Slots : /\ request[i].kind = "send" \/ request[i].sends
                         /\ IsCurrent(request[i])
=============================================================================
