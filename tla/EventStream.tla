----------------------------- MODULE EventStream -----------------------------
(***************************************************************************)
(* The event stream of one run, from the transactions that append to its   *)
(* log to the page that receives the events.                               *)
(*                                                                         *)
(* A transaction locks the run, numbers its events after the last one and  *)
(* inserts them.  The stream waits for a signal from its timer, reads the  *)
(* events after its cursor, moves the cursor past all of them and sends    *)
(* those the subscriber may see.  When the connection breaks, what was on  *)
(* its way is lost, and the client connects again with the number of the   *)
(* last event it received.                                                 *)
(***************************************************************************)
EXTENDS Naturals, Sequences

CONSTANTS
    Writers,   \* transactions that append to the log
    MaxBatch,  \* bound: events of one transaction
    MaxLog,    \* bound: the length of the log
    MaxDrops   \* bound: connections that break

ASSUME StreamAssumption ==
    /\ MaxBatch \in Nat \ {0}
    /\ MaxLog \in Nat
    /\ MaxDrops \in Nat

VARIABLES
    log,       \* run_events: "shown" or "hidden", by sequence number
    writer,    \* writer[w]: a transaction, and the number it begins with
    start,     \* the cursor of the snapshot the subscription was made with
    server,    \* the generator of the connection
    wire,      \* sent and not yet received
    received,  \* sequence numbers of the events handed to the page
    drops      \* connections broken (bounded by MaxDrops)

vars == <<log, writer, start, server, wire, received, drops>>

-----------------------------------------------------------------------------

Kinds == {"shown", "hidden"}
Positions == 0..MaxLog
ShownAfter(p) == {q \in 1..Len(log) : log[q] = "shown" /\ q > p}

\* lastEventId of the next connection: the last event received.
Last == IF received = <<>> THEN start ELSE received[Len(received)]

\* "signal" is pendingSignals > 0; "unsent" is what is left of the batch.  What
\* was emitted on this connection lies before its cursor, so that "emitted" never
\* stops anything and is left out.
Servers ==
    [phase: {"down", "resolving", "waiting", "reading", "sending"}, signal: BOOLEAN,
     cursor: Positions, unsent: SUBSET Positions]
Down == [phase |-> "down", signal |-> FALSE, cursor |-> 0, unsent |-> {}]

TypeOK ==
    /\ log \in Seq(Kinds) /\ Len(log) <= MaxLog
    /\ writer \in [Writers -> [phase: {"idle", "locked", "numbered"}, first: Nat]]
    /\ start \in Positions
    /\ server \in Servers
    /\ wire \in Seq(Positions)
    /\ received \in Seq(Positions)
    /\ drops \in 0..MaxDrops

NoTransaction == [phase |-> "idle", first |-> 0]

Init ==
    /\ \E n \in 0..MaxLog : log \in [1..n -> Kinds]
    /\ writer = [w \in Writers |-> NoTransaction]
    /\ start \in 0..Len(log)
    /\ server = Down
    /\ wire = <<>>
    /\ received = <<>>
    /\ drops = 0

-----------------------------------------------------------------------------
(* The transactions that append events.                                    *)

\* Mutant: the run is not locked.
LockNothing(w) ==
    /\ writer[w].phase = "idle"
    /\ writer' = [writer EXCEPT ![w].phase = "locked"]
    /\ UNCHANGED <<log, start, server, wire, received, drops>>

\* The run is selected for update.
LockRun(w) ==
    /\ \A u \in Writers : writer[u].phase = "idle"
    /\ writer' = [writer EXCEPT ![w].phase = "locked"]
    /\ UNCHANGED <<log, start, server, wire, received, drops>>

\* max(sequence) + 1
Number(w) ==
    /\ writer[w].phase = "locked"
    /\ writer' = [writer EXCEPT ![w] = [phase |-> "numbered", first |-> Len(log) + 1]]
    /\ UNCHANGED <<log, start, server, wire, received, drops>>

\* Inserted, and committed; the numbers of a run are unique.
InsertEvents(w) ==
    /\ writer[w].phase = "numbered"
    /\ writer[w].first = Len(log) + 1
    /\ \E n \in 1..MaxBatch : \E events \in [1..n -> Kinds] :
            /\ Len(log) + n <= MaxLog
            /\ log' = log \o events
    /\ writer' = [writer EXCEPT ![w] = NoTransaction]
    /\ UNCHANGED <<start, server, wire, received, drops>>

\* Rolled back.
RollBack(w) ==
    /\ writer[w].phase # "idle"
    /\ writer' = [writer EXCEPT ![w] = NoTransaction]
    /\ UNCHANGED <<log, start, server, wire, received, drops>>

-----------------------------------------------------------------------------
(* The stream.                                                             *)

\* The client connects, first with the snapshot's cursor and later with the last
\* event it received; the timer is set and a first signal pending.
Connect ==
    /\ server.phase = "down"
    /\ server' = [Down EXCEPT !.phase = "resolving", !.signal = TRUE]
    /\ UNCHANGED <<log, writer, start, wire, received, drops>>

\* Mutant: every connection starts from the snapshot's cursor.
ResolveSnapshot ==
    /\ server.phase = "resolving"
    /\ server' = [server EXCEPT !.phase = "waiting", !.cursor = start]
    /\ UNCHANGED <<log, writer, start, wire, received, drops>>

\* resolveCursor: both numbers are of events of this run.
ResolveCursor ==
    /\ server.phase = "resolving"
    /\ server' = [server EXCEPT !.phase = "waiting", !.cursor = Last]
    /\ UNCHANGED <<log, writer, start, wire, received, drops>>

\* The timer of createPollingRunEventSource calls wake.
Wake ==
    /\ server.phase # "down"
    /\ ~server.signal
    /\ server' = [server EXCEPT !.signal = TRUE]
    /\ UNCHANGED <<log, writer, start, wire, received, drops>>

\* The signals are taken before the events are read.
TakeSignal ==
    /\ server.phase = "waiting"
    /\ server.signal
    /\ server' = [server EXCEPT !.phase = "reading", !.signal = FALSE]
    /\ UNCHANGED <<log, writer, start, wire, received, drops>>

\* Mutant: the cursor names the event that is still to come.
ReadPastEnd ==
    /\ server.phase = "reading"
    /\ server' = [server EXCEPT !.phase = "sending", !.cursor = Len(log) + 1,
                                !.unsent = ShownAfter(server.cursor)]
    /\ UNCHANGED <<log, writer, start, wire, received, drops>>

\* services.events, one statement: the cursor goes past the hidden events too.
ReadEvents ==
    /\ server.phase = "reading"
    /\ server' = [server EXCEPT !.phase = "sending", !.cursor = Len(log),
                                !.unsent = ShownAfter(server.cursor)]
    /\ UNCHANGED <<log, writer, start, wire, received, drops>>

Send ==
    /\ server.phase = "sending"
    /\ \E p \in server.unsent :
            /\ \A q \in server.unsent : p <= q
            /\ wire' = Append(wire, p)
            /\ server' = [server EXCEPT !.unsent = @ \ {p}]
    /\ UNCHANGED <<log, writer, start, received, drops>>

AllSent ==
    /\ server.phase = "sending"
    /\ server.unsent = {}
    /\ server' = [server EXCEPT !.phase = "waiting"]
    /\ UNCHANGED <<log, writer, start, wire, received, drops>>

\* onData
Receive ==
    /\ wire # <<>>
    /\ received' = Append(received, Head(wire))
    /\ wire' = Tail(wire)
    /\ UNCHANGED <<log, writer, start, server, drops>>

\* The connection breaks, with everything on it.
Drop ==
    /\ server.phase # "down"
    /\ drops < MaxDrops
    /\ drops' = drops + 1
    /\ server' = Down
    /\ wire' = <<>>
    /\ UNCHANGED <<log, writer, start, received>>

-----------------------------------------------------------------------------

Transaction(w) == LockRun(w) \/ Number(w) \/ InsertEvents(w) \/ RollBack(w)

Streaming ==
    \/ Connect \/ ResolveCursor \/ Wake \/ TakeSignal \/ ReadEvents \/ Send \/ AllSent
    \/ Receive

Next == (\E w \in Writers : Transaction(w)) \/ Streaming \/ Drop

Spec == Init /\ [][Next]_vars

\* The timer fires for ever, the server and the network do what they are about
\* to do, and the client connects again; nothing is asked of the transactions.
Fairness ==
    /\ WF_vars(Connect) /\ WF_vars(ResolveCursor) /\ WF_vars(Wake) /\ WF_vars(TakeSignal)
    /\ WF_vars(ReadEvents) /\ WF_vars(Send) /\ WF_vars(AllSent) /\ WF_vars(Receive)

FairSpec == Spec /\ Fairness

-----------------------------------------------------------------------------
(* Properties.                                                             *)

\* The page receives what Delivery promises: no gap, no duplicate, nothing hidden
\* and nothing out of order, across any number of connections, and in the end
\* everything (createTrackedEventStream, resolveCursor).
Promise == INSTANCE Delivery WITH log <- log, start <- start, received <- received
Delivered == Promise!Spec
DeliveredInTheEnd == Promise!FairSpec

\* A transaction finds the numbers it gave to its events free when it inserts
\* them: the events of a run are numbered without gap, and the unique index on
\* them never aborts a transaction, because every writer locks the run first.
NumbersAreFree == \A w \in Writers : writer[w].phase = "numbered" => writer[w].first = Len(log) + 1
=============================================================================
