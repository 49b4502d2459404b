-------------------------- MODULE EventStreamProofs --------------------------
(***************************************************************************)
(* The event stream delivers what a subscription promises, for every log,  *)
(* every number of writers and every number of broken connections: its     *)
(* specification implements that of Delivery.                              *)
(***************************************************************************)
EXTENDS EventStream, SequenceTheorems, TLAPS

ShownAt(p) == p \in 1..Len(log) /\ log[p] = "shown"

\* Where the log, the client and the server stand.
Places ==
    /\ log \in Seq(Kinds)
    /\ start \in Nat
    /\ received \in Seq(Nat)
    /\ wire \in Seq(Nat)
    /\ Last \in 0..Len(log)
    /\ server \in [phase: {"down", "resolving", "waiting", "reading", "sending"},
                   signal: BOOLEAN, cursor: Nat, unsent: SUBSET Nat]

\* What is on its way: between the last event received and the server's cursor,
\* everything to be shown is on the wire, in order, or still to be sent.
Pipe ==
    /\ server.phase # "sending" => server.unsent = {}
    /\ server.phase \in {"down", "resolving"} => wire = <<>>
    /\ server.phase \in {"waiting", "reading", "sending"} =>
        /\ server.cursor \in Last..Len(log)
        /\ \A p \in Nat : ShownAt(p) /\ Last < p /\ p <= server.cursor =>
                p \in server.unsent \/ \E i \in 1..Len(wire) : wire[i] = p
        /\ \A i \in 1..Len(wire) :
                ShownAt(wire[i]) /\ Last < wire[i] /\ wire[i] <= server.cursor
        /\ \A i, j \in 1..Len(wire) : i < j => wire[i] < wire[j]
        /\ \A p \in server.unsent :
                /\ ShownAt(p) /\ Last < p /\ p <= server.cursor
                /\ \A i \in 1..Len(wire) : wire[i] < p

Inv == Places /\ Pipe

LEMMA InitInv == Init => Inv
<1> SUFFICES ASSUME Init PROVE Inv
  OBVIOUS
<1>1. log \in Seq(Kinds)
  <2>1. PICK n \in 0..MaxLog : log \in [1..n -> Kinds]
    BY DEF Init
  <2> QED
    BY <2>1, StreamAssumption, SeqDef
<1>2. Len(log) \in Nat
  BY <1>1, LenProperties
<1>3. Last = start /\ start \in 0..Len(log)
  BY DEF Init, Last
<1> QED
  BY <1>1, <1>2, <1>3 DEF Init, Inv, Places, Pipe, Down

\* Appending to the log changes nothing of what lies before its end.
LEMMA InsertStep ==
    ASSUME Inv, NEW w \in Writers, InsertEvents(w)
    PROVE  Inv' /\ Promise!Record
<1>a. PICK n \in 1..MaxBatch : \E events \in [1..n -> Kinds] : log' = log \o events
  BY DEF InsertEvents
<1>1. PICK events \in [1..n -> Kinds] : log' = log \o events
  BY <1>a
<1>2. events \in Seq(Kinds) /\ Len(events) = n /\ n \in Nat
  <2>1. n \in Nat
    BY StreamAssumption
  <2>2. events \in Seq(Kinds)
    BY <2>1, SeqDef
  <2> QED
    BY <2>1, <2>2
<1>3. /\ log' \in Seq(Kinds)
      /\ Len(log') = Len(log) + n
      /\ \A i \in 1..Len(log) : log'[i] = log[i]
      /\ Len(log) \in Nat
  <2>1. log \in Seq(Kinds) /\ Len(log) \in Nat
    BY LenProperties DEF Inv, Places
  <2>2. /\ log \o events \in Seq(Kinds)
        /\ Len(log \o events) = Len(log) + Len(events)
        /\ \A i \in 1..(Len(log) + Len(events)) :
                (log \o events)[i] = IF i <= Len(log) THEN log[i] ELSE events[i - Len(log)]
    BY <2>1, <1>2, ConcatProperties
  <2>3. \A i \in 1..Len(log) : i \in 1..(Len(log) + Len(events)) /\ i <= Len(log)
    BY <2>1, <1>2
  <2> QED
    BY <2>1, <2>2, <2>3, <1>1, <1>2
<1>4. UNCHANGED <<start, server, wire, received>> /\ Last' = Last
  BY DEF InsertEvents, Last
<1>5. ASSUME NEW p \in 1..Len(log)
      PROVE  ShownAt(p)' <=> ShownAt(p)
  BY <1>2, <1>3 DEF ShownAt
<1>6. Places'
  BY <1>2, <1>3, <1>4 DEF Inv, Places
<1>7. Pipe'
  <2>1. ASSUME NEW p \in Nat, ShownAt(p), p <= Len(log)
        PROVE  ShownAt(p)'
    BY <2>1, <1>5 DEF ShownAt
  <2>2. ASSUME NEW p \in Nat, ShownAt(p)', p <= Len(log)
        PROVE  ShownAt(p)
    BY <2>2, <1>5 DEF ShownAt
  <2>3. ASSUME NEW p, ShownAt(p)
        PROVE  ShownAt(p)' /\ p \in Nat /\ p <= Len(log)
    BY <2>3, <1>2, <1>3 DEF ShownAt
  <2>4. /\ server' = server /\ wire' = wire /\ Last' = Last /\ Len(log) <= Len(log')
        /\ server.cursor \in Nat
    BY <1>2, <1>3, <1>4 DEF Inv, Places
  <2>5. CASE server.phase \in {"down", "resolving"}
    BY <2>4, <2>5 DEF Inv, Pipe
  <2>6. CASE server.phase \in {"waiting", "reading", "sending"}
    <3>1. server.cursor \in Last..Len(log) /\ server.cursor <= Len(log)
      BY <2>6, <1>3 DEF Inv, Places, Pipe
    <3>2. ASSUME NEW p \in Nat, ShownAt(p)', Last < p, p <= server.cursor
          PROVE  p \in server.unsent \/ \E i \in 1..Len(wire) : wire[i] = p
      <4>1. p <= Len(log)
        BY <3>1, <3>2, <2>4, <1>3
      <4> QED
        BY <3>2, <4>1, <2>2, <2>6 DEF Inv, Pipe
    <3>3. server.cursor \in Last..Len(log')
      BY <3>1, <2>4, <1>2, <1>3 DEF Inv, Places
    <3>4. \A i \in 1..Len(wire) : ShownAt(wire[i])'
      BY <2>3, <2>4, <2>6 DEF Inv, Pipe
    <3>5. \A p \in server.unsent : ShownAt(p)'
      BY <2>3, <2>6 DEF Inv, Pipe
    <3> QED
      BY <2>4, <2>6, <3>2, <3>3, <3>4, <3>5 DEF Inv, Pipe
  <2> QED
    BY <2>5, <2>6 DEF Inv, Places
<1> QED
  BY <1>3, <1>4, <1>6, <1>7 DEF Inv, Promise!Record, Promise!Kinds, Kinds

\* The next event received is the next one promised.
LEMMA ReceiveStep ==
    ASSUME Inv, Receive
    PROVE  Inv' /\ Promise!Deliver
<1>a. PICK p : p = wire[1]
  OBVIOUS
<1>1. /\ wire # <<>> /\ wire \in Seq(Nat) /\ Len(wire) \in Nat \ {0}
      /\ Head(wire) = p /\ p \in Nat
      /\ received' = Append(received, p) /\ wire' = Tail(wire)
      /\ UNCHANGED <<log, start, server>>
  BY <1>a, EmptySeq, LenProperties, HeadTailProperties DEF Receive, Inv, Places
<1>2. server.phase \in {"waiting", "reading", "sending"}
  BY <1>1 DEF Inv, Places, Pipe
<1>3. ShownAt(p) /\ Last < p /\ p <= server.cursor
  BY <1>a, <1>1, <1>2 DEF Inv, Pipe
<1>4. /\ received' \in Seq(Nat) /\ received' # <<>> /\ Last' = p
  <2>1. received \in Seq(Nat) /\ Len(received) \in Nat
    BY LenProperties DEF Inv, Places
  <2>2. /\ received' \in Seq(Nat) /\ Len(received') = Len(received) + 1
        /\ received'[Len(received) + 1] = p
    BY <2>1, <1>1, AppendProperties
  <2> QED
    BY <2>1, <2>2, EmptySeq DEF Last
<1>5. /\ wire' \in Seq(Nat) /\ Len(wire') = Len(wire) - 1
      /\ \A i \in 1..Len(wire') : wire'[i] = wire[i + 1]
  BY <1>1, HeadTailProperties
<1>6. ShownAt(p)' /\ p \in 0..Len(log)
  BY <1>1, <1>3 DEF ShownAt
<1>7. Places'
  BY <1>1, <1>4, <1>5, <1>6 DEF Inv, Places
<1>8. Pipe'
  <2>1. \A q : ShownAt(q)' <=> ShownAt(q)
    BY <1>1 DEF ShownAt
  <2>2. server'.cursor \in Last'..Len(log')
    BY <1>1, <1>2, <1>3, <1>4 DEF Inv, Places, Pipe
  <2>3. ASSUME NEW q \in Nat, ShownAt(q), p < q, q <= server.cursor
        PROVE  q \in server.unsent \/ \E i \in 1..Len(wire') : wire'[i] = q
    <3>1. Last \in Nat /\ Last < q
      BY <2>3, <1>1, <1>3 DEF Inv, Places
    <3>2. CASE q \in server.unsent
      BY <3>2
    <3>3. CASE \E i \in 1..Len(wire) : wire[i] = q
      <4>1. PICK i \in 1..Len(wire) : wire[i] = q
        BY <3>3
      <4>2. i # 1 /\ i - 1 \in 1..Len(wire')
        BY <4>1, <2>3, <1>a, <1>1, <1>5
      <4>3. wire'[i - 1] = q
        BY <4>1, <4>2, <1>5, <1>1
      <4> QED
        BY <4>2, <4>3
    <3> QED
      BY <2>3, <1>2, <3>1, <3>2, <3>3 DEF Inv, Pipe
  <2>4. ASSUME NEW i \in 1..Len(wire')
        PROVE  /\ ShownAt(wire'[i]) /\ p < wire'[i] /\ wire'[i] <= server.cursor
               /\ \A j \in 1..Len(wire') : i < j => wire'[i] < wire'[j]
    <3>1. i + 1 \in 1..Len(wire) /\ 1 \in 1..Len(wire) /\ 1 < i + 1
      BY <1>1, <1>5
    <3>2. ShownAt(wire'[i]) /\ p < wire'[i] /\ wire'[i] <= server.cursor
      BY <3>1, <1>a, <1>2, <1>5 DEF Inv, Pipe
    <3>3. ASSUME NEW j \in 1..Len(wire'), i < j
          PROVE  wire'[i] < wire'[j]
      <4>1. j + 1 \in 1..Len(wire) /\ i + 1 < j + 1
        BY <3>3, <1>1, <1>5
      <4> QED
        BY <4>1, <3>1, <1>2, <1>5 DEF Inv, Pipe
    <3> QED
      BY <3>2, <3>3
  <2>5. ASSUME NEW q \in server.unsent
        PROVE  /\ ShownAt(q) /\ p < q /\ q <= server.cursor
               /\ \A i \in 1..Len(wire') : wire'[i] < q
    <3>1. 1 \in 1..Len(wire) /\ \A i \in 1..Len(wire') : i + 1 \in 1..Len(wire)
      BY <1>1, <1>5
    <3> QED
      BY <3>1, <1>a, <1>2, <1>5 DEF Inv, Pipe
  <2> QED
    BY <1>1, <1>2, <1>4, <2>1, <2>2, <2>3, <2>4, <2>5 DEF Inv, Pipe
<1>9. Promise!Deliver
  <2>1. Promise!Last = Last
    BY DEF Promise!Last, Last
  <2>2. p \in Promise!Later
    BY <1>3, <2>1 DEF Promise!Later, ShownAt
  <2>3. ASSUME NEW q \in Promise!Later
        PROVE  p <= q
    <3>1. q \in Nat /\ ShownAt(q) /\ Last < q
      BY <2>3, <2>1 DEF Promise!Later, ShownAt, Inv, Places
    <3>2. CASE q <= server.cursor
      <4>1. CASE q \in server.unsent
        BY <4>1, <3>1, <1>a, <1>1, <1>2 DEF Inv, Pipe
      <4>2. ASSUME NEW i \in 1..Len(wire), wire[i] = q
            PROVE  p <= q
        BY <4>2, <1>a, <1>1, <1>2 DEF Inv, Pipe
      <4> QED
        BY <4>1, <4>2, <3>1, <3>2, <1>2 DEF Inv, Pipe
    <3>3. CASE ~(q <= server.cursor)
      BY <3>3, <3>1, <1>1, <1>3 DEF Inv, Places
    <3> QED
      BY <3>2, <3>3
  <2> QED
    BY <1>1, <2>2, <2>3 DEF Promise!Deliver
<1> QED
  BY <1>7, <1>8, <1>9 DEF Inv

\* The server's own steps and the connection's end keep the pipe as it should be.
LEMMA ServerStep ==
    ASSUME Inv,
           \/ Connect \/ ResolveCursor \/ Wake \/ TakeSignal \/ ReadEvents \/ Send \/ AllSent
           \/ Drop
    PROVE  Inv'
<1>1. UNCHANGED <<log, start, received>> /\ Last' = Last
  BY DEF Connect, ResolveCursor, Wake, TakeSignal, ReadEvents, Send, AllSent, Drop, Last
<1>2. \A q : ShownAt(q)' <=> ShownAt(q)
  BY <1>1 DEF ShownAt
<1>3. Len(log) \in Nat /\ Last \in Nat /\ server.cursor \in Nat
  BY LenProperties DEF Inv, Places
<1>4. CASE Connect
  BY <1>1, <1>4 DEF Connect, Down, Inv, Places, Pipe
<1>5. CASE Drop
  BY <1>1, <1>5 DEF Drop, Down, Inv, Places, Pipe
<1>6. CASE ResolveCursor
  <2>1. /\ server.phase = "resolving"
        /\ server' = [server EXCEPT !.phase = "waiting", !.cursor = Last]
        /\ wire' = wire
    BY <1>6 DEF ResolveCursor
  <2>2. wire = <<>> /\ server.unsent = {} /\ Len(wire) = 0
    BY <2>1 DEF Inv, Pipe
  <2>3. /\ server'.phase = "waiting" /\ server'.cursor = Last /\ server'.unsent = {}
        /\ Last \in Last..Len(log) /\ 1..Len(wire) = {}
    BY <2>1, <2>2, <1>3 DEF Inv, Places
  <2>4. Places'
    BY <2>1, <1>1, <1>3 DEF Inv, Places
  <2>5. \A p \in Nat : ~(Last < p /\ p <= Last)
    BY <1>3
  <2> QED
    BY <2>1, <2>2, <2>3, <2>4, <2>5, <1>1 DEF Inv, Pipe
<1>7. CASE Wake
  BY <1>1, <1>2, <1>7 DEF Wake, Inv, Places, Pipe
<1>8. CASE TakeSignal
  BY <1>1, <1>2, <1>8 DEF TakeSignal, Inv, Places, Pipe
<1>9. CASE AllSent
  BY <1>1, <1>2, <1>9 DEF AllSent, Inv, Places, Pipe
<1>10. CASE ReadEvents
  <2> DEFINE c == server.cursor
  <2>1. /\ server.phase = "reading"
        /\ server'.phase = "sending" /\ server'.cursor = Len(log)
        /\ server'.unsent = ShownAfter(c) /\ wire' = wire
    BY <1>10 DEF ReadEvents, Inv, Places
  <2>2. c \in Last..Len(log) /\ c \in Nat
    BY <2>1, <1>3 DEF Inv, Pipe
  <2>3. \A p : p \in ShownAfter(c) <=> ShownAt(p) /\ c < p
    BY <1>3, <2>2 DEF ShownAfter, ShownAt
  <2>4. \A p : ShownAt(p) => p \in Nat /\ p <= Len(log)
    BY <1>3 DEF ShownAt
  <2>5. Places'
    BY <1>1, <1>10, <1>3, <2>3, <2>4 DEF ReadEvents, Inv, Places
  <2>6. ASSUME NEW p \in Nat, ShownAt(p), Last < p
        PROVE  p \in ShownAfter(c) \/ \E i \in 1..Len(wire) : wire[i] = p
    BY <2>6, <2>1, <2>2, <2>3 DEF Inv, Pipe
  <2>7. ASSUME NEW i \in 1..Len(wire)
        PROVE  ShownAt(wire[i]) /\ Last < wire[i] /\ wire[i] <= Len(log) /\ wire[i] <= c
    BY <2>1, <2>4 DEF Inv, Pipe
  <2>8. ASSUME NEW p \in ShownAfter(c)
        PROVE  /\ ShownAt(p) /\ Last < p /\ p <= Len(log)
               /\ \A i \in 1..Len(wire) : wire[i] < p
    <3>1. ShownAt(p) /\ c < p /\ p \in Nat /\ p <= Len(log)
      BY <2>3, <2>4
    <3>2. Last < p
      BY <3>1, <2>2, <1>3
    <3>3. ASSUME NEW i \in 1..Len(wire)
          PROVE  wire[i] < p
      <4>1. wire[i] <= c /\ wire[i] \in Nat
        BY <2>7, <2>4
      <4> QED
        BY <4>1, <3>1, <2>2
    <3> QED
      BY <3>1, <3>2, <3>3
  <2>9. Len(log) \in Last..Len(log)
    BY <1>3 DEF Inv, Places
  <2>10. \A i, j \in 1..Len(wire) : i < j => wire[i] < wire[j]
    BY <2>1 DEF Inv, Pipe
  <2> HIDE DEF c
  <2> QED
    BY <2>1, <2>5, <2>6, <2>7, <2>8, <2>9, <2>10, <1>1, <1>2 DEF Inv, Pipe
<1>11. CASE Send
  <2>1. PICK p \in server.unsent : /\ \A q \in server.unsent : p <= q
                                  /\ wire' = Append(wire, p)
                                  /\ server' = [server EXCEPT !.unsent = @ \ {p}]
    BY <1>11 DEF Send
  <2>2. /\ server.phase = "sending" /\ server'.phase = "sending"
        /\ server'.cursor = server.cursor /\ server'.unsent = server.unsent \ {p}
        /\ wire \in Seq(Nat) /\ Len(wire) \in Nat /\ p \in Nat
        /\ server.unsent \subseteq Nat
    BY <1>11, <2>1, LenProperties DEF Send, Inv, Places
  <2>3. /\ wire' \in Seq(Nat) /\ Len(wire') = Len(wire) + 1 /\ wire'[Len(wire) + 1] = p
        /\ \A i \in 1..Len(wire) : wire'[i] = wire[i]
    BY <2>1, <2>2, AppendProperties
  <2>4. Places'
    BY <2>1, <2>2, <2>3, <1>1 DEF Inv, Places
  <2>5. /\ ShownAt(p) /\ Last < p /\ p <= server.cursor
        /\ \A i \in 1..Len(wire) : wire[i] < p
        /\ server.cursor \in Last..Len(log)
    BY <2>2 DEF Inv, Pipe
  <2>6. ASSUME NEW i \in 1..Len(wire')
        PROVE  i \in 1..Len(wire) \/ (i = Len(wire) + 1 /\ wire'[i] = p)
    BY <2>2, <2>3
  <2>7. ASSUME NEW q \in Nat, ShownAt(q), Last < q, q <= server.cursor
        PROVE  q \in server.unsent \ {p} \/ \E i \in 1..Len(wire') : wire'[i] = q
    <3>1. CASE q = p
      BY <3>1, <2>2, <2>3
    <3>2. CASE q # p /\ q \in server.unsent
      BY <3>2
    <3>3. ASSUME NEW i \in 1..Len(wire), wire[i] = q
          PROVE  \E k \in 1..Len(wire') : wire'[k] = q
      <4>1. i \in 1..Len(wire') /\ wire'[i] = q
        BY <3>3, <2>2, <2>3
      <4> QED
        BY <4>1
    <3> QED
      BY <3>1, <3>2, <3>3, <2>2, <2>7 DEF Inv, Pipe
  <2>8. ASSUME NEW i \in 1..Len(wire')
        PROVE  ShownAt(wire'[i]) /\ Last < wire'[i] /\ wire'[i] <= server.cursor
    BY <2>2, <2>3, <2>5, <2>6 DEF Inv, Pipe
  <2>9. ASSUME NEW i \in 1..Len(wire'), NEW j \in 1..Len(wire'), i < j
        PROVE  wire'[i] < wire'[j]
    <3>1. i \in 1..Len(wire) /\ wire'[i] = wire[i]
      BY <2>9, <2>2, <2>3
    <3>2. CASE j \in 1..Len(wire)
      BY <3>1, <3>2, <2>2, <2>3, <2>9 DEF Inv, Pipe
    <3>3. CASE j = Len(wire) + 1 /\ wire'[j] = p
      BY <3>1, <3>3, <2>5
    <3> QED
      BY <3>2, <3>3, <2>6
  <2>10. ASSUME NEW q \in server.unsent \ {p}
         PROVE  /\ ShownAt(q) /\ Last < q /\ q <= server.cursor
                /\ \A i \in 1..Len(wire') : wire'[i] < q
    <3>1. /\ ShownAt(q) /\ Last < q /\ q <= server.cursor
          /\ \A i \in 1..Len(wire) : wire[i] < q
      BY <2>2 DEF Inv, Pipe
    <3>2. p < q
      BY <2>1, <2>2
    <3> QED
      BY <3>1, <3>2, <2>3, <2>6
  <2> QED
    BY <2>2, <2>4, <2>5, <2>7, <2>8, <2>9, <2>10, <1>1, <1>2 DEF Inv, Pipe
<1> QED
  BY <1>4, <1>5, <1>6, <1>7, <1>8, <1>9, <1>10, <1>11

\* The transactions that do not insert touch nothing here.
LEMMA OtherStep ==
    ASSUME Inv, UNCHANGED <<log, start, server, wire, received>>
    PROVE  Inv'
<1>1. Last' = Last /\ \A q : ShownAt(q)' <=> ShownAt(q)
  BY DEF Last, ShownAt
<1> QED
  BY <1>1 DEF Inv, Places, Pipe

LEMMA StreamStep ==
    ASSUME Inv, [Next]_vars
    PROVE  Inv' /\ [Promise!Next]_Promise!vars
<1>1. ASSUME NEW w \in Writers, LockRun(w) \/ Number(w) \/ RollBack(w)
      PROVE  UNCHANGED <<log, start, server, wire, received>>
  BY <1>1 DEF LockRun, Number, RollBack
<1>2. ASSUME NEW w \in Writers, InsertEvents(w)
      PROVE  Inv' /\ [Promise!Next]_Promise!vars
  BY <1>2, InsertStep DEF Promise!Next
<1>3. CASE Receive
  BY <1>3, ReceiveStep DEF Promise!Next
<1>4. CASE \/ Connect \/ ResolveCursor \/ Wake \/ TakeSignal \/ ReadEvents \/ Send \/ AllSent
           \/ Drop
  <2>1. UNCHANGED <<log, start, received>>
    BY <1>4 DEF Connect, ResolveCursor, Wake, TakeSignal, ReadEvents, Send, AllSent, Drop
  <2> QED
    BY <1>4, <2>1, ServerStep DEF Promise!vars
<1>5. CASE UNCHANGED <<log, start, server, wire, received>>
  BY <1>5, OtherStep DEF Promise!vars
<1>6. CASE UNCHANGED vars
  BY <1>5, <1>6 DEF vars
<1> QED
  BY <1>1, <1>2, <1>3, <1>4, <1>5, <1>6 DEF Next, Streaming, Transaction

\* Every behaviour of the stream is one of Delivery: the page is handed each event
\* it may see once and in order, and nothing else, however often the connection
\* breaks and whatever the transactions append meanwhile.
THEOREM StreamDelivers == Spec => Promise!Spec
<1>1. Init => Promise!Init
  BY InitInv DEF Init, Inv, Places, Promise!Init, Kinds, Promise!Kinds
<1> QED
  BY <1>1, InitInv, StreamStep, PTL DEF Spec, Promise!Spec
-----------------------------------------------------------------------------

\* Only one transaction has the run at a time, and what it numbered is still to
\* come.
WriterInv ==
    /\ log \in Seq(Kinds)
    /\ writer \in [Writers -> [phase: {"idle", "locked", "numbered"}, first: Nat]]
    /\ \A u, w \in Writers :
            writer[u].phase # "idle" /\ writer[w].phase # "idle" => u = w
    /\ NumbersAreFree

LEMMA WriterInit == Init => WriterInv
<1> SUFFICES ASSUME Init PROVE WriterInv
  OBVIOUS
<1>1. log \in Seq(Kinds)
  BY InitInv DEF Inv, Places
<1> QED
  BY <1>1 DEF Init, WriterInv, NumbersAreFree, NoTransaction

\* The log after an insertion.
LEMMA LogGrows ==
    ASSUME log \in Seq(Kinds), NEW w \in Writers, InsertEvents(w)
    PROVE  log' \in Seq(Kinds) /\ Len(log') \in Nat /\ Len(log') <= MaxLog
<1>1. PICK n \in 1..MaxBatch : \E events \in [1..n -> Kinds] :
            Len(log) + n <= MaxLog /\ log' = log \o events
  BY DEF InsertEvents
<1>2. PICK events \in [1..n -> Kinds] : Len(log) + n <= MaxLog /\ log' = log \o events
  BY <1>1
<1>3. n \in Nat /\ events \in Seq(Kinds) /\ Len(events) = n
  <2>1. n \in Nat
    BY StreamAssumption
  <2>2. events \in Seq(Kinds)
    BY <2>1, SeqDef
  <2> QED
    BY <2>1, <2>2
<1> QED
  BY <1>2, <1>3, ConcatProperties, LenProperties

LEMMA WriterStep ==
    ASSUME WriterInv, [Next]_vars
    PROVE  WriterInv'
<1>0. Len(log) \in Nat
  BY LenProperties DEF WriterInv
<1>1. ASSUME NEW w \in Writers, LockRun(w)
      PROVE  WriterInv'
  BY <1>1 DEF LockRun, WriterInv, NumbersAreFree
<1>2. ASSUME NEW w \in Writers, Number(w)
      PROVE  WriterInv'
  <2>1. /\ writer[w].phase = "locked" /\ log' = log
        /\ writer' = [writer EXCEPT ![w] = [phase |-> "numbered", first |-> Len(log) + 1]]
    BY <1>2 DEF Number
  <2>2. Len(log) + 1 \in Nat
    BY <1>0
  <2> QED
    BY <2>1, <2>2 DEF WriterInv, NumbersAreFree
<1>3. ASSUME NEW w \in Writers, InsertEvents(w)
      PROVE  WriterInv'
  <2>1. /\ writer[w].phase = "numbered"
        /\ writer' = [writer EXCEPT ![w] = [phase |-> "idle", first |-> 0]]
    BY <1>3 DEF InsertEvents, NoTransaction
  <2>2. \A u \in Writers : writer'[u].phase = "idle"
    BY <2>1 DEF WriterInv
  <2>3. writer' \in [Writers -> [phase: {"idle", "locked", "numbered"}, first: Nat]]
    BY <2>1 DEF WriterInv
  <2>4. log' \in Seq(Kinds)
    BY <1>3, LogGrows DEF WriterInv
  <2> QED
    BY <2>2, <2>3, <2>4 DEF WriterInv, NumbersAreFree
<1>4. ASSUME NEW w \in Writers, RollBack(w)
      PROVE  WriterInv'
  BY <1>4 DEF RollBack, NoTransaction, WriterInv, NumbersAreFree
<1>5. CASE UNCHANGED <<log, writer>>
  BY <1>5 DEF WriterInv, NumbersAreFree
<1>6. CASE Streaming \/ Drop
  BY <1>5, <1>6 DEF Streaming, Connect, ResolveCursor, Wake, TakeSignal, ReadEvents, Send,
        AllSent, Receive, Drop
<1>7. CASE UNCHANGED vars
  BY <1>5, <1>7 DEF vars
<1> QED
  BY <1>1, <1>2, <1>3, <1>4, <1>6, <1>7 DEF Next, Transaction

\* A transaction finds the numbers it gave to its events free, for every number of
\* writers: the log has no gap and the unique index refuses nobody, because the
\* run's row is locked before the last number is read.
THEOREM NumbersStayFree == Spec => []NumbersAreFree
<1>1. WriterInv => NumbersAreFree
  BY DEF WriterInv
<1> QED
  BY <1>1, WriterInit, WriterStep, PTL DEF Spec

-----------------------------------------------------------------------------

\* What TypeOK says of the stream; the rest is in WriterInv.
StreamTypes ==
    /\ Len(log) <= MaxLog
    /\ start \in Positions
    /\ server \in Servers
    /\ wire \in Seq(Positions)
    /\ received \in Seq(Positions)
    /\ drops \in 0..MaxDrops

LEMMA TypesInit == Init => StreamTypes
<1> SUFFICES ASSUME Init PROVE StreamTypes
  OBVIOUS
<1>1. PICK n \in 0..MaxLog : log \in [1..n -> Kinds]
  BY DEF Init
<1>2. Len(log) = n /\ n \in Nat
  <2>1. n \in Nat
    BY StreamAssumption
  <2>2. log \in Seq(Kinds) /\ DOMAIN log = 1..n
    BY <1>1, <2>1, SeqDef
  <2> QED
    BY <2>1, <2>2, LenProperties
<1> QED
  BY <1>2, StreamAssumption DEF Init, StreamTypes, Positions, Servers, Down

LEMMA TypesStep ==
    ASSUME Inv, WriterInv, StreamTypes, [Next]_vars
    PROVE  StreamTypes'
<1>0. /\ Len(log) \in Nat /\ MaxLog \in Nat /\ MaxDrops \in Nat
      /\ Len(log) \in Positions /\ Last \in Positions /\ 0 \in Positions
  BY LenProperties, StreamAssumption DEF WriterInv, StreamTypes, Inv, Places, Positions
<1>1. ASSUME NEW w \in Writers, InsertEvents(w)
      PROVE  StreamTypes'
  BY <1>1, LogGrows DEF InsertEvents, WriterInv, StreamTypes, Positions
<1>2. CASE UNCHANGED <<log, start, server, wire, received, drops>>
  BY <1>2 DEF StreamTypes, Positions
<1>3. ASSUME NEW w \in Writers, LockRun(w) \/ Number(w) \/ RollBack(w)
      PROVE  StreamTypes'
  BY <1>2, <1>3 DEF LockRun, Number, RollBack
<1>4. CASE Connect
  BY <1>0, <1>4 DEF Connect, Down, StreamTypes, Servers, Positions
<1>5. CASE ResolveCursor
  BY <1>0, <1>5 DEF ResolveCursor, StreamTypes, Servers, Positions
<1>6. CASE Wake
  BY <1>6 DEF Wake, StreamTypes, Servers, Positions
<1>7. CASE TakeSignal
  BY <1>7 DEF TakeSignal, StreamTypes, Servers, Positions
<1>8. CASE AllSent
  BY <1>8 DEF AllSent, StreamTypes, Servers, Positions
<1>9. CASE ReadEvents
  <2>1. ShownAfter(server.cursor) \subseteq Positions
    BY <1>0 DEF ShownAfter, StreamTypes, Positions
  <2> QED
    BY <1>0, <1>9, <2>1 DEF ReadEvents, StreamTypes, Servers, Positions
<1>10. CASE Send
  <2>1. PICK p \in server.unsent : /\ wire' = Append(wire, p)
                                  /\ server' = [server EXCEPT !.unsent = @ \ {p}]
    BY <1>10 DEF Send
  <2>2. p \in Positions
    BY <2>1 DEF StreamTypes, Servers
  <2>3. wire' \in Seq(Positions)
    BY <2>1, <2>2, AppendProperties DEF StreamTypes
  <2>4. server' \in Servers
    BY <2>1 DEF StreamTypes, Servers
  <2> QED
    BY <1>10, <2>3, <2>4 DEF Send, StreamTypes, Positions
<1>11. CASE Receive
  <2>1. wire # <<>> /\ wire \in Seq(Positions) /\ received \in Seq(Positions)
    BY <1>11 DEF Receive, StreamTypes
  <2>2. Head(wire) \in Positions /\ Tail(wire) \in Seq(Positions)
    BY <2>1, HeadTailProperties
  <2>3. Append(received, Head(wire)) \in Seq(Positions)
    BY <2>1, <2>2, AppendProperties
  <2> QED
    BY <1>11, <2>2, <2>3 DEF Receive, StreamTypes, Positions
<1>12. CASE Drop
  <2>1. wire' = <<>> /\ server' = Down /\ drops' = drops + 1 /\ drops < MaxDrops
    BY <1>12 DEF Drop
  <2> QED
    BY <1>0, <1>12, <2>1 DEF Drop, Down, StreamTypes, Servers, Positions
<1>13. CASE UNCHANGED vars
  BY <1>2, <1>13 DEF vars
<1> QED
  BY <1>1, <1>3, <1>4, <1>5, <1>6, <1>7, <1>8, <1>9, <1>10, <1>11, <1>12, <1>13
     DEF Next, Transaction, Streaming

\* Log, cursors, wire and page keep their types, and a cursor never goes past the
\* end of the log, for every bound.
THEOREM StreamTyped == Spec => []TypeOK
<1>1. WriterInv /\ StreamTypes => TypeOK
  BY DEF WriterInv, StreamTypes, TypeOK
<1>2. Inv /\ [Next]_vars => Inv'
  BY StreamStep
<1> QED
  BY <1>1, <1>2, InitInv, WriterInit, WriterStep, TypesInit, TypesStep, PTL DEF Spec
=============================================================================
