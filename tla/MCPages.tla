------------------------------- MODULE MCPages -------------------------------
(***************************************************************************)
(* Instances of Pages for TLC: the values of its set-valued constants and  *)
(* the bound.                                                              *)
(***************************************************************************)
EXTENDS Pages

CONSTANTS c1, c2

TwoConversations == {c1, c2}

Decided == {"approval"}

\* The runs and events the approvals page is checked with, when no call fails and
\* when one does, and the other two pages.
TwoLogs == <<5, 4>>
BrokenLogs == <<5, 1>>
ChatLogs == <<4, 1>>
DeskLogs == <<4, 2>>

Within(logs) == \A n \in Admitted : LogLength(n) <= logs[n]

\* The conversations are alike: the first run is one of c1.
PagesBound ==
    /\ Admitted # {} => runs[1].home = c1
    /\ page.epoch > 0 => Within(ChatLogs)
    /\ broken > 0 => Within(BrokenLogs)
    /\ desk.open => Within(DeskLogs)
    /\ panel.open \/ desk.open => \A n \in Admitted : runs[n].home = runs[1].home

\* Moments no query can read any more make no difference, nor does a subscription
\* of a session that was left.
Reading ==
    {request[i].since : i \in {i \in Slots : request[i].kind \in {"load", "run", "refresh"}
                                             /\ IsCurrent(request[i])}}
    \cup {call[i].since : i \in {i \in CallSlots : call[i].kind \in {"approvals", "runs"}}}
    \cup {visit[i].since : i \in {i \in VisitSlots : visit[i].kind = "list" \/ desk.newest = i}}
Oldest == CHOOSE m \in Reading \cup {Now} : \A k \in Reading : m <= k
Age(c) == [c EXCEPT !.since = IF @ < Oldest THEN 0 ELSE @ - Oldest]
Relevant ==
    <<SubSeq(past, Oldest, Now), page, IF IsCurrent(stream) THEN stream ELSE NoStream,
      [i \in Slots |-> Age(request[i])], failures,
      panel, watch, [i \in CallSlots |-> Age(call[i])], broken,
      desk, feed, [i \in VisitSlots |-> Age(visit[i])], misses>>
=============================================================================
