----------------------------- MODULE PagesProofs -----------------------------
(***************************************************************************)
(* Proofs about the pages on one server, for any number of conversations,  *)
(* runs, events, sessions, calls and failures.                             *)
(*                                                                         *)
(* The server is only known to go on: a run keeps its conversation and the *)
(* events it has, and neither its status nor its approval changes without  *)
(* an event that says so, but for an approval that expires.  On that, each *)
(* page has an inductive invariant, which relates what it shows, what it   *)
(* has asked for and what it is subscribed to.                             *)
(***************************************************************************)
EXTENDS Pages, FiniteSetTheorems, TLAPS

-----------------------------------------------------------------------------
(* Least elements.                                                         *)

\* A set of numbers that is not empty has a least one: of the intervals up to its
\* members one is minimal.
LEMMA LeastNumber ==
    ASSUME NEW T \in SUBSET Nat, T # {}
    PROVE  \E x \in T : \A y \in T : x <= y
<1> DEFINE R == StrictSubsetOrdering(Nat)
           F == {0..t : t \in T}
<1>1. IsWellFoundedOn(R, FiniteSubsetsOf(Nat))
  BY FS_StrictSubsetOrderingWellFounded
<1>2. F \subseteq FiniteSubsetsOf(Nat)
  <2> SUFFICES ASSUME NEW t \in T PROVE 0..t \in FiniteSubsetsOf(Nat)
    OBVIOUS
  <2>1. IsFiniteSet(0..t)
    BY FS_Interval
  <2> QED BY <2>1 DEF FiniteSubsetsOf
<1>3. F # {}
  OBVIOUS
<1> HIDE DEF R, F
<1>4. PICK s \in F : \A u \in F : ~ (<<u, s>> \in R)
  BY <1>1, <1>2, <1>3, WFMin
<1>5. PICK x \in T : s = 0..x
  BY DEF F
<1>6. SUFFICES ASSUME NEW y \in T, y < x PROVE FALSE
  OBVIOUS
<1>7. ~ (<<0..y, 0..x>> \in R)
  BY <1>4, <1>5 DEF F
<1>8. 0..y \subseteq 0..x /\ 0..y # 0..x
  <2>1. x \in 0..x /\ x \notin 0..y
    BY <1>6
  <2>2. 0..y \subseteq 0..x
    BY <1>6
  <2> QED BY <2>1, <2>2
<1> QED BY <1>7, <1>8 DEF R, StrictSubsetOrdering

\* The least element of a set of numbers is in it.
LEMMA ChosenLeast ==
    ASSUME NEW T \in SUBSET Nat, T # {}
    PROVE  LET i == CHOOSE i \in T : \A j \in T : i <= j IN i \in T /\ \A j \in T : i <= j
BY LeastNumber

\* A set of numbers under a bound that is not empty has a greatest one.
LEMMA GreatestNumber ==
    ASSUME NEW T \in SUBSET Nat, NEW b \in Nat, \A x \in T : x <= b, T # {}
    PROVE  \E x \in T : \A y \in T : y <= x
<1> DEFINE D == {b - x : x \in T}
<1>1. D \in SUBSET Nat /\ D # {}
  <2>1. \A x \in T : x \in Nat /\ x <= b /\ b - x \in Nat
    OBVIOUS
  <2> QED BY <2>1
<1>2. PICK d \in D : \A e \in D : d <= e
  <2> HIDE DEF D
  <2> QED BY <1>1, LeastNumber
<1>3. PICK x \in T : d = b - x
  BY <1>2
<1>4. \A y \in T : b - x <= b - y
  BY <1>2, <1>3
<1> QED BY <1>3, <1>4

-----------------------------------------------------------------------------
(* The server goes on.                                                     *)

\* What may become of a run.
Follows(r, s) ==
    /\ s.home = r.home
    /\ Len(r.log) <= Len(s.log)
    /\ \A i \in 1..Len(r.log) : s.log[i] = r.log[i]
    /\ s.status # r.status =>
        \E i \in Len(r.log) + 1..Len(s.log) : s.log[i] = "run.status_changed"
    /\ s.approval \notin {r.approval, "expired"} =>
        \E i \in Len(r.log) + 1..Len(s.log) : s.log[i] \in ApprovalEvents
    /\ r.approval # "none" => s.approval # "none"
    /\ r.approval \notin {"none", "pending"} => s.approval = r.approval

\* What is known of the past: its type and bounds, and that it only goes on.
History ==
    /\ PastTypeOK
    /\ \A m \in 1..Now : /\ Len(past[m]) <= Len(MaxLogs)
                         /\ \A n \in 1..Len(past[m]) : LengthAt(n, m) \in 1..MaxLogs[n]
    /\ \A m, k \in 1..Now : m <= k =>
        /\ Len(past[m]) <= Len(past[k])
        /\ \A n \in 1..Len(past[m]) : Follows(past[m][n], past[k][n])

\* A transaction, or none.
PastKept == Now <= Now' /\ \A m \in 1..Now : past'[m] = past[m]
Grows == History /\ History' /\ PastKept

\* A transaction, by what it does to the past.
RunAdded ==
    /\ Len(runs) < Len(MaxLogs)
    /\ \E r \in RunRecords :
        Len(r.log) = 1 /\ past' = Append(past, Append(runs, r))
RunMoved ==
    \E n \in Admitted, s \in RunRecords :
        /\ Len(s.log) \in 1..MaxLogs[n]
        /\ Follows(runs[n], s)
        /\ past' = Append(past, [runs EXCEPT ![n] = s])

LEMMA FollowsItself == ASSUME NEW r \in RunRecords PROVE Follows(r, r)
BY DEF Follows, RunRecords

LEMMA FollowsFurther ==
    ASSUME NEW r \in RunRecords, NEW s \in RunRecords, NEW t \in RunRecords,
           Follows(r, s), Follows(s, t)
    PROVE  Follows(r, t)
<1> USE DEF Follows, RunRecords
<1>1. t.home = r.home /\ Len(r.log) <= Len(t.log)
  OBVIOUS
<1>2. \A i \in 1..Len(r.log) : t.log[i] = r.log[i]
  OBVIOUS
<1>3. ASSUME t.status # r.status
      PROVE  \E i \in Len(r.log) + 1..Len(t.log) : t.log[i] = "run.status_changed"
  <2>1. CASE t.status # s.status
    BY <2>1
  <2>2. CASE t.status = s.status
    <3>1. PICK i \in Len(r.log) + 1..Len(s.log) : s.log[i] = "run.status_changed"
      BY <1>3, <2>2
    <3>2. i \in 1..Len(s.log) /\ i \in Len(r.log) + 1..Len(t.log)
      OBVIOUS
    <3> QED BY <3>1, <3>2
  <2> QED BY <2>1, <2>2
<1>4. ASSUME t.approval \notin {r.approval, "expired"}
      PROVE  \E i \in Len(r.log) + 1..Len(t.log) : t.log[i] \in ApprovalEvents
  <2>1. CASE t.approval # s.approval
    BY <1>4, <2>1
  <2>2. CASE t.approval = s.approval
    <3>1. PICK i \in Len(r.log) + 1..Len(s.log) : s.log[i] \in ApprovalEvents
      BY <1>4, <2>2
    <3>2. i \in 1..Len(s.log) /\ i \in Len(r.log) + 1..Len(t.log)
      OBVIOUS
    <3> QED BY <3>1, <3>2
  <2> QED BY <2>1, <2>2
<1>5. /\ r.approval # "none" => t.approval # "none"
      /\ r.approval \notin {"none", "pending"} => t.approval = r.approval
  OBVIOUS
<1> QED BY <1>1, <1>2, <1>3, <1>4, <1>5

LEMMA MaxLogsType ==
    /\ Len(MaxLogs) \in Nat \ {0}
    /\ \A n \in RunNumbers : MaxLogs[n] \in Nat \ {0}
    /\ RunNumbers \subseteq Nat \ {0}
    /\ Positions \subseteq Nat
    /\ 0 \in Positions
    /\ \A n \in RunNumbers : 0..MaxLogs[n] \subseteq Positions
<1>1. MaxLogs \in Seq(Nat \ {0}) /\ MaxLogs # <<>>
  BY ServerAssumption
<1>2. Len(MaxLogs) \in Nat \ {0}
  BY <1>1
<1>3. \A n \in RunNumbers : MaxLogs[n] \in Nat \ {0}
  BY <1>1 DEF RunNumbers
<1>4. RunNumbers \subseteq Nat \ {0}
  BY <1>2 DEF RunNumbers
<1>5. \A n \in RunNumbers : 0..MaxLogs[n] \subseteq Positions
  BY DEF Positions
<1>6. Positions \subseteq Nat
  BY <1>3 DEF Positions
<1>7. 1 \in RunNumbers
  BY <1>2 DEF RunNumbers
<1>8. 0 \in Positions
  BY <1>3, <1>5, <1>7
<1> QED BY <1>2, <1>3, <1>4, <1>5, <1>6, <1>8

\* What History says of single moments and runs.
LEMMA AtMoment ==
    ASSUME History
    PROVE  /\ Now \in Nat \ {0}
           /\ \A m \in 1..Now : /\ past[m] \in Seq(RunRecords)
                                /\ Len(past[m]) \in Nat
                                /\ Len(past[m]) <= Len(MaxLogs)
                                /\ 1..Len(past[m]) \subseteq RunNumbers
           /\ \A m \in 1..Now, n \in RunNumbers : n \in 1..Len(past[m]) =>
                /\ past[m][n] \in RunRecords
                /\ past[m][n].log \in Seq(EventTypes)
                /\ LengthAt(n, m) \in 1..MaxLogs[n]
                /\ LengthAt(n, m) \in Positions
<1> USE DEF History, PastTypeOK, Now
<1>1. Now \in Nat \ {0}
  OBVIOUS
<1>2. ASSUME NEW m \in 1..Now
      PROVE  /\ past[m] \in Seq(RunRecords)
             /\ Len(past[m]) \in Nat
             /\ Len(past[m]) <= Len(MaxLogs)
             /\ 1..Len(past[m]) \subseteq RunNumbers
  <2>1. past[m] \in Seq(RunRecords)
    OBVIOUS
  <2> QED BY <2>1, MaxLogsType DEF RunNumbers
<1>3. ASSUME NEW m \in 1..Now, NEW n \in RunNumbers, n \in 1..Len(past[m])
      PROVE  /\ past[m][n] \in RunRecords
             /\ past[m][n].log \in Seq(EventTypes)
             /\ LengthAt(n, m) \in 1..MaxLogs[n]
             /\ LengthAt(n, m) \in Positions
  <2>1. past[m][n] \in RunRecords
    BY <1>2, <1>3
  <2>2. past[m][n].log \in Seq(EventTypes)
    BY <2>1 DEF RunRecords
  <2>3. LengthAt(n, m) \in 1..MaxLogs[n]
    BY <1>3
  <2>4. LengthAt(n, m) \in Positions
    BY <2>3, MaxLogsType
  <2> QED BY <2>1, <2>2, <2>3, <2>4
<1> QED BY <1>1, <1>2, <1>3

LEMMA AtPresent ==
    ASSUME History
    PROVE  /\ runs \in Seq(RunRecords)
           /\ Len(runs) \in Nat
           /\ Len(runs) <= Len(MaxLogs)
           /\ Admitted \subseteq RunNumbers
           /\ \A n \in Admitted : /\ runs[n] \in RunRecords
                                  /\ runs[n].log \in Seq(EventTypes)
                                  /\ LogLength(n) \in 1..MaxLogs[n]
                                  /\ LogLength(n) \in Positions
                                  /\ LogLength(n) = LengthAt(n, Now)
<1>1. Now \in 1..Now
  BY AtMoment
<1> QED BY <1>1, AtMoment DEF runs, Admitted, LogLength, LengthAt

\* The present follows every moment of the past.
LEMMA SincePast ==
    ASSUME History, NEW m \in 1..Now, NEW k \in 1..Now, m <= k, NEW n \in 1..Len(past[m])
    PROVE  n \in 1..Len(past[k]) /\ Follows(past[m][n], past[k][n])
BY AtMoment DEF History

\* What is there stays.
LEMMA Stays ==
    ASSUME Grows, NEW n \in Admitted
    PROVE  n \in Admitted' /\ Follows(runs[n], runs'[n])
<1>1. Now \in Nat \ {0} /\ Now' \in Nat \ {0}
  BY AtMoment DEF Grows, History, PastTypeOK, Now
<1>2. Now \in 1..Now /\ Now \in 1..Now' /\ Now' \in 1..Now' /\ Now <= Now'
  BY <1>1 DEF Grows, PastKept
<1>3. past'[Now] = past[Now]
  BY <1>2 DEF Grows, PastKept
<1>4. n \in 1..Len(past'[Now])
  BY <1>3 DEF Admitted, runs
<1>5. /\ Len(past'[Now]) <= Len(past'[Now'])
      /\ Follows(past'[Now][n], past'[Now'][n])
  BY <1>2, <1>4 DEF Grows, History
<1>6. n \in 1..Len(past'[Now'])
  <2>1. Len(past'[Now]) \in Nat /\ Len(past'[Now']) \in Nat
    BY <1>2 DEF Grows, History, PastTypeOK, Now
  <2> QED BY <1>4, <1>5, <2>1
<1> QED BY <1>3, <1>5, <1>6 DEF Admitted, runs

LEMMA HistoryStands ==
    ASSUME History, UNCHANGED past
    PROVE  Grows
<1>1. History'
  BY DEF History, PastTypeOK, Now, LengthAt
<1>2. PastKept
  BY AtMoment DEF PastKept, Now
<1> QED BY <1>1, <1>2 DEF Grows

\* The past goes on with any list of runs that follows the present one.
LEMMA HistoryGoesOn ==
    ASSUME History, NEW next \in Seq(RunRecords), past' = Append(past, next),
           Len(next) <= Len(MaxLogs),
           \A n \in 1..Len(next) : Len(next[n].log) \in 1..MaxLogs[n],
           Len(runs) <= Len(next),
           \A n \in Admitted : Follows(runs[n], next[n])
    PROVE  Grows
<1>1. past \in Seq(Seq(RunRecords)) /\ Now \in Nat \ {0}
  BY AtMoment DEF History, PastTypeOK
<1>2. /\ Len(past') = Now + 1
      /\ past' \in Seq(Seq(RunRecords))
      /\ past'[Now + 1] = next
      /\ \A m \in 1..Now : past'[m] = past[m]
  BY <1>1 DEF Now
<1>3. Now' = Now + 1
  BY <1>2 DEF Now
<1>4. PastKept
  BY <1>1, <1>2, <1>3 DEF PastKept
<1>5. PastTypeOK'
  BY <1>1, <1>2, <1>3 DEF PastTypeOK
<1>6. ASSUME NEW m \in 1..Now'
      PROVE  /\ Len(past'[m]) <= Len(MaxLogs)
             /\ \A n \in 1..Len(past'[m]) : Len(past'[m][n].log) \in 1..MaxLogs[n]
  <2>1. CASE m \in 1..Now
    BY <2>1, <1>2 DEF History, LengthAt
  <2>2. CASE m = Now + 1
    BY <2>2, <1>2
  <2>3. m \in 1..Now \/ m = Now + 1
    BY <1>1, <1>3
  <2> QED BY <2>1, <2>2, <2>3
<1>7. ASSUME NEW m \in 1..Now', NEW k \in 1..Now', m <= k
      PROVE  /\ Len(past'[m]) <= Len(past'[k])
             /\ \A n \in 1..Len(past'[m]) : Follows(past'[m][n], past'[k][n])
  <2>1. CASE k \in 1..Now
    <3>1. m \in 1..Now
      BY <1>7, <2>1, <1>1
    <3> QED BY <1>7, <2>1, <3>1, <1>2 DEF History
  <2>2. CASE k = Now + 1 /\ m \in 1..Now
    <3>1. Now \in 1..Now /\ m <= Now
      BY <1>1, <2>2
    <3>2. /\ Len(past[m]) <= Len(runs)
          /\ \A n \in 1..Len(past[m]) : Follows(past[m][n], runs[n])
      BY <2>2, <3>1 DEF History, runs
    <3>3. Len(past[m]) \in Nat /\ Len(runs) \in Nat /\ Len(next) \in Nat
      BY <2>2, AtMoment, AtPresent
    <3>4. ASSUME NEW n \in 1..Len(past[m]) PROVE Follows(past[m][n], next[n])
      <4>1. n \in Admitted /\ n \in 1..Len(next)
        BY <3>2, <3>3 DEF Admitted
      <4>2. Follows(past[m][n], runs[n]) /\ Follows(runs[n], next[n])
        BY <3>2, <4>1
      <4>3. past[m][n] \in RunRecords /\ runs[n] \in RunRecords /\ next[n] \in RunRecords
        BY <2>2, <4>1, AtMoment, AtPresent
      <4> QED BY <4>2, <4>3, FollowsFurther
    <3>5. past'[m] = past[m] /\ past'[k] = next
      BY <2>2, <1>2
    <3>6. Len(past[m]) <= Len(next)
      BY <3>2, <3>3
    <3> QED BY <3>4, <3>5, <3>6
  <2>3. CASE k = Now + 1 /\ m = Now + 1
    <3>1. \A n \in 1..Len(next) : Follows(next[n], next[n])
      BY FollowsItself
    <3>2. Len(next) \in Nat
      OBVIOUS
    <3>3. past'[m] = next /\ past'[k] = next
      BY <2>3, <1>2
    <3> QED BY <3>1, <3>2, <3>3
  <2>4. k \in 1..Now \/ (k = Now + 1 /\ m \in 1..Now) \/ (k = Now + 1 /\ m = Now + 1)
    BY <1>1, <1>3, <1>7
  <2> QED BY <2>1, <2>2, <2>3, <2>4
<1>8. History'
  BY <1>5, <1>6, <1>7 DEF History, LengthAt
<1> QED BY <1>4, <1>8 DEF Grows

LEMMA RunAddedGrows == History /\ RunAdded => Grows
<1> SUFFICES ASSUME History, RunAdded PROVE Grows
  OBVIOUS
<1>1. PICK r \in RunRecords : Len(r.log) = 1 /\ past' = Append(past, Append(runs, r))
  BY DEF RunAdded
<1>2. /\ runs \in Seq(RunRecords) /\ Len(runs) \in Nat /\ Len(runs) < Len(MaxLogs)
      /\ Len(MaxLogs) \in Nat
  BY AtPresent, MaxLogsType DEF RunAdded
<1> DEFINE next == Append(runs, r)
<1>3. /\ next \in Seq(RunRecords)
      /\ Len(next) = Len(runs) + 1
      /\ next[Len(runs) + 1] = r
      /\ \A n \in 1..Len(runs) : next[n] = runs[n]
  BY <1>2
<1>4. ASSUME NEW n \in 1..Len(next) PROVE Len(next[n].log) \in 1..MaxLogs[n]
  <2>1. CASE n \in Admitted
    BY <1>3, <2>1, AtPresent DEF Admitted, LogLength
  <2>2. CASE n = Len(runs) + 1
    <3>1. n \in RunNumbers
      BY <1>2, <2>2 DEF RunNumbers
    <3>2. MaxLogs[n] \in Nat \ {0} /\ next[n] = r
      BY <1>3, <2>2, <3>1, MaxLogsType
    <3>3. 1 \in 1..MaxLogs[n]
      BY <3>2
    <3>4. Len(next[n].log) = 1
      BY <1>1, <3>2
    <3> QED BY <3>3, <3>4
  <2> QED BY <1>2, <1>3, <2>1, <2>2 DEF Admitted
<1>5. \A n \in Admitted : Follows(runs[n], next[n])
  BY <1>3, AtPresent, FollowsItself DEF Admitted
<1> HIDE DEF next
<1>6. past' = Append(past, next) /\ Len(runs) <= Len(next) /\ Len(next) <= Len(MaxLogs)
  BY <1>1, <1>2, <1>3 DEF next
<1> QED BY <1>3, <1>4, <1>5, <1>6, HistoryGoesOn

LEMMA RunMovedGrows == History /\ RunMoved => Grows
<1> SUFFICES ASSUME History, RunMoved PROVE Grows
  OBVIOUS
<1>1. PICK n \in Admitted, s \in RunRecords :
        /\ Len(s.log) \in 1..MaxLogs[n]
        /\ Follows(runs[n], s)
        /\ past' = Append(past, [runs EXCEPT ![n] = s])
  BY DEF RunMoved
<1>2. runs \in Seq(RunRecords) /\ Len(runs) \in Nat /\ Len(runs) <= Len(MaxLogs)
  BY AtPresent
<1> DEFINE next == [runs EXCEPT ![n] = s]
<1>3. /\ next \in Seq(RunRecords)
      /\ Len(next) = Len(runs)
      /\ next[n] = s
      /\ \A k \in Admitted : k # n => next[k] = runs[k]
  BY <1>2 DEF Admitted
<1> HIDE DEF next
<1>4. ASSUME NEW k \in 1..Len(next)
      PROVE  Len(next[k].log) \in 1..MaxLogs[k]
  <2>1. k \in Admitted
    BY <1>3 DEF Admitted
  <2> QED BY <1>1, <1>3, <2>1, AtPresent DEF LogLength
<1>5. \A k \in Admitted : Follows(runs[k], next[k])
  BY <1>1, <1>3, AtPresent, FollowsItself
<1>6. past' = Append(past, next)
  BY <1>1 DEF next
<1> QED BY <1>2, <1>3, <1>4, <1>5, <1>6, HistoryGoesOn

\* A transaction that says of a new status, and of an approval unless it expires,
\* that they are new.
Says(n, status, approval, events) ==
    /\ events \in Seq(EventTypes)
    /\ status # runs[n].status => \E i \in 1..Len(events) : events[i] = "run.status_changed"
    /\ approval \notin {runs[n].approval, "expired"} =>
        \E i \in 1..Len(events) : events[i] \in ApprovalEvents
    /\ runs[n].approval # "none" => approval # "none"
    /\ runs[n].approval \notin {"none", "pending"} => approval = runs[n].approval

LEMMA CommitMoves ==
    ASSUME History, NEW n \in Admitted,
           NEW status \in Statuses, NEW approval \in ApprovalStatuses, NEW events,
           Says(n, status, approval, events), Commit(n, status, approval, events)
    PROVE  RunMoved
<1> DEFINE r == runs[n]
           s == [r EXCEPT !.status = status, !.approval = approval, !.log = r.log \o events]
<1>1. r \in RunRecords /\ r.log \in Seq(EventTypes) /\ Len(r.log) \in 1..MaxLogs[n]
  BY AtPresent DEF LogLength
<1>2. events \in Seq(EventTypes)
  BY DEF Says
<1>3. /\ s.home = r.home
      /\ s.status = status
      /\ s.approval = approval
      /\ s.log = r.log \o events
      /\ s \in [home: Conversations, status: Statuses, approval: ApprovalStatuses,
                log: {s.log}]
  BY <1>1 DEF RunRecords
<1>4. /\ r.log \o events \in Seq(EventTypes)
      /\ Len(r.log \o events) = Len(r.log) + Len(events)
      /\ \A i \in 1..Len(r.log) : (r.log \o events)[i] = r.log[i]
      /\ \A i \in 1..Len(events) : (r.log \o events)[Len(r.log) + i] = events[i]
  <2> HIDE DEF r
  <2> QED BY <1>1, <1>2
<1>5. s \in RunRecords
  BY <1>3, <1>4 DEF RunRecords
<1>6. Len(s.log) \in 1..MaxLogs[n]
  <2>1. Len(r.log) + Len(events) <= MaxLogs[n]
    BY DEF Commit, LogLength
  <2>2. MaxLogs[n] \in Nat
    BY AtPresent, MaxLogsType
  <2>3. Len(s.log) = Len(r.log) + Len(events) /\ Len(events) \in Nat
    BY <1>2, <1>3, <1>4
  <2> HIDE DEF r, s
  <2> QED BY <1>1, <2>1, <2>2, <2>3
<1>7. past' = Append(past, [runs EXCEPT ![n] = s])
  BY DEF Commit
<1>8. \A i \in 1..Len(events) :
        /\ Len(r.log) + i \in Len(r.log) + 1..Len(s.log)
        /\ s.log[Len(r.log) + i] = events[i]
  <2> HIDE DEF r, s
  <2> QED BY <1>1, <1>2, <1>3, <1>4
<1>9. Follows(r, s)
  <2>1. s.home = r.home /\ Len(r.log) <= Len(s.log) /\ \A i \in 1..Len(r.log) : s.log[i] = r.log[i]
    <3> HIDE DEF r, s
    <3> QED BY <1>1, <1>2, <1>3, <1>4
  <2>2. ASSUME s.status # r.status
        PROVE  \E i \in Len(r.log) + 1..Len(s.log) : s.log[i] = "run.status_changed"
    <3>1. PICK i \in 1..Len(events) : events[i] = "run.status_changed"
      BY <1>3, <2>2 DEF Says
    <3> HIDE DEF r, s
    <3> QED BY <1>8, <3>1
  <2>3. ASSUME s.approval \notin {r.approval, "expired"}
        PROVE  \E i \in Len(r.log) + 1..Len(s.log) : s.log[i] \in ApprovalEvents
    <3>1. PICK i \in 1..Len(events) : events[i] \in ApprovalEvents
      BY <1>3, <2>3 DEF Says
    <3> HIDE DEF r, s
    <3> QED BY <1>8, <3>1
  <2>4. /\ r.approval # "none" => s.approval # "none"
        /\ r.approval \notin {"none", "pending"} => s.approval = r.approval
    BY <1>3 DEF Says
  <2> HIDE DEF r, s
  <2> QED BY <2>1, <2>2, <2>3, <2>4 DEF Follows
<1> HIDE DEF s
<1> QED BY <1>5, <1>6, <1>7, <1>9 DEF RunMoved

LEMMA AdmitGrows ==
    ASSUME History, NEW c \in Conversations, AdmitNewRun(c)
    PROVE  Grows
<1> DEFINE r == [home |-> c, status |-> "queued", approval |-> "none",
                 log |-> <<"message.completed">>]
<1>1. r \in RunRecords /\ Len(r.log) = 1
  BY DEF RunRecords, Statuses, ApprovalStatuses, EventTypes
<1>2. Len(runs) < Len(MaxLogs) /\ past' = Append(past, Append(runs, r))
  BY DEF AdmitNewRun
<1> HIDE DEF r
<1> QED BY <1>1, <1>2, RunAddedGrows DEF RunAdded

\* Each transaction of a runtime, and each decision, says what is new.
LEMMA RuntimeGrows ==
    ASSUME History, NEW n \in Admitted,
           \/ RuntimeStep(n)
           \/ \E d \in {"approved", "rejected"} : DecideApproval(n, d)
           \/ ExpireOnDecide(n)
    PROVE  Grows
<1>1. runs[n].approval \in ApprovalStatuses /\ runs[n].status \in Statuses
  BY AtPresent DEF RunRecords
<1> USE <1>1
<1>2. CASE ConsumeFirstStep(n)
  <2> DEFINE e == <<"run.status_changed">>
  <2>1. "running" \in Statuses /\ Commit(n, "running", runs[n].approval, e)
    BY <1>2 DEF ConsumeFirstStep, Statuses
  <2>2. e \in Seq(EventTypes) /\ e[1] = "run.status_changed" /\ 1 \in 1..Len(e)
    BY DEF EventTypes
  <2> HIDE DEF e
  <2>3. Says(n, "running", runs[n].approval, e)
    BY <2>2 DEF Says
  <2> QED BY <2>1, <2>3, CommitMoves, RunMovedGrows
<1>3. CASE PersistToolOutcome(n)
  <2> DEFINE e == <<"tool.call.started", "tool.call.completed">>
  <2>1. /\ "running" \in Statuses /\ Commit(n, "running", runs[n].approval, e)
        /\ runs[n].status = "running"
    BY <1>3 DEF PersistToolOutcome, Statuses
  <2>2. e \in Seq(EventTypes)
    BY DEF EventTypes
  <2> HIDE DEF e
  <2>3. Says(n, "running", runs[n].approval, e)
    BY <2>1, <2>2 DEF Says
  <2> QED BY <2>1, <2>3, CommitMoves, RunMovedGrows
<1>4. CASE ApplyAdminCommand(n)
  <2> DEFINE e == <<"admin.command.applied">>
  <2>1. Commit(n, runs[n].status, runs[n].approval, e)
    BY <1>4 DEF ApplyAdminCommand
  <2>2. e \in Seq(EventTypes)
    BY DEF EventTypes, HiddenEvents
  <2> HIDE DEF e
  <2>3. Says(n, runs[n].status, runs[n].approval, e)
    BY <2>1, <2>2 DEF Says
  <2> QED BY <2>1, <2>3, CommitMoves, RunMovedGrows
<1>5. CASE PersistApprovalWait(n)
  <2> DEFINE e == <<"approval.requested", "run.status_changed">>
  <2>1. /\ "waiting_for_admin" \in Statuses /\ "pending" \in ApprovalStatuses
        /\ Commit(n, "waiting_for_admin", "pending", e)
        /\ runs[n].approval = "none"
    BY <1>5 DEF PersistApprovalWait, Statuses, Waiting, ApprovalStatuses
  <2>2. /\ e \in Seq(EventTypes) /\ e[2] = "run.status_changed" /\ e[1] \in ApprovalEvents
        /\ 1 \in 1..Len(e) /\ 2 \in 1..Len(e)
    BY DEF EventTypes, HiddenEvents, ApprovalEvents
  <2> HIDE DEF e
  <2>3. Says(n, "waiting_for_admin", "pending", e)
    BY <2>1, <2>2 DEF Says
  <2> QED BY <2>1, <2>3, CommitMoves, RunMovedGrows
<1>6. CASE ResolveWait(n)
  <2> DEFINE e == IF runs[n].approval = "approved"
                  THEN <<"tool.call.completed", "run.status_changed">>
                  ELSE <<"tool.call.rejected", "run.status_changed">>
  <2>1. "running" \in Statuses /\ Commit(n, "running", runs[n].approval, e)
    BY <1>6 DEF ResolveWait, Statuses
  <2>2. e \in Seq(EventTypes) /\ e[2] = "run.status_changed" /\ 2 \in 1..Len(e)
    <3>1. CASE runs[n].approval = "approved"
      BY <3>1 DEF EventTypes
    <3>2. CASE runs[n].approval # "approved"
      BY <3>2 DEF EventTypes
    <3> QED BY <3>1, <3>2
  <2> HIDE DEF e
  <2>3. Says(n, "running", runs[n].approval, e)
    BY <2>2 DEF Says
  <2> QED BY <2>1, <2>3, CommitMoves, RunMovedGrows
<1>7. ASSUME NEW verdict \in Terminal, CompleteRun(n, verdict) PROVE Grows
  <2> DEFINE e == <<"message.completed", "run.status_changed">>
  <2>1. verdict \in Statuses /\ Commit(n, verdict, runs[n].approval, e)
    BY <1>7 DEF CompleteRun, Statuses
  <2>2. e \in Seq(EventTypes) /\ e[2] = "run.status_changed" /\ 2 \in 1..Len(e)
    BY DEF EventTypes
  <2> HIDE DEF e
  <2>3. Says(n, verdict, runs[n].approval, e)
    BY <2>2 DEF Says
  <2> QED BY <2>1, <2>3, CommitMoves, RunMovedGrows
<1>8. ASSUME NEW d \in {"approved", "rejected"}, DecideApproval(n, d) PROVE Grows
  <2> DEFINE e == IF d = "approved" THEN <<"approval.approved">> ELSE <<"approval.rejected">>
  <2>1. /\ d \in ApprovalStatuses /\ Commit(n, runs[n].status, d, e)
        /\ runs[n].approval = "pending"
        /\ d # "none"
    BY <1>8 DEF DecideApproval, ApprovalStatuses
  <2>2. e \in Seq(EventTypes) /\ e[1] \in ApprovalEvents /\ 1 \in 1..Len(e)
    <3>1. CASE d = "approved"
      BY <3>1 DEF EventTypes, HiddenEvents, ApprovalEvents
    <3>2. CASE d # "approved"
      BY <3>2 DEF EventTypes, HiddenEvents, ApprovalEvents
    <3> QED BY <3>1, <3>2
  <2> HIDE DEF e
  <2>3. Says(n, runs[n].status, d, e)
    BY <2>1, <2>2 DEF Says
  <2> QED BY <2>1, <2>3, CommitMoves, RunMovedGrows
<1>9. CASE ExpireOnDecide(n)
  <2>1. /\ "expired" \in ApprovalStatuses /\ Commit(n, runs[n].status, "expired", <<>>)
        /\ runs[n].approval = "pending"
    BY <1>9 DEF ExpireOnDecide, ApprovalStatuses
  <2>2. <<>> \in Seq(EventTypes)
    OBVIOUS
  <2>3. Says(n, runs[n].status, "expired", <<>>)
    BY <2>1, <2>2 DEF Says
  <2> QED BY <2>1, <2>3, CommitMoves, RunMovedGrows
<1> QED BY <1>2, <1>3, <1>4, <1>5, <1>6, <1>7, <1>8, <1>9 DEF RuntimeStep

-----------------------------------------------------------------------------
(* What the queries read.                                                  *)

\* How many of S there are up to i, and the k-th of S.
UpTo(S, i) == {j \in S : j <= i}
Rank(S, i) == Cardinality(UpTo(S, i))
Kth(S, k) == CHOOSE i \in S : Rank(S, i) = k

LEMMA RankType ==
    ASSUME NEW L \in Nat, NEW S \in SUBSET (1..L), NEW i \in Nat
    PROVE  /\ IsFiniteSet(UpTo(S, i)) /\ IsFiniteSet(S)
           /\ Rank(S, i) \in Nat
           /\ Rank(S, i) <= Cardinality(S)
           /\ Cardinality(S) \in Nat
<1>1. IsFiniteSet(1..L)
  BY FS_Interval
<1>2. IsFiniteSet(S)
  BY <1>1, FS_Subset
<1>3. UpTo(S, i) \in SUBSET S
  BY DEF UpTo
<1>4. IsFiniteSet(UpTo(S, i)) /\ Cardinality(UpTo(S, i)) <= Cardinality(S)
  BY <1>2, <1>3, FS_Subset
<1> QED BY <1>2, <1>4, FS_CardinalityType DEF Rank

\* The rank goes up by one at each element, and nowhere else.
LEMMA RankStep ==
    ASSUME NEW L \in Nat, NEW S \in SUBSET (1..L), NEW i \in Nat \ {0}
    PROVE  Rank(S, i) = IF i \in S THEN Rank(S, i - 1) + 1 ELSE Rank(S, i - 1)
<1> DEFINE B == UpTo(S, i - 1)
<1>1. i - 1 \in Nat /\ \A j \in S : j \in Int /\ (j <= i <=> j <= i - 1 \/ j = i)
  OBVIOUS
<1>2. IsFiniteSet(B) /\ i \notin B
  <2>1. IsFiniteSet(B)
    BY <1>1, RankType
  <2> QED BY <2>1 DEF UpTo
<1>3. CASE i \in S
  <2>1. UpTo(S, i) = B \cup {i}
    BY <1>1, <1>3 DEF UpTo
  <2>2. Cardinality(B \cup {i}) = Cardinality(B) + 1
    BY <1>2, FS_AddElement
  <2> QED BY <1>3, <2>1, <2>2 DEF Rank
<1>4. CASE i \notin S
  <2>1. UpTo(S, i) = B
    BY <1>1, <1>4 DEF UpTo
  <2> QED BY <1>4, <2>1 DEF Rank
<1> QED BY <1>3, <1>4

LEMMA KthOfSet ==
    ASSUME NEW L \in Nat, NEW S \in SUBSET (1..L), NEW k \in 1..Cardinality(S)
    PROVE  Kth(S, k) \in S /\ Rank(S, Kth(S, k)) = k
<1> DEFINE T == {i \in Nat : k <= Rank(S, i)}
<1>1. L \in T
  <2>1. UpTo(S, L) = S
    <3>1. \A j \in S : j <= L
      OBVIOUS
    <3> QED BY <3>1 DEF UpTo
  <2> QED BY <2>1 DEF Rank
<1>2. PICK i \in T : \A j \in T : i <= j
  <2>1. T \in SUBSET Nat /\ T # {}
    BY <1>1
  <2> HIDE DEF T
  <2> QED BY <2>1, LeastNumber
<1>3. Cardinality(S) \in Nat /\ k \in Nat \ {0}
  <2>1. Rank(S, 0) \in Nat /\ Cardinality(S) \in Nat
    BY RankType
  <2> QED BY <2>1
<1>4. i # 0
  <2>1. UpTo(S, 0) = {}
    <3>1. \A j \in S : ~(j <= 0)
      OBVIOUS
    <3> QED BY <3>1 DEF UpTo
  <2>2. Rank(S, 0) = 0
    BY <2>1, FS_EmptySet DEF Rank
  <2> QED BY <1>2, <1>3, <2>2
<1>5. Rank(S, i - 1) < k
  <2>1. i - 1 \in Nat /\ i - 1 \notin T
    BY <1>2, <1>4
  <2>2. Rank(S, i - 1) \in Nat
    BY <2>1, RankType
  <2> QED BY <1>3, <2>1, <2>2
<1>6. i \in S /\ Rank(S, i) = k
  <2>1. i \in Nat \ {0} /\ i - 1 \in Nat /\ k <= Rank(S, i)
    BY <1>2, <1>4
  <2>2. Rank(S, i) = IF i \in S THEN Rank(S, i - 1) + 1 ELSE Rank(S, i - 1)
    BY <2>1, RankStep
  <2>3. Rank(S, i - 1) \in Nat
    BY <2>1, RankType
  <2> QED BY <1>3, <1>5, <2>1, <2>2, <2>3
<1> QED BY <1>6 DEF Kth

LEMMA RankOfElement ==
    ASSUME NEW L \in Nat, NEW S \in SUBSET (1..L), NEW i \in S
    PROVE  Rank(S, i) \in 1..Cardinality(S) /\ Kth(S, Rank(S, i)) = i
<1>1. ASSUME NEW a \in S, NEW b \in S, a < b PROVE Rank(S, a) < Rank(S, b)
  <2> DEFINE A == UpTo(S, a)
             B == UpTo(S, b)
  <2>1. A \in SUBSET B /\ A # B
    <3>1. /\ a \in Int /\ b \in Int /\ ~(b <= a) /\ b <= b
          /\ \A j \in S : j \in Int /\ (j <= a => j <= b)
      BY <1>1
    <3> QED BY <3>1 DEF UpTo
  <2>2. a \in Nat /\ b \in Nat
    OBVIOUS
  <2>3. IsFiniteSet(B) /\ Rank(S, a) \in Nat /\ Rank(S, b) \in Nat
    BY <2>2, RankType
  <2> HIDE DEF A, B
  <2>4. Cardinality(A) <= Cardinality(B) /\ Cardinality(A) # Cardinality(B)
    BY <2>1, <2>3, FS_Subset
  <2>5. Rank(S, a) = Cardinality(A) /\ Rank(S, b) = Cardinality(B)
    BY DEF Rank, A, B
  <2> QED BY <2>3, <2>4, <2>5
<1>2. Rank(S, i) \in 1..Cardinality(S)
  <2>1. i \in Nat \ {0} /\ i - 1 \in Nat
    OBVIOUS
  <2>2. Rank(S, i) = Rank(S, i - 1) + 1
    BY <2>1, RankStep
  <2>3. /\ Rank(S, i - 1) \in Nat /\ Rank(S, i) \in Nat /\ Rank(S, i) <= Cardinality(S)
        /\ Cardinality(S) \in Nat
    BY <2>1, RankType
  <2> QED BY <2>2, <2>3
<1>3. Kth(S, Rank(S, i)) \in S /\ Rank(S, Kth(S, Rank(S, i))) = Rank(S, i)
  BY <1>2, KthOfSet
<1>4. ASSUME NEW a \in S PROVE Rank(S, a) \in Nat /\ a \in Nat
  <2>1. a \in Nat
    OBVIOUS
  <2> QED BY <2>1, RankType
<1> DEFINE a == Kth(S, Rank(S, i))
<1>5. a \in S /\ Rank(S, a) = Rank(S, i) /\ a \in Nat /\ i \in Nat /\ Rank(S, i) \in Nat
  BY <1>3, <1>4
<1> HIDE DEF a
<1>6. ~(a < i) /\ ~(i < a)
  BY <1>1, <1>5
<1>7. a = i
  BY <1>5, <1>6
<1> QED BY <1>2, <1>7 DEF a

\* A sequence shows each of its elements once.
Once(s) == \A k, l \in 1..Len(s) : s[k] = s[l] => k = l

LEMMA OnceCounted ==
    ASSUME NEW S, NEW s \in Seq(S), Once(s)
    PROVE  Cardinality({s[k] : k \in 1..Len(s)}) = Len(s)
<1> DEFINE D == 1..Len(s)
           T == {s[k] : k \in 1..Len(s)}
           f == [k \in D |-> s[k]]
<1>1. f \in Bijection(D, T)
  BY DEF Once, Bijection, Injection, Surjection, IsInjective
<1>2. ExistsBijection(D, T)
  BY <1>1 DEF ExistsBijection
<1>3. Len(s) \in Nat
  OBVIOUS
<1>4. IsFiniteSet(D) /\ Cardinality(D) = Len(s)
  BY <1>3, FS_Interval
<1> HIDE DEF D, T
<1>5. Cardinality(T) = Cardinality(D)
  BY <1>2, <1>4, FS_Bijection
<1> QED BY <1>4, <1>5 DEF T

\* The events read at a moment are those of that moment, each once.
LEMMA EventsRead ==
    ASSUME History, NEW m \in 1..Now, NEW n \in 1..Len(past[m]), NEW types
    PROVE  LET s == EventsAt(types, n, m) IN
           /\ s \in Seq(RunNumbers \X Positions)
           /\ {s[k] : k \in 1..Len(s)} = {<<n, i>> : i \in ShownAt(types, n, m)}
           /\ Once(s)
<1> DEFINE L == LengthAt(n, m)
           S == ShownAt(types, n, m)
           s == EventsAt(types, n, m)
<1>1. n \in RunNumbers /\ L \in Nat /\ L \in 1..MaxLogs[n] /\ MaxLogs[n] \in Nat
  BY AtMoment, MaxLogsType
<1>2. S \in SUBSET (1..L)
  BY DEF ShownAt
<1>3. S \subseteq Positions
  BY <1>1, <1>2, MaxLogsType
<1>4. Cardinality(S) \in Nat
  <2> HIDE DEF S, L
  <2> QED BY <1>1, <1>2, RankType
<1>5. s = [k \in 1..Cardinality(S) |-> <<n, Kth(S, k)>>]
  BY DEF EventsAt, Kth, Rank, UpTo
<1> HIDE DEF S, L, s
<1>6. \A k \in 1..Cardinality(S) : Kth(S, k) \in S /\ Rank(S, Kth(S, k)) = k
  BY <1>1, <1>2, KthOfSet
<1>7. s \in Seq(RunNumbers \X Positions) /\ Len(s) = Cardinality(S)
  BY <1>1, <1>3, <1>4, <1>5, <1>6
<1>8. \A k \in 1..Len(s) : s[k] = <<n, Kth(S, k)>>
  BY <1>5, <1>7
<1>9. \A i \in S : <<n, i>> \in {s[k] : k \in 1..Len(s)}
  <2> TAKE i \in S
  <2>1. Rank(S, i) \in 1..Cardinality(S) /\ Kth(S, Rank(S, i)) = i
    BY <1>1, <1>2, RankOfElement
  <2> QED BY <2>1, <1>7, <1>8
<1>10. {s[k] : k \in 1..Len(s)} = {<<n, i>> : i \in S}
  BY <1>6, <1>7, <1>8, <1>9
<1>11. Once(s)
  <2> SUFFICES ASSUME NEW k \in 1..Len(s), NEW l \in 1..Len(s), s[k] = s[l] PROVE k = l
    BY DEF Once
  <2>1. Kth(S, k) = Kth(S, l)
    BY <1>8
  <2> QED BY <1>6, <1>7, <2>1
<1> QED BY <1>7, <1>10, <1>11 DEF s, S

\* The next event to show is the first after the cursor.
LEMMA NextOne ==
    ASSUME History, NEW n \in Admitted, NEW types, NEW cursor \in Nat
    PROVE  LET next == NextShown(types, n, cursor) IN
           /\ next \in Positions
           /\ next = 0 => \A i \in ShownTo(types, n) : i <= cursor
           /\ next # 0 => /\ next \in ShownTo(types, n)
                          /\ next > cursor
                          /\ \A i \in ShownTo(types, n) : i > cursor => next <= i
<1> DEFINE later == {i \in ShownTo(types, n) : i > cursor}
           next == NextShown(types, n, cursor)
<1>1. n \in RunNumbers /\ LogLength(n) \in 1..MaxLogs[n] /\ MaxLogs[n] \in Nat
  BY AtPresent, MaxLogsType
<1>2. ShownTo(types, n) \subseteq 1..LogLength(n)
  BY DEF ShownTo
<1>3. ShownTo(types, n) \subseteq Positions /\ later \in SUBSET Nat
  BY <1>1, <1>2, MaxLogsType
<1>4. CASE later = {}
  <2>1. next = 0
    BY <1>4 DEF NextShown
  <2>2. \A i \in ShownTo(types, n) : i <= cursor
    BY <1>1, <1>2, <1>4
  <2> QED BY <2>1, <2>2, MaxLogsType
<1>5. CASE later # {}
  <2>1. next = CHOOSE i \in later : \A j \in later : i <= j
    BY <1>5 DEF NextShown
  <2> HIDE DEF next
  <2>2. next \in later /\ \A j \in later : next <= j
    <3> HIDE DEF later
    <3> QED BY <1>3, <1>5, <2>1, ChosenLeast
  <2>3. next \in Nat \ {0}
    BY <1>1, <1>2, <2>2
  <2> QED BY <1>3, <2>2, <2>3 DEF next
<1> QED BY <1>4, <1>5

\* The latest run is one of the conversation.
LEMMA LatestOne ==
    ASSUME History, NEW m \in 1..Now, NEW c
    PROVE  \/ LatestRun(c, m) = 0
           \/ LatestRun(c, m) \in 1..Len(past[m]) /\ past[m][LatestRun(c, m)].home = c
<1>1. Len(past[m]) \in Nat
  BY AtMoment
<1>2. RunsOf(c, m) \in SUBSET Nat /\ \A x \in RunsOf(c, m) : x <= Len(past[m])
  BY <1>1 DEF RunsOf
<1>3. CASE RunsOf(c, m) # {}
  <2>1. \E x \in RunsOf(c, m) : \A k \in RunsOf(c, m) : k <= x
    BY <1>1, <1>2, <1>3, GreatestNumber
  <2>2. LatestRun(c, m) \in RunsOf(c, m)
    BY <1>3, <2>1 DEF LatestRun
  <2> QED BY <2>2 DEF RunsOf
<1>4. CASE RunsOf(c, m) = {}
  BY <1>4 DEF LatestRun
<1> QED BY <1>3, <1>4

LEMMA MomentsOrdered ==
    ASSUME NEW n, NEW since, NEW at \in SnapshotMoments(n, since)
    PROVE  /\ at[1] \in since..Now /\ at[2] \in since..Now /\ at[3] \in since..Now
           /\ at[1] <= at[2] /\ at[2] <= at[3]
BY DEF SnapshotMoments, Changes

-----------------------------------------------------------------------------
(* The chat page.  Its inductive invariant: what it has asked for, what it *)
(* shows, what it is subscribed to, who disables the composer, and why a   *)
(* page that is not current will look again.                               *)

\* What a request may hold: it was made at a moment at which its run was there,
\* and its run is one of its session.
WellAsked(q) ==
    /\ q.since \in 1..Now
    /\ q.epoch <= page.epoch
    /\ q.sends => q.kind = "refresh"
    /\ q.kind = "send" => q.chosen # None
    /\ q.kind \in {"run", "refresh"} =>
        q.run \in 1..Len(past[q.since]) /\ runs[q.run].home = q.chosen
    /\ q.kind = "send" /\ q.run # 0 => q.run \in Admitted /\ runs[q.run].home = q.chosen
ChatAsked == \A i \in Slots : WellAsked(request[i])

\* What is on the page is of the selected session.
ChatShows ==
    /\ page.run # 0 => page.run \in Admitted /\ runs[page.run].home = page.chosen
    /\ page.projection.run = 0 => page.projection = NoProjection
    /\ page.projection.run # 0 =>
        page.projection.run \in Admitted /\ runs[page.projection.run].home = page.chosen
    /\ page.talk.conversation \in {None, page.chosen}
    /\ \A m \in page.talk.messages : m[1] \in Admitted /\ runs[m[1]].home = page.chosen
    /\ \A e \in Shown : /\ e[1] \in Admitted
                        /\ runs[e[1]].home = page.chosen
                        /\ e[2] \in ShownTo(UserEvents, e[1])
                        /\ e[1] = page.events[1][1]
                        /\ page.projection.run \in {0, e[1]}
    /\ Once(page.events)

\* A subscription is of the session it was made in; when no effect is to come it is
\* of the selected run, and when it is accepted the page shows nothing of another.
StreamFits ==
    /\ stream.run = 0 => stream = NoStream
    /\ stream.run # 0 =>
        /\ stream.run \in Admitted
        /\ runs[stream.run].home = stream.chosen
        /\ stream.epoch <= page.epoch
        /\ ~page.changed => /\ IsCurrent(stream)
                            /\ stream.run = page.run
                            /\ stream.cursorRun = page.projection.run
        /\ IsCurrent(stream) /\ stream.run = page.run /\ stream.cursorRun = stream.run =>
            /\ page.projection.run \in {0, page.run}
            /\ \A e \in Shown : e[1] = page.run

\* One send of the selected session is under way at most.
SendsNow(i) ==
    (request[i].kind = "send" \/ request[i].sends) /\ IsCurrent(request[i])
OneSend == \A i, j \in Slots : SendsNow(i) /\ SendsNow(j) => i = j

\* The selected run is to be read; or it was read at moment m, and what it is
\* subscribed to leaves nothing out; or the page has a projection of another run
\* and will be refused the subscription.
Asks(i) ==
    /\ request[i].kind \in {"run", "refresh"}
    /\ IsCurrent(request[i])
    /\ request[i].run = page.run
Pending == \E i \in Slots : Asks(i)
ReadAt(m) ==
    /\ page.run \in 1..Len(past[m])
    /\ page.projection.run = page.run
    /\ Shown = {<<page.run, i>> : i \in ShownAt(UserEvents, page.run, m)}
    /\ page.projection.whole => page.projection.status = past[m][page.run].status
    /\ page.projection.talkWhole => Messages(page.chosen, m) \subseteq page.talk.messages
    /\ page.projection.cursor <= LengthAt(page.run, m)
Follow ==
    ~page.changed =>
        /\ stream.run # 0
        /\ stream.at <= LogLength(page.run)
        /\ \A i \in ShownTo(UserEvents, page.run) : i <= stream.at => <<page.run, i>> \in Shown
Fresh == (\E m \in 1..Now : ReadAt(m)) /\ Follow
Misled ==
    /\ page.projection.run \notin {0, page.run}
    /\ page.changed \/ stream.run # stream.cursorRun
LooksAgain == failures = 0 /\ page.run # 0 => Pending \/ Fresh \/ Misled

ChatInv ==
    /\ TypeOK
    /\ ChatAsked
    /\ ChatShows
    /\ StreamFits
    /\ OneSend
    /\ BusyWhileSending
    /\ LooksAgain

LEMMA SamePast ==
    ASSUME UNCHANGED past
    PROVE  /\ Now' = Now
           /\ runs' = runs
           /\ Admitted' = Admitted
           /\ PastTypeOK' = PastTypeOK
           /\ \A n : LogLength(n)' = LogLength(n)
           /\ \A types, n : ShownTo(types, n)' = ShownTo(types, n)
           /\ \A n, m : LengthAt(n, m)' = LengthAt(n, m)
           /\ \A types, n, m : ShownAt(types, n, m)' = ShownAt(types, n, m)
           /\ \A c, m : Messages(c, m)' = Messages(c, m)
BY DEF Now, runs, Admitted, PastTypeOK, LogLength, ShownTo, LengthAt, ShownAt, Messages, RunsOf

LEMMA PageType ==
    ASSUME TypeOK
    PROVE  /\ page.chosen \in Conversations \cup {None}
           /\ page.epoch \in Nat /\ page.epoch \in Epochs
           /\ page.run \in Nat /\ page.run \in RunNumbers \cup {0}
           /\ page.talk \in [conversation: Conversations \cup {None},
                             messages: SUBSET (RunNumbers \X {"user", "ai"})]
           /\ page.projection \in Projections
           /\ page.projection.run \in Nat /\ page.projection.cursor \in Nat
           /\ page.events \in Seq(RunNumbers \X Positions)
           /\ page.busy \in BOOLEAN /\ page.changed \in BOOLEAN
           /\ stream.run \in Nat /\ stream.cursorRun \in Nat /\ stream.epoch \in Nat
           /\ stream.at \in Nat
           /\ \A i \in Slots : /\ request[i] \in Requests
                               /\ request[i].epoch \in Nat
                               /\ request[i].since \in Nat
                               /\ request[i].run \in Nat
           /\ failures \in Nat
<1>1. RunNumbers \cup {0} \subseteq Nat /\ Positions \subseteq Nat
  BY MaxLogsType
<1>2. MaxEpochs \in Nat /\ MaxFailures \in Nat
  BY PageAssumption
<1>3. Epochs \subseteq Nat
  BY <1>2 DEF Epochs
<1>4. page \in Pages
  BY DEF TypeOK
<1>5. /\ page.chosen \in Conversations \cup {None}
      /\ page.epoch \in Epochs
      /\ page.run \in RunNumbers \cup {0}
      /\ page.talk \in [conversation: Conversations \cup {None},
                        messages: SUBSET (RunNumbers \X {"user", "ai"})]
      /\ page.projection \in Projections
      /\ page.events \in Seq(RunNumbers \X Positions)
      /\ page.busy \in BOOLEAN /\ page.changed \in BOOLEAN
  BY <1>4 DEF Pages
<1>6. page.projection.run \in Nat /\ page.projection.cursor \in Nat
  BY <1>1, <1>5 DEF Projections
<1>7. stream.run \in Nat /\ stream.cursorRun \in Nat /\ stream.epoch \in Nat /\ stream.at \in Nat
  BY <1>1, <1>3 DEF TypeOK, Streams
<1>8. ASSUME NEW i \in Slots
      PROVE  /\ request[i] \in Requests
             /\ request[i].epoch \in Nat
             /\ request[i].since \in Nat
             /\ request[i].run \in Nat
  <2>1. request[i] \in Requests
    BY DEF TypeOK
  <2> QED BY <2>1, <1>1, <1>3 DEF Requests
<1>9. failures \in Nat
  BY <1>2 DEF TypeOK
<1> QED BY <1>1, <1>3, <1>5, <1>6, <1>7, <1>8, <1>9

\* A slot gets a request.
Put(i, q) ==
    /\ request' \in [Slots -> Requests]
    /\ request'[i] = q
    /\ \A j \in Slots : j # i => request'[j] = request[j]

LEMMA SlotGets ==
    ASSUME TypeOK, NEW i \in Slots, NEW q \in Requests, request' = [request EXCEPT ![i] = q]
    PROVE  Put(i, q)
BY DEF Put, TypeOK

LEMMA FreeIsRequest == Free \in Requests /\ Free.kind = "free" /\ ~Free.sends
BY PageAssumption DEF Free, Requests, Epochs

LEMMA SlotSettled ==
    ASSUME TypeOK, NEW i \in Slots, Settle(i)
    PROVE  Put(i, Free)
BY SlotGets, FreeIsRequest DEF Settle

LEMMA SlotIssued ==
    ASSUME TypeOK, NEW q \in Requests, Issue(q)
    PROVE  \E i \in Slots : request[i].kind = "free" /\ Put(i, q)
<1>1. FreeSlots \in SUBSET Nat /\ FreeSlots # {} /\ FreeSlots \subseteq Slots
  BY PageAssumption DEF FreeSlots, Slots, Issue
<1> DEFINE i == CHOOSE i \in FreeSlots : \A j \in FreeSlots : i <= j
<1>2. i \in FreeSlots
  BY <1>1, ChosenLeast
<1>3. request' = [request EXCEPT ![i] = q]
  BY DEF Issue
<1> HIDE DEF i
<1>4. i \in Slots /\ request[i].kind = "free"
  BY <1>1, <1>2 DEF FreeSlots
<1> QED BY <1>3, <1>4, SlotGets

LEMMA AskedKept ==
    ASSUME Grows, page.epoch \in Nat, page'.epoch \in Nat, page.epoch <= page'.epoch,
           NEW q \in Requests, WellAsked(q)
    PROVE  WellAsked(q)'
<1>1. History /\ Now \in Nat /\ Now' \in Nat /\ Now <= Now' /\ \A m \in 1..Now : past'[m] = past[m]
  <2>1. History /\ Now <= Now' /\ \A m \in 1..Now : past'[m] = past[m]
    BY DEF Grows, PastKept
  <2>2. Now' \in Nat
    BY DEF Grows, History, PastTypeOK, Now
  <2> QED BY <2>1, <2>2, AtMoment
<1>2. q.since \in 1..Now /\ q.since \in 1..Now'
  BY <1>1 DEF WellAsked
<1>3. q.epoch <= page'.epoch
  <2>1. q.epoch \in Nat
    BY PageAssumption DEF Requests, Epochs
  <2> QED BY <2>1 DEF WellAsked
<1>4. ASSUME q.kind \in {"run", "refresh"}
      PROVE  q.run \in 1..Len(past'[q.since]) /\ runs'[q.run].home = q.chosen
  <2>1. q.run \in 1..Len(past[q.since]) /\ runs[q.run].home = q.chosen
    BY <1>4 DEF WellAsked
  <2>2. q.run \in Admitted
    <3>1. Now \in 1..Now /\ q.since <= Now
      BY <1>1, <1>2
    <3> QED BY <1>1, <1>2, <2>1, <3>1, SincePast DEF Admitted, runs
  <2>3. runs'[q.run].home = runs[q.run].home
    BY <2>2, Stays DEF Follows
  <2> QED BY <1>1, <1>2, <2>1, <2>3
<1>5. ASSUME q.kind = "send", q.run # 0
      PROVE  q.run \in Admitted' /\ runs'[q.run].home = q.chosen
  <2>1. q.run \in Admitted /\ runs[q.run].home = q.chosen
    BY <1>5 DEF WellAsked
  <2> QED BY <2>1, Stays DEF Follows
<1> QED BY <1>2, <1>3, <1>4, <1>5 DEF WellAsked

LEMMA FreeWellAsked ==
    ASSUME Grows, page'.epoch \in Nat
    PROVE  WellAsked(Free)'
<1>1. Now' \in Nat \ {0}
  BY DEF Grows, History, PastTypeOK, Now
<1> QED BY <1>1 DEF WellAsked, Free

LEMMA AskedPut ==
    ASSUME Grows, TypeOK, ChatAsked, page'.epoch \in Nat, page.epoch <= page'.epoch,
           NEW i \in Slots, NEW q \in Requests, Put(i, q), WellAsked(q)'
    PROVE  ChatAsked'
<1> SUFFICES ASSUME NEW j \in Slots PROVE WellAsked(request[j])'
  BY DEF ChatAsked, Slots
<1>1. CASE j = i
  BY <1>1 DEF Put
<1>2. CASE j # i
  <2>1. PICK r \in Requests : r = request[j]
    BY PageType
  <2>2. page.epoch \in Nat /\ WellAsked(r)
    BY <2>1, PageType DEF ChatAsked
  <2>3. WellAsked(r)'
    BY <2>2, AskedKept
  <2>4. request'[j] = r
    BY <1>2, <2>1 DEF Put
  <2> QED BY <2>3, <2>4
<1> QED BY <1>1, <1>2

LEMMA AskedSame ==
    ASSUME Grows, TypeOK, ChatAsked, page'.epoch = page.epoch, UNCHANGED request
    PROVE  ChatAsked'
<1> SUFFICES ASSUME NEW j \in Slots PROVE WellAsked(request[j])'
  BY DEF ChatAsked, Slots
<1>1. PICK r \in Requests : r = request[j]
  BY PageType
<1>2. page.epoch \in Nat /\ WellAsked(r)
  BY <1>1, PageType DEF ChatAsked
<1>3. WellAsked(r)'
  BY <1>2, AskedKept
<1> QED BY <1>1, <1>3

LEMMA SendsKept ==
    ASSUME OneSend, BusyWhileSending, page'.busy = page.busy,
           \A i \in Slots : SendsNow(i)' <=> SendsNow(i)
    PROVE  OneSend' /\ BusyWhileSending'
<1>1. page.busy <=> \E i \in Slots : SendsNow(i)
  BY DEF BusyWhileSending, SendsNow
<1>2. page'.busy <=> \E i \in Slots : SendsNow(i)'
  BY <1>1
<1>3. OneSend'
  BY DEF OneSend, Slots
<1> QED BY <1>2, <1>3 DEF BusyWhileSending, SendsNow, Slots

\* A slot that no send of the session is in gets a request that is none.
LEMMA SendsAside ==
    ASSUME OneSend, BusyWhileSending, page'.busy = page.busy,
           page'.chosen = page.chosen, page'.epoch = page.epoch,
           NEW i \in Slots, NEW q, Put(i, q), ~SendsNow(i), q.kind # "send", ~q.sends
    PROVE  OneSend' /\ BusyWhileSending'
<1> SUFFICES ASSUME NEW j \in Slots PROVE SendsNow(j)' <=> SendsNow(j)
  BY SendsKept
<1>1. CASE j = i
  BY <1>1 DEF SendsNow, Put
<1>2. CASE j # i
  BY <1>2 DEF SendsNow, Put, IsCurrent
<1> QED BY <1>1, <1>2

\* A request of the session that is none replaces a send, or a send goes: the
\* composer is enabled.
LEMMA SendEnds ==
    ASSUME OneSend, BusyWhileSending, page'.busy = FALSE,
           page'.chosen = page.chosen, page'.epoch = page.epoch,
           NEW i \in Slots, NEW q, Put(i, q), SendsNow(i), q.kind # "send", ~q.sends
    PROVE  OneSend' /\ BusyWhileSending'
<1>1. \A j \in Slots : ~SendsNow(j)'
  <2> TAKE j \in Slots
  <2>1. CASE j = i
    BY <2>1 DEF SendsNow, Put
  <2>2. CASE j # i
    BY <2>2 DEF SendsNow, Put, IsCurrent, OneSend
  <2> QED BY <2>1, <2>2
<1> QED BY <1>1 DEF OneSend, BusyWhileSending, SendsNow, Slots

\* The page waits for what it waited for.
LEMMA AsksKept ==
    ASSUME Pending, page'.chosen = page.chosen, page'.epoch = page.epoch, page'.run = page.run,
           NEW i \in Slots, NEW q, Put(i, q), ~Asks(i)
    PROVE  Pending'
<1>1. PICK j \in Slots : Asks(j)
  BY DEF Pending
<1>2. Asks(j)'
  BY <1>1 DEF Asks, Put, IsCurrent
<1> QED BY <1>2 DEF Pending, Slots

\* A request for the selected run has been made.
LEMMA AsksNow ==
    ASSUME NEW i \in Slots, NEW q, Put(i, q),
           q.kind \in {"run", "refresh"}, q.chosen = page'.chosen, q.epoch = page'.epoch,
           q.run = page'.run
    PROVE  Pending'
<1>1. Asks(i)'
  BY DEF Asks, Put, IsCurrent
<1> QED BY <1>1 DEF Pending, Slots

LEMMA RequestMade ==
    ASSUME History, TypeOK, NEW kind \in {"load", "run", "refresh", "send"},
           NEW n \in RunNumbers \cup {0}
    PROVE  /\ Ask(kind, n) \in Requests
           /\ Ask(kind, n).kind = kind /\ Ask(kind, n).run = n /\ ~Ask(kind, n).sends
           /\ Ask(kind, n).chosen = page.chosen /\ Ask(kind, n).epoch = page.epoch
           /\ Ask(kind, n).since = Now
           /\ [Ask(kind, n) EXCEPT !.sends = TRUE] \in Requests
           /\ [Ask(kind, n) EXCEPT !.sends = TRUE].sends
           /\ [Ask(kind, n) EXCEPT !.sends = TRUE].kind = kind
           /\ [Ask(kind, n) EXCEPT !.sends = TRUE].run = n
           /\ [Ask(kind, n) EXCEPT !.sends = TRUE].chosen = page.chosen
           /\ [Ask(kind, n) EXCEPT !.sends = TRUE].epoch = page.epoch
           /\ [Ask(kind, n) EXCEPT !.sends = TRUE].since = Now
<1>1. page.chosen \in Conversations \cup {None} /\ page.epoch \in Epochs /\ Now \in Nat
  BY PageType, AtMoment
<1> QED BY <1>1 DEF Ask, Requests

LEMMA NothingShown ==
    /\ NoProjection \in Projections /\ NoProjection.run = 0
    /\ NoTalk \in [conversation: Conversations \cup {None},
                   messages: SUBSET (RunNumbers \X {"user", "ai"})]
    /\ NoTalk.conversation = None /\ NoTalk.messages = {}
    /\ NoStream \in Streams /\ NoStream.run = 0 /\ NoStream.cursorRun = 0
<1>1. 0 \in Positions /\ 0 \in Epochs
  BY MaxLogsType, PageAssumption DEF Epochs
<1> QED BY <1>1
     DEF NoProjection, Projections, NoTalk, NoStream, Streams, Statuses

LEMMA ChatSelects ==
    ASSUME History, ChatInv, NEW c \in Conversations, SelectConversation(c)
    PROVE  ChatInv'
<1> USE DEF ChatInv
<1>1. Grows
  BY HistoryStands DEF SelectConversation
<1> DEFINE q == [Ask("load", 0) EXCEPT !.chosen = c, !.epoch = page.epoch + 1]
<1>2. /\ page' = [chosen |-> c, epoch |-> page.epoch + 1, run |-> 0, talk |-> NoTalk,
                  projection |-> NoProjection, events |-> <<>>, busy |-> FALSE, changed |-> TRUE]
      /\ Issue(q)
      /\ UNCHANGED <<past, stream, failures>>
      /\ page.epoch < MaxEpochs
  BY DEF SelectConversation
<1>3. /\ page.epoch \in Nat /\ page.epoch + 1 \in Epochs /\ page.epoch + 1 \in Nat
      /\ page.epoch < page.epoch + 1
  BY <1>2, PageType, PageAssumption DEF Epochs
<1>4. /\ q \in Requests
      /\ q.kind = "load" /\ q.run = 0 /\ ~q.sends /\ q.chosen = c /\ q.epoch = page.epoch + 1
      /\ q.since = Now
  BY <1>3, AtMoment DEF Ask, Requests
<1> HIDE DEF q
<1>5. PICK i \in Slots : Put(i, q)
  BY <1>2, <1>4, SlotIssued
<1>6. /\ page'.chosen = c /\ page'.epoch = page.epoch + 1 /\ page'.run = 0
      /\ page'.talk = NoTalk /\ page'.projection = NoProjection /\ page'.events = <<>>
      /\ page'.busy = FALSE /\ page'.changed = TRUE
  BY <1>2
<1>7. TypeOK'
  <2>1. page' \in Pages
    <3>1. <<>> \in Seq(RunNumbers \X Positions)
      OBVIOUS
    <3> QED BY <1>2, <1>3, <3>1, NothingShown DEF Pages
  <2>2. PastTypeOK' /\ stream' \in Streams /\ failures' \in 0..MaxFailures
    BY <1>2, SamePast DEF TypeOK
  <2> QED BY <1>5, <2>1, <2>2 DEF TypeOK, Put, Slots
<1>8. ChatAsked'
  <2>1. PICK r \in Requests : r = q
    BY <1>4
  <2>2. WellAsked(r)'
    <3>1. Now' = Now /\ Now \in Nat \ {0}
      BY <1>2, SamePast, AtMoment
    <3> QED BY <1>3, <1>4, <1>6, <2>1, <3>1 DEF WellAsked
  <2> QED BY <1>1, <1>3, <1>5, <1>6, <2>1, <2>2, AskedPut
<1>9. ChatShows'
  <2>1. Shown' = {}
    BY <1>6 DEF Shown
  <2>2. Once(page.events)'
    BY <1>6 DEF Once
  <2> QED BY <1>6, <2>1, <2>2, NothingShown DEF ChatShows
<1>10. StreamFits'
  <2>1. ASSUME stream.run # 0 PROVE /\ stream.epoch <= page'.epoch /\ stream.epoch # page'.epoch
    BY <1>3, <1>6, <2>1, PageType DEF StreamFits
  <2>2. stream' = stream
    BY <1>2
  <2> QED BY <1>2, <1>6, <2>1, <2>2, SamePast DEF StreamFits, IsCurrent
<1>11. \A j \in Slots : ~SendsNow(j)'
  <2> TAKE j \in Slots
  <2>1. CASE j = i
    BY <1>4, <1>5, <2>1 DEF SendsNow, Put
  <2>2. CASE j # i
    <3>1. request'[j] = request[j] /\ request[j].epoch <= page.epoch
      BY <1>5, <2>2 DEF Put, ChatAsked, WellAsked
    <3>2. request[j].epoch # page'.epoch
      BY <1>3, <1>6, <3>1, PageType
    <3> QED BY <3>1, <3>2 DEF SendsNow, IsCurrent
  <2> QED BY <2>1, <2>2
<1>12. OneSend' /\ BusyWhileSending'
  BY <1>6, <1>11 DEF OneSend, BusyWhileSending, SendsNow, Slots
<1>13. LooksAgain'
  BY <1>6 DEF LooksAgain
<1> QED BY <1>7, <1>8, <1>9, <1>10, <1>12, <1>13

\* Every message of a moment is of a run of the session.
LEMMA TalkRead ==
    ASSUME History, NEW m \in 1..Now, NEW c \in Conversations \cup {None}
    PROVE  /\ Messages(c, m) \in SUBSET (RunNumbers \X {"user", "ai"})
           /\ \A msg \in Messages(c, m) : msg[1] \in Admitted /\ runs[msg[1]].home = c
<1>1. ASSUME NEW msg \in Messages(c, m)
      PROVE  /\ msg \in RunNumbers \X {"user", "ai"}
             /\ msg[1] \in Admitted /\ runs[msg[1]].home = c
  <2>1. /\ msg[1] \in 1..Len(past[m]) /\ past[m][msg[1]].home = c
        /\ msg \in (1..Len(past[m])) \X {"user", "ai"}
    BY DEF Messages, RunsOf
  <2>2. Now \in 1..Now /\ m <= Now
    BY AtMoment
  <2>3. msg[1] \in 1..Len(past[Now]) /\ Follows(past[m][msg[1]], past[Now][msg[1]])
    BY <2>1, <2>2, SincePast
  <2>4. 1..Len(past[m]) \subseteq RunNumbers
    BY AtMoment
  <2> QED BY <2>1, <2>3, <2>4 DEF Admitted, runs, Follows
<1> QED BY <1>1

\* The stream and the past do not change, and no effect is still to come, or none
\* ends; the page goes on to a run.
LEMMA StreamStays ==
    ASSUME StreamFits, UNCHANGED <<past, stream>>,
           page'.chosen = page.chosen, page'.epoch = page.epoch,
           page'.run = page.run, page'.projection = page.projection,
           page'.events = page.events, page'.changed = page.changed
    PROVE  StreamFits'
<1>1. Shown' = Shown
  BY DEF Shown
<1> QED BY <1>1, SamePast DEF StreamFits, IsCurrent

LEMMA ShowsStays ==
    ASSUME ChatShows, UNCHANGED past,
           page'.chosen = page.chosen,
           page'.run = page.run, page'.projection = page.projection,
           page'.events = page.events, page'.talk = page.talk
    PROVE  ChatShows'
<1>1. Shown' = Shown /\ Once(page.events)' = Once(page.events)
  BY DEF Shown, Once
<1> QED BY <1>1, SamePast DEF ChatShows

LEMMA FreshStays ==
    ASSUME UNCHANGED <<past, stream>>,
           page'.chosen = page.chosen,
           page'.run = page.run, page'.projection = page.projection,
           page'.events = page.events, page'.talk = page.talk, page'.changed = page.changed
    PROVE  (Fresh => Fresh') /\ (Misled => Misled')
<1>1. Shown' = Shown
  BY DEF Shown
<1>2. \A m \in 1..Now : ReadAt(m) => ReadAt(m)'
  BY <1>1, SamePast DEF ReadAt
<1>3. Follow => Follow'
  BY <1>1, SamePast DEF Follow
<1> QED BY <1>2, <1>3, SamePast DEF Fresh, Misled

\* All but the requests and the composer stays as it is.
LEMMA PageStays ==
    ASSUME History, ChatInv, UNCHANGED <<past, stream>>,
           page'.chosen = page.chosen, page'.epoch = page.epoch,
           page'.run = page.run, page'.projection = page.projection,
           page'.events = page.events, page'.talk = page.talk, page'.changed = page.changed
    PROVE  ChatShows' /\ StreamFits' /\ (Fresh => Fresh') /\ (Misled => Misled')
BY ShowsStays, StreamStays, FreshStays DEF ChatInv

\* A slot that is neither a send of the session nor a reading of the run gets
\* another request, or none.
LEMMA ChatDrops ==
    ASSUME History, ChatInv, UNCHANGED <<past, page, stream, failures>>,
           NEW i \in Slots, NEW q \in Requests, Put(i, q), WellAsked(q),
           q.kind # "send", ~q.sends, ~SendsNow(i), ~Asks(i)
    PROVE  ChatInv'
<1> USE DEF ChatInv
<1>1. Grows /\ page.epoch \in Nat
  BY HistoryStands, PageType
<1>2. TypeOK'
  BY SamePast DEF TypeOK, Put, Slots
<1>3. ChatAsked'
  <2>1. WellAsked(q)'
    BY <1>1, AskedKept
  <2> QED BY <1>1, <2>1, AskedPut
<1>4. ChatShows' /\ StreamFits' /\ (Fresh => Fresh') /\ (Misled => Misled')
  BY PageStays
<1>5. OneSend' /\ BusyWhileSending'
  BY SendsAside
<1>6. LooksAgain'
  <2>1. Pending => Pending'
    BY AsksKept
  <2> QED BY <1>4, <2>1 DEF LooksAgain
<1> QED BY <1>2, <1>3, <1>4, <1>5, <1>6

\* What a request for a run reads.
LEMMA RunRead ==
    ASSUME History, ChatInv, NEW i \in Slots, Asks(i), NEW at \in Moments(request[i])
    PROVE  /\ at[1] \in 1..Now /\ at[2] \in 1..Now /\ at[3] \in 1..Now
           /\ at[2] <= at[3]
           /\ page.run \in 1..Len(past[at[1]])
           /\ page.run \in 1..Len(past[at[2]])
           /\ page.run \in 1..Len(past[at[3]])
           /\ page.run \in Admitted /\ page.run # 0
<1> DEFINE q == request[i]
<1>1. /\ q.since \in 1..Now /\ page.run \in 1..Len(past[q.since]) /\ q.run = page.run
      /\ Now \in Nat
  BY AtMoment DEF ChatInv, ChatAsked, WellAsked, Asks
<1>2. /\ at[1] \in q.since..Now /\ at[2] \in q.since..Now /\ at[3] \in q.since..Now
      /\ at[2] <= at[3]
  BY <1>1, MomentsOrdered DEF Moments
<1> HIDE DEF q
<1>3. \A k \in q.since..Now : k \in 1..Now /\ page.run \in 1..Len(past[k])
  <2> TAKE k \in q.since..Now
  <2>1. k \in 1..Now /\ q.since <= k
    BY <1>1
  <2> QED BY <1>1, <2>1, SincePast
<1>4. Now \in q.since..Now
  BY <1>1
<1>5. page.run \in Admitted
  BY <1>3, <1>4 DEF Admitted, runs
<1>6. page.run # 0
  BY <1>5, AtPresent, MaxLogsType
<1> QED BY <1>2, <1>3, <1>5, <1>6

\* The answer to it puts on the page what is of the selected run, and all of it.
LEMMA SnapshotTaken ==
    ASSUME History, ChatInv, NEW i \in Slots, Asks(i), NEW at \in Moments(request[i]),
           UNCHANGED <<past, stream>>,
           page'.chosen = page.chosen, page'.epoch = page.epoch, page'.run = page.run,
           page'.changed = TRUE,
           page'.talk \in [conversation: Conversations \cup {None},
                           messages: SUBSET (RunNumbers \X {"user", "ai"})],
           page'.talk.conversation \in {None, page.chosen},
           \A m \in page'.talk.messages : m[1] \in Admitted /\ runs[m[1]].home = page.chosen,
           page'.projection = Snapshot(page.run, at, page'.talk),
           page'.events = EventsAt(UserEvents, page.run, at[3])
    PROVE  /\ page'.projection \in Projections
           /\ page'.events \in Seq(RunNumbers \X Positions)
           /\ ChatShows' /\ StreamFits' /\ Fresh'
<1> USE DEF ChatInv
<1> DEFINE n == page.run
<1>1. /\ at[1] \in 1..Now /\ at[2] \in 1..Now /\ at[3] \in 1..Now /\ at[2] <= at[3]
      /\ n \in 1..Len(past[at[1]]) /\ n \in 1..Len(past[at[2]]) /\ n \in 1..Len(past[at[3]])
      /\ n \in Admitted /\ n # 0 /\ n \in RunNumbers
  BY RunRead, AtPresent
<1>2. runs[n].home = page.chosen
  BY <1>1 DEF ChatShows
<1>3. /\ page'.projection.run = n
      /\ page'.projection.status = past[at[1]][n].status
      /\ page'.projection.cursor = LengthAt(n, at[2])
      /\ page'.projection.whole = (at[1] = at[3])
      /\ page'.projection.talkWhole = (Messages(page.chosen, at[3]) \subseteq page'.talk.messages)
  BY DEF Snapshot
<1>4. page'.projection \in Projections
  <2>1. past[at[1]][n].status \in Statuses /\ LengthAt(n, at[2]) \in Positions
    BY <1>1, AtMoment DEF RunRecords
  <2> QED BY <1>1, <2>1 DEF Snapshot, Projections
<1>5. /\ page'.events \in Seq(RunNumbers \X Positions)
      /\ Shown' = {<<n, k>> : k \in ShownAt(UserEvents, n, at[3])}
      /\ Once(page'.events)
  BY <1>1, EventsRead DEF Shown
<1>6. \A k \in ShownAt(UserEvents, n, at[3]) : k \in ShownTo(UserEvents, n)
  <2>1. Now \in 1..Now /\ at[3] <= Now
    BY <1>1, AtMoment
  <2>2. Follows(past[at[3]][n], runs[n])
    BY <1>1, <2>1, SincePast DEF runs
  <2>3. LengthAt(n, at[3]) \in Nat /\ LogLength(n) \in Nat
    BY <1>1, AtMoment, AtPresent, MaxLogsType
  <2> QED BY <2>2, <2>3 DEF Follows, ShownAt, ShownTo, LengthAt, LogLength
<1>7. \A e \in Shown' : e[1] = n /\ e[2] \in ShownTo(UserEvents, n)
  BY <1>5, <1>6
<1>8. \A e \in Shown' : page'.events[1] \in Shown'
  <2> SUFFICES ASSUME NEW e \in Shown' PROVE page'.events[1] \in Shown'
    OBVIOUS
  <2>1. PICK k \in 1..Len(page'.events) : e = page'.events[k]
    BY DEF Shown
  <2>2. 1 \in 1..Len(page'.events)
    BY <1>5, <2>1
  <2> QED BY <2>2 DEF Shown
<1>9. ChatShows'
  <2>1. Admitted' = Admitted /\ runs' = runs /\ ShownTo(UserEvents, n)' = ShownTo(UserEvents, n)
    BY SamePast
  <2>2. \A e \in Shown' : /\ e[1] \in Admitted
                          /\ runs[e[1]].home = page.chosen
                          /\ e[2] \in ShownTo(UserEvents, e[1])
                          /\ e[1] = page'.events[1][1]
                          /\ page'.projection.run \in {0, e[1]}
    BY <1>1, <1>2, <1>3, <1>7, <1>8
  <2>3. \A e \in Shown' : ShownTo(UserEvents, e[1])' = ShownTo(UserEvents, e[1])
    BY <1>7, <2>1
  <2> QED BY <1>1, <1>2, <1>3, <1>5, <2>1, <2>2, <2>3 DEF ChatShows, Once
<1>10. StreamFits'
  BY <1>3, <1>7, SamePast DEF StreamFits, IsCurrent
<1>11. Fresh'
  <2>1. page'.projection.whole => page'.projection.status = past[at[3]][n].status
    BY <1>3
  <2>2. page'.projection.cursor <= LengthAt(n, at[3])
    <3>1. Follows(past[at[2]][n], past[at[3]][n])
      BY <1>1, SincePast
    <3> QED BY <1>3, <3>1 DEF Follows, LengthAt
  <2>3. ReadAt(at[3])'
    <3>1. /\ page'.projection.run = n
          /\ page'.projection.talkWhole =>
                Messages(page.chosen, at[3]) \subseteq page'.talk.messages
      BY <1>3
    <3> QED BY <1>1, <1>5, <2>1, <2>2, <3>1, SamePast DEF ReadAt
  <2>4. Follow'
    BY DEF Follow
  <2> QED BY <1>1, <2>3, <2>4, SamePast DEF Fresh
<1> QED BY <1>4, <1>5, <1>9, <1>10, <1>11

LEMMA TalkTaken ==
    ASSUME History, ChatInv, NEW i \in Slots, request[i].chosen = page.chosen,
           NEW talk \in Talks(request[i])
    PROVE  /\ talk \in [conversation: Conversations \cup {None},
                        messages: SUBSET (RunNumbers \X {"user", "ai"})]
           /\ talk.conversation = page.chosen
           /\ \A m \in talk.messages : m[1] \in Admitted /\ runs[m[1]].home = page.chosen
<1>1. PICK m \in request[i].since..Now :
        talk = [conversation |-> page.chosen, messages |-> Messages(page.chosen, m)]
  BY DEF Talks
<1>2. m \in 1..Now
  <2>1. request[i].since \in 1..Now
    BY DEF ChatInv, ChatAsked, WellAsked
  <2> QED BY <2>1, AtMoment
<1>3. page.chosen \in Conversations \cup {None}
  BY PageType DEF ChatInv
<1> QED BY <1>1, <1>2, <1>3, TalkRead

LEMMA ChatReads ==
    ASSUME History, ChatInv, NEW i \in Slots, LoadRun(i)
    PROVE  ChatInv'
<1> USE DEF ChatInv
<1>1. Grows /\ UNCHANGED <<past, stream, failures>> /\ page.epoch \in Nat
  BY HistoryStands, PageType DEF LoadRun
<1>2. Put(i, Free) /\ Free \in Requests
  BY SlotSettled, FreeIsRequest DEF LoadRun
<1>3. request[i].kind = "run" /\ ~request[i].sends
  BY DEF LoadRun, ChatAsked, WellAsked
<1>4. ~SendsNow(i)
  BY <1>3 DEF SendsNow
<1>5. CASE ~Taken(request[i])
  <2>1. UNCHANGED page
    BY <1>5 DEF LoadRun
  <2>2. ~Asks(i)
    BY <1>5 DEF Asks, Taken
  <2>3. WellAsked(Free)
    BY <1>1, AtMoment DEF WellAsked, Free
  <2> QED BY <1>1, <1>2, <1>4, <2>1, <2>2, <2>3, FreeIsRequest, ChatDrops
<1>6. CASE Taken(request[i])
  <2>1. Asks(i) /\ request[i].run = page.run
    BY <1>3, <1>6 DEF Asks, Taken
  <2>2. PICK at \in Moments(request[i]) : page' = Projected(request[i], at, page.talk)
    BY <1>6 DEF LoadRun
  <2>3. /\ page \in Pages
        /\ page' = [page EXCEPT !.talk = page.talk, !.changed = TRUE,
                                !.projection = Snapshot(page.run, at, page.talk),
                                !.events = EventsAt(UserEvents, page.run, at[3])]
    BY <2>1, <2>2 DEF Projected, TypeOK
  <2>4. /\ page'.chosen = page.chosen /\ page'.epoch = page.epoch /\ page'.run = page.run
        /\ page'.changed = TRUE /\ page'.talk = page.talk /\ page'.busy = page.busy
        /\ page'.projection = Snapshot(page.run, at, page'.talk)
        /\ page'.events = EventsAt(UserEvents, page.run, at[3])
    BY <2>3 DEF Pages
  <2>5. /\ page'.projection \in Projections
        /\ page'.events \in Seq(RunNumbers \X Positions)
        /\ ChatShows' /\ StreamFits' /\ Fresh'
    <3>1. /\ page.talk \in [conversation: Conversations \cup {None},
                            messages: SUBSET (RunNumbers \X {"user", "ai"})]
          /\ page.talk.conversation \in {None, page.chosen}
          /\ \A m \in page.talk.messages : m[1] \in Admitted /\ runs[m[1]].home = page.chosen
      BY PageType DEF ChatShows
    <3> HIDE DEF ChatInv
    <3> QED BY <1>1, <2>1, <2>4, <3>1, SnapshotTaken
  <2>6. TypeOK'
    <3>1. page' \in Pages
      <4>1. page' = [page EXCEPT !.changed = TRUE, !.projection = page'.projection,
                                 !.events = page'.events]
        BY <2>3, <2>4 DEF Pages
      <4> QED BY <2>3, <2>5, <4>1 DEF Pages
    <3> QED BY <1>1, <1>2, <3>1, SamePast DEF TypeOK, Put, Slots
  <2>7. ChatAsked'
    BY <1>1, <1>2, <2>4, FreeWellAsked, AskedPut
  <2>8. OneSend' /\ BusyWhileSending'
    BY <1>2, <1>4, <2>4, FreeIsRequest, SendsAside
  <2>9. LooksAgain'
    BY <2>5 DEF LooksAgain
  <2> QED BY <2>5, <2>6, <2>7, <2>8, <2>9
<1> QED BY <1>5, <1>6

LEMMA ChatRefreshes ==
    ASSUME History, ChatInv, NEW i \in Slots, Refresh(i)
    PROVE  ChatInv'
<1> USE DEF ChatInv
<1> DEFINE busy == page.busy /\ ~(request[i].sends /\ IsCurrent(request[i]))
<1>1. Grows /\ UNCHANGED <<past, stream, failures>> /\ page.epoch \in Nat
  BY HistoryStands, PageType DEF Refresh
<1>2. Put(i, Free) /\ Free \in Requests
  BY SlotSettled, FreeIsRequest DEF Refresh
<1>3. request[i].kind = "refresh"
  BY DEF Refresh
<1>4. SendsNow(i) <=> request[i].sends /\ IsCurrent(request[i])
  BY <1>3 DEF SendsNow
<1>5. busy \in BOOLEAN /\ (SendsNow(i) => busy = FALSE) /\ (~SendsNow(i) => busy = page.busy)
  <2>1. page.busy \in BOOLEAN
    BY PageType
  <2>2. CASE SendsNow(i)
    BY <1>4, <2>2
  <2>3. CASE ~SendsNow(i)
    BY <1>4, <2>1, <2>3
  <2> QED BY <2>2, <2>3, <2>1
<1>6. page \in Pages
  BY DEF TypeOK
<1>7. /\ page'.chosen = page.chosen /\ page'.epoch = page.epoch /\ page'.run = page.run
      /\ page'.busy = busy /\ page' \in Pages
      /\ ChatShows' /\ StreamFits'
      /\ \/ Fresh'
         \/ ~Asks(i) /\ (Fresh => Fresh') /\ (Misled => Misled')
  <2> HIDE DEF busy
  <2>1. CASE ~Taken(request[i])
    <3>1. page' = [page EXCEPT !.busy = busy]
      BY <2>1 DEF Refresh, busy
    <3>2. /\ page'.chosen = page.chosen /\ page'.epoch = page.epoch /\ page'.run = page.run
          /\ page'.projection = page.projection /\ page'.events = page.events
          /\ page'.talk = page.talk /\ page'.changed = page.changed
          /\ page'.busy = busy /\ page' \in Pages
      BY <1>5, <1>6, <3>1 DEF Pages
    <3>3. ~Asks(i)
      BY <2>1 DEF Asks, Taken
    <3>4. ChatShows' /\ StreamFits' /\ (Fresh => Fresh') /\ (Misled => Misled')
      <4> HIDE DEF ChatInv
      <4> QED BY <1>1, <3>2, PageStays
    <3> QED BY <3>2, <3>3, <3>4
  <2>2. CASE Taken(request[i])
    <3>1. Asks(i) /\ request[i].run = page.run /\ request[i].chosen = page.chosen
      BY <1>3, <2>2 DEF Asks, Taken, IsCurrent
    <3>2. PICK at \in Moments(request[i]), talk \in Talks(request[i]) :
            page' = [Projected(request[i], at, talk) EXCEPT !.busy = busy]
      BY <2>2 DEF Refresh, busy
    <3>3. page' = [page EXCEPT !.talk = talk, !.changed = TRUE, !.busy = busy,
                               !.projection = Snapshot(page.run, at, talk),
                               !.events = EventsAt(UserEvents, page.run, at[3])]
      BY <1>6, <3>1, <3>2 DEF Projected, Pages
    <3>4. /\ page'.chosen = page.chosen /\ page'.epoch = page.epoch /\ page'.run = page.run
          /\ page'.changed = TRUE /\ page'.talk = talk /\ page'.busy = busy
          /\ page'.projection = Snapshot(page.run, at, page'.talk)
          /\ page'.events = EventsAt(UserEvents, page.run, at[3])
      BY <1>6, <3>3 DEF Pages
    <3>5. /\ talk \in [conversation: Conversations \cup {None},
                       messages: SUBSET (RunNumbers \X {"user", "ai"})]
          /\ talk.conversation = page.chosen
          /\ \A m \in talk.messages : m[1] \in Admitted /\ runs[m[1]].home = page.chosen
      <4> HIDE DEF ChatInv
      <4> QED BY <3>1, TalkTaken
    <3>6. /\ page'.projection \in Projections
          /\ page'.events \in Seq(RunNumbers \X Positions)
          /\ ChatShows' /\ StreamFits' /\ Fresh'
      <4> HIDE DEF ChatInv
      <4> QED BY <1>1, <3>1, <3>4, <3>5, SnapshotTaken
    <3>7. page' \in Pages
      <4>1. page' = [page EXCEPT !.talk = talk, !.changed = TRUE, !.busy = busy,
                                 !.projection = page'.projection, !.events = page'.events]
        BY <3>3, <3>4
      <4> QED BY <1>5, <1>6, <3>5, <3>6, <4>1 DEF Pages
    <3> QED BY <3>4, <3>6, <3>7
  <2> QED BY <2>1, <2>2
<1> HIDE DEF busy
<1>8. TypeOK'
  BY <1>1, <1>2, <1>7, SamePast DEF TypeOK, Put, Slots
<1>9. ChatAsked'
  BY <1>1, <1>2, <1>7, FreeWellAsked, AskedPut
<1>10. OneSend' /\ BusyWhileSending'
  BY <1>2, <1>5, <1>7, FreeIsRequest, SendsAside, SendEnds
<1>11. LooksAgain'
  <2>1. ~Asks(i) /\ Pending => Pending'
    BY <1>2, <1>7, AsksKept
  <2> QED BY <1>1, <1>7, <2>1 DEF LooksAgain
<1> QED BY <1>7, <1>8, <1>9, <1>10, <1>11

LEMMA ChatLoads ==
    ASSUME History, ChatInv, NEW i \in Slots, LoadConversation(i)
    PROVE  ChatInv'
<1> USE DEF ChatInv
<1>1. Grows /\ UNCHANGED <<past, stream, failures>> /\ page.epoch \in Nat /\ page \in Pages
  BY HistoryStands, PageType DEF LoadConversation, TypeOK
<1>2. request[i].kind = "load" /\ ~request[i].sends /\ ~page.changed
  BY DEF LoadConversation, ChatAsked, WellAsked
<1>3. ~SendsNow(i) /\ ~Asks(i)
  BY <1>2 DEF SendsNow, Asks
<1>4. CASE ~IsCurrent(request[i])
  <2>1. UNCHANGED page /\ Put(i, Free)
    BY <1>4, SlotSettled DEF LoadConversation
  <2>2. WellAsked(Free)
    BY <1>1, AtMoment DEF WellAsked, Free
  <2> QED BY <1>1, <1>3, <2>1, <2>2, FreeIsRequest, ChatDrops
<1>5. CASE IsCurrent(request[i])
  <2>1. PICK talk \in Talks(request[i]), latest \in Latests(request[i]) :
          /\ page' = [page EXCEPT !.talk = talk, !.run = latest,
                                  !.changed = @ \/ page.run # latest]
          /\ IF latest = 0 THEN Settle(i)
             ELSE request' = [request EXCEPT ![i] = Ask("run", latest)]
    BY <1>5 DEF LoadConversation
  <2>2. request[i].chosen = page.chosen
    BY <1>5 DEF IsCurrent
  <2>3. /\ talk \in [conversation: Conversations \cup {None},
                     messages: SUBSET (RunNumbers \X {"user", "ai"})]
        /\ talk.conversation = page.chosen
        /\ \A m \in talk.messages : m[1] \in Admitted /\ runs[m[1]].home = page.chosen
    <3> HIDE DEF ChatInv
    <3> QED BY <2>2, TalkTaken
  <2>4. /\ latest \in RunNumbers \cup {0}
        /\ latest # 0 => latest \in Admitted /\ runs[latest].home = page.chosen
    <3>1. PICK m \in request[i].since..Now : latest = LatestRun(page.chosen, m)
      BY <2>2 DEF Latests
    <3>2. m \in 1..Now /\ Now \in 1..Now /\ m <= Now
      <4>1. request[i].since \in 1..Now
        BY DEF ChatAsked, WellAsked
      <4> QED BY <4>1, AtMoment
    <3>3. latest # 0 => latest \in 1..Len(past[m]) /\ past[m][latest].home = page.chosen
      BY <3>1, <3>2, LatestOne
    <3>4. latest # 0 => latest \in Admitted /\ runs[latest].home = page.chosen
      BY <3>2, <3>3, SincePast DEF Admitted, runs, Follows
    <3> QED BY <3>4, AtPresent
  <2>5. /\ page'.chosen = page.chosen /\ page'.epoch = page.epoch /\ page'.run = latest
        /\ page'.projection = page.projection /\ page'.events = page.events
        /\ page'.talk = talk /\ page'.changed = (page.run # latest) /\ page'.busy = page.busy
        /\ page' \in Pages
    <3>1. page' = [page EXCEPT !.talk = talk, !.run = latest,
                               !.changed = (page.run # latest)]
      BY <1>2, <2>1
    <3> QED BY <1>1, <2>3, <2>4, <3>1 DEF Pages
  <2> DEFINE q == IF latest = 0 THEN Free ELSE Ask("run", latest)
  <2>6. /\ q \in Requests /\ q.kind # "send" /\ ~q.sends /\ WellAsked(q)
        /\ latest # 0 => /\ q.kind = "run" /\ q.run = latest
                         /\ q.chosen = page.chosen /\ q.epoch = page.epoch
    <3>1. CASE latest = 0
      <4>1. WellAsked(Free)
        BY <1>1, AtMoment DEF WellAsked, Free
      <4> QED BY <3>1, <4>1, FreeIsRequest
    <3>2. CASE latest # 0
      <4> DEFINE r == Ask("run", latest)
      <4>1. /\ r \in Requests
            /\ r.kind = "run" /\ r.run = latest /\ ~r.sends
            /\ r.chosen = page.chosen /\ r.epoch = page.epoch /\ r.since = Now
        <5>1. page.chosen \in Conversations \cup {None} /\ page.epoch \in Epochs /\ Now \in Nat
          BY PageType, AtMoment
        <5> QED BY <2>4, <5>1 DEF Ask, Requests
      <4> HIDE DEF r
      <4>2. Now \in 1..Now /\ page.epoch <= page.epoch
        BY <1>1, AtMoment
      <4>3. WellAsked(r)
        BY <2>4, <3>2, <4>1, <4>2 DEF WellAsked, Admitted, runs
      <4>4. q = r
        BY <3>2 DEF r
      <4> QED BY <3>2, <4>1, <4>3, <4>4
    <3> QED BY <3>1, <3>2
  <2>7. Put(i, q)
    <3>1. request' = [request EXCEPT ![i] = q]
      BY <2>1 DEF Settle
    <3> HIDE DEF q
    <3> QED BY <2>6, <3>1, SlotGets
  <2> HIDE DEF q
  <2>8. TypeOK'
    BY <1>1, <2>5, <2>7, SamePast DEF TypeOK, Put, Slots
  <2>9. ChatAsked'
    <3>1. PICK r \in Requests : r = q
      BY <2>6
    <3>2. WellAsked(r)'
      BY <1>1, <2>5, <2>6, <3>1, AskedKept
    <3> QED BY <1>1, <2>5, <2>7, <3>1, <3>2, AskedPut
  <2>10. ChatShows'
    <3>1. Shown' = Shown /\ Once(page.events)' = Once(page.events)
      BY <2>5 DEF Shown, Once
    <3> QED BY <1>1, <2>3, <2>4, <2>5, <3>1, SamePast DEF ChatShows
  <2>11. StreamFits'
    <3>1. Shown' = Shown
      BY <2>5 DEF Shown
    <3> QED BY <1>1, <1>2, <2>5, <3>1, SamePast DEF StreamFits, IsCurrent
  <2>12. OneSend' /\ BusyWhileSending'
    <3>1. PICK r \in Requests : r = q
      BY <2>6
    <3> QED BY <1>3, <2>5, <2>6, <2>7, <3>1, SendsAside
  <2>13. LooksAgain'
    <3>1. latest # 0 => Pending'
      <4>1. PICK r \in Requests : r = q
        BY <2>6
      <4> QED BY <2>5, <2>6, <2>7, <4>1, AsksNow
    <3> QED BY <2>5, <3>1 DEF LooksAgain
  <2> QED BY <2>8, <2>9, <2>10, <2>11, <2>12, <2>13
<1> QED BY <1>4, <1>5

LEMMA ChatSends ==
    ASSUME History, ChatInv, Send
    PROVE  ChatInv'
<1> USE DEF ChatInv
<1>1. Grows /\ UNCHANGED <<past, stream, failures>> /\ page.epoch \in Nat /\ page \in Pages
  BY HistoryStands, PageType DEF Send, TypeOK
<1> DEFINE q == Ask("send", 0)
<1>2. ~page.busy /\ page' = [page EXCEPT !.busy = TRUE] /\ Issue(q) /\ page.chosen # None
  BY DEF Send
<1>3. /\ q \in Requests /\ q.kind = "send" /\ q.run = 0 /\ ~q.sends
      /\ q.chosen = page.chosen /\ q.epoch = page.epoch /\ q.since = Now
  BY RequestMade
<1> HIDE DEF q
<1>4. /\ page'.chosen = page.chosen /\ page'.epoch = page.epoch /\ page'.run = page.run
      /\ page'.projection = page.projection /\ page'.events = page.events
      /\ page'.talk = page.talk /\ page'.changed = page.changed /\ page'.busy = TRUE
      /\ page' \in Pages
  BY <1>1, <1>2 DEF Pages
<1>5. PICK i \in Slots : request[i].kind = "free" /\ Put(i, q)
  BY <1>2, <1>3, SlotIssued
<1>6. TypeOK'
  BY <1>1, <1>4, <1>5, SamePast DEF TypeOK, Put, Slots
<1>7. PICK r \in Requests : r = q
  BY <1>3
<1>8. ChatAsked'
  <2>1. WellAsked(r)
    <3>1. Now \in 1..Now /\ page.epoch <= page.epoch
      BY <1>1, AtMoment
    <3> QED BY <1>2, <1>3, <1>7, <3>1 DEF WellAsked
  <2>2. WellAsked(r)'
    BY <1>1, <1>4, <2>1, AskedKept
  <2> QED BY <1>1, <1>4, <1>5, <1>7, <2>2, AskedPut
<1>9. ChatShows' /\ StreamFits' /\ (Fresh => Fresh') /\ (Misled => Misled')
  <2> HIDE DEF ChatInv
  <2> QED BY <1>1, <1>4, PageStays
<1>10. OneSend' /\ BusyWhileSending'
  <2>1. \A j \in Slots : ~SendsNow(j)
    BY <1>2 DEF BusyWhileSending, SendsNow
  <2>2. \A j \in Slots : j # i => ~SendsNow(j)'
    BY <1>4, <1>5, <2>1 DEF SendsNow, Put, IsCurrent
  <2>3. SendsNow(i)'
    BY <1>3, <1>4, <1>5 DEF SendsNow, Put, IsCurrent
  <2> QED BY <1>4, <2>2, <2>3 DEF OneSend, BusyWhileSending, SendsNow, Slots
<1>11. LooksAgain'
  <2>1. ~Asks(i)
    BY <1>5 DEF Asks
  <2>2. Pending => Pending'
    BY <1>4, <1>5, <1>7, <2>1, AsksKept
  <2> QED BY <1>1, <1>4, <1>9, <2>2 DEF LooksAgain
<1> QED BY <1>6, <1>8, <1>9, <1>10, <1>11

LEMMA ChatTakesReceipt ==
    ASSUME History, ChatInv, NEW i \in Slots, TakeReceipt(i)
    PROVE  ChatInv'
<1> USE DEF ChatInv
<1>1. Grows /\ UNCHANGED <<past, stream, failures>> /\ page.epoch \in Nat /\ page \in Pages
  BY HistoryStands, PageType DEF TakeReceipt, TypeOK
<1>2. /\ request[i].kind = "send" /\ request[i].run # 0 /\ ~page.changed
      /\ request[i].run \in Admitted /\ runs[request[i].run].home = request[i].chosen
  BY DEF TakeReceipt, ChatAsked, WellAsked
<1>3. ~Asks(i)
  BY <1>2 DEF Asks
<1>4. CASE ~IsCurrent(request[i])
  <2>1. UNCHANGED page /\ Put(i, Free)
    BY <1>4, SlotSettled DEF TakeReceipt
  <2>2. WellAsked(Free)
    BY <1>1, AtMoment DEF WellAsked, Free
  <2>3. ~SendsNow(i)
    BY <1>4 DEF SendsNow
  <2> QED BY <1>1, <1>3, <2>1, <2>2, <2>3, FreeIsRequest, ChatDrops
<1>5. CASE IsCurrent(request[i])
  <2> DEFINE n == request[i].run
             q == [Ask("refresh", n) EXCEPT !.sends = TRUE]
  <2>1. n \in RunNumbers /\ n \in Admitted /\ n # 0 /\ runs[n].home = page.chosen
    BY <1>2, <1>5, AtPresent DEF IsCurrent
  <2>2. /\ page' = [page EXCEPT !.run = n, !.events = <<>>,
                                !.projection = NoProjection, !.changed = TRUE]
        /\ request' = [request EXCEPT ![i] = q]
    BY <1>5 DEF TakeReceipt
  <2>3. /\ q \in Requests /\ q.kind = "refresh" /\ q.run = n /\ q.sends
        /\ q.chosen = page.chosen /\ q.epoch = page.epoch /\ q.since = Now
    BY <2>1, RequestMade
  <2> HIDE DEF q, n
  <2>4. Put(i, q)
    BY <2>2, <2>3, SlotGets
  <2>5. /\ page'.chosen = page.chosen /\ page'.epoch = page.epoch /\ page'.run = n
        /\ page'.projection = NoProjection /\ page'.events = <<>>
        /\ page'.talk = page.talk /\ page'.changed = TRUE /\ page'.busy = page.busy
        /\ page' \in Pages
    <3>1. <<>> \in Seq(RunNumbers \X Positions)
      OBVIOUS
    <3> QED BY <1>1, <2>1, <2>2, <3>1, NothingShown DEF Pages
  <2>6. TypeOK'
    BY <1>1, <2>4, <2>5, SamePast DEF TypeOK, Put, Slots
  <2>7. PICK r \in Requests : r = q
    BY <2>3
  <2>8. ChatAsked'
    <3>1. WellAsked(r)
      <4>1. Now \in 1..Now /\ page.epoch <= page.epoch
        BY <1>1, AtMoment
      <4> QED BY <2>1, <2>3, <2>7, <4>1 DEF WellAsked, Admitted, runs
    <3>2. WellAsked(r)'
      BY <1>1, <2>5, <3>1, AskedKept
    <3> QED BY <1>1, <2>4, <2>5, <2>7, <3>2, AskedPut
  <2>9. Shown' = {} /\ Once(page.events)'
    BY <2>5 DEF Shown, Once
  <2>10. ChatShows'
    BY <1>1, <2>1, <2>5, <2>9, SamePast, NothingShown DEF ChatShows
  <2>11. StreamFits'
    BY <1>1, <2>5, <2>9, SamePast, NothingShown DEF StreamFits, IsCurrent
  <2>12. OneSend' /\ BusyWhileSending'
    <3>1. SendsNow(i)
      BY <1>2, <1>5 DEF SendsNow
    <3>2. SendsNow(i)'
      BY <2>3, <2>4, <2>5 DEF SendsNow, Put, IsCurrent
    <3>3. \A j \in Slots : j # i => (SendsNow(j)' <=> SendsNow(j))
      BY <2>4, <2>5 DEF SendsNow, Put, IsCurrent
    <3> QED BY <2>5, <3>1, <3>2, <3>3, SendsKept
  <2>13. LooksAgain'
    <3>1. Pending'
      BY <2>3, <2>4, <2>5, <2>7, AsksNow
    <3> QED BY <3>1 DEF LooksAgain
  <2> QED BY <2>6, <2>8, <2>10, <2>11, <2>12, <2>13
<1> QED BY <1>4, <1>5

LEMMA AsksSame ==
    ASSUME Pending, page'.chosen = page.chosen, page'.epoch = page.epoch, page'.run = page.run,
           UNCHANGED request
    PROVE  Pending'
BY DEF Pending, Asks, IsCurrent, Slots

LEMMA SendsSame ==
    ASSUME OneSend, BusyWhileSending, page'.busy = page.busy,
           page'.chosen = page.chosen, page'.epoch = page.epoch, UNCHANGED request
    PROVE  OneSend' /\ BusyWhileSending'
<1>1. \A i \in Slots : SendsNow(i)' <=> SendsNow(i)
  BY DEF SendsNow, IsCurrent
<1> QED BY <1>1, SendsKept

LEMMA ChatFails ==
    ASSUME History, ChatInv, NEW i \in Slots, Fail(i)
    PROVE  ChatInv'
<1> USE DEF ChatInv
<1>1. Grows /\ UNCHANGED <<past, stream>> /\ page.epoch \in Nat /\ page \in Pages
  BY HistoryStands, PageType DEF Fail, TypeOK
<1>2. Put(i, Free) /\ Free \in Requests
  BY SlotSettled, FreeIsRequest DEF Fail
<1>3. failures' = failures + 1 /\ failures' \in 0..MaxFailures /\ failures' # 0
  BY PageAssumption DEF Fail, TypeOK
<1> DEFINE busy == page.busy /\ ~SendsNow(i)
<1>4. page' = [page EXCEPT !.busy = busy]
  BY DEF Fail, SendsNow
<1>5. busy \in BOOLEAN /\ (SendsNow(i) => busy = FALSE) /\ (~SendsNow(i) => busy = page.busy)
  <2>1. page.busy \in BOOLEAN
    BY PageType
  <2>2. CASE SendsNow(i)
    BY <2>2
  <2>3. CASE ~SendsNow(i)
    BY <2>1, <2>3
  <2> QED BY <2>2, <2>3, <2>1
<1> HIDE DEF busy
<1>6. /\ page'.chosen = page.chosen /\ page'.epoch = page.epoch /\ page'.run = page.run
      /\ page'.projection = page.projection /\ page'.events = page.events
      /\ page'.talk = page.talk /\ page'.changed = page.changed /\ page'.busy = busy
      /\ page' \in Pages
  BY <1>1, <1>4, <1>5 DEF Pages
<1>7. TypeOK'
  BY <1>1, <1>2, <1>3, <1>6, SamePast DEF TypeOK, Put, Slots
<1>8. ChatAsked'
  BY <1>1, <1>2, <1>6, FreeWellAsked, AskedPut
<1>9. ChatShows' /\ StreamFits'
  <2> HIDE DEF ChatInv
  <2> QED BY <1>1, <1>6, PageStays
<1>10. OneSend' /\ BusyWhileSending'
  BY <1>2, <1>5, <1>6, FreeIsRequest, SendsAside, SendEnds
<1>11. LooksAgain'
  BY <1>3 DEF LooksAgain
<1> QED BY <1>7, <1>8, <1>9, <1>10, <1>11

LEMMA ChatSubscribes ==
    ASSUME History, ChatInv, Subscribe
    PROVE  ChatInv'
<1> USE DEF ChatInv
<1>1. /\ Grows /\ UNCHANGED <<past, request, failures>>
      /\ page.epoch \in Nat /\ page \in Pages /\ page.changed
      /\ page' = [page EXCEPT !.changed = FALSE]
  BY HistoryStands, PageType DEF Subscribe, TypeOK
<1>2. /\ page'.chosen = page.chosen /\ page'.epoch = page.epoch /\ page'.run = page.run
      /\ page'.projection = page.projection /\ page'.events = page.events
      /\ page'.talk = page.talk /\ page'.changed = FALSE /\ page'.busy = page.busy
      /\ page' \in Pages
  BY <1>1 DEF Pages
<1>3. ChatAsked'
  BY <1>1, <1>2, AskedSame
<1>4. ChatShows'
  BY <1>1, <1>2, ShowsStays
<1>5. OneSend' /\ BusyWhileSending'
  BY <1>1, <1>2, SendsSame
<1>6. Pending => Pending'
  BY <1>1, <1>2, AsksSame
<1>7. page.run # 0 => page.chosen # None
  <2>1. ASSUME page.run # 0 PROVE runs[page.run].home \in Conversations
    BY <2>1, AtPresent DEF ChatShows, RunRecords
  <2> QED BY <2>1, PageAssumption DEF ChatShows
<1> DEFINE none == page.chosen = None \/ page.run = 0 \/ page.projection = NoProjection
<1>8. CASE none
  <2>1. stream' = NoStream
    BY <1>8 DEF Subscribe
  <2>2. TypeOK'
    BY <1>1, <1>2, <2>1, SamePast, NothingShown DEF TypeOK
  <2>3. StreamFits'
    BY <2>1, NothingShown DEF StreamFits
  <2>4. LooksAgain'
    <3>1. page.run # 0 => page.projection.run = 0
      BY <1>7, <1>8, NothingShown
    <3>2. page.run # 0 => ~Fresh /\ ~Misled
      BY <3>1 DEF Fresh, ReadAt, Misled
    <3> QED BY <1>1, <1>2, <1>6, <3>2 DEF LooksAgain
  <2> QED BY <1>3, <1>4, <1>5, <2>2, <2>3, <2>4
<1>9. CASE ~none
  <2>1. stream' = [chosen |-> page.chosen, epoch |-> page.epoch, run |-> page.run,
                   cursorRun |-> page.projection.run, at |-> page.projection.cursor]
    BY <1>9 DEF Subscribe
  <2>2. /\ stream'.chosen = page.chosen /\ stream'.epoch = page.epoch
        /\ stream'.run = page.run /\ stream'.run # 0
        /\ stream'.cursorRun = page.projection.run /\ stream'.at = page.projection.cursor
        /\ page.projection.run # 0
    BY <1>9, <2>1 DEF ChatShows
  <2>3. stream' \in Streams
    BY <2>1, PageType DEF Streams, Projections
  <2>4. TypeOK'
    BY <1>1, <1>2, <2>3, SamePast DEF TypeOK
  <2>5. Shown' = Shown
    BY <1>2 DEF Shown
  <2>6. StreamFits'
    <3>1. ASSUME page.projection.run = page.run
          PROVE  \A e \in Shown : e[1] = page.run
      BY <2>2, <3>1 DEF ChatShows
    <3>2. page.epoch <= page.epoch
      BY <1>1
    <3> QED BY <1>1, <1>2, <2>2, <2>5, <3>1, <3>2, SamePast DEF StreamFits, IsCurrent, ChatShows
  <2>7. Misled => Misled'
    BY <1>2, <2>2 DEF Misled
  <2>8. Fresh => Fresh'
    <3> SUFFICES ASSUME Fresh PROVE Fresh'
      OBVIOUS
    <3>1. PICK m \in 1..Now : ReadAt(m)
      BY DEF Fresh
    <3>2. ReadAt(m)'
      BY <1>1, <1>2, <2>5, <3>1, SamePast DEF ReadAt
    <3> DEFINE n == page.run
    <3>3. n \in 1..Len(past[m]) /\ page.projection.cursor <= LengthAt(n, m)
      BY <3>1 DEF ReadAt
    <3>4. Now \in 1..Now /\ m <= Now
      BY AtMoment
    <3>5. n \in Admitted /\ Follows(past[m][n], runs[n])
      BY <3>3, <3>4, SincePast DEF Admitted, runs
    <3>6. /\ LengthAt(n, m) \in Nat /\ LogLength(n) \in Nat /\ LengthAt(n, m) <= LogLength(n)
          /\ page.projection.cursor \in Nat
      <4>1. n \in RunNumbers
        BY <3>5, AtPresent
      <4>2. LengthAt(n, m) \in Nat /\ LogLength(n) \in Nat
        BY <3>3, <3>5, <4>1, AtMoment, AtPresent, MaxLogsType
      <4> QED BY <3>5, <4>2, PageType DEF Follows, LengthAt, LogLength
    <3>7. ASSUME NEW i \in ShownTo(UserEvents, n), i <= page.projection.cursor
          PROVE  <<n, i>> \in Shown
      <4>1. i \in 1..LogLength(n) /\ runs[n].log[i] \in UserEvents
        BY DEF ShownTo
      <4>2. i \in 1..LengthAt(n, m)
        BY <3>3, <3>6, <3>7, <4>1
      <4>3. past[m][n].log[i] = runs[n].log[i]
        BY <3>5, <4>2 DEF Follows, LengthAt
      <4> QED BY <3>1, <4>1, <4>2, <4>3 DEF ReadAt, ShownAt
    <3>8. Follow'
      <4>1. page.projection.cursor <= LogLength(n)
        BY <3>3, <3>6
      <4> QED BY <1>1, <1>2, <2>2, <2>5, <3>7, <4>1, SamePast DEF Follow
    <3> QED BY <1>1, <3>2, <3>8, SamePast DEF Fresh
  <2>9. LooksAgain'
    BY <1>1, <1>2, <1>6, <2>7, <2>8 DEF LooksAgain
  <2> QED BY <1>3, <1>4, <1>5, <2>4, <2>6, <2>9
<1> QED BY <1>8, <1>9

LEMMA ChatRefused ==
    ASSUME History, ChatInv, Refuse
    PROVE  ChatInv'
<1> USE DEF ChatInv
<1>1. /\ Grows /\ UNCHANGED <<past, page, failures>>
      /\ page.epoch \in Nat
      /\ stream' = NoStream
      /\ stream.run # stream.cursorRun
  BY HistoryStands, PageType DEF Refuse
<1>2. /\ stream.run # 0 /\ stream.run \in Admitted /\ stream.run \in RunNumbers
      /\ runs[stream.run].home = stream.chosen
      /\ ~page.changed => IsCurrent(stream) /\ stream.run = page.run
  BY <1>1, NothingShown, AtPresent DEF StreamFits
<1>3. ChatShows'
  BY <1>1, ShowsStays
<1>4. StreamFits'
  BY <1>1, NothingShown DEF StreamFits
<1>5. page.changed => (Fresh => Fresh') /\ (Misled => Misled')
  <2>1. Shown' = Shown
    BY <1>1 DEF Shown
  <2>2. \A m \in 1..Now : ReadAt(m) => ReadAt(m)'
    BY <1>1, <2>1, SamePast DEF ReadAt
  <2> QED BY <1>1, <2>2, SamePast DEF Fresh, Follow, Misled
<1>6. CASE ~IsCurrent(stream)
  <2>1. UNCHANGED request
    BY <1>6 DEF Refuse
  <2>2. TypeOK'
    BY <1>1, <2>1, SamePast, NothingShown DEF TypeOK
  <2>3. ChatAsked'
    BY <1>1, <2>1, AskedSame
  <2>4. OneSend' /\ BusyWhileSending'
    BY <1>1, <2>1, SendsSame
  <2>5. Pending => Pending'
    BY <1>1, <2>1, AsksSame
  <2>6. LooksAgain'
    BY <1>1, <1>2, <1>5, <1>6, <2>5 DEF LooksAgain
  <2> QED BY <1>3, <1>4, <2>2, <2>3, <2>4, <2>6
<1>7. CASE IsCurrent(stream)
  <2>1. Issue(Ask("refresh", stream.run))
    BY <1>7 DEF Refuse
  <2>2. /\ Ask("refresh", stream.run) \in Requests
        /\ Ask("refresh", stream.run).kind = "refresh"
        /\ Ask("refresh", stream.run).run = stream.run
        /\ ~Ask("refresh", stream.run).sends
        /\ Ask("refresh", stream.run).chosen = page.chosen
        /\ Ask("refresh", stream.run).epoch = page.epoch
        /\ Ask("refresh", stream.run).since = Now
    <3>1. page.chosen \in Conversations \cup {None} /\ page.epoch \in Epochs /\ Now \in Nat
      BY PageType, AtMoment
    <3> QED BY <1>2, <3>1 DEF Ask, Requests
  <2>3. PICK q \in Requests : q = Ask("refresh", stream.run)
    BY <2>2
  <2>4. PICK i \in Slots : request[i].kind = "free" /\ Put(i, q)
    BY <2>1, <2>3, SlotIssued
  <2>5. TypeOK'
    BY <1>1, <2>4, SamePast, NothingShown DEF TypeOK, Put, Slots
  <2>6. ChatAsked'
    <3>1. WellAsked(q)
      <4>1. Now \in 1..Now /\ page.epoch <= page.epoch /\ stream.chosen = page.chosen
        BY <1>1, <1>7, AtMoment DEF IsCurrent
      <4> QED BY <1>2, <2>2, <2>3, <4>1 DEF WellAsked, Admitted, runs
    <3>2. WellAsked(q)'
      BY <1>1, <3>1, AskedKept
    <3>3. page.epoch <= page'.epoch /\ page'.epoch \in Nat
      BY <1>1
    <3> QED BY <1>1, <2>4, <3>2, <3>3, AskedPut
  <2>7. ~SendsNow(i) /\ ~Asks(i)
    BY <2>4 DEF SendsNow, Asks, ChatAsked, WellAsked
  <2>8. OneSend' /\ BusyWhileSending'
    BY <1>1, <2>2, <2>3, <2>4, <2>7, SendsAside
  <2>9. LooksAgain'
    <3>1. Pending => Pending'
      BY <1>1, <2>4, <2>7, AsksKept
    <3>2. ~page.changed => Pending'
      BY <1>1, <1>2, <2>2, <2>3, <2>4, AsksNow
    <3> QED BY <1>1, <1>5, <3>1, <3>2 DEF LooksAgain
  <2> QED BY <1>3, <1>4, <2>5, <2>6, <2>8, <2>9
<1> QED BY <1>6, <1>7

LEMMA ChatHears ==
    ASSUME History, ChatInv, Arrive
    PROVE  ChatInv'
<1> USE DEF ChatInv
<1> DEFINE n == stream.run
           next == NextShown(UserEvents, n, stream.at)
           event == <<n, next>>
<1>1. /\ Grows /\ UNCHANGED <<past, failures>> /\ page.epoch \in Nat /\ page \in Pages
      /\ n # 0 /\ n = stream.cursorRun /\ next # 0
      /\ stream' = [stream EXCEPT !.at = next]
      /\ stream \in Streams /\ stream.at \in Nat
  BY HistoryStands, PageType DEF Arrive, TypeOK
<1>2. /\ n \in Admitted /\ n \in RunNumbers /\ runs[n].home = stream.chosen
      /\ stream.epoch <= page.epoch
  BY <1>1, AtPresent DEF StreamFits
<1>3. /\ next \in Positions /\ next \in ShownTo(UserEvents, n) /\ next > stream.at
      /\ \A i \in ShownTo(UserEvents, n) : i > stream.at => next <= i
  BY <1>1, <1>2, NextOne
<1> HIDE DEF next
<1>4. /\ stream'.chosen = stream.chosen /\ stream'.epoch = stream.epoch
      /\ stream'.run = n /\ stream'.cursorRun = n /\ stream'.at = next /\ stream' \in Streams
  BY <1>1, <1>3 DEF Streams
<1>5. CASE IsCurrent(stream) /\ page.run = n /\ event \notin Shown
  <2>1. page' = [page EXCEPT !.events = Append(@, event)] /\ Issue(Ask("refresh", n))
    BY <1>5 DEF Arrive, next
  <2>2. /\ page.events \in Seq(RunNumbers \X Positions) /\ event \in RunNumbers \X Positions
        /\ page.chosen = stream.chosen /\ page.epoch = stream.epoch
    BY <1>2, <1>3, <1>5, PageType DEF IsCurrent
  <2>3. /\ page'.events \in Seq(RunNumbers \X Positions)
        /\ Len(page'.events) = Len(page.events) + 1
        /\ Len(page.events) \in Nat
        /\ page'.events[Len(page.events) + 1] = event
        /\ \A k \in 1..Len(page.events) : page'.events[k] = page.events[k]
        /\ page'.events = Append(page.events, event)
    <3>1. page'.events = Append(page.events, event)
      BY <1>1, <2>1 DEF Pages
    <3> HIDE DEF event
    <3> QED BY <2>2, <3>1
  <2>4. /\ page'.chosen = page.chosen /\ page'.epoch = page.epoch /\ page'.run = page.run
        /\ page'.projection = page.projection
        /\ page'.talk = page.talk /\ page'.changed = page.changed /\ page'.busy = page.busy
        /\ page' \in Pages
    <3>1. page' = [page EXCEPT !.events = page'.events]
      BY <1>1, <2>1, <2>3 DEF Pages
    <3> QED BY <1>1, <2>3, <3>1 DEF Pages
  <2>5. Shown' = Shown \cup {event}
    <3>1. ASSUME NEW e \in Shown PROVE e \in Shown'
      <4>1. PICK k \in 1..Len(page.events) : e = page.events[k]
        BY DEF Shown
      <4>2. k \in 1..Len(page'.events) /\ e = page'.events[k]
        BY <2>3, <4>1
      <4> QED BY <4>2 DEF Shown
    <3>2. event \in Shown'
      <4>1. Len(page.events) + 1 \in 1..Len(page'.events)
        BY <2>3
      <4> QED BY <2>3, <4>1 DEF Shown
    <3>3. ASSUME NEW e \in Shown' PROVE e \in Shown \cup {event}
      <4>1. PICK k \in 1..Len(page'.events) : e = page'.events[k]
        BY DEF Shown
      <4>2. k \in 1..Len(page.events) \/ k = Len(page.events) + 1
        BY <2>3
      <4> QED BY <2>3, <4>1, <4>2 DEF Shown
    <3> QED BY <3>1, <3>2, <3>3
  <2>6. page.projection.run \in {0, n} /\ \A e \in Shown : e[1] = n
    BY <1>1, <1>2, <1>5 DEF StreamFits
  <2>7. Once(page'.events)
    <3> SUFFICES ASSUME NEW k \in 1..Len(page'.events), NEW l \in 1..Len(page'.events),
                        page'.events[k] = page'.events[l]
                 PROVE  k = l
      BY DEF Once
    <3> DEFINE L == Len(page.events)
    <3>1. k \in 1..L \/ k = L + 1
      BY <2>3
    <3>2. l \in 1..L \/ l = L + 1
      BY <2>3
    <3>3. ASSUME NEW j \in 1..L PROVE page'.events[j] # event
      BY <1>5, <2>3, <3>3 DEF Shown
    <3>4. CASE k \in 1..L /\ l \in 1..L
      BY <2>3, <3>4 DEF Once, ChatShows
    <3> QED BY <2>3, <3>1, <3>2, <3>3, <3>4
  <2>8. page'.events[1][1] = n
    <3>1. 1 \in 1..Len(page'.events)
      BY <2>3
    <3>2. page'.events[1] \in Shown'
      BY <3>1 DEF Shown
    <3> QED BY <2>5, <2>6, <3>2
  <2>9. ChatShows'
    <3>1. \A e \in Shown' : /\ e[1] = n
                            /\ e[2] \in ShownTo(UserEvents, n)
      BY <1>3, <2>5, <2>6 DEF ChatShows
    <3>2. runs[n].home = page.chosen
      BY <1>2, <2>2
    <3>3. Once(page.events)'
      BY <2>7 DEF Once
    <3>4. \A e \in Shown' : ShownTo(UserEvents, e[1])' = ShownTo(UserEvents, e[1])
      BY <1>1, <3>1, SamePast
    <3>5. /\ page.run # 0 => page.run \in Admitted /\ runs[page.run].home = page.chosen
          /\ page.projection.run = 0 => page.projection = NoProjection
          /\ page.projection.run # 0 =>
                page.projection.run \in Admitted /\ runs[page.projection.run].home = page.chosen
          /\ page.talk.conversation \in {None, page.chosen}
          /\ \A m \in page.talk.messages : m[1] \in Admitted /\ runs[m[1]].home = page.chosen
      BY DEF ChatShows
    <3>6. Admitted' = Admitted /\ runs' = runs
      BY <1>1, SamePast
    <3>7. \A e \in Shown' : /\ e[1] \in Admitted
                            /\ runs[e[1]].home = page.chosen
                            /\ e[2] \in ShownTo(UserEvents, e[1])'
                            /\ e[1] = page'.events[1][1]
                            /\ page'.projection.run \in {0, e[1]}
      BY <1>2, <2>4, <2>6, <2>8, <3>1, <3>2, <3>4
    <3> QED BY <2>4, <3>3, <3>5, <3>6, <3>7 DEF ChatShows
  <2>10. StreamFits'
    <3>1. Admitted' = Admitted /\ runs' = runs
      BY <1>1, SamePast
    <3>2. \A e \in Shown' : e[1] = n
      BY <2>5, <2>6
    <3>3. IsCurrent(stream)' /\ stream'.epoch <= page'.epoch
      BY <1>2, <1>4, <1>5, <2>4 DEF IsCurrent
    <3>4. ~page.changed => stream.cursorRun = page.projection.run
      BY <1>1 DEF StreamFits
    <3> QED BY <1>1, <1>2, <1>4, <1>5, <2>4, <2>6, <3>1, <3>2, <3>3, <3>4 DEF StreamFits
  <2>11. /\ Ask("refresh", n) \in Requests
         /\ Ask("refresh", n).kind = "refresh"
         /\ Ask("refresh", n).run = n
         /\ ~Ask("refresh", n).sends
         /\ Ask("refresh", n).chosen = page.chosen
         /\ Ask("refresh", n).epoch = page.epoch
         /\ Ask("refresh", n).since = Now
    <3>1. page.chosen \in Conversations \cup {None} /\ page.epoch \in Epochs /\ Now \in Nat
      BY PageType, AtMoment
    <3> QED BY <1>2, <3>1 DEF Ask, Requests
  <2>12. PICK q \in Requests : q = Ask("refresh", n)
    BY <2>11
  <2>13. PICK i \in Slots : request[i].kind = "free" /\ Put(i, q)
    BY <2>1, <2>12, SlotIssued
  <2>14. TypeOK'
    BY <1>1, <1>4, <2>4, <2>13, SamePast DEF TypeOK, Put, Slots
  <2>15. ChatAsked'
    <3>1. WellAsked(q)
      <4>1. Now \in 1..Now /\ page.epoch <= page.epoch
        BY <1>1, AtMoment
      <4> QED BY <1>2, <2>2, <2>11, <2>12, <4>1 DEF WellAsked, Admitted, runs
    <3>2. page.epoch <= page'.epoch /\ page'.epoch \in Nat
      BY <1>1, <2>4
    <3>3. WellAsked(q)'
      BY <1>1, <3>1, <3>2, AskedKept
    <3> QED BY <1>1, <2>13, <3>2, <3>3, AskedPut
  <2>16. OneSend' /\ BusyWhileSending'
    <3>1. ~SendsNow(i)
      BY <2>13 DEF SendsNow, ChatAsked, WellAsked
    <3> QED BY <2>4, <2>11, <2>12, <2>13, <3>1, SendsAside
  <2>17. LooksAgain'
    <3>1. Pending'
      BY <1>5, <2>4, <2>11, <2>12, <2>13, AsksNow
    <3> QED BY <3>1 DEF LooksAgain
  <2> QED BY <2>9, <2>10, <2>14, <2>15, <2>16, <2>17
<1>6. CASE ~(IsCurrent(stream) /\ page.run = n /\ event \notin Shown)
  <2>1. UNCHANGED <<page, request>>
    BY <1>6 DEF Arrive, next
  <2>2. TypeOK'
    BY <1>1, <1>4, <2>1, SamePast DEF TypeOK
  <2>3. ChatAsked'
    BY <1>1, <2>1, AskedSame
  <2>4. ChatShows'
    BY <1>1, <2>1, ShowsStays
  <2>5. Shown' = Shown /\ Admitted' = Admitted /\ runs' = runs
    BY <1>1, <2>1, SamePast DEF Shown
  <2>6. StreamFits'
    BY <1>1, <1>4, <2>1, <2>5 DEF StreamFits, IsCurrent
  <2>7. OneSend' /\ BusyWhileSending'
    BY <2>1, SendsSame
  <2>8. Pending => Pending'
    BY <2>1, AsksSame
  <2>9. Misled => Misled'
    BY <1>1, <1>4, <2>1 DEF Misled
  <2>10. Fresh => Fresh'
    <3> SUFFICES ASSUME Fresh PROVE Fresh'
      OBVIOUS
    <3>1. PICK m \in 1..Now : ReadAt(m)
      BY DEF Fresh
    <3>2. ReadAt(m)'
      BY <1>1, <2>1, <2>5, <3>1, SamePast DEF ReadAt
    <3>3. ASSUME ~page.changed
          PROVE  /\ next <= LogLength(n) /\ page.run = n
                 /\ \A i \in ShownTo(UserEvents, n) : i <= next => <<n, i>> \in Shown
      <4>1. IsCurrent(stream) /\ page.run = n
        BY <1>1, <3>3 DEF StreamFits
      <4>2. event \in Shown
        BY <1>6, <4>1
      <4>3. \A i \in ShownTo(UserEvents, n) : i <= stream.at => <<n, i>> \in Shown
        BY <3>3, <4>1 DEF Fresh, Follow
      <4>4. ASSUME NEW i \in ShownTo(UserEvents, n), i <= next, i > stream.at
            PROVE  i = next
        <5>1. i \in Nat /\ next \in Nat /\ next <= i
          BY <1>2, <1>3, <4>4, AtPresent, MaxLogsType DEF ShownTo
        <5> QED BY <4>4, <5>1
      <4>5. ShownTo(UserEvents, n) \subseteq Nat
        BY <1>2, AtPresent DEF ShownTo
      <4>6. next <= LogLength(n)
        BY <1>3 DEF ShownTo
      <4>7. ASSUME NEW i \in ShownTo(UserEvents, n), i <= next PROVE <<n, i>> \in Shown
        <5>1. CASE i <= stream.at
          BY <4>3, <5>1
        <5>2. CASE i > stream.at
          BY <4>2, <4>4, <4>7, <5>2
        <5> QED BY <1>1, <4>5, <5>1, <5>2
      <4> QED BY <4>1, <4>6, <4>7
    <3>4. Follow'
      BY <1>1, <1>4, <2>1, <2>5, <3>3, SamePast DEF Follow
    <3> QED BY <1>1, <3>2, <3>4, SamePast DEF Fresh
  <2>11. LooksAgain'
    BY <1>1, <2>1, <2>8, <2>9, <2>10 DEF LooksAgain
  <2> QED BY <2>2, <2>3, <2>4, <2>6, <2>7, <2>11
<1> QED BY <1>5, <1>6

\* What has been read at a moment stays.
LEMMA PastReads ==
    ASSUME Grows
    PROVE  /\ Now \in Nat \ {0} /\ Now' \in Nat \ {0} /\ Now <= Now'
           /\ \A m \in 1..Now : /\ m \in 1..Now'
                                /\ past'[m] = past[m]
                                /\ \A n : LengthAt(n, m)' = LengthAt(n, m)
                                /\ \A types, n : ShownAt(types, n, m)' = ShownAt(types, n, m)
                                /\ \A c : Messages(c, m)' = Messages(c, m)
<1>1. Now \in Nat \ {0} /\ Now' \in Nat \ {0}
  BY AtMoment DEF Grows, History, PastTypeOK, Now
<1>2. Now <= Now' /\ \A m \in 1..Now : past'[m] = past[m]
  BY DEF Grows, PastKept
<1>3. ASSUME NEW m \in 1..Now
      PROVE  /\ m \in 1..Now'
             /\ \A n : LengthAt(n, m)' = LengthAt(n, m)
             /\ \A types, n : ShownAt(types, n, m)' = ShownAt(types, n, m)
             /\ \A c : Messages(c, m)' = Messages(c, m)
  <2>1. m \in 1..Now' /\ past'[m] = past[m]
    BY <1>1, <1>2
  <2> QED BY <2>1 DEF LengthAt, ShownAt, Messages, RunsOf
<1> QED BY <1>1, <1>2, <1>3

\* What is shown of a log stays shown, and nothing comes to be shown before its end.
LEMMA LogGrows ==
    ASSUME Grows, NEW n \in Admitted
    PROVE  /\ LogLength(n) \in Nat /\ LogLength(n)' \in Nat /\ LogLength(n) <= LogLength(n)'
           /\ \A types : \A i \in ShownTo(types, n) : i \in ShownTo(types, n)'
           /\ \A types : \A i \in ShownTo(types, n)' :
                i <= LogLength(n) => i \in ShownTo(types, n)
<1>1. LogLength(n) \in Nat
  BY AtPresent, MaxLogsType DEF Grows
<1>2. Follows(runs[n], runs'[n]) /\ n \in Admitted'
  BY Stays
<1>3. LogLength(n)' \in Nat
  <2>1. past' \in Seq(Seq(RunRecords)) /\ Now' \in 1..Len(past')
    BY DEF Grows, History, PastTypeOK, Now
  <2>2. runs' \in Seq(RunRecords)
    BY <2>1 DEF runs
  <2>3. runs'[n] \in RunRecords
    BY <1>2, <2>2 DEF Admitted
  <2> QED BY <2>3 DEF RunRecords, LogLength
<1>4. /\ LogLength(n) <= LogLength(n)'
      /\ \A i \in 1..LogLength(n) : runs'[n].log[i] = runs[n].log[i]
  BY <1>2 DEF Follows, LogLength
<1> QED BY <1>1, <1>3, <1>4 DEF ShownTo, LogLength

\* The page is as it was when the server has gone on, but that a message it sent
\* may have been admitted.
Receives(i, q) ==
    /\ request[i].kind = "send" /\ q.kind = "send"
    /\ q.chosen = request[i].chosen /\ q.epoch = request[i].epoch
    /\ Put(i, q)

LEMMA ChatGoesOn ==
    ASSUME Grows, ChatInv, UNCHANGED <<page, stream, failures>>,
           \/ UNCHANGED request
           \/ \E i \in Slots, q \in Requests : Receives(i, q) /\ WellAsked(q)'
    PROVE  ChatInv'
<1> USE DEF ChatInv
<1>1. /\ History /\ History'
      /\ page.epoch \in Nat /\ page'.epoch \in Nat /\ page.epoch <= page'.epoch
  BY PageType DEF Grows
<1>2. TypeOK'
  <2>1. PastTypeOK'
    BY <1>1 DEF History
  <2>2. request' \in [Slots -> Requests]
    BY DEF TypeOK, Receives, Put
  <2> QED BY <2>1, <2>2 DEF TypeOK, Slots
<1>3. ChatAsked'
  <2>1. CASE UNCHANGED request
    BY <1>1, <2>1, AskedSame
  <2>2. CASE \E i \in Slots, q \in Requests : Receives(i, q) /\ WellAsked(q)'
    BY <1>1, <2>2, AskedPut DEF Receives
  <2> QED BY <2>1, <2>2
<1>4. \A n \in Admitted : n \in Admitted' /\ runs'[n].home = runs[n].home
  BY Stays DEF Follows
<1>5. Shown' = Shown /\ Once(page.events)' = Once(page.events)
  BY DEF Shown, Once
<1>6. ChatShows'
  <2>1. \A e \in Shown : /\ e[1] \in Admitted' /\ runs'[e[1]].home = page.chosen
                         /\ e[2] \in ShownTo(UserEvents, e[1])'
    BY <1>4, LogGrows DEF ChatShows
  <2> QED BY <1>4, <1>5, <2>1 DEF ChatShows
<1>7. StreamFits'
  BY <1>4, <1>5 DEF StreamFits, IsCurrent
<1>8. OneSend' /\ BusyWhileSending'
  <2>1. CASE UNCHANGED request
    BY <2>1, SendsSame
  <2>2. ASSUME NEW i \in Slots, NEW q \in Requests, Receives(i, q)
        PROVE  OneSend' /\ BusyWhileSending'
    <3>1. \A j \in Slots : SendsNow(j)' <=> SendsNow(j)
      BY <2>2 DEF SendsNow, Receives, Put, IsCurrent
    <3> QED BY <3>1, SendsKept
  <2> QED BY <2>1, <2>2
<1>9. Pending => Pending'
  <2>1. CASE UNCHANGED request
    BY <2>1, AsksSame
  <2>2. ASSUME NEW i \in Slots, NEW q \in Requests, Receives(i, q)
        PROVE  Pending => Pending'
    BY <2>2, AsksKept DEF Receives, Asks
  <2> QED BY <2>1, <2>2
<1>10. Fresh => Fresh'
  <2> SUFFICES ASSUME Fresh PROVE Fresh'
    OBVIOUS
  <2>1. PICK m \in 1..Now : ReadAt(m)
    BY DEF Fresh
  <2>2. m \in 1..Now' /\ ReadAt(m)'
    <3>1. /\ m \in 1..Now' /\ past'[m] = past[m]
          /\ LengthAt(page.run, m)' = LengthAt(page.run, m)
          /\ ShownAt(UserEvents, page.run, m)' = ShownAt(UserEvents, page.run, m)
          /\ Messages(page.chosen, m)' = Messages(page.chosen, m)
      BY PastReads
    <3> QED BY <1>5, <2>1, <3>1 DEF ReadAt
  <2>3. page.run \in Admitted
    BY <1>1, <2>1, AtMoment, SincePast DEF ReadAt, Admitted, runs
  <2>4. Follow'
    <3> SUFFICES ASSUME ~page.changed
                 PROVE  /\ stream.run # 0
                        /\ stream.at <= LogLength(page.run)'
                        /\ \A i \in ShownTo(UserEvents, page.run)' :
                                i <= stream.at => <<page.run, i>> \in Shown
      BY <1>5 DEF Follow
    <3>1. /\ stream.run # 0 /\ stream.at <= LogLength(page.run)
          /\ \A i \in ShownTo(UserEvents, page.run) : i <= stream.at => <<page.run, i>> \in Shown
      BY DEF Fresh, Follow
    <3>2. /\ LogLength(page.run) \in Nat /\ LogLength(page.run)' \in Nat
          /\ LogLength(page.run) <= LogLength(page.run)'
          /\ \A i \in ShownTo(UserEvents, page.run)' :
                i <= LogLength(page.run) => i \in ShownTo(UserEvents, page.run)
      BY <2>3, LogGrows
    <3>3. stream.at \in Nat /\ ShownTo(UserEvents, page.run)' \subseteq Nat
      BY <3>2, PageType DEF ShownTo
    <3> QED BY <3>1, <3>2, <3>3
  <2> QED BY <2>2, <2>4 DEF Fresh
<1>11. Misled => Misled'
  BY DEF Misled
<1>12. LooksAgain'
  BY <1>9, <1>10, <1>11 DEF LooksAgain
<1> QED BY <1>2, <1>3, <1>6, <1>7, <1>8, <1>12

LEMMA ChatAdmits ==
    ASSUME History, ChatInv, NEW i \in Slots, AdmitSend(i)
    PROVE  Grows /\ ChatInv'
<1> DEFINE q == [request[i] EXCEPT !.run = Len(runs) + 1]
<1>1. /\ request[i] \in Requests /\ request[i].kind = "send" /\ request[i].run = 0
      /\ request[i].chosen \in Conversations
      /\ AdmitNewRun(request[i].chosen)
      /\ UNCHANGED <<page, stream, failures>>
      /\ WellAsked(request[i])
  <2>1. request[i] \in Requests /\ WellAsked(request[i])
    BY PageType DEF ChatInv, ChatAsked
  <2> QED BY <2>1 DEF AdmitSend, WellAsked, Requests
<1>2. Grows
  BY <1>1, AdmitGrows
<1> DEFINE r == [home |-> request[i].chosen, status |-> "queued", approval |-> "none",
                 log |-> <<"message.completed">>]
<1>3. Len(runs) < Len(MaxLogs) /\ past' = Append(past, Append(runs, r))
  BY <1>1 DEF AdmitNewRun
<1>4. Len(runs) + 1 \in Admitted' /\ runs'[Len(runs) + 1] = r
  <2>1. past \in Seq(Seq(RunRecords)) /\ runs \in Seq(RunRecords)
    BY AtPresent DEF History, PastTypeOK
  <2> HIDE DEF r
  <2>2. runs' = Append(runs, r)
    BY <1>3, <2>1 DEF runs, Now
  <2> QED BY <2>1, <2>2 DEF Admitted
<1>5. Len(runs) + 1 \in RunNumbers
  BY <1>3, AtPresent, MaxLogsType DEF RunNumbers
<1>6. /\ q \in Requests
      /\ q.kind = "send" /\ q.run = Len(runs) + 1 /\ q.chosen = request[i].chosen
      /\ q.epoch = request[i].epoch /\ q.since = request[i].since /\ q.sends = request[i].sends
  BY <1>1, <1>5 DEF Requests
<1>7. Put(i, q)
  <2>1. request' = [request EXCEPT ![i] = q]
    BY <1>1 DEF AdmitSend, ChatInv, TypeOK
  <2> HIDE DEF q
  <2> QED BY <1>6, <2>1, SlotGets DEF ChatInv
<1> HIDE DEF q
<1>8. PICK p \in Requests : p = q
  BY <1>6
<1>9. WellAsked(p)'
  <2>1. page.epoch \in Nat /\ page'.epoch = page.epoch /\ page.epoch <= page.epoch
    BY <1>1, PageType DEF ChatInv
  <2>2. PICK o \in Requests : o = request[i]
    BY <1>1
  <2>3. WellAsked(o)'
    BY <1>1, <1>2, <2>1, <2>2, AskedKept
  <2> QED BY <1>1, <1>4, <1>6, <1>8, <2>2, <2>3 DEF WellAsked
<1>10. Receives(i, p)
  BY <1>1, <1>6, <1>7, <1>8 DEF Receives
<1> QED BY <1>1, <1>2, <1>9, <1>10, ChatGoesOn

\* Every step of the page, and of the server as the page knows it.
LEMMA ChatSteps ==
    ASSUME History, ChatInv, ChatNext
    PROVE  Grows /\ ChatInv'
<1>1. ASSUME NEW c \in Conversations, FirstSession(c) \/ ChooseSession(c)
      PROVE  Grows /\ ChatInv'
  BY <1>1, HistoryStands, ChatSelects DEF FirstSession, ChooseSession, SelectConversation
<1>2. ASSUME NEW c \in Conversations, AdmitElsewhere(c) PROVE Grows /\ ChatInv'
  BY <1>2, AdmitGrows, ChatGoesOn DEF AdmitElsewhere
<1>3. ASSUME NEW n \in Admitted, Work(n) PROVE Grows /\ ChatInv'
  BY <1>3, RuntimeGrows, ChatGoesOn DEF Work
<1>4. ASSUME NEW i \in Slots, AdmitSend(i) PROVE Grows /\ ChatInv'
  BY <1>4, ChatAdmits
<1>5. ASSUME NEW i \in Slots, LoadConversation(i) PROVE Grows /\ ChatInv'
  BY <1>5, HistoryStands, ChatLoads DEF LoadConversation
<1>6. ASSUME NEW i \in Slots, LoadRun(i) PROVE Grows /\ ChatInv'
  BY <1>6, HistoryStands, ChatReads DEF LoadRun
<1>7. ASSUME NEW i \in Slots, Refresh(i) PROVE Grows /\ ChatInv'
  BY <1>7, HistoryStands, ChatRefreshes DEF Refresh
<1>8. ASSUME NEW i \in Slots, TakeReceipt(i) PROVE Grows /\ ChatInv'
  BY <1>8, HistoryStands, ChatTakesReceipt DEF TakeReceipt
<1>9. ASSUME NEW i \in Slots, Fail(i) PROVE Grows /\ ChatInv'
  BY <1>9, HistoryStands, ChatFails DEF Fail
<1>10. CASE Send
  BY <1>10, HistoryStands, ChatSends DEF Send
<1>11. CASE Subscribe
  BY <1>11, HistoryStands, ChatSubscribes DEF Subscribe
<1>12. CASE Refuse
  BY <1>12, HistoryStands, ChatRefused DEF Refuse
<1>13. CASE Arrive
  BY <1>13, HistoryStands, ChatHears DEF Arrive
<1> QED BY <1>1, <1>2, <1>3, <1>4, <1>5, <1>6, <1>7, <1>8, <1>9, <1>10, <1>11, <1>12, <1>13
     DEF ChatNext, PageTakes

LEMMA PastStarts == PastInit => History
<1> SUFFICES ASSUME PastInit PROVE History
  OBVIOUS
<1>1. /\ past = <<<<>>>> /\ past \in Seq(Seq(RunRecords)) /\ Now = 1 /\ past[1] = <<>>
      /\ Len(past[1]) = 0
  BY DEF PastInit, Now
<1>2. Len(MaxLogs) \in Nat
  BY MaxLogsType
<1> QED BY <1>1, <1>2 DEF History, PastTypeOK

LEMMA ChatStarts == ChatInit => ChatInv
<1> SUFFICES ASSUME ChatInit PROVE ChatInv
  OBVIOUS
<1>1. History /\ Now \in Nat \ {0}
  BY PastStarts, AtMoment DEF ChatInit
<1>2. /\ page = [chosen |-> None, epoch |-> 0, run |-> 0, talk |-> NoTalk,
                 projection |-> NoProjection, events |-> <<>>, busy |-> FALSE, changed |-> FALSE]
      /\ stream = NoStream
      /\ request = [i \in Slots |-> Free]
      /\ failures = 0
  BY DEF ChatInit
<1>3. TypeOK
  <2>1. <<>> \in Seq(RunNumbers \X Positions) /\ 0 \in Epochs
    BY PageAssumption DEF Epochs
  <2>2. page \in Pages
    BY <1>2, <2>1, NothingShown DEF Pages
  <2>3. failures \in 0..MaxFailures
    BY <1>2, PageAssumption
  <2>4. PastTypeOK
    BY <1>1 DEF History
  <2> QED BY <1>2, <2>2, <2>3, <2>4, NothingShown, FreeIsRequest DEF TypeOK
<1>4. Shown = {} /\ Once(page.events)
  BY <1>2 DEF Shown, Once
<1>5. ChatAsked
  <2>1. WellAsked(Free)
    BY <1>1, <1>2 DEF WellAsked, Free
  <2> QED BY <1>2, <2>1 DEF ChatAsked
<1>6. ChatShows
  BY <1>2, <1>4, NothingShown DEF ChatShows
<1>7. StreamFits
  BY <1>2, NothingShown DEF StreamFits
<1>8. OneSend /\ BusyWhileSending
  <2>1. \A i \in Slots : request[i].kind # "send" /\ ~request[i].sends
    BY <1>2, FreeIsRequest
  <2> QED BY <1>2, <2>1 DEF OneSend, BusyWhileSending, SendsNow
<1>9. LooksAgain
  BY <1>2 DEF LooksAgain
<1> QED BY <1>3, <1>5, <1>6, <1>7, <1>8, <1>9 DEF ChatInv

\* What the invariant says of the screen.
LEMMA ChatBelongs == History /\ ChatInv => ScreenBelongs
<1> SUFFICES ASSUME History, ChatInv PROVE ScreenBelongs
  OBVIOUS
<1>1. ChatShows /\ page.events \in Seq(RunNumbers \X Positions)
  BY PageType DEF ChatInv
<1>2. Cardinality(Shown) = Len(page.events)
  BY <1>1, OnceCounted DEF ChatShows, Shown
<1>3. \A e \in Shown : runs[e[1]].log[e[2]] \in UserEvents
  BY <1>1 DEF ChatShows, ShownTo
<1> QED BY <1>1, <1>2, <1>3 DEF ChatShows, ScreenBelongs

\* And of a page at rest: nothing will make it look again, so it is current.
LEMMA ChatRestsCurrent == History /\ ChatInv => RestIsCurrent
<1> SUFFICES ASSUME History, ChatInv, AtRest, page.run # 0
             PROVE  /\ page.projection.run = page.run
                    /\ Shown = {<<page.run, i>> : i \in ShownTo(UserEvents, page.run)}
                    /\ page.projection.whole => page.projection.status = runs[page.run].status
                    /\ page.projection.talkWhole =>
                        \A m \in Messages(page.chosen, Now) :
                            m[1] = page.run => m \in page.talk.messages
  BY DEF RestIsCurrent
<1> DEFINE n == page.run
<1>1. ~Pending
  BY DEF AtRest, Pending, Asks, FreeSlots
<1>2. ~Misled
  BY DEF AtRest, Misled
<1>3. Fresh
  BY <1>1, <1>2 DEF AtRest, ChatInv, LooksAgain
<1>4. PICK m \in 1..Now : ReadAt(m)
  BY <1>3 DEF Fresh
<1>5. /\ stream.run # 0 /\ stream.run = n /\ stream.at \in Nat
      /\ \A i \in ShownTo(UserEvents, n) : i <= stream.at => <<n, i>> \in Shown
  BY <1>3, PageType DEF Fresh, Follow, AtRest, ChatInv, StreamFits
<1>6. n \in 1..Len(past[m]) /\ Now \in 1..Now /\ m <= Now
  BY <1>4, AtMoment DEF ReadAt
<1>7. n \in Admitted /\ Follows(past[m][n], runs[n]) /\ n \in RunNumbers
  BY <1>6, SincePast, AtPresent DEF Admitted, runs
<1>8. LengthAt(n, m) \in Nat /\ LogLength(n) \in Nat /\ LengthAt(n, m) <= LogLength(n)
  BY <1>6, <1>7, AtMoment, AtPresent, MaxLogsType DEF Follows, LengthAt, LogLength
<1>9. \A i \in ShownTo(UserEvents, n) : i <= stream.at
  <2>1. NextShown(UserEvents, n, stream.at) = 0
    BY <1>5 DEF AtRest
  <2> QED BY <1>5, <1>7, <2>1, NextOne
<1>10. \A i \in ShownTo(UserEvents, n) : <<n, i>> \in Shown
  BY <1>5, <1>9
<1>11. \A e \in Shown : e[1] = n /\ e = <<n, e[2]>> /\ e[2] \in ShownTo(UserEvents, n)
  <2>1. \A e \in Shown : e[2] \in ShownTo(UserEvents, e[1])
    BY DEF ChatInv, ChatShows
  <2> QED BY <1>4, <2>1 DEF ReadAt
<1>12. Shown = {<<n, i>> : i \in ShownTo(UserEvents, n)}
  BY <1>10, <1>11
\* A status that is new now was said to be by an event that is shown, and so was
\* there at the moment of the reading.
<1>13. runs[n].status = past[m][n].status
  <2> SUFFICES ASSUME runs[n].status # past[m][n].status PROVE FALSE
    OBVIOUS
  <2>1. PICK i \in LengthAt(n, m) + 1..LogLength(n) : runs[n].log[i] = "run.status_changed"
    BY <1>7 DEF Follows, LengthAt, LogLength
  <2>2. i \in ShownTo(UserEvents, n)
    BY <1>8, <2>1 DEF ShownTo, UserEvents, EventTypes, HiddenEvents
  <2>3. i \in ShownAt(UserEvents, n, m)
    BY <1>4, <1>10, <2>2 DEF ReadAt
  <2> QED BY <1>8, <2>1, <2>3 DEF ShownAt
<1>14. \A msg \in Messages(page.chosen, Now) : msg[1] = n => msg \in Messages(page.chosen, m)
  <2> SUFFICES ASSUME NEW msg \in Messages(page.chosen, Now), msg[1] = n
               PROVE  msg \in Messages(page.chosen, m)
    OBVIOUS
  <2>1. past[m][n].home = runs[n].home
    BY <1>7 DEF Follows
  <2>2. runs[n].home = page.chosen
    BY DEF ChatInv, ChatShows
  <2>3. n \in RunsOf(page.chosen, m)
    BY <1>6, <2>1, <2>2 DEF RunsOf
  <2> QED BY <1>13, <2>3 DEF Messages, runs
<1> QED BY <1>4, <1>12, <1>13, <1>14 DEF ReadAt

-----------------------------------------------------------------------------
(* The admin's runs page.                                                  *)

\* The least of a set, and the least of the others.
LEMMA TwoSlots ==
    ASSUME NEW S \in SUBSET Nat, IsFiniteSet(S), Cardinality(S) >= 2
    PROVE  LET i == CHOOSE a \in S : \A b \in S : a <= b
               k == CHOOSE a \in S \ {i} : \A b \in S \ {i} : a <= b IN
           i \in S /\ k \in S /\ k # i
<1> DEFINE i == CHOOSE a \in S : \A b \in S : a <= b
           k == CHOOSE a \in S \ {i} : \A b \in S \ {i} : a <= b
<1>1. S # {}
  <2>1. ASSUME S = {} PROVE Cardinality(S) = 0
    BY <2>1, FS_EmptySet
  <2> QED BY <2>1
<1>2. i \in S
  BY <1>1, ChosenLeast
<1> HIDE DEF i
<1>3. S \ {i} # {}
  <2>1. ASSUME S \ {i} = {} PROVE Cardinality(S) = 1
    <3>1. S = {i}
      BY <1>2, <2>1
    <3> QED BY <3>1, FS_Singleton
  <2> QED BY <2>1
<1>4. k \in S \ {i}
  <2>1. S \ {i} \in SUBSET Nat
    OBVIOUS
  <2> QED BY <1>3, <2>1, ChosenLeast
<1> HIDE DEF k
<1>5. i \in S /\ k \in S /\ k # i
  BY <1>2, <1>4
<1> QED BY <1>5 DEF i, k

Visits == [kind: {"none", "run", "list"}, run: RunNumbers \cup {0}, since: Nat]
Views ==
    [run: RunNumbers \cup {0}, status: Statuses, cursor: Positions, whole: BOOLEAN]

\* What the page has asked for: only the newest call for a projection, if it is
\* under way, is one for the selected run that will be taken.
WellVisits(q) ==
    /\ q.since \in 1..Now
    /\ q.kind = "run" => q.run \in 1..Len(past[q.since])
DeskAsked ==
    /\ \A i \in VisitSlots : WellVisits(visit[i])
    /\ desk.newest # 0 =>
        visit[desk.newest].kind = "run" /\ visit[desk.newest].run = desk.run
    /\ ~desk.open =>
        /\ desk.list = {}
        /\ desk.run = 0
        /\ \A i \in VisitSlots : visit[i].kind = "none"

\* What is on the page is of the selected run.
DeskHolds ==
    /\ desk.run # 0 => desk.run \in Admitted
    /\ desk.run = 0 => desk.changed = {} /\ desk.choices = 0
    /\ desk.list \subseteq Admitted
    /\ desk.view.run \in {0, desk.run}
    /\ desk.view.run = 0 => desk.view = NoView
    /\ feed.run # 0 => feed.run \in Admitted
    /\ \A k \in 1..Len(desk.shown) : desk.shown[k][1] = desk.run
    /\ Once(desk.shown)

\* The selected run is to be read, or it was read at moment m and the subscription
\* has told of no more since.
DeskReadAt(m) ==
    /\ desk.run \in 1..Len(past[m])
    /\ desk.view.run = desk.run
    /\ DeskShown = {<<desk.run, k>> : k \in 1..LengthAt(desk.run, m)}
    /\ desk.view.whole => desk.view.status = past[m][desk.run].status
    /\ desk.view.cursor <= LengthAt(desk.run, m)
    /\ desk.changed = {} => feed.run = desk.run /\ feed.at <= LengthAt(desk.run, m)
DeskFresh == \E m \in 1..Now : DeskReadAt(m)
DeskLooksAgain ==
    (misses = 0 /\ desk.run # 0 /\ "run" \notin desk.changed /\ desk.newest = 0) => DeskFresh

DeskInv == DeskTypeOK /\ DeskAsked /\ DeskHolds /\ DeskLooksAgain

LEMMA DeskType ==
    ASSUME DeskTypeOK
    PROVE  /\ desk \in Desks
           /\ desk.list \in SUBSET RunNumbers
           /\ desk.run \in Nat /\ desk.run \in RunNumbers \cup {0}
           /\ desk.view \in Views /\ desk.view.cursor \in Nat
           /\ desk.shown \in Seq(RunNumbers \X Positions)
           /\ desk.newest \in VisitSlots \cup {0} /\ 0 \notin VisitSlots
           /\ desk.choices \in Nat
           /\ desk.changed \in SUBSET {"run", "view"}
           /\ feed.run \in Nat /\ feed.run \in RunNumbers \cup {0}
           /\ feed.at \in Nat /\ feed.at \in Positions
           /\ visit \in [VisitSlots -> Visits]
           /\ VisitSlots \in SUBSET Nat /\ IsFiniteSet(VisitSlots)
           /\ misses \in Nat
<1>1. RunNumbers \cup {0} \subseteq Nat /\ Positions \subseteq Nat
  BY MaxLogsType
<1>2. MaxVisits \in Nat /\ MaxChoices \in Nat /\ MaxMisses \in Nat
  BY DeskAssumption
<1>3. desk \in Desks
  BY DEF DeskTypeOK
<1>4. /\ desk.list \in SUBSET RunNumbers
      /\ desk.run \in RunNumbers \cup {0}
      /\ desk.view \in Views
      /\ desk.shown \in Seq(RunNumbers \X Positions)
      /\ desk.newest \in VisitSlots \cup {0}
      /\ desk.choices \in 0..MaxChoices
      /\ desk.changed \in SUBSET {"run", "view"}
  BY <1>3 DEF Desks, Views
<1>5. desk.view.cursor \in Nat
  BY <1>1, <1>4 DEF Views
<1>6. VisitSlots \in SUBSET Nat /\ IsFiniteSet(VisitSlots) /\ 0 \notin VisitSlots
  BY <1>2, FS_Interval DEF VisitSlots
<1>7. /\ feed.run \in RunNumbers \cup {0} /\ feed.at \in Positions
      /\ visit \in [VisitSlots -> Visits] /\ misses \in Nat
  BY <1>2 DEF DeskTypeOK, Visits
<1>8. desk.run \in Nat /\ feed.run \in Nat /\ feed.at \in Nat /\ desk.choices \in Nat
  <2>1. \A k \in RunNumbers \cup {0} : k \in Nat
    BY <1>1
  <2>2. \A k \in Positions : k \in Nat
    BY <1>1
  <2>3. desk.choices \in Nat
    BY <1>2, <1>4
  <2> QED BY <1>4, <1>7, <2>1, <2>2, <2>3
<1> QED BY <1>3, <1>4, <1>5, <1>6, <1>7, <1>8

\* A slot gets a call.
Visited(i, q) ==
    /\ visit' \in [VisitSlots -> Visits]
    /\ visit'[i] = q
    /\ \A j \in VisitSlots : j # i => visit'[j] = visit[j]

LEMMA VisitGets ==
    ASSUME DeskTypeOK, NEW i \in VisitSlots, NEW q \in Visits, visit' = [visit EXCEPT ![i] = q]
    PROVE  Visited(i, q)
BY DeskType DEF Visited

LEMMA VisitAsks ==
    ASSUME History, NEW n \in RunNumbers \cup {0}
    PROVE  /\ NoVisit \in Visits /\ NoVisit.kind = "none" /\ WellVisits(NoVisit)
           /\ AskList \in Visits /\ AskList.kind = "list" /\ WellVisits(AskList)
           /\ AskRun(n) \in Visits /\ AskRun(n).kind = "run" /\ AskRun(n).run = n
           /\ n \in Admitted => WellVisits(AskRun(n))
<1>1. Now \in 1..Now /\ 1 \in 1..Now /\ Now \in Nat
  BY AtMoment
<1> QED BY <1>1 DEF NoVisit, AskList, AskRun, Visits, WellVisits, Admitted, runs

LEMMA VisitKept ==
    ASSUME Grows, NEW q, WellVisits(q)
    PROVE  WellVisits(q)'
BY PastReads DEF WellVisits

LEMMA OpenSlot ==
    ASSUME DeskTypeOK, OpenSlots # {}
    PROVE  FirstSlot(OpenSlots) \in VisitSlots /\ visit[FirstSlot(OpenSlots)].kind = "none"
<1>1. OpenSlots \in SUBSET Nat
  BY DeskType DEF OpenSlots
<1>2. FirstSlot(OpenSlots) \in OpenSlots
  BY <1>1, ChosenLeast DEF FirstSlot
<1> QED BY <1>2 DEF OpenSlots

\* The page is as it was when the server has gone on.
LEMMA DeskGoesOn ==
    ASSUME Grows, DeskInv, UNCHANGED <<desk, feed, visit, misses>>
    PROVE  DeskInv'
<1> USE DEF DeskInv
<1>1. DeskTypeOK'
  BY DEF DeskTypeOK, Grows, History, VisitSlots
<1>2. DeskAsked'
  <2>1. ASSUME NEW i \in VisitSlots PROVE WellVisits(visit[i])'
    <3>1. PICK q : q = visit[i]
      OBVIOUS
    <3>2. WellVisits(q)'
      BY <3>1, VisitKept DEF DeskAsked
    <3> QED BY <3>1, <3>2
  <2> QED BY <2>1 DEF DeskAsked, VisitSlots
<1>3. DeskHolds'
  <2>1. \A n \in Admitted : n \in Admitted'
    BY Stays
  <2> QED BY <2>1 DEF DeskHolds, Once
<1>4. DeskLooksAgain'
  <2>1. ASSUME NEW m \in 1..Now, DeskReadAt(m) PROVE m \in 1..Now' /\ DeskReadAt(m)'
    <3>1. /\ m \in 1..Now' /\ past'[m] = past[m]
          /\ LengthAt(desk.run, m)' = LengthAt(desk.run, m)
      BY PastReads
    <3> QED BY <2>1, <3>1 DEF DeskReadAt, DeskShown
  <2> QED BY <2>1 DEF DeskLooksAgain, DeskFresh
<1> QED BY <1>1, <1>2, <1>3, <1>4

\* The page as it was, with another list, and a call that is none for a projection.
LEMMA DeskStays ==
    ASSUME History, DeskInv, UNCHANGED <<past, feed, misses>>,
           desk' \in Desks,
           desk'.run = desk.run, desk'.view = desk.view, desk'.shown = desk.shown,
           desk'.newest = desk.newest, desk'.choices = desk.choices,
           desk'.changed = desk.changed,
           desk'.open, desk'.list \subseteq Admitted,
           NEW i \in VisitSlots, NEW q \in Visits, Visited(i, q), WellVisits(q),
           i # desk.newest
    PROVE  DeskInv'
<1> USE DEF DeskInv
<1>1. Grows /\ Admitted' = Admitted /\ Now' = Now
  BY HistoryStands, SamePast
<1>2. DeskTypeOK'
  BY SamePast DEF DeskTypeOK, Visited, Visits, VisitSlots
<1>3. DeskAsked'
  <2>1. ASSUME NEW j \in VisitSlots PROVE WellVisits(visit[j])'
    <3>1. PICK p : p = visit'[j]
      OBVIOUS
    <3>2. WellVisits(p)
      BY <3>1 DEF Visited, DeskAsked
    <3>3. WellVisits(p)'
      BY <1>1, <3>2, VisitKept
    <3> QED BY <3>1, <3>3
  <2>2. desk.newest # 0 => visit'[desk.newest] = visit[desk.newest]
    BY DeskType DEF Visited
  <2> QED BY <2>1, <2>2 DEF DeskAsked, VisitSlots
<1>4. DeskHolds'
  BY <1>1 DEF DeskHolds, Once
<1>5. DeskLooksAgain'
  <2>1. \A m \in 1..Now : DeskReadAt(m) => DeskReadAt(m)'
    BY SamePast DEF DeskReadAt, DeskShown
  <2> QED BY <1>1, <2>1 DEF DeskLooksAgain, DeskFresh
<1> QED BY <1>2, <1>3, <1>4, <1>5

LEMMA DeskOpens ==
    ASSUME History, DeskInv, OpenDesk
    PROVE  DeskInv'
<1> USE DEF DeskInv
<1>1. /\ UNCHANGED <<past, feed, misses>> /\ ~desk.open /\ desk \in Desks
      /\ desk' = [desk EXCEPT !.open = TRUE]
      /\ visit' = [visit EXCEPT ![FirstSlot(OpenSlots)] = AskList]
  BY DEF OpenDesk, DeskTypeOK
<1>2. /\ desk'.run = desk.run /\ desk'.view = desk.view /\ desk'.shown = desk.shown
      /\ desk'.newest = desk.newest /\ desk'.choices = desk.choices
      /\ desk'.changed = desk.changed /\ desk'.open /\ desk'.list = desk.list /\ desk' \in Desks
  BY <1>1 DEF Desks
<1>3. OpenSlots # {}
  <2>1. 1 \in VisitSlots
    BY DeskAssumption DEF VisitSlots
  <2> QED BY <1>1, <2>1 DEF OpenSlots, DeskAsked
<1> DEFINE s == FirstSlot(OpenSlots)
<1>4. s \in VisitSlots /\ visit[s].kind = "none"
  BY <1>3, OpenSlot
<1>5. s # desk.newest
  BY <1>1, <1>4, DeskType DEF DeskAsked
<1>6. AskList \in Visits /\ WellVisits(AskList)
  BY VisitAsks
<1>7. PICK q \in Visits : q = AskList
  BY <1>6
<1> HIDE DEF s
<1>8. Visited(s, q)
  BY <1>1, <1>4, <1>7, VisitGets DEF s
<1>9. desk.list \subseteq Admitted
  BY DEF DeskHolds
<1> HIDE DEF DeskInv
<1> QED BY <1>1, <1>2, <1>4, <1>5, <1>6, <1>7, <1>8, <1>9, DeskStays

\* Another run is selected: everything of the one before goes, and it is to be
\* asked for.
LEMMA DeskChooses ==
    ASSUME History, DeskInv, UNCHANGED <<past, feed, misses>>,
           NEW list \in SUBSET Admitted, NEW n \in Admitted,
           desk.choices < MaxChoices, desk.open,
           desk' = Selected([desk EXCEPT !.list = list], n),
           visit' \in [VisitSlots -> Visits],
           \A i \in VisitSlots : WellVisits(visit'[i])
    PROVE  DeskInv'
<1> USE DEF DeskInv
<1>1. Grows /\ Admitted' = Admitted /\ Now' = Now
  BY HistoryStands, SamePast
<1>2. n \in RunNumbers /\ n # 0 /\ Admitted \subseteq RunNumbers
  BY AtPresent, MaxLogsType
<1>3. desk \in Desks
  BY DEF DeskTypeOK
<1>4. /\ desk'.open /\ desk'.list = list /\ desk'.run = n /\ desk'.view = NoView
      /\ desk'.shown = <<>> /\ desk'.newest = 0 /\ desk'.choices = desk.choices + 1
      /\ desk'.changed = desk.changed \cup {"run", "view"}
  BY <1>3 DEF Selected, Desks
<1>5. desk' \in Desks
  <2>1. /\ desk.choices \in 0..MaxChoices
        /\ desk.changed \cup {"run", "view"} \in SUBSET {"run", "view"}
    BY <1>3 DEF Desks
  <2>2. desk.choices + 1 \in 0..MaxChoices
    BY <2>1, DeskAssumption
  <2>3. NoView \in Views
    BY MaxLogsType DEF NoView, Views, Statuses
  <2>4. <<>> \in Seq(RunNumbers \X Positions) /\ list \in SUBSET RunNumbers
    BY <1>2
  <2>5. desk' = [desk EXCEPT !.list = list, !.run = n, !.newest = 0, !.view = NoView,
                             !.shown = <<>>, !.choices = desk.choices + 1,
                             !.changed = desk.changed \cup {"run", "view"}]
    BY <1>3 DEF Selected, Desks
  <2> QED BY <1>2, <1>3, <2>1, <2>2, <2>3, <2>4, <2>5 DEF Desks, Views
<1>6. DeskTypeOK'
  BY <1>5, SamePast DEF DeskTypeOK, Visits, VisitSlots
<1>7. DeskAsked'
  <2>1. ASSUME NEW j \in VisitSlots PROVE WellVisits(visit[j])'
    <3>1. PICK p : p = visit'[j]
      OBVIOUS
    <3>2. WellVisits(p)
      BY <3>1
    <3>3. WellVisits(p)'
      BY <1>1, <3>2, VisitKept
    <3> QED BY <3>1, <3>3
  <2> QED BY <1>4, <2>1 DEF DeskAsked, VisitSlots
<1>8. DeskHolds'
  BY <1>1, <1>2, <1>4 DEF DeskHolds, Once, NoView
<1>9. DeskLooksAgain'
  BY <1>4 DEF DeskLooksAgain
<1> QED BY <1>6, <1>7, <1>8, <1>9

LEMMA DeskSelects ==
    ASSUME History, DeskInv, NEW n \in RunNumbers, SelectRun(n)
    PROVE  DeskInv'
<1> USE DEF DeskInv
<1>1. /\ UNCHANGED <<past, feed, visit, misses>> /\ n \in desk.list
      /\ desk.choices < MaxChoices
      /\ desk' = Selected(desk, n)
      /\ desk \in Desks
  BY DEF SelectRun, DeskTypeOK
<1>2. n \in Admitted /\ desk.list \in SUBSET Admitted /\ desk.open
  BY <1>1 DEF DeskHolds, DeskAsked
<1>3. desk = [desk EXCEPT !.list = desk.list]
  BY <1>1 DEF Desks
<1>4. visit' \in [VisitSlots -> Visits] /\ \A i \in VisitSlots : WellVisits(visit'[i])
  BY <1>1, DeskType DEF DeskAsked
<1> HIDE DEF DeskInv
<1>5. PICK list \in SUBSET Admitted : list = desk.list
  BY <1>2
<1> QED BY <1>1, <1>2, <1>3, <1>4, <1>5, DeskChooses

LEMMA DeskTakesList ==
    ASSUME History, DeskInv, NEW i \in VisitSlots, TakeList(i)
    PROVE  DeskInv'
<1> USE DEF DeskInv
<1>1. /\ UNCHANGED <<past, feed, misses>> /\ visit[i].kind = "list"
      /\ visit' = [visit EXCEPT ![i] = NoVisit] /\ desk \in Desks
  BY DEF TakeList, Ended, DeskTypeOK
<1>2. NoVisit \in Visits /\ WellVisits(NoVisit)
  BY VisitAsks, MaxLogsType
<1>3. PICK q \in Visits : q = NoVisit
  BY <1>2
<1>4. Visited(i, q) /\ WellVisits(q)
  BY <1>1, <1>2, <1>3, VisitGets
<1>5. PICK m \in visit[i].since..Now :
        LET listed == [desk EXCEPT !.list = 1..Len(past[m])] IN
        IF desk.run # 0 \/ past[m] = <<>>
        THEN desk' = listed
        ELSE \E n \in 1..Len(past[m]) : desk' = Selected(listed, n)
  BY DEF TakeList
<1> DEFINE list == 1..Len(past[m])
<1>6. list \in SUBSET Admitted
  <2>1. m \in 1..Now /\ Now \in 1..Now /\ m <= Now
    <3>1. visit[i].since \in 1..Now
      BY DEF DeskAsked, WellVisits
    <3> QED BY <3>1, AtMoment
  <2>2. \A n \in list : n \in Admitted
    BY <2>1, SincePast DEF Admitted, runs
  <2> QED BY <2>2
<1>7. desk.open
  BY <1>1 DEF DeskAsked
<1> HIDE DEF list
<1>8. CASE desk' = [desk EXCEPT !.list = list]
  <2>1. list \in SUBSET RunNumbers
    BY <1>6, AtPresent
  <2>2. /\ desk'.run = desk.run /\ desk'.view = desk.view /\ desk'.shown = desk.shown
        /\ desk'.newest = desk.newest /\ desk'.choices = desk.choices
        /\ desk'.changed = desk.changed /\ desk'.open /\ desk'.list = list /\ desk' \in Desks
    BY <1>1, <1>7, <1>8, <2>1 DEF Desks
  <2>3. i # desk.newest
    BY <1>1, DeskType DEF DeskAsked
  <2> HIDE DEF DeskInv
  <2> QED BY <1>1, <1>4, <1>6, <2>2, <2>3, DeskStays
<1>9. CASE /\ desk.run = 0
           /\ \E n \in list : desk' = Selected([desk EXCEPT !.list = list], n)
  <2>1. PICK n \in list : desk' = Selected([desk EXCEPT !.list = list], n)
    BY <1>9
  <2>2. n \in Admitted
    BY <1>6
  <2>3. desk.choices < MaxChoices
    BY <1>9, DeskAssumption DEF DeskHolds
  <2>4. visit' \in [VisitSlots -> Visits] /\ \A j \in VisitSlots : WellVisits(visit'[j])
    BY <1>4 DEF Visited, DeskAsked
  <2>5. PICK l \in SUBSET Admitted : l = list
    BY <1>6
  <2> HIDE DEF DeskInv
  <2> QED BY <1>1, <1>7, <2>1, <2>2, <2>3, <2>4, <2>5, DeskChooses
<1> QED BY <1>5, <1>8, <1>9 DEF list

LEMMA DeskTakesRun ==
    ASSUME History, DeskInv, NEW i \in VisitSlots, TakeRun(i)
    PROVE  DeskInv'
<1> USE DEF DeskInv
<1>1. /\ UNCHANGED <<past, feed, misses>> /\ visit[i].kind = "run" /\ desk.open
      /\ visit' = [visit EXCEPT ![i] = NoVisit] /\ desk \in Desks
      /\ Grows /\ Admitted' = Admitted /\ Now' = Now
  BY HistoryStands, SamePast DEF TakeRun, Ended, DeskTypeOK, DeskAsked
<1>2. NoVisit \in Visits /\ WellVisits(NoVisit)
  BY VisitAsks, MaxLogsType
<1>3. PICK q \in Visits : q = NoVisit
  BY <1>2
<1>4. Visited(i, q) /\ WellVisits(q)
  BY <1>1, <1>2, <1>3, VisitGets
<1>5. CASE ~(desk.run = visit[i].run /\ desk.newest = i)
  <2>1. UNCHANGED desk /\ i # desk.newest /\ desk.list \subseteq Admitted
    BY <1>5, DeskType DEF TakeRun, DeskAsked, DeskHolds
  <2> HIDE DEF DeskInv
  <2> QED BY <1>1, <1>4, <2>1, DeskStays
<1>6. CASE desk.run = visit[i].run /\ desk.newest = i
  <2> DEFINE n == visit[i].run
  <2>1. PICK at \in SnapshotMoments(n, visit[i].since) :
            desk' = [desk EXCEPT
                !.view = [run |-> n, status |-> past[at[1]][n].status,
                          cursor |-> LengthAt(n, at[2]), whole |-> at[1] = at[3]],
                !.shown = EventsAt(EventTypes, n, at[3]),
                !.newest = 0, !.changed = {"view"}]
    BY <1>6 DEF TakeRun
  <2> DEFINE view == [run |-> n, status |-> past[at[1]][n].status,
                      cursor |-> LengthAt(n, at[2]), whole |-> at[1] = at[3]]
  <2>2. /\ at[1] \in 1..Now /\ at[2] \in 1..Now /\ at[3] \in 1..Now /\ at[2] <= at[3]
        /\ n \in 1..Len(past[at[1]]) /\ n \in 1..Len(past[at[2]]) /\ n \in 1..Len(past[at[3]])
        /\ n \in Admitted
    <3> DEFINE since == visit[i].since
    <3>1. since \in 1..Now /\ n \in 1..Len(past[since]) /\ Now \in Nat
      BY <1>1, <1>6, AtMoment DEF DeskAsked, WellVisits
    <3> HIDE DEF since
    <3>2. \A k \in since..Now : k \in 1..Now /\ n \in 1..Len(past[k])
      <4> TAKE k \in since..Now
      <4>1. k \in 1..Now /\ since <= k
        BY <3>1
      <4> QED BY <3>1, <4>1, SincePast
    <3>3. Now \in since..Now
      BY <3>1
    <3>4. /\ at[1] \in since..Now /\ at[2] \in since..Now /\ at[3] \in since..Now
          /\ at[2] <= at[3]
      BY <2>1, MomentsOrdered DEF since
    <3> QED BY <3>2, <3>3, <3>4 DEF Admitted, runs
  <2>3. n \in RunNumbers /\ n # 0
    BY <2>2, AtPresent, MaxLogsType
  <2>4. view \in Views
    <3>1. past[at[1]][n].status \in Statuses /\ LengthAt(n, at[2]) \in Positions
      BY <2>2, <2>3, AtMoment DEF RunRecords
    <3> QED BY <2>3, <3>1 DEF Views
  <2>5. /\ view.run = n /\ view.status = past[at[1]][n].status
        /\ view.cursor = LengthAt(n, at[2]) /\ view.whole = (at[1] = at[3])
    OBVIOUS
  <2> HIDE DEF view
  <2> DEFINE s == EventsAt(EventTypes, n, at[3])
  <2>6. /\ s \in Seq(RunNumbers \X Positions)
        /\ {s[k] : k \in 1..Len(s)} = {<<n, k>> : k \in ShownAt(EventTypes, n, at[3])}
        /\ Once(s)
    BY <2>2, EventsRead
  <2> HIDE DEF s
  <2>7. ShownAt(EventTypes, n, at[3]) = 1..LengthAt(n, at[3])
    <3>1. past[at[3]][n].log \in Seq(EventTypes)
      BY <2>2, <2>3, AtMoment
    <3> QED BY <3>1 DEF ShownAt, LengthAt
  <2>8. desk' = [desk EXCEPT !.view = view, !.shown = s, !.newest = 0, !.changed = {"view"}]
    BY <2>1 DEF view, s
  <2>9. /\ desk'.run = n /\ desk'.view = view /\ desk'.shown = s
        /\ desk'.newest = 0 /\ desk'.choices = desk.choices
        /\ desk'.changed = {"view"} /\ desk'.open /\ desk'.list = desk.list /\ desk' \in Desks
    BY <1>1, <1>6, <2>4, <2>6, <2>8 DEF Desks, Views
  <2>10. DeskTypeOK'
    BY <1>1, <1>4, <2>9, SamePast DEF DeskTypeOK, Visited, Visits, VisitSlots
  <2>11. DeskAsked'
    <3>1. ASSUME NEW j \in VisitSlots PROVE WellVisits(visit[j])'
      <4>1. PICK p : p = visit'[j]
        OBVIOUS
      <4>2. WellVisits(p)
        BY <1>4, <4>1 DEF Visited, DeskAsked
      <4>3. WellVisits(p)'
        BY <1>1, <4>2, VisitKept
      <4> QED BY <4>1, <4>3
    <3> QED BY <2>9, <3>1 DEF DeskAsked, VisitSlots
  <2>12. DeskHolds'
    <3>1. ASSUME NEW k \in 1..Len(s) PROVE s[k][1] = n
      <4>1. s[k] \in {<<n, j>> : j \in ShownAt(EventTypes, n, at[3])}
        BY <2>6
      <4> QED BY <4>1
    <3>2. Once(desk.shown)'
      BY <2>6, <2>9 DEF Once
    <3> QED BY <1>1, <2>2, <2>3, <2>5, <2>9, <3>1, <3>2 DEF DeskHolds
  <2>13. DeskReadAt(at[3])'
    <3>1. DeskShown' = {<<n, k>> : k \in 1..LengthAt(n, at[3])}
      BY <2>6, <2>7, <2>9 DEF DeskShown
    <3>2. view.whole => view.status = past[at[3]][n].status
      BY <2>5
    <3>3. view.cursor <= LengthAt(n, at[3])
      <4>1. Follows(past[at[2]][n], past[at[3]][n])
        BY <2>2, SincePast
      <4> QED BY <2>5, <4>1 DEF Follows, LengthAt
    <3> QED BY <1>1, <2>2, <2>5, <2>9, <3>1, <3>2, <3>3, SamePast DEF DeskReadAt
  <2>14. DeskLooksAgain'
    BY <1>1, <2>2, <2>13 DEF DeskLooksAgain, DeskFresh
  <2> QED BY <2>10, <2>11, <2>12, <2>14
<1> QED BY <1>5, <1>6

LEMMA DeskMisses ==
    ASSUME History, DeskInv, NEW i \in VisitSlots, Miss(i)
    PROVE  DeskInv'
<1> USE DEF DeskInv
<1>1. /\ UNCHANGED <<past, feed>> /\ visit[i].kind # "none" /\ desk \in Desks
      /\ misses' = misses + 1 /\ misses < MaxMisses
      /\ visit' = [visit EXCEPT ![i] = NoVisit]
      /\ desk' = [desk EXCEPT !.newest = IF desk.newest = i THEN 0 ELSE desk.newest]
      /\ Grows /\ Admitted' = Admitted /\ Now' = Now
  BY HistoryStands, SamePast DEF Miss, Ended, DeskTypeOK
<1>2. NoVisit \in Visits /\ WellVisits(NoVisit)
  BY VisitAsks, MaxLogsType
<1>3. PICK q \in Visits : q = NoVisit
  BY <1>2
<1>4. Visited(i, q) /\ WellVisits(q)
  BY <1>1, <1>2, <1>3, VisitGets
<1>5. /\ desk'.run = desk.run /\ desk'.view = desk.view /\ desk'.shown = desk.shown
      /\ desk'.newest \in {0, desk.newest} /\ (desk.newest = i => desk'.newest = 0)
      /\ desk'.choices = desk.choices /\ desk'.open = desk.open
      /\ desk'.changed = desk.changed /\ desk'.list = desk.list /\ desk' \in Desks
  BY <1>1 DEF Desks
<1>6. DeskTypeOK'
  <2>1. misses' \in 0..MaxMisses
    BY <1>1, DeskAssumption DEF DeskTypeOK
  <2> QED BY <1>1, <1>4, <1>5, <2>1, SamePast DEF DeskTypeOK, Visited, Visits, VisitSlots
<1>7. DeskAsked'
  <2>1. ASSUME NEW j \in VisitSlots PROVE WellVisits(visit[j])'
    <3>1. PICK p : p = visit'[j]
      OBVIOUS
    <3>2. WellVisits(p)
      BY <1>4, <3>1 DEF Visited, DeskAsked
    <3>3. WellVisits(p)'
      BY <1>1, <3>2, VisitKept
    <3> QED BY <3>1, <3>3
  <2>2. desk'.newest # 0 => desk'.newest = desk.newest /\ visit'[desk.newest] = visit[desk.newest]
    BY <1>4, <1>5, DeskType DEF Visited
  <2>3. desk.open
    BY <1>1 DEF DeskAsked
  <2> QED BY <1>5, <2>1, <2>2, <2>3 DEF DeskAsked, VisitSlots
<1>8. DeskHolds'
  BY <1>1, <1>5 DEF DeskHolds, Once
<1>9. DeskLooksAgain'
  BY <1>1, DeskType DEF DeskLooksAgain
<1> QED BY <1>6, <1>7, <1>8, <1>9

\* Every call is still well made when some are.
LEMMA VisitsKept ==
    ASSUME Grows, NEW V \in [VisitSlots -> Visits], visit' = V,
           \A i \in VisitSlots : WellVisits(V[i])
    PROVE  \A i \in VisitSlots : WellVisits(visit[i])'
<1> SUFFICES ASSUME NEW j \in VisitSlots PROVE WellVisits(visit[j])'
  BY DEF VisitSlots
<1>1. PICK p : p = visit'[j]
  OBVIOUS
<1>2. WellVisits(p)'
  BY <1>1, VisitKept
<1> QED BY <1>1, <1>2

LEMMA DeskRenders ==
    ASSUME History, DeskInv, Render
    PROVE  DeskInv'
<1> USE DEF DeskInv
<1> DEFINE s == FirstSlot(OpenSlots)
<1>1. /\ UNCHANGED <<past, misses>> /\ desk.changed # {} /\ desk \in Desks
      /\ feed' = IF desk.run = 0 \/ desk.view = NoView THEN NoFeed
                 ELSE [run |-> desk.run, at |-> desk.view.cursor]
      /\ Grows /\ Admitted' = Admitted /\ Now' = Now
  BY HistoryStands, SamePast DEF Render, DeskTypeOK
<1>2. /\ desk.run # 0 /\ desk.run \in Admitted /\ desk.run \in RunNumbers /\ desk.open
  BY <1>1, AtPresent DEF DeskHolds, DeskAsked
<1>3. /\ feed' \in [run: RunNumbers \cup {0}, at: Positions]
      /\ feed'.run \in {0, desk.run}
      /\ desk.view.run # 0 => feed'.run = desk.run /\ feed'.at = desk.view.cursor
  <2>1. CASE desk.view = NoView
    BY <1>1, <2>1, MaxLogsType DEF NoView, NoFeed
  <2>2. CASE desk.view # NoView
    BY <1>1, <1>2, <2>2, DeskType DEF Views
  <2> QED BY <2>1, <2>2
<1>4. CASE "run" \in desk.changed
  <2>1. s \in VisitSlots /\ visit[s].kind = "none"
    BY <1>4, OpenSlot DEF Render
  <2>2. AskRun(desk.run) \in Visits /\ AskRun(desk.run).kind = "run"
        /\ AskRun(desk.run).run = desk.run /\ WellVisits(AskRun(desk.run))
    <3>1. PICK n \in RunNumbers : n = desk.run
      BY <1>2
    <3> QED BY <1>2, <3>1, VisitAsks
  <2>3. PICK q \in Visits : q = AskRun(desk.run)
    BY <2>2
  <2>4. /\ visit' = [visit EXCEPT ![s] = q]
        /\ desk' = [desk EXCEPT !.changed = {}, !.newest = s]
    BY <1>4, <2>3 DEF Render
  <2> HIDE DEF s
  <2>5. Visited(s, q)
    BY <2>1, <2>4, VisitGets
  <2>6. /\ desk'.run = desk.run /\ desk'.view = desk.view /\ desk'.shown = desk.shown
        /\ desk'.newest = s /\ desk'.choices = desk.choices /\ desk'.open = desk.open
        /\ desk'.changed = {} /\ desk'.list = desk.list /\ desk' \in Desks
    BY <1>1, <2>1, <2>4 DEF Desks
  <2>7. DeskTypeOK'
    BY <1>1, <1>3, <2>5, <2>6, SamePast DEF DeskTypeOK, Visited, Visits, VisitSlots
  <2>8. DeskAsked'
    <3>1. PICK V \in [VisitSlots -> Visits] : V = visit'
      BY <2>5 DEF Visited
    <3>2. \A i \in VisitSlots : WellVisits(V[i])
      BY <2>2, <2>3, <2>5, <3>1 DEF Visited, DeskAsked
    <3>3. \A i \in VisitSlots : WellVisits(visit[i])'
      BY <1>1, <3>1, <3>2, VisitsKept
    <3> QED BY <1>2, <2>2, <2>3, <2>5, <2>6, <3>3 DEF DeskAsked, Visited, VisitSlots
  <2>9. DeskHolds'
    BY <1>1, <1>2, <1>3, <2>6 DEF DeskHolds, Once
  <2>10. DeskLooksAgain'
    BY <2>1, <2>6, DeskType DEF DeskLooksAgain
  <2> QED BY <2>7, <2>8, <2>9, <2>10
<1>5. CASE "run" \notin desk.changed
  <2>1. UNCHANGED visit /\ desk' = [desk EXCEPT !.changed = {}]
    BY <1>5 DEF Render
  <2>2. /\ desk'.run = desk.run /\ desk'.view = desk.view /\ desk'.shown = desk.shown
        /\ desk'.newest = desk.newest /\ desk'.choices = desk.choices /\ desk'.open = desk.open
        /\ desk'.changed = {} /\ desk'.list = desk.list /\ desk' \in Desks
    BY <1>1, <2>1 DEF Desks
  <2>3. DeskTypeOK'
    BY <1>1, <1>3, <2>1, <2>2, SamePast DEF DeskTypeOK, VisitSlots
  <2>4. DeskAsked'
    <3>1. PICK V \in [VisitSlots -> Visits] : V = visit'
      BY <2>1, DeskType
    <3>2. \A i \in VisitSlots : WellVisits(visit[i])'
      BY <1>1, <2>1, <3>1, VisitsKept DEF DeskAsked
    <3> QED BY <1>2, <2>1, <2>2, <3>2 DEF DeskAsked, VisitSlots
  <2>5. DeskHolds'
    BY <1>1, <1>2, <1>3, <2>2 DEF DeskHolds, Once
  <2>6. DeskLooksAgain'
    <3> SUFFICES ASSUME misses = 0, desk.newest = 0 PROVE DeskFresh'
      BY <1>1, <2>2 DEF DeskLooksAgain
    <3>1. PICK m \in 1..Now : DeskReadAt(m)
      BY <1>2, <1>5 DEF DeskLooksAgain, DeskFresh
    <3>2. DeskReadAt(m)'
      <4>1. DeskShown' = DeskShown
        BY <2>2 DEF DeskShown
      <4> QED BY <1>1, <1>2, <1>3, <2>2, <3>1, <4>1, SamePast DEF DeskReadAt
    <3> QED BY <1>1, <3>2 DEF DeskFresh
  <2> QED BY <2>3, <2>4, <2>5, <2>6
<1> QED BY <1>4, <1>5

LEMMA DeskHears ==
    ASSUME History, DeskInv, FeedArrives
    PROVE  DeskInv'
<1> USE DEF DeskInv
<1> DEFINE n == feed.run
           next == NextShown(EventTypes, n, feed.at)
           event == <<n, next>>
<1>1. /\ UNCHANGED <<past, misses>> /\ n # 0 /\ next # 0 /\ desk \in Desks
      /\ feed' = [feed EXCEPT !.at = next]
      /\ feed.at \in Nat
      /\ Grows /\ Admitted' = Admitted /\ Now' = Now
  BY HistoryStands, SamePast, DeskType DEF FeedArrives, DeskTypeOK
<1>2. n \in Admitted /\ n \in RunNumbers
  BY <1>1, AtPresent DEF DeskHolds
<1>3. next \in Positions /\ next \in ShownTo(EventTypes, n)
  BY <1>1, <1>2, NextOne
<1> HIDE DEF next
<1>4. feed'.run = n /\ feed'.at = next /\ feed' \in [run: RunNumbers \cup {0}, at: Positions]
  BY <1>1, <1>3 DEF DeskTypeOK
<1>5. CASE ~(desk.run = n /\ \A k \in 1..Len(desk.shown) : desk.shown[k] # event)
  <2>1. UNCHANGED <<desk, visit>>
    BY <1>5 DEF FeedArrives, next
  <2>2. DeskTypeOK'
    BY <1>1, <1>4, <2>1, SamePast DEF DeskTypeOK, VisitSlots
  <2>3. DeskAsked'
    <3>1. PICK V \in [VisitSlots -> Visits] : V = visit'
      BY <2>1, DeskType
    <3>2. \A i \in VisitSlots : WellVisits(visit[i])'
      BY <1>1, <2>1, <3>1, VisitsKept DEF DeskAsked
    <3> QED BY <2>1, <3>2 DEF DeskAsked, VisitSlots
  <2>4. DeskHolds'
    BY <1>1, <1>2, <1>4, <2>1 DEF DeskHolds, Once
  <2>5. DeskLooksAgain'
    <3>1. ASSUME NEW m \in 1..Now, DeskReadAt(m) PROVE DeskReadAt(m)'
      <4>1. DeskShown' = DeskShown
        BY <2>1 DEF DeskShown
      <4>2. ASSUME desk.changed = {} PROVE feed'.run = desk.run /\ feed'.at <= LengthAt(desk.run, m)
        <5>1. desk.run = n
          BY <3>1, <4>2 DEF DeskReadAt
        <5>2. event \in DeskShown
          BY <1>5, <5>1 DEF DeskShown
        <5>3. next \in 1..LengthAt(desk.run, m)
          BY <3>1, <5>1, <5>2 DEF DeskReadAt
        <5> QED BY <1>4, <5>1, <5>3
      <4> QED BY <1>1, <2>1, <3>1, <4>1, <4>2, SamePast DEF DeskReadAt
    <3> QED BY <1>1, <2>1, <3>1 DEF DeskLooksAgain, DeskFresh
  <2> QED BY <2>2, <2>3, <2>4, <2>5
<1>6. CASE desk.run = n /\ \A k \in 1..Len(desk.shown) : desk.shown[k] # event
  <2> DEFINE first == FirstSlot(OpenSlots)
             second == FirstSlot(OpenSlots \ {first})
  <2>1. /\ Cardinality(OpenSlots) >= 2
        /\ desk' = [desk EXCEPT !.shown = Append(desk.shown, event), !.newest = first]
        /\ visit' = [visit EXCEPT ![first] = AskRun(n), ![second] = AskList]
    BY <1>6 DEF FeedArrives, next
  <2>2. /\ first \in VisitSlots /\ second \in VisitSlots /\ first # second
        /\ visit[first].kind = "none"
    <3>1. OpenSlots \in SUBSET Nat /\ OpenSlots \subseteq VisitSlots /\ IsFiniteSet(OpenSlots)
      BY DeskType, FS_Subset DEF OpenSlots
    <3>2. first \in OpenSlots /\ second \in OpenSlots /\ second # first
      BY <2>1, <3>1, TwoSlots DEF FirstSlot
    <3> HIDE DEF first, second
    <3> QED BY <3>1, <3>2 DEF OpenSlots
  <2> HIDE DEF first, second
  <2>3. /\ AskRun(n) \in Visits /\ AskRun(n).kind = "run" /\ AskRun(n).run = n
        /\ WellVisits(AskRun(n)) /\ AskList \in Visits /\ WellVisits(AskList)
    <3>1. PICK l \in RunNumbers : l = n
      BY <1>2
    <3> QED BY <1>2, <3>1, VisitAsks
  <2>4. /\ visit' \in [VisitSlots -> Visits]
        /\ visit'[first] = AskRun(n)
        /\ \A i \in VisitSlots : WellVisits(visit'[i])
    BY <2>1, <2>2, <2>3, DeskType DEF DeskAsked
  <2>5. desk.shown \in Seq(RunNumbers \X Positions) /\ event \in RunNumbers \X Positions
    BY <1>2, <1>3, DeskType
  <2>6. /\ desk'.run = desk.run /\ desk'.view = desk.view
        /\ desk'.shown = Append(desk.shown, event)
        /\ desk'.newest = first /\ desk'.choices = desk.choices /\ desk'.open = desk.open
        /\ desk'.changed = desk.changed /\ desk'.list = desk.list
    BY <1>1, <2>1 DEF Desks
  <2> HIDE DEF event
  <2>7. /\ desk'.shown \in Seq(RunNumbers \X Positions)
        /\ Len(desk.shown) \in Nat /\ Len(desk'.shown) = Len(desk.shown) + 1
        /\ desk'.shown[Len(desk.shown) + 1] = event
        /\ \A k \in 1..Len(desk.shown) : desk'.shown[k] = desk.shown[k]
    BY <2>5, <2>6
  <2>8. desk' \in Desks
    BY <1>1, <2>1, <2>2, <2>6, <2>7 DEF Desks
  <2>9. DeskTypeOK'
    BY <1>1, <1>4, <2>4, <2>8, SamePast DEF DeskTypeOK, Visits, VisitSlots
  <2>10. DeskAsked'
    <3>1. PICK V \in [VisitSlots -> Visits] : V = visit'
      BY <2>4
    <3>2. \A i \in VisitSlots : WellVisits(visit[i])'
      BY <1>1, <2>4, <3>1, VisitsKept
    <3>3. desk.open
      BY <1>1, <1>6 DEF DeskAsked
    <3> QED BY <1>6, <2>3, <2>4, <2>6, <3>2, <3>3 DEF DeskAsked, VisitSlots
  <2>11. DeskHolds'
    <3>1. \A k \in 1..Len(desk'.shown) : k \in 1..Len(desk.shown) \/ k = Len(desk.shown) + 1
      BY <2>7
    <3>2. \A k \in 1..Len(desk'.shown) : desk'.shown[k][1] = desk.run
      <4>1. event[1] = n
        BY DEF event
      <4> QED BY <1>6, <2>7, <3>1, <4>1 DEF DeskHolds
    <3>3. Once(desk.shown)'
      <4>1. ASSUME NEW k \in 1..Len(desk'.shown), NEW l \in 1..Len(desk'.shown),
                   desk'.shown[k] = desk'.shown[l]
            PROVE  k = l
        <5>1. CASE k \in 1..Len(desk.shown) /\ l \in 1..Len(desk.shown)
          BY <2>7, <4>1, <5>1 DEF DeskHolds, Once
        <5>2. CASE k = Len(desk.shown) + 1 \/ l = Len(desk.shown) + 1
          BY <1>6, <2>7, <3>1, <4>1, <5>2
        <5> QED BY <3>1, <5>1, <5>2
      <4> QED BY <4>1 DEF Once
    <3> QED BY <1>1, <1>2, <1>4, <2>6, <3>2, <3>3 DEF DeskHolds
  <2>12. DeskLooksAgain'
    BY <2>2, <2>6, DeskType DEF DeskLooksAgain
  <2> QED BY <2>9, <2>10, <2>11, <2>12
<1> QED BY <1>5, <1>6

LEMMA DeskSteps ==
    ASSUME History, DeskInv, DeskNext
    PROVE  Grows /\ DeskInv'
<1>1. CASE OpenDesk
  BY <1>1, HistoryStands, DeskOpens DEF OpenDesk
<1>2. CASE Render
  BY <1>2, HistoryStands, DeskRenders DEF Render
<1>3. CASE FeedArrives
  BY <1>3, HistoryStands, DeskHears DEF FeedArrives
<1>4. CASE ServerActs
  <2>1. Grows
    BY <1>4, AdmitGrows, RuntimeGrows DEF ServerActs
  <2> QED BY <1>4, <2>1, DeskGoesOn DEF ServerActs
<1>5. ASSUME NEW n \in RunNumbers, SelectRun(n) PROVE Grows /\ DeskInv'
  BY <1>5, HistoryStands, DeskSelects DEF SelectRun
<1>6. ASSUME NEW i \in VisitSlots, TakeList(i) PROVE Grows /\ DeskInv'
  BY <1>6, HistoryStands, DeskTakesList DEF TakeList
<1>7. ASSUME NEW i \in VisitSlots, TakeRun(i) PROVE Grows /\ DeskInv'
  BY <1>7, HistoryStands, DeskTakesRun DEF TakeRun
<1>8. ASSUME NEW i \in VisitSlots, Miss(i) PROVE Grows /\ DeskInv'
  BY <1>8, HistoryStands, DeskMisses DEF Miss
<1> QED BY <1>1, <1>2, <1>3, <1>4, <1>5, <1>6, <1>7, <1>8 DEF DeskNext

LEMMA DeskStarts == DeskInit => DeskInv
<1> SUFFICES ASSUME DeskInit PROVE DeskInv
  OBVIOUS
<1>1. History /\ Now \in Nat \ {0} /\ 1 \in 1..Now
  BY PastStarts, AtMoment DEF DeskInit
<1>2. /\ desk = [open |-> FALSE, list |-> {}, run |-> 0, view |-> NoView, shown |-> <<>>,
                 newest |-> 0, choices |-> 0, changed |-> {}]
      /\ feed = NoFeed
      /\ visit = [i \in VisitSlots |-> NoVisit]
      /\ misses = 0
  BY DEF DeskInit
<1>3. 0 \in Positions /\ NoView \in Views
  BY MaxLogsType DEF NoView, Views, Statuses
<1>4. DeskTypeOK
  <2>1. <<>> \in Seq(RunNumbers \X Positions) /\ 0 \in 0..MaxChoices /\ 0 \in 0..MaxMisses
    BY DeskAssumption
  <2>2. desk \in Desks
    BY <1>2, <1>3, <2>1 DEF Desks, Views
  <2>3. feed \in [run: RunNumbers \cup {0}, at: Positions]
    BY <1>2, <1>3 DEF NoFeed
  <2>4. visit \in [VisitSlots -> Visits]
    BY <1>2 DEF NoVisit, Visits
  <2> QED BY <1>1, <1>2, <2>1, <2>2, <2>3, <2>4 DEF DeskTypeOK, History, Visits
<1>5. DeskAsked
  BY <1>1, <1>2 DEF DeskAsked, WellVisits, NoVisit
<1>6. DeskHolds
  BY <1>2 DEF DeskHolds, NoView, NoFeed, Once
<1>7. DeskLooksAgain
  BY <1>2 DEF DeskLooksAgain
<1> QED BY <1>4, <1>5, <1>6, <1>7 DEF DeskInv

\* What the invariant says of the screen, and of a page at rest.
LEMMA DeskCurrent == History /\ DeskInv => DeskShowsItsRun
<1> SUFFICES ASSUME History, DeskInv PROVE DeskShowsItsRun
  OBVIOUS
<1> USE DEF DeskInv
<1>1. DeskBelongs
  <2>1. Cardinality(DeskShown) = Len(desk.shown)
    BY DeskType, OnceCounted DEF DeskHolds, DeskShown
  <2>2. \A e \in DeskShown : e[1] = desk.run
    BY DEF DeskHolds, DeskShown
  <2> QED BY <2>1, <2>2 DEF DeskBelongs, DeskHolds
<1>2. ASSUME DeskAtRest, desk.run # 0 PROVE DeskIsCurrent
  <2> DEFINE n == desk.run
  <2>1. desk.newest = 0
    BY <1>2, DeskType DEF DeskAtRest, OpenSlots, DeskAsked
  <2>2. PICK m \in 1..Now : DeskReadAt(m)
    BY <1>2, <2>1 DEF DeskAtRest, DeskLooksAgain, DeskFresh
  <2>3. /\ n \in 1..Len(past[m]) /\ Now \in 1..Now /\ m <= Now
        /\ feed.run = n /\ feed.at <= LengthAt(n, m) /\ feed.at \in Nat
    BY <1>2, <2>2, AtMoment, DeskType DEF DeskReadAt, DeskAtRest
  <2>4. n \in Admitted /\ Follows(past[m][n], runs[n]) /\ n \in RunNumbers
    BY <2>3, SincePast, AtPresent DEF Admitted, runs
  <2>5. LengthAt(n, m) \in Nat /\ LogLength(n) \in Nat /\ LengthAt(n, m) <= LogLength(n)
    BY <2>3, <2>4, AtMoment, AtPresent, MaxLogsType DEF Follows, LengthAt, LogLength
  <2>6. \A i \in ShownTo(EventTypes, n) : i <= feed.at
    <3>1. NextShown(EventTypes, n, feed.at) = 0
      BY <1>2, <2>3 DEF DeskAtRest
    <3> QED BY <2>3, <2>4, <3>1, NextOne
  <2>7. ShownTo(EventTypes, n) = 1..LogLength(n)
    <3>1. runs[n].log \in Seq(EventTypes)
      BY <2>4, AtPresent
    <3> QED BY <3>1 DEF ShownTo, LogLength
  <2>8. LengthAt(n, m) = LogLength(n)
    <3>1. CASE LogLength(n) = 0
      BY <2>5, <3>1
    <3>2. CASE LogLength(n) # 0
      <4>1. LogLength(n) <= feed.at
        BY <2>5, <2>6, <2>7, <3>2
      <4> QED BY <2>3, <2>5, <4>1
    <3> QED BY <3>1, <3>2
  <2>9. past[m][n].status = runs[n].status
    <3>1. LengthAt(n, m) + 1..LogLength(n) = {}
      BY <2>5, <2>8
    <3> QED BY <2>4, <3>1 DEF Follows, LengthAt, LogLength
  <2> QED BY <2>2, <2>8, <2>9 DEF DeskReadAt, DeskIsCurrent
<1> QED BY <1>1, <1>2 DEF DeskShowsItsRun

-----------------------------------------------------------------------------
(* The admin's approvals page.                                             *)

\* What a call may hold.
WellCalled(q) ==
    /\ q.since \in 1..Now
    /\ q.version <= panel.version
    /\ q.starts => q.kind \in {"approvals", "runs"} /\ panel.starting > 0
    /\ q.finishes => q.kind = "approvals" /\ panel.starting = 0
    /\ q.kind = "decide" => panel.initialized /\ q.run \in Admitted
CallsFit == \A i \in CallSlots : WellCalled(call[i])

\* The first calls are under way as long as they count, unless one failed; and so
\* is the decision that a card is disabled for.
StartsFit ==
    /\ \A i, j, k \in CallSlots :
        call[i].starts /\ call[j].starts /\ call[k].starts => i = j \/ j = k \/ i = k
    /\ panel.starting = 1 =>
        \A i, j \in CallSlots : call[i].starts /\ call[j].starts => i = j
    /\ (broken = 0 /\ panel.starting = 1) => \E i \in CallSlots : call[i].starts
    /\ (broken = 0 /\ panel.starting = 2) =>
        \E i, j \in CallSlots : i # j /\ call[i].starts /\ call[j].starts
    /\ (broken = 0 /\ panel.deciding # 0) =>
        \E i \in CallSlots : call[i].kind = "decide" /\ call[i].run = panel.deciding

PanelFits ==
    /\ ~panel.open =>
        /\ panel.starting = 0 /\ ~panel.initialized /\ panel.deciding = 0
        /\ \A i \in CallSlots : call[i].kind = "idle"
        /\ \A n \in Runs : ~watch[n].on
    /\ panel.initialized => panel.starting = 0
    /\ \A n \in Runs : panel.cards[n] \in Decisions => panel.initialized
    /\ \A n \in Runs : panel.cards[n] # "absent" => n \in Admitted /\ runs[n].approval # "none"

\* The latest fetch of approvals is the one whose answer will be taken.
IsLatest(i) == call[i].kind = "approvals" /\ call[i].version = panel.version
IsDecided(n) == panel.cards[n] \in Decisions
WasDecided(i) == call[i].kind = "decide" /\ call[i].outcome = "done"

\* An approval is decided by one call at most, and before its card shows it; of the
\* decisions that it does not know of, the latest fetch was made in their midst.
DecidedOnce ==
    /\ \A i \in CallSlots : WasDecided(i) => runs[call[i].run].approval \notin {"none", "pending"}
    /\ \A i, j \in CallSlots :
        WasDecided(i) /\ WasDecided(j) /\ call[i].run = call[j].run => i = j
    /\ \A n \in Runs : IsDecided(n) =>
        /\ runs[n].approval \notin {"none", "pending"}
        /\ \A i \in CallSlots : WasDecided(i) => call[i].run # n
    /\ \A i \in CallSlots : IsLatest(i) =>
        /\ \A j \in CallSlots : call[j].kind = "decide" => call[j].run \in call[i].amid
        /\ \A n \in Runs : IsDecided(n) =>
            n \in call[i].amid \/ \A m \in call[i].since..Now : n \notin PendingAt(m)

\* The subscriptions, and what they have told of.
Watched ==
    \A n \in Runs :
        /\ watch[n].first => watch[n].on
        /\ watch[n].on => n \in Admitted /\ watch[n].at <= LogLength(n)
Untold(n) == \E i \in ShownTo(ApprovalEvents, n) : i > watch[n].at

\* Of the approval events told of, the latest fetch comes after all.
InTime ==
    panel.starting = 0 =>
        \A i \in CallSlots : IsLatest(i) =>
            \A n \in Runs : watch[n].first =>
                /\ n \in 1..Len(past[call[i].since])
                /\ \A k \in ShownTo(ApprovalEvents, n) :
                    k <= watch[n].at => k <= LengthAt(n, call[i].since)

\* The list is complete, or there is something that will make the page look again or
\* that the user is told of.
Shows(n) ==
    /\ runs[n].approval = "pending" => panel.cards[n] = "pending"
    /\ panel.cards[n] = "pending" =>
        \/ runs[n].approval \in {"pending", "expired"}
        \/ \E i \in CallSlots : call[i].kind = "decide" /\ call[i].run = n
Fetching == \E i \in CallSlots : IsLatest(i)
ToBeTold(i) ==
    /\ call[i].kind = "decide"
    /\ (call[i].outcome = "done" /\ watch[call[i].run].first) => Untold(call[i].run)
Deciding == \E i \in CallSlots : ToBeTold(i)
DecidedUntold == \E n \in Runs : IsDecided(n) /\ (watch[n].first => Untold(n))
AllShown == \A n \in Runs : watch[n].first => Untold(n) \/ Shows(n)
ListLooksAgain ==
    (broken = 0 /\ panel.open) =>
        \/ panel.starting > 0 \/ panel.error
        \/ Fetching \/ Deciding \/ DecidedUntold \/ AllShown

PanelInv ==
    /\ PanelTypeOK
    /\ CallsFit
    /\ StartsFit
    /\ PanelFits
    /\ DecidedOnce
    /\ Watched
    /\ InTime
    /\ ListLooksAgain

Cards == [Runs -> {"absent", "pending"} \cup Decisions]

LEMMA PanelType ==
    ASSUME PanelTypeOK
    PROVE  /\ panel \in Panels
           /\ panel.open \in BOOLEAN /\ panel.initialized \in BOOLEAN /\ panel.error \in BOOLEAN
           /\ panel.cards \in Cards
           /\ panel.deciding \in Runs \cup {0}
           /\ panel.version \in Nat /\ panel.version \in 0..MaxVersion
           /\ panel.starting \in 0..2
           /\ watch \in [Runs -> Watches]
           /\ \A n \in Runs : watch[n].at \in Nat
           /\ call \in [CallSlots -> Calls]
           /\ \A i \in CallSlots : call[i].version \in Nat /\ call[i].since \in Nat
           /\ broken \in Nat
           /\ Runs = RunNumbers /\ 0 \notin Runs
           /\ Watches = [on: BOOLEAN, at: Positions, first: BOOLEAN]
           /\ CallSlots \in SUBSET Nat /\ IsFiniteSet(CallSlots)
<1>1. Runs = RunNumbers /\ 0 \notin Runs
  BY MaxLogsType DEF Runs, RunNumbers
<1>2. Watches = [on: BOOLEAN, at: Positions, first: BOOLEAN]
  BY <1>1 DEF Watches, Positions
<1>3. MaxCalls \in Nat /\ MaxVersion \in Nat /\ MaxBroken \in Nat
  BY PanelAssumption
<1>4. panel \in Panels
  BY DEF PanelTypeOK
<1>5. /\ panel.open \in BOOLEAN /\ panel.initialized \in BOOLEAN /\ panel.error \in BOOLEAN
      /\ panel.cards \in Cards
      /\ panel.deciding \in Runs \cup {0}
      /\ panel.version \in 0..MaxVersion
      /\ panel.starting \in 0..2
  BY <1>4 DEF Panels, Cards
<1>6. panel.version \in Nat
  BY <1>3, <1>5
<1>7. watch \in [Runs -> Watches] /\ \A n \in Runs : watch[n].at \in Nat
  BY <1>2, MaxLogsType DEF PanelTypeOK
<1>8. ASSUME NEW i \in CallSlots
      PROVE  call[i].version \in Nat /\ call[i].since \in Nat
  BY <1>3 DEF PanelTypeOK, Calls
<1>9. CallSlots \in SUBSET Nat /\ IsFiniteSet(CallSlots)
  BY <1>3, FS_Interval DEF CallSlots
<1>10. call \in [CallSlots -> Calls] /\ broken \in Nat
  BY <1>3 DEF PanelTypeOK
<1> QED BY <1>1, <1>2, <1>4, <1>5, <1>6, <1>7, <1>8, <1>9, <1>10

\* Slots get calls.
Called(i, q) ==
    /\ call' \in [CallSlots -> Calls]
    /\ call'[i] = q
    /\ \A j \in CallSlots : j # i => call'[j] = call[j]
CalledBoth(i, q, j, r) ==
    /\ call' \in [CallSlots -> Calls]
    /\ call'[i] = q /\ call'[j] = r
    /\ \A k \in CallSlots : k \notin {i, j} => call'[k] = call[k]

LEMMA CallGets ==
    ASSUME PanelTypeOK, NEW i \in CallSlots, NEW q \in Calls, call' = [call EXCEPT ![i] = q]
    PROVE  Called(i, q)
BY PanelType DEF Called

LEMMA CallStarted ==
    ASSUME PanelTypeOK, NEW q \in Calls, Start(q)
    PROVE  \E i \in CallSlots : call[i].kind = "idle" /\ Called(i, q)
<1> DEFINE i == FirstOf(IdleSlots)
<1>1. IdleSlots \in SUBSET Nat /\ IdleSlots # {} /\ IdleSlots \subseteq CallSlots
  BY PanelType DEF IdleSlots, Start
<1>2. i \in IdleSlots
  BY <1>1, ChosenLeast DEF FirstOf
<1>3. call' = [call EXCEPT ![i] = q]
  BY DEF Start
<1> HIDE DEF i
<1>4. i \in CallSlots /\ call[i].kind = "idle"
  BY <1>1, <1>2 DEF IdleSlots
<1> QED BY <1>3, <1>4, CallGets

LEMMA CallsStarted ==
    ASSUME PanelTypeOK, NEW q \in Calls, NEW r \in Calls, StartBoth(q, r)
    PROVE  \E i, j \in CallSlots :
                /\ i # j /\ call[i].kind = "idle" /\ call[j].kind = "idle"
                /\ CalledBoth(i, q, j, r)
<1> DEFINE i == FirstOf(IdleSlots)
           j == FirstOf(IdleSlots \ {i})
<1>1. /\ IdleSlots \in SUBSET Nat /\ IdleSlots \subseteq CallSlots /\ IsFiniteSet(IdleSlots)
      /\ Cardinality(IdleSlots) >= 2
  BY PanelType, FS_Subset DEF IdleSlots, StartBoth
<1>2. i \in IdleSlots /\ j \in IdleSlots /\ j # i
  BY <1>1, TwoSlots DEF FirstOf
<1>3. call' = [call EXCEPT ![i] = q, ![j] = r]
  BY DEF StartBoth
<1> HIDE DEF i, j
<1>4. i \in CallSlots /\ j \in CallSlots /\ call[i].kind = "idle" /\ call[j].kind = "idle"
  BY <1>1, <1>2 DEF IdleSlots
<1>5. CalledBoth(i, q, j, r)
  BY <1>2, <1>3, <1>4, PanelType DEF CalledBoth
<1> QED BY <1>2, <1>4, <1>5

LEMMA CallsMade ==
    ASSUME History, PanelInv, NEW version \in 0..MaxVersion
    PROVE  LET q == FetchApprovals(version) IN
           /\ q \in Calls /\ q.kind = "approvals" /\ q.version = version
           /\ ~q.starts /\ ~q.finishes /\ q.amid = UnderDecision /\ q.since = Now
           /\ [q EXCEPT !.starts = TRUE] \in Calls
           /\ [q EXCEPT !.starts = TRUE].kind = "approvals"
           /\ [q EXCEPT !.starts = TRUE].version = version
           /\ [q EXCEPT !.starts = TRUE].starts
           /\ ~[q EXCEPT !.starts = TRUE].finishes
           /\ [q EXCEPT !.starts = TRUE].amid = UnderDecision
           /\ [q EXCEPT !.starts = TRUE].since = Now
           /\ [q EXCEPT !.finishes = TRUE] \in Calls
           /\ [q EXCEPT !.finishes = TRUE].kind = "approvals"
           /\ [q EXCEPT !.finishes = TRUE].version = version
           /\ [q EXCEPT !.finishes = TRUE].finishes
           /\ ~[q EXCEPT !.finishes = TRUE].starts
           /\ [q EXCEPT !.finishes = TRUE].amid = UnderDecision
           /\ [q EXCEPT !.finishes = TRUE].since = Now
<1>1. Now \in Nat
  BY AtMoment
<1>2. UnderDecision \in SUBSET Runs
  <2>1. \A i \in CallSlots : call[i].kind = "decide" => call[i].run \in Runs
    BY AtPresent, PanelType DEF PanelInv, CallsFit, WellCalled
  <2> QED BY <2>1 DEF UnderDecision
<1> QED BY <1>1, <1>2 DEF FetchApprovals, Idle, Calls, Decisions

LEMMA RunsAsked ==
    ASSUME History
    PROVE  /\ FetchRuns \in Calls /\ FetchRuns.kind = "runs" /\ FetchRuns.version = 0
           /\ ~FetchRuns.starts /\ ~FetchRuns.finishes /\ FetchRuns.since = Now
           /\ [FetchRuns EXCEPT !.starts = TRUE] \in Calls
           /\ [FetchRuns EXCEPT !.starts = TRUE].kind = "runs"
           /\ [FetchRuns EXCEPT !.starts = TRUE].version = 0
           /\ [FetchRuns EXCEPT !.starts = TRUE].starts
           /\ ~[FetchRuns EXCEPT !.starts = TRUE].finishes
           /\ [FetchRuns EXCEPT !.starts = TRUE].since = Now
           /\ Idle \in Calls /\ Idle.kind = "idle" /\ Idle.version = 0
           /\ ~Idle.starts /\ ~Idle.finishes /\ Idle.since = 1
<1>1. Now \in Nat /\ 0 \in 0..MaxVersion
  BY AtMoment, PanelAssumption
<1> QED BY <1>1 DEF FetchRuns, Idle, Calls, Decisions

LEMMA WellCalledKept ==
    ASSUME Grows, panel.version \in Nat, panel'.version \in Nat, panel.version <= panel'.version,
           NEW q \in Calls, WellCalled(q),
           q.starts => panel'.starting > 0, q.finishes => panel'.starting = 0,
           panel.initialized => panel'.initialized
    PROVE  WellCalled(q)'
<1>1. q.since \in 1..Now'
  BY PastReads DEF WellCalled
<1>2. q.version <= panel'.version
  <2>1. q.version \in Nat
    BY PanelAssumption DEF Calls
  <2> QED BY <2>1 DEF WellCalled
<1>3. q.kind = "decide" => q.run \in Admitted'
  BY Stays DEF WellCalled
<1> QED BY <1>1, <1>2, <1>3 DEF WellCalled

\* An approval that was decided stays so, and is pending at no moment any more.
LEMMA ApprovalStays ==
    ASSUME Grows, NEW n \in Admitted
    PROVE  /\ n \in Admitted'
           /\ runs[n].approval # "none" => runs'[n].approval # "none"
           /\ runs[n].approval \notin {"none", "pending"} =>
                /\ runs'[n].approval = runs[n].approval
                /\ \A m \in Now..Now' : n \notin PendingAt(m)'
<1>1. n \in Admitted' /\ Follows(runs[n], runs'[n])
  BY Stays
<1>2. ASSUME runs[n].approval \notin {"none", "pending"}, NEW m \in Now..Now'
      PROVE  n \notin PendingAt(m)'
  <2>1. Now \in 1..Now' /\ m \in 1..Now' /\ Now <= m /\ past'[Now] = past[Now]
    BY PastReads
  <2>2. n \in 1..Len(past'[Now])
    BY <2>1 DEF Admitted, runs
  <2>3. Follows(past'[Now][n], past'[m][n])
    BY <2>1, <2>2 DEF Grows, History
  <2> QED BY <1>2, <2>1, <2>3 DEF Follows, PendingAt, runs
<1> QED BY <1>1, <1>2 DEF Follows

LEMMA UntoldStays ==
    ASSUME Grows, NEW n \in Admitted, Untold(n), watch'[n].at = watch[n].at
    PROVE  Untold(n)'
BY LogGrows DEF Untold

\* An approval that changed without expiring has an event to be told of.
LEMMA ChangeTold ==
    ASSUME Grows, NEW n \in Admitted,
           watch[n].at \in Nat, watch[n].at <= LogLength(n), watch'[n].at = watch[n].at,
           runs'[n].approval \notin {runs[n].approval, "expired"}
    PROVE  Untold(n)'
<1>1. LogLength(n) \in Nat /\ LogLength(n)' \in Nat
  BY LogGrows
<1>2. PICK i \in LogLength(n) + 1..LogLength(n)' : runs'[n].log[i] \in ApprovalEvents
  BY Stays DEF Follows, LogLength
<1>3. i \in ShownTo(ApprovalEvents, n)' /\ i > watch'[n].at
  BY <1>1, <1>2 DEF ShownTo
<1> QED BY <1>3 DEF Untold

\* The calls are as they were, but for what the server has done.
SameCalls ==
    /\ call' \in [CallSlots -> Calls]
    /\ \A i \in CallSlots :
        /\ call'[i].kind = call[i].kind /\ call'[i].version = call[i].version
        /\ call'[i].starts = call[i].starts /\ call'[i].finishes = call[i].finishes
        /\ call'[i].amid = call[i].amid /\ call'[i].run = call[i].run
        /\ call'[i].since = call[i].since

\* The page is as it was when the server has gone on, but that it may have decided
\* the approval of a call.
LEMMA PanelGoesOn ==
    ASSUME Grows, PanelInv, UNCHANGED <<panel, watch, broken>>, SameCalls,
           NEW D \in SUBSET CallSlots, \A i, j \in D : i = j,
           \A i \in D : /\ call[i].kind = "decide"
                        /\ runs[call[i].run].approval = "pending"
                        /\ runs'[call[i].run].approval \in Decisions,
           \A i \in CallSlots : WasDecided(i)' => WasDecided(i) \/ i \in D
    PROVE  PanelInv'
<1> USE DEF PanelInv
<1>1. History /\ History' /\ Now \in Nat /\ Now' \in Nat /\ Now <= Now'
  BY PastReads DEF Grows
<1>2. PanelTypeOK'
  BY <1>1 DEF PanelTypeOK, History, SameCalls, CallSlots, Runs
<1>3. CallsFit'
  <2>1. ASSUME NEW i \in CallSlots PROVE WellCalled(call[i])'
    <3>1. PICK q \in Calls : q = call[i]
      BY PanelType
    <3>2. WellCalled(q)
      BY <3>1 DEF CallsFit
    <3>3. WellCalled(q)'
      BY <3>2, WellCalledKept, PanelType DEF WellCalled
    <3> QED BY <3>1, <3>3 DEF WellCalled, SameCalls
  <2> QED BY <2>1 DEF CallsFit, CallSlots
<1>4. StartsFit'
  BY DEF StartsFit, SameCalls, CallSlots
<1>5. PanelFits'
  BY ApprovalStays DEF PanelFits, SameCalls, CallSlots, Runs
<1>6. \A i \in CallSlots : call[i].kind = "decide" => call[i].run \in Admitted
  BY DEF CallsFit, WellCalled
<1>7. \A n \in Runs : IsDecided(n) => n \in Admitted
  BY DEF IsDecided, PanelFits, Decisions
<1>8. \A i \in CallSlots : WasDecided(i)' => call[i].kind = "decide"
  BY DEF WasDecided, SameCalls
<1>9. DecidedOnce'
  <2>1. \A i \in CallSlots :
            WasDecided(i)' => runs'[call[i].run].approval \notin {"none", "pending"}
    BY <1>6, <1>8, ApprovalStays DEF DecidedOnce, Decisions
  <2>2. \A i, j \in CallSlots :
            WasDecided(i)' /\ WasDecided(j)' /\ call[i].run = call[j].run => i = j
    BY DEF DecidedOnce
  <2>3. \A n \in Runs : IsDecided(n) =>
            /\ runs'[n].approval \notin {"none", "pending"}
            /\ \A i \in CallSlots : WasDecided(i)' => call[i].run # n
    BY <1>7, ApprovalStays DEF DecidedOnce
  <2>4. ASSUME NEW i \in CallSlots, IsLatest(i), NEW n \in Runs, IsDecided(n),
               n \notin call[i].amid, NEW m \in call[i].since..Now'
        PROVE  n \notin PendingAt(m)'
    <3>1. \A k \in call[i].since..Now : n \notin PendingAt(k)
      BY <2>4 DEF DecidedOnce
    <3>2. call[i].since \in 1..Now
      BY DEF CallsFit, WellCalled
    <3>3. CASE m <= Now
      <4>1. m \in call[i].since..Now /\ m \in 1..Now
        BY <1>1, <3>2, <3>3
      <4>2. past'[m] = past[m]
        BY <4>1, PastReads
      <4> QED BY <3>1, <4>1, <4>2 DEF PendingAt
    <3>4. CASE ~(m <= Now)
      <4>1. m \in Now..Now'
        BY <1>1, <3>2, <3>4
      <4>2. runs[n].approval \notin {"none", "pending"}
        BY <2>4 DEF DecidedOnce
      <4> QED BY <1>7, <2>4, <4>1, <4>2, ApprovalStays
    <3> QED BY <3>3, <3>4
  <2>5. /\ \A i \in CallSlots : IsLatest(i)' <=> IsLatest(i)
        /\ \A n \in Runs : IsDecided(n)' <=> IsDecided(n)
    BY DEF IsLatest, IsDecided, SameCalls
  <2>6. \A i \in CallSlots : IsLatest(i) =>
            \A j \in CallSlots : call[j].kind = "decide" => call[j].run \in call[i].amid
    BY DEF DecidedOnce
  <2>7. \A i \in CallSlots : /\ call'[i].kind = call[i].kind /\ call'[i].run = call[i].run
                             /\ call'[i].amid = call[i].amid /\ call'[i].since = call[i].since
    BY DEF SameCalls
  <2> QED BY <2>1, <2>2, <2>3, <2>4, <2>5, <2>6, <2>7 DEF DecidedOnce, CallSlots, Runs
<1>10. \A n \in Runs : watch[n].on => n \in Admitted /\ watch[n].at <= LogLength(n)
  BY DEF Watched
<1>11. Watched'
  <2>1. ASSUME NEW n \in Runs, watch[n].on
        PROVE  n \in Admitted' /\ watch[n].at <= LogLength(n)'
    BY <1>10, <2>1, Stays, LogGrows, PanelType
  <2>2. \A n \in Runs : watch[n].first => watch[n].on
    BY DEF Watched
  <2> QED BY <2>1, <2>2 DEF Watched, Runs
<1>12. InTime'
  <2>1. ASSUME panel.starting = 0, NEW i \in CallSlots, IsLatest(i), NEW n \in Runs, watch[n].first,
               NEW s, s = call[i].since
        PROVE  /\ n \in 1..Len(past'[s])
               /\ \A k \in ShownTo(ApprovalEvents, n)' :
                    k <= watch[n].at => k <= LengthAt(n, s)'
    <3>1. s \in 1..Now
      BY <2>1 DEF CallsFit, WellCalled
    <3>2. /\ n \in 1..Len(past[s])
          /\ \A k \in ShownTo(ApprovalEvents, n) : k <= watch[n].at => k <= LengthAt(n, s)
      BY <2>1, <3>1 DEF InTime
    <3>3. past'[s] = past[s] /\ LengthAt(n, s)' = LengthAt(n, s)
      BY <3>1, PastReads
    <3>4. n \in Admitted /\ watch[n].at <= LogLength(n) /\ watch[n].at \in Nat
      BY <2>1, PanelType DEF Watched
    <3>5. \A k \in ShownTo(ApprovalEvents, n)' :
            k \in Nat /\ (k <= LogLength(n) => k \in ShownTo(ApprovalEvents, n))
      BY <3>4, LogGrows DEF ShownTo
    <3>6. LogLength(n) \in Nat
      BY <3>4, LogGrows
    <3>7. \A k \in ShownTo(ApprovalEvents, n)' : k <= watch[n].at => k <= LengthAt(n, s)
      BY <3>2, <3>4, <3>5, <3>6
    <3> QED BY <3>2, <3>3, <3>7
  <2>2. \A i \in CallSlots : (IsLatest(i)' <=> IsLatest(i)) /\ call'[i].since = call[i].since
    BY DEF IsLatest, SameCalls
  <2> QED BY <2>1, <2>2 DEF InTime, CallSlots, Runs, LengthAt
<1>13. ListLooksAgain'
  <2>1. Fetching => Fetching'
    BY DEF Fetching, IsLatest, SameCalls, CallSlots
  <2>2. ASSUME NEW n \in Admitted, n \in Runs, Untold(n) PROVE Untold(n)'
    BY <2>2, UntoldStays
  <2>3. Deciding => Deciding'
    <3> SUFFICES ASSUME NEW i \in CallSlots, ToBeTold(i) PROVE ToBeTold(i)'
      BY DEF Deciding, CallSlots
    <3>1. PICK n \in Admitted : n = call[i].run
      BY <1>6 DEF ToBeTold
    <3>2. call[i].kind = "decide" /\ n \in Runs
      BY <1>1, AtPresent, PanelType DEF ToBeTold
    <3>3. ASSUME call'[i].outcome = "done", watch[n].first PROVE Untold(n)'
      <4>1. CASE WasDecided(i)
        <5>1. Untold(n)
          BY <3>1, <3>3, <4>1 DEF ToBeTold, WasDecided
        <5> QED BY <2>2, <3>2, <5>1
      <4>2. CASE i \in D
        <5>1. runs'[n].approval \notin {runs[n].approval, "expired"}
          BY <3>1, <4>2 DEF Decisions
        <5>2. watch[n].at \in Nat /\ watch[n].at <= LogLength(n) /\ watch'[n].at = watch[n].at
          BY <3>2, <3>3, PanelType DEF Watched
        <5> QED BY <5>1, <5>2, ChangeTold
      <4>3. WasDecided(i)'
        BY <3>2, <3>3 DEF WasDecided, SameCalls
      <4> QED BY <4>1, <4>2, <4>3
    <3>4. call'[i].kind = "decide" /\ n = call'[i].run /\ watch' = watch
      BY <3>1, <3>2 DEF SameCalls
    <3>5. (call'[i].outcome = "done" /\ watch'[n].first) => Untold(n)'
      BY <3>3, <3>4
    <3> QED BY <3>4, <3>5 DEF ToBeTold
  <2>4. DecidedUntold => DecidedUntold'
    BY <1>7, <2>2 DEF DecidedUntold, IsDecided, Runs
  <2>5. AllShown => AllShown'
    <3> SUFFICES ASSUME NEW n \in Runs, watch[n].first, Untold(n) \/ Shows(n)
                 PROVE  Untold(n)' \/ Shows(n)'
      BY DEF AllShown, Runs
    <3>1. n \in Admitted /\ watch[n].at \in Nat /\ watch[n].at <= LogLength(n)
      BY PanelType DEF Watched
    <3>2. CASE Untold(n)
      BY <2>2, <3>1, <3>2
    <3>3. CASE runs'[n].approval \notin {runs[n].approval, "expired"}
      BY <3>1, <3>3, ChangeTold
    <3>4. CASE Shows(n) /\ runs'[n].approval \in {runs[n].approval, "expired"}
      BY <3>4 DEF Shows, SameCalls, CallSlots
    <3> QED BY <3>2, <3>3, <3>4
  <2> QED BY <2>1, <2>3, <2>4, <2>5 DEF ListLooksAgain
<1> QED BY <1>2, <1>3, <1>4, <1>5, <1>9, <1>11, <1>12, <1>13

\* The decisions that the page knows of, and the latest fetch, of which there may be
\* another, made now.
LEMMA DecisionsKept ==
    ASSUME History, PanelInv, UNCHANGED past,
           \A n \in Runs : IsDecided(n)' => IsDecided(n),
           \A i \in CallSlots : WasDecided(i)' => call'[i] = call[i],
           \A i, j \in CallSlots :
                IsLatest(i)' /\ call'[j].kind = "decide" => call'[j] = call[j],
           \A i \in CallSlots : IsLatest(i)' =>
                \/ IsLatest(i) /\ call'[i] = call[i]
                \/ call'[i].amid = UnderDecision /\ call'[i].since = Now
    PROVE  DecidedOnce'
<1> USE DEF PanelInv
<1>1. runs' = runs /\ Now' = Now /\ Now \in Nat /\ \A m : PendingAt(m)' = PendingAt(m)
  BY SamePast, AtMoment DEF PendingAt
<1>2. \A i \in CallSlots :
        WasDecided(i)' => WasDecided(i) /\ runs'[call'[i].run].approval \notin {"none", "pending"}
  BY <1>1 DEF WasDecided, DecidedOnce
<1>3. \A i, j \in CallSlots :
        WasDecided(i)' /\ WasDecided(j)' /\ call'[i].run = call'[j].run => i = j
  BY <1>2 DEF DecidedOnce
<1>4. \A n \in Runs : IsDecided(n)' =>
        /\ runs'[n].approval \notin {"none", "pending"}
        /\ \A i \in CallSlots : WasDecided(i)' => call'[i].run # n
  BY <1>1, <1>2 DEF DecidedOnce
<1>5. ASSUME NEW i \in CallSlots, IsLatest(i)'
      PROVE  /\ \A j \in CallSlots : call'[j].kind = "decide" => call'[j].run \in call'[i].amid
             /\ \A n \in Runs : IsDecided(n)' =>
                    n \in call'[i].amid \/ \A m \in call'[i].since..Now' : n \notin PendingAt(m)'
  <2>1. CASE IsLatest(i) /\ call'[i] = call[i]
    <3>1. \A j \in CallSlots : call'[j].kind = "decide" => call'[j].run \in call'[i].amid
      BY <1>5, <2>1 DEF DecidedOnce
    <3>2. \A n \in Runs : IsDecided(n) =>
            n \in call[i].amid \/ \A m \in call[i].since..Now : n \notin PendingAt(m)
      BY <2>1 DEF DecidedOnce
    <3> QED BY <1>1, <2>1, <3>1, <3>2
  <2>2. CASE call'[i].amid = UnderDecision /\ call'[i].since = Now
    <3>1. \A j \in CallSlots : call'[j].kind = "decide" => call'[j].run \in call'[i].amid
      BY <1>5, <2>2 DEF UnderDecision
    <3>2. ASSUME NEW n \in Runs, IsDecided(n)', NEW m \in call'[i].since..Now'
          PROVE  n \notin PendingAt(m)'
      <4>1. m = Now
        BY <1>1, <2>2
      <4>2. runs[n].approval # "pending"
        BY <3>2 DEF DecidedOnce
      <4> QED BY <1>1, <4>1, <4>2 DEF PendingAt, runs
    <3> QED BY <3>1, <3>2
  <2> QED BY <1>5, <2>1, <2>2
<1> QED BY <1>2, <1>3, <1>4, <1>5 DEF DecidedOnce, CallSlots, Runs

LEMMA InTimeKept ==
    ASSUME History, PanelInv, UNCHANGED past, Watched',
           panel'.starting = 0 => \A i \in CallSlots : IsLatest(i)' =>
                \/ call'[i].since = Now
                \/ /\ IsLatest(i) /\ call'[i] = call[i] /\ panel.starting = 0
                   /\ \A n \in Runs : watch'[n].first =>
                        watch[n].first /\ watch'[n].at = watch[n].at
    PROVE  InTime'
<1> USE DEF PanelInv
<1>1. /\ runs' = runs /\ Now' = Now /\ Admitted' = Admitted
      /\ \A n : ShownTo(ApprovalEvents, n)' = ShownTo(ApprovalEvents, n)
  BY SamePast
<1>2. ASSUME panel'.starting = 0, NEW i \in CallSlots, IsLatest(i)',
             NEW n \in Runs, watch'[n].first
      PROVE  /\ n \in 1..Len(past'[call'[i].since])
             /\ \A k \in ShownTo(ApprovalEvents, n)' :
                    k <= watch'[n].at => k <= Len(past'[call'[i].since][n].log)
  <2>1. CASE call'[i].since = Now
    <3>1. n \in Admitted
      BY <1>1, <1>2 DEF Watched, Runs
    <3>2. \A k \in ShownTo(ApprovalEvents, n) : k <= Len(past[Now][n].log)
      BY DEF ShownTo, LogLength, runs
    <3> QED BY <1>1, <2>1, <3>1, <3>2 DEF Admitted, runs
  <2>2. CASE /\ IsLatest(i) /\ call'[i] = call[i] /\ panel.starting = 0
             /\ watch[n].first /\ watch'[n].at = watch[n].at
    <3>1. /\ n \in 1..Len(past[call[i].since])
          /\ \A k \in ShownTo(ApprovalEvents, n) :
                k <= watch[n].at => k <= LengthAt(n, call[i].since)
      BY <2>2 DEF InTime
    <3> QED BY <1>1, <2>2, <3>1 DEF LengthAt
  <2> QED BY <1>2, <2>1, <2>2
<1> QED BY <1>2 DEF InTime, CallSlots, Runs, LengthAt

\* Calls that are kept, and new ones.
Fits(i) == WellCalled(call[i])

LEMMA FitsKept ==
    ASSUME History, PanelInv, UNCHANGED past, panel'.version \in Nat,
           panel.version <= panel'.version, panel.initialized => panel'.initialized,
           NEW i \in CallSlots, call'[i] = call[i],
           call[i].starts => panel'.starting > 0, call[i].finishes => panel'.starting = 0
    PROVE  Fits(i)'
<1>1. PICK q \in Calls : q = call[i]
  BY PanelType DEF PanelInv
<1>2. WellCalled(q)
  BY <1>1 DEF PanelInv, CallsFit
<1>3. Grows /\ panel.version \in Nat
  BY HistoryStands, PanelType DEF PanelInv
<1>4. WellCalled(q)'
  BY <1>1, <1>2, <1>3, WellCalledKept
<1> QED BY <1>1, <1>4 DEF Fits, WellCalled

LEMMA FitsNew ==
    ASSUME History, UNCHANGED past, NEW i \in CallSlots,
           call'[i].since \in {1, Now}, call'[i].version <= panel'.version,
           call'[i].starts => call'[i].kind \in {"approvals", "runs"} /\ panel'.starting > 0,
           call'[i].finishes => call'[i].kind = "approvals" /\ panel'.starting = 0,
           call'[i].kind = "decide" => panel'.initialized /\ call'[i].run \in Admitted
    PROVE  Fits(i)'
BY SamePast, AtMoment DEF Fits, WellCalled

LEMMA AllFit == ASSUME \A i \in CallSlots : Fits(i)' PROVE CallsFit'
BY DEF Fits, CallsFit, CallSlots

LEMMA TypeKept ==
    ASSUME PastTypeOK, UNCHANGED past, panel' \in Panels, watch' \in [Runs -> Watches],
           call' \in [CallSlots -> Calls], broken' \in 0..MaxBroken
    PROVE  PanelTypeOK'
BY SamePast DEF PanelTypeOK, Panels, Watches, Calls, CallSlots, Runs

\* The effect that opens the page.
LEMMA PanelOpens ==
    ASSUME History, PanelInv, Open
    PROVE  PanelInv'
<1> USE DEF PanelInv
<1> DEFINE version == panel.version + 1
           q == [FetchApprovals(version) EXCEPT !.starts = TRUE]
           r == [FetchRuns EXCEPT !.starts = TRUE]
<1>1. /\ ~panel.open /\ UNCHANGED <<past, watch, broken>> /\ StartBoth(q, r)
      /\ panel' = [panel EXCEPT !.open = TRUE, !.version = version, !.starting = 2]
  BY DEF Open
<1>2. version \in 0..MaxVersion /\ version \in Nat
  BY PanelType, PanelAssumption DEF Open
<1> HIDE DEF version
<1>3. /\ panel' \in Panels /\ panel'.open /\ panel'.version = version /\ panel'.starting = 2
      /\ panel'.cards = panel.cards /\ panel'.initialized = panel.initialized
      /\ panel'.deciding = panel.deciding /\ panel'.error = panel.error
  <2>1. panel \in Panels
    BY PanelType
  <2>2. 2 \in 0..2 /\ TRUE \in BOOLEAN
    OBVIOUS
  <2> QED BY <1>1, <1>2, <2>1, <2>2 DEF Panels
<1>4. /\ q \in Calls /\ q.kind = "approvals" /\ q.version = version /\ q.starts
      /\ ~q.finishes /\ q.amid = UnderDecision /\ q.since = Now
      /\ r \in Calls /\ r.kind = "runs" /\ r.version = 0 /\ r.starts /\ ~r.finishes
      /\ r.since = Now
  BY <1>2, CallsMade, RunsAsked
<1> HIDE DEF q, r, PanelInv
<1>5. PICK i, j \in CallSlots :
        /\ i # j /\ call[i].kind = "idle" /\ call[j].kind = "idle"
        /\ CalledBoth(i, q, j, r)
  BY <1>1, <1>4, CallsStarted DEF PanelInv
<1> USE DEF PanelInv
<1>6. \A k \in CallSlots : call[k].kind = "idle" /\ ~call[k].starts /\ ~call[k].finishes
  BY <1>1 DEF PanelFits, CallsFit, WellCalled
<1>7. /\ panel.starting = 0 /\ ~panel.initialized /\ panel.deciding = 0
      /\ \A n \in Runs : ~watch[n].on
  BY <1>1 DEF PanelFits
<1>8. /\ call' \in [CallSlots -> Calls] /\ call'[i] = q /\ call'[j] = r
      /\ \A k \in CallSlots : k \notin {i, j} => call'[k] = call[k]
  BY <1>5 DEF CalledBoth
<1>9. panel.version \in Nat /\ panel.version <= version /\ version = panel.version + 1
  BY PanelType DEF version
<1>10. PanelTypeOK'
  BY <1>1, <1>3, <1>8, TypeKept DEF PanelTypeOK
<1>11. CallsFit'
  <2>1. ASSUME NEW k \in CallSlots PROVE Fits(k)'
    <3>1. CASE k \in {i, j}
      BY <1>1, <1>2, <1>3, <1>4, <1>8, <3>1, FitsNew
    <3>2. CASE k \notin {i, j}
      BY <1>1, <1>2, <1>3, <1>6, <1>8, <1>9, <3>2, FitsKept
    <3> QED BY <3>1, <3>2
  <2> QED BY <2>1, AllFit
<1>12. StartsFit'
  BY <1>3, <1>4, <1>5, <1>6, <1>7, <1>8 DEF StartsFit, CallSlots
<1>13. PanelFits'
  BY <1>1, <1>3, <1>7, SamePast DEF PanelFits, Runs
<1>14. DecidedOnce'
  <2>1. \A n \in Runs : IsDecided(n)' => IsDecided(n)
    BY <1>3 DEF IsDecided
  <2>2. \A k \in CallSlots : call'[k].kind = "decide" => FALSE
    BY <1>4, <1>6, <1>8
  <2>3. \A k \in CallSlots : IsLatest(k)' => k = i
    BY <1>4, <1>6, <1>8 DEF IsLatest
  <2> QED BY <1>1, <1>4, <1>8, <2>1, <2>2, <2>3, DecisionsKept DEF WasDecided
<1>15. Watched'
  BY <1>1, SamePast DEF Watched, Runs
<1>16. InTime'
  BY <1>3 DEF InTime
<1>17. ListLooksAgain'
  BY <1>3 DEF ListLooksAgain
<1> QED BY <1>10, <1>11, <1>12, <1>13, <1>14, <1>15, <1>16, <1>17

\* An approval event: everything is fetched again.
LEMMA PanelHears ==
    ASSUME History, PanelInv, NEW n \in Runs, ApprovalEvent(n)
    PROVE  PanelInv'
<1> USE DEF PanelInv
<1> DEFINE version == panel.version + 1
           next == NextShown(ApprovalEvents, n, watch[n].at)
           q == FetchApprovals(version)
<1>1. /\ watch[n].on /\ UNCHANGED <<past, broken>> /\ StartBoth(q, FetchRuns) /\ next # 0
      /\ panel' = [panel EXCEPT !.version = version]
      /\ watch' = [watch EXCEPT ![n].at = next]
  BY DEF ApprovalEvent
<1>2. version \in 0..MaxVersion /\ version \in Nat
  BY PanelType, PanelAssumption DEF ApprovalEvent
<1>3. panel.version \in Nat /\ panel.version < version
  BY PanelType
<1>4. n \in Admitted /\ watch[n].at \in Nat
  BY <1>1, PanelType DEF Watched
<1>5. next \in Positions /\ next \in 1..LogLength(n)
  <2>1. next \in Positions /\ next \in ShownTo(ApprovalEvents, n)
    BY <1>1, <1>4, NextOne
  <2> QED BY <2>1 DEF ShownTo
<1> HIDE DEF version, next
<1>6. /\ panel' \in Panels /\ panel'.open = panel.open /\ panel'.version = version
      /\ panel'.starting = panel.starting
      /\ panel'.cards = panel.cards /\ panel'.initialized = panel.initialized
      /\ panel'.deciding = panel.deciding /\ panel'.error = panel.error
  BY <1>1, <1>2, PanelType DEF Panels
<1>7. /\ q \in Calls /\ q.kind = "approvals" /\ q.version = version /\ ~q.starts
      /\ ~q.finishes /\ q.amid = UnderDecision /\ q.since = Now
      /\ FetchRuns \in Calls /\ FetchRuns.kind = "runs" /\ FetchRuns.version = 0
      /\ ~FetchRuns.starts /\ ~FetchRuns.finishes /\ FetchRuns.since = Now
  BY <1>2, CallsMade, RunsAsked
<1> DEFINE r == FetchRuns
<1> HIDE DEF q, r, PanelInv
<1>8. PICK i, j \in CallSlots :
        /\ i # j /\ call[i].kind = "idle" /\ call[j].kind = "idle"
        /\ CalledBoth(i, q, j, r)
  BY <1>1, <1>7, CallsStarted DEF PanelInv, r
<1> USE DEF PanelInv
<1>9. /\ call' \in [CallSlots -> Calls] /\ call'[i] = q /\ call'[j] = r
      /\ \A k \in CallSlots : k \notin {i, j} => call'[k] = call[k]
  BY <1>8 DEF CalledBoth
<1>10. /\ ~call[i].starts /\ ~call[j].starts /\ panel.open
       /\ \A k \in CallSlots : /\ call[k].starts => panel.starting > 0
                               /\ call[k].finishes => panel.starting = 0
                               /\ call[k].version \in Nat /\ call[k].version <= panel.version
  BY <1>1, <1>8, PanelType DEF CallsFit, WellCalled, PanelFits
<1>11. /\ watch' \in [Runs -> Watches]
       /\ \A k \in Runs : watch'[k].on = watch[k].on /\ watch'[k].first = watch[k].first
       /\ \A k \in Runs : k # n => watch'[k] = watch[k]
       /\ watch'[n].at = next
  BY <1>1, <1>5, PanelType
<1>12. r.kind = "runs" /\ r.version = 0 /\ ~r.starts /\ ~r.finishes /\ r.since = Now
  BY <1>7 DEF r
<1>13. PanelTypeOK'
  BY <1>1, <1>6, <1>9, <1>11, TypeKept DEF PanelTypeOK
<1>14. CallsFit'
  <2>1. ASSUME NEW k \in CallSlots PROVE Fits(k)'
    <3>1. CASE k \in {i, j}
      BY <1>1, <1>2, <1>6, <1>7, <1>9, <1>12, <3>1, FitsNew
    <3>2. CASE k \notin {i, j}
      BY <1>1, <1>2, <1>3, <1>6, <1>9, <1>10, <3>2, FitsKept
    <3> QED BY <3>1, <3>2
  <2> QED BY <2>1, AllFit
<1>15. \A k \in CallSlots : /\ call'[k].starts = call[k].starts
                            /\ call'[k].starts => call'[k] = call[k]
                            /\ call[k].kind = "decide" => call'[k] = call[k]
                            /\ call'[k].kind = "decide" => call'[k] = call[k]
  <2>1. \A k \in CallSlots : call[k].starts \in BOOLEAN
    BY PanelType DEF Calls
  <2> QED BY <1>7, <1>8, <1>9, <1>10, <1>12, <2>1, PanelType DEF Calls
<1>16. StartsFit'
  BY <1>1, <1>6, <1>15 DEF StartsFit, CallSlots
<1>17. PanelFits'
  BY <1>1, <1>6, <1>10, SamePast DEF PanelFits, Runs
<1>18. \A k \in CallSlots : IsLatest(k)' => k = i
  BY <1>3, <1>6, <1>9, <1>10, <1>12 DEF IsLatest
<1>19. DecidedOnce'
  <2>1. \A k \in Runs : IsDecided(k)' => IsDecided(k)
    BY <1>6 DEF IsDecided
  <2> QED BY <1>1, <1>7, <1>9, <1>15, <1>18, <2>1, DecisionsKept DEF WasDecided
<1>20. Watched'
  <2>1. ASSUME NEW k \in Runs, watch'[k].on PROVE k \in Admitted' /\ watch'[k].at <= LogLength(k)'
    <3>1. k \in Admitted /\ watch[k].at <= LogLength(k)
      BY <1>11, <2>1 DEF Watched
    <3>2. watch'[k].at <= LogLength(k)
      BY <1>5, <1>11, <3>1
    <3> QED BY <1>1, <3>1, <3>2, SamePast
  <2> QED BY <1>11, <2>1 DEF Watched, Runs
<1>21. InTime'
  BY <1>1, <1>7, <1>9, <1>18, <1>20, InTimeKept
<1>22. ListLooksAgain'
  <2>1. IsLatest(i)'
    BY <1>6, <1>7, <1>9 DEF IsLatest
  <2> QED BY <2>1 DEF ListLooksAgain, Fetching, CallSlots
<1> QED BY <1>13, <1>14, <1>16, <1>17, <1>19, <1>20, <1>21, <1>22

\* A decision is sent: what was being fetched will be dropped.
LEMMA PanelDecides ==
    ASSUME History, PanelInv, NEW n \in Runs, NEW decision \in Decisions, Decide(n, decision)
    PROVE  PanelInv'
<1> USE DEF PanelInv
<1> DEFINE version == panel.version + 1
           q == [Idle EXCEPT !.kind = "decide", !.run = n, !.decision = decision]
<1>1. /\ panel.initialized /\ panel.cards[n] = "pending"
      /\ UNCHANGED <<past, watch, broken>> /\ Start(q)
      /\ panel' = [panel EXCEPT !.version = version, !.deciding = n, !.error = FALSE]
  BY DEF Decide
<1>2. version \in 0..MaxVersion /\ version \in Nat
  BY PanelType, PanelAssumption DEF Decide
<1>3. panel.version \in Nat /\ panel.version < version
  BY PanelType
<1> HIDE DEF version
<1>4. panel \in Panels
  BY PanelType
<1>5. /\ panel' \in Panels /\ panel'.open = panel.open /\ panel'.version = version
      /\ panel'.starting = panel.starting
      /\ panel'.cards = panel.cards /\ panel'.initialized = panel.initialized
      /\ panel'.deciding = n /\ ~panel'.error
  BY <1>1, <1>2, <1>4 DEF Panels
<1>6. /\ q \in Calls /\ q.kind = "decide" /\ q.version = 0 /\ ~q.starts
      /\ ~q.finishes /\ q.since = 1 /\ q.run = n /\ q.outcome = "open"
  <2>1. 1 \in Nat /\ 0 \in 0..MaxVersion
    BY PanelAssumption
  <2> QED BY <2>1 DEF Idle, Calls, Decisions
<1> HIDE DEF q, PanelInv
<1>7. PICK i \in CallSlots : call[i].kind = "idle" /\ Called(i, q)
  BY <1>1, <1>6, CallStarted DEF PanelInv
<1> USE DEF PanelInv
<1>8. /\ call' \in [CallSlots -> Calls] /\ call'[i] = q
      /\ \A k \in CallSlots : k # i => call'[k] = call[k]
  BY <1>7 DEF Called
<1>9. /\ ~call[i].starts /\ panel.open
      /\ \A k \in CallSlots : /\ call[k].starts => panel.starting > 0
                              /\ call[k].finishes => panel.starting = 0
                              /\ call[k].version \in Nat /\ call[k].version <= panel.version
  BY <1>1, <1>7, PanelType DEF CallsFit, WellCalled, PanelFits
<1>10. n \in Admitted
  BY <1>1 DEF PanelFits
<1>11. PanelTypeOK'
  BY <1>1, <1>5, <1>8, TypeKept DEF PanelTypeOK
<1>12. CallsFit'
  <2>1. ASSUME NEW k \in CallSlots PROVE Fits(k)'
    <3>1. CASE k = i
      BY <1>1, <1>2, <1>5, <1>6, <1>8, <1>10, <3>1, FitsNew
    <3>2. CASE k # i
      BY <1>1, <1>2, <1>3, <1>5, <1>8, <1>9, <3>2, FitsKept
    <3> QED BY <3>1, <3>2
  <2> QED BY <2>1, AllFit
<1>13. \A k \in CallSlots : /\ call'[k].starts = call[k].starts
                            /\ call[k].kind = "decide" => call'[k] = call[k]
                            /\ WasDecided(k)' => call'[k] = call[k]
  <2>1. \A k \in CallSlots : call[k].starts \in BOOLEAN
    BY PanelType DEF Calls
  <2> QED BY <1>6, <1>7, <1>8, <1>9, <2>1, PanelType DEF Calls, WasDecided
<1>14. StartsFit'
  <2>1. /\ \A j, k, l \in CallSlots :
            call'[j].starts /\ call'[k].starts /\ call'[l].starts => j = k \/ k = l \/ j = l
        /\ panel'.starting = 1 =>
            \A j, k \in CallSlots : call'[j].starts /\ call'[k].starts => j = k
        /\ (broken' = 0 /\ panel'.starting = 1) => \E j \in CallSlots : call'[j].starts
        /\ (broken' = 0 /\ panel'.starting = 2) =>
            \E j, k \in CallSlots : j # k /\ call'[j].starts /\ call'[k].starts
    BY <1>1, <1>5, <1>13 DEF StartsFit
  <2>2. \E j \in CallSlots : call'[j].kind = "decide" /\ call'[j].run = panel'.deciding
    BY <1>5, <1>6, <1>8
  <2> QED BY <2>1, <2>2 DEF StartsFit, CallSlots
<1>15. PanelFits'
  BY <1>1, <1>5, <1>9, SamePast DEF PanelFits, Runs
<1>16. \A k \in CallSlots : ~IsLatest(k)'
  BY <1>3, <1>5, <1>6, <1>8, <1>9 DEF IsLatest
<1>17. DecidedOnce'
  <2>1. \A k \in Runs : IsDecided(k)' => IsDecided(k)
    BY <1>5 DEF IsDecided
  <2> QED BY <1>1, <1>13, <1>16, <2>1, DecisionsKept
<1>18. Watched'
  BY <1>1, SamePast DEF Watched, Runs
<1>19. InTime'
  BY <1>1, <1>16, <1>18, InTimeKept
<1>20. ListLooksAgain'
  <2>1. ToBeTold(i)'
    BY <1>6, <1>8 DEF ToBeTold
  <2> QED BY <2>1 DEF ListLooksAgain, Deciding, CallSlots
<1> QED BY <1>11, <1>12, <1>14, <1>15, <1>17, <1>18, <1>19, <1>20

\* What an answer to a fetch may make of the page, and of what it is subscribed to:
\* it decides nothing, drops no first subscription before the first calls are
\* answered, and the latest answer of approvals shows what is to be shown.
ShowsWith(cards, n) ==
    /\ runs[n].approval = "pending" => cards[n] = "pending"
    /\ cards[n] = "pending" =>
        \/ runs[n].approval \in {"pending", "expired"}
        \/ \E i \in CallSlots : call[i].kind = "decide" /\ call[i].run = n
AnswerMakes(i, next) ==
    /\ UNCHANGED <<past, broken>>
    /\ call[i].kind \in {"approvals", "runs"}
    /\ next \in Panels
    /\ next.open = panel.open /\ next.deciding = panel.deciding /\ next.error = panel.error
    /\ next.version = panel.version /\ next.starting = panel.starting
    /\ \A n \in Runs : next.cards[n] \in Decisions => next.cards[n] = panel.cards[n]
    /\ \A n \in Runs : next.cards[n] # "absent" => n \in Admitted /\ runs[n].approval # "none"
    /\ panel.initialized => next.initialized
    /\ next.initialized => panel.starting = 0
    /\ watch' \in [Runs -> Watches]
    /\ \A n \in Runs : /\ watch'[n].first => watch'[n].on
                       /\ watch'[n].on => n \in Admitted /\ watch'[n].at <= LogLength(n)
                       /\ watch'[n].first /\ ~call[i].starts =>
                            watch[n].first /\ watch'[n].at = watch[n].at
    /\ \/ next.cards = panel.cards /\ ~IsLatest(i)
       \/ broken = 0 /\ panel.starting = 0 =>
            \A n \in Runs : watch'[n].first => Untold(n)' \/ ShowsWith(next.cards, n)

LEMMA PanelAnswered ==
    ASSUME History, PanelInv, NEW i \in CallSlots, NEW next, AnswerMakes(i, next),
           panel' \in Panels, panel'.cards = next.cards, panel'.initialized = next.initialized,
           panel'.open = next.open, panel'.deciding = next.deciding, panel'.error = next.error
    PROVE  /\ panel.open /\ panel'.open
           /\ \A n \in Runs : IsDecided(n)' => IsDecided(n) /\ panel'.cards[n] = panel.cards[n]
           /\ Watched'
           /\ panel'.starting = 0 \/ ~panel'.initialized => PanelFits'
<1> USE DEF PanelInv, AnswerMakes
<1>1. panel.open /\ panel'.open
  BY PanelType DEF PanelFits
<1>2. \A n \in Runs : IsDecided(n)' => IsDecided(n) /\ panel'.cards[n] = panel.cards[n]
  BY DEF IsDecided
<1>3. Watched'
  BY SamePast DEF Watched, Runs
<1>4. ASSUME panel'.starting = 0 \/ ~panel'.initialized PROVE PanelFits'
  <2>1. \A n \in Runs : panel'.cards[n] \in Decisions => panel'.initialized
    BY DEF PanelFits
  <2>2. \A n \in Runs : panel'.cards[n] # "absent" =>
            n \in Admitted' /\ runs'[n].approval # "none"
    BY SamePast
  <2>3. panel'.initialized => panel'.starting = 0
    BY <1>4
  <2> QED BY <1>1, <2>1, <2>2, <2>3 DEF PanelFits, Runs
<1> QED BY <1>1, <1>2, <1>3, <1>4

\* The answer to the last first call: the approvals are fetched once more.
LEMMA PanelRenewed ==
    ASSUME History, PanelInv, NEW i \in CallSlots, NEW next, AnswerMakes(i, next),
           call[i].starts, panel.starting = 1, panel.version < MaxVersion,
           panel' = [next EXCEPT !.starting = 0, !.version = @ + 1],
           call' = [call EXCEPT ![i] =
                        [FetchApprovals(panel.version + 1) EXCEPT !.finishes = TRUE]]
    PROVE  PanelInv'
<1> USE DEF PanelInv
<1> DEFINE version == panel.version + 1
           q == [FetchApprovals(version) EXCEPT !.finishes = TRUE]
<1>1. /\ UNCHANGED <<past, broken>> /\ call[i].kind \in {"approvals", "runs"} /\ next \in Panels
      /\ next.version = panel.version /\ next.deciding = panel.deciding
      /\ panel.initialized => next.initialized
      /\ next.initialized => panel.starting = 0
      /\ watch' \in [Runs -> Watches]
  BY DEF AnswerMakes
<1>2. version \in 0..MaxVersion /\ version \in Nat
  BY PanelType, PanelAssumption
<1>3. panel.version \in Nat /\ panel.version < version
  BY PanelType
<1>4. panel' = [next EXCEPT !.starting = 0, !.version = version]
  BY <1>1 DEF Panels
<1> HIDE DEF version
<1>5. /\ panel' \in Panels /\ panel'.version = version /\ panel'.starting = 0
      /\ panel'.open = next.open /\ panel'.cards = next.cards
      /\ panel'.initialized = next.initialized
      /\ panel'.deciding = next.deciding /\ panel'.error = next.error
  <2>1. 0 \in 0..2
    OBVIOUS
  <2> QED BY <1>1, <1>2, <1>4, <2>1 DEF Panels
<1>6. /\ q \in Calls /\ q.kind = "approvals" /\ q.version = version /\ ~q.starts
      /\ q.finishes /\ q.amid = UnderDecision /\ q.since = Now
  BY <1>2, CallsMade
<1>7. call' = [call EXCEPT ![i] = q]
  BY DEF version
<1> HIDE DEF q, PanelInv
<1>8. /\ call' \in [CallSlots -> Calls] /\ call'[i] = q
      /\ \A k \in CallSlots : k # i => call'[k] = call[k]
  BY <1>6, <1>7, CallGets DEF PanelInv, Called
<1>9. /\ panel.open /\ panel'.open
      /\ \A n \in Runs : IsDecided(n)' => IsDecided(n)
      /\ Watched' /\ PanelFits'
  BY <1>5, PanelAnswered
<1> USE DEF PanelInv
<1>10. \A k \in CallSlots : /\ k # i => ~call[k].starts
                            /\ ~call[k].finishes
                            /\ call[k].version \in Nat /\ call[k].version <= panel.version
  BY PanelType DEF StartsFit, CallsFit, WellCalled
<1>11. PanelTypeOK'
  BY <1>1, <1>5, <1>8, TypeKept DEF PanelTypeOK
<1>12. CallsFit'
  <2>1. ASSUME NEW k \in CallSlots PROVE Fits(k)'
    <3>1. CASE k = i
      <4> HIDE DEF PanelInv
      <4>1. UNCHANGED past /\ call'[i].since = Now /\ call'[i].kind = "approvals"
        BY <1>1, <1>6, <1>8
      <4>2. ~call'[i].starts /\ panel'.starting = 0
        BY <1>5, <1>6, <1>8
      <4>3. call'[i].version <= panel'.version
        <5>1. call'[i].version = version /\ panel'.version = version
          BY <1>5, <1>6, <1>8
        <5>2. version <= version
          BY <1>2
        <5> QED BY <5>1, <5>2
      <4>4. Fits(i)'
        BY <4>1, <4>2, <4>3, FitsNew
      <4> QED BY <3>1, <4>4
    <3>2. CASE k # i
      BY <1>1, <1>2, <1>3, <1>5, <1>8, <1>10, <3>2, FitsKept
    <3> QED BY <3>1, <3>2
  <2> QED BY <2>1, AllFit
<1>13. \A k \in CallSlots : /\ ~call'[k].starts
                            /\ call[k].kind = "decide" => call'[k] = call[k]
                            /\ call'[k].kind = "decide" => call'[k] = call[k]
  BY <1>1, <1>6, <1>8, <1>10
<1>14. StartsFit'
  BY <1>1, <1>5, <1>13 DEF StartsFit, CallSlots
<1>15. \A k \in CallSlots : IsLatest(k)' => k = i
  BY <1>3, <1>5, <1>6, <1>8, <1>10 DEF IsLatest
<1>16. DecidedOnce'
  BY <1>1, <1>6, <1>8, <1>9, <1>13, <1>15, DecisionsKept DEF WasDecided
<1>17. InTime'
  BY <1>1, <1>6, <1>8, <1>9, <1>15, InTimeKept
<1>18. ListLooksAgain'
  <2>1. IsLatest(i)'
    BY <1>5, <1>6, <1>8 DEF IsLatest
  <2> QED BY <2>1 DEF ListLooksAgain, Fetching, CallSlots
<1> QED BY <1>9, <1>11, <1>12, <1>14, <1>16, <1>17, <1>18

\* Any other answer to a fetch.
LEMMA PanelEnded ==
    ASSUME History, PanelInv, NEW i \in CallSlots, NEW next, AnswerMakes(i, next),
           ~(call[i].starts /\ panel.starting = 1),
           panel' = [next EXCEPT !.starting = IF call[i].starts THEN @ - 1 ELSE @],
           call' = Done(i)
    PROVE  PanelInv'
<1> USE DEF PanelInv
<1> DEFINE starting == IF call[i].starts THEN panel.starting - 1 ELSE panel.starting
<1>1. /\ UNCHANGED <<past, broken>> /\ call[i].kind \in {"approvals", "runs"} /\ next \in Panels
      /\ next.version = panel.version /\ next.deciding = panel.deciding
      /\ next.starting = panel.starting /\ next.error = panel.error /\ next.open = panel.open
      /\ panel.initialized => next.initialized
      /\ next.initialized => panel.starting = 0
      /\ watch' \in [Runs -> Watches]
  BY DEF AnswerMakes
<1>2. panel' = [next EXCEPT !.starting = starting]
  BY <1>1 DEF Panels
<1>3. /\ call[i].starts => panel.starting = 2 /\ starting = 1
      /\ ~call[i].starts => starting = panel.starting
      /\ starting \in 0..2
  <2>1. panel.starting \in 0..2 /\ (call[i].starts => panel.starting > 0)
    BY PanelType DEF CallsFit, WellCalled
  <2> QED BY <2>1
<1> HIDE DEF starting
<1>4. /\ panel' \in Panels /\ panel'.version = panel.version /\ panel'.starting = starting
      /\ panel'.open = next.open /\ panel'.cards = next.cards
      /\ panel'.initialized = next.initialized
      /\ panel'.deciding = next.deciding /\ panel'.error = next.error
  BY <1>1, <1>2, <1>3 DEF Panels
<1>5. Idle \in Calls /\ Idle.kind = "idle" /\ Idle.version = 0
      /\ ~Idle.starts /\ ~Idle.finishes /\ Idle.since = 1
  BY RunsAsked
<1> DEFINE q == Idle
<1>6. /\ q \in Calls /\ q.kind = "idle" /\ q.version = 0
      /\ ~q.starts /\ ~q.finishes /\ q.since = 1
  BY <1>5
<1>7. call' = [call EXCEPT ![i] = q]
  BY DEF Done
<1> HIDE DEF q, PanelInv
<1>8. /\ call' \in [CallSlots -> Calls] /\ call'[i] = q
      /\ \A k \in CallSlots : k # i => call'[k] = call[k]
  BY <1>6, <1>7, CallGets DEF PanelInv, Called
<1>9. panel'.starting = 0 \/ ~panel'.initialized
  BY <1>1, <1>3, <1>4
<1>10. /\ panel.open /\ panel'.open
       /\ \A n \in Runs : IsDecided(n)' => IsDecided(n)
       /\ Watched' /\ PanelFits'
  BY <1>4, <1>9, PanelAnswered
<1> USE DEF PanelInv
<1>11. panel.version \in Nat /\ panel.starting \in 0..2 /\ broken \in Nat
  BY PanelType
<1>12. PanelTypeOK'
  BY <1>1, <1>4, <1>8, TypeKept DEF PanelTypeOK
<1>13. CallsFit'
  <2>1. ASSUME NEW k \in CallSlots PROVE Fits(k)'
    <3>1. CASE k = i
      BY <1>1, <1>4, <1>6, <1>8, <1>11, <3>1, FitsNew
    <3>2. CASE k # i
      <4>1. /\ call[k].starts => panel.starting > 0
            /\ call[k].finishes => panel.starting = 0
        BY DEF CallsFit, WellCalled
      <4>2. /\ call[k].starts => panel'.starting > 0
            /\ call[k].finishes => panel'.starting = 0
        BY <1>3, <1>4, <4>1
      <4> QED BY <1>1, <1>4, <1>8, <1>11, <3>2, <4>2, FitsKept
    <3> QED BY <3>1, <3>2
  <2> QED BY <2>1, AllFit
<1>14. \A k \in CallSlots : /\ call'[k].starts <=> (call[k].starts /\ k # i)
                            /\ call[k].kind = "decide" => call'[k] = call[k]
                            /\ call'[k].kind = "decide" => call'[k] = call[k]
                            /\ IsLatest(k)' => IsLatest(k) /\ call'[k] = call[k] /\ k # i
  BY <1>1, <1>4, <1>6, <1>8 DEF IsLatest
<1>15. StartsFit'
  <2>1. \A j, k, l \in CallSlots :
            call'[j].starts /\ call'[k].starts /\ call'[l].starts => j = k \/ k = l \/ j = l
    BY <1>14 DEF StartsFit
  <2>2. ASSUME panel'.starting = 1, NEW j \in CallSlots, NEW k \in CallSlots,
               call'[j].starts, call'[k].starts
        PROVE  j = k
    <3>1. call[j].starts /\ call[k].starts /\ j # i /\ k # i
      BY <1>14, <2>2
    <3> QED BY <1>3, <1>4, <2>2, <3>1 DEF StartsFit
  <2>3. ASSUME broken' = 0, panel'.starting = 1 PROVE \E j \in CallSlots : call'[j].starts
    <3>1. CASE call[i].starts
      BY <1>1, <1>3, <1>14, <2>3, <3>1 DEF StartsFit
    <3>2. CASE ~call[i].starts
      BY <1>1, <1>3, <1>4, <1>14, <2>3, <3>2 DEF StartsFit
    <3> QED BY <3>1, <3>2
  <2>4. ASSUME broken' = 0, panel'.starting = 2
        PROVE  \E j, k \in CallSlots : j # k /\ call'[j].starts /\ call'[k].starts
    BY <1>1, <1>3, <1>4, <1>14, <2>4 DEF StartsFit
  <2>5. (broken' = 0 /\ panel'.deciding # 0) =>
            \E j \in CallSlots : call'[j].kind = "decide" /\ call'[j].run = panel'.deciding
    BY <1>1, <1>4, <1>14 DEF StartsFit
  <2> QED BY <2>1, <2>2, <2>3, <2>4, <2>5 DEF StartsFit, CallSlots
<1>16. DecidedOnce'
  BY <1>1, <1>10, <1>14, DecisionsKept DEF WasDecided
<1>17. ASSUME panel'.starting = 0
       PROVE  /\ panel.starting = 0 /\ ~call[i].starts
              /\ \A n \in Runs : watch'[n].first => watch[n].first /\ watch'[n].at = watch[n].at
  BY <1>3, <1>4, <1>17 DEF AnswerMakes
<1>18. InTime'
  BY <1>1, <1>10, <1>14, <1>17, InTimeKept
<1>19. ListLooksAgain'
  <2> SUFFICES ASSUME broken = 0, panel'.starting = 0, ~panel.error
               PROVE  Fetching' \/ Deciding' \/ DecidedUntold' \/ AllShown'
    <3> HIDE DEF PanelInv
    <3>1. starting > 0 \/ starting = 0
      BY <1>3
    <3>2. broken' = broken /\ panel'.error = panel.error
      BY <1>1, <1>4
    <3>3. panel'.starting > 0 \/ panel'.starting = 0
      BY <1>4, <3>1
    <3> QED BY <3>2, <3>3 DEF ListLooksAgain
  <2>1. /\ panel.starting = 0
        /\ \A n \in Runs : watch'[n].first => watch[n].first /\ watch'[n].at = watch[n].at
    BY <1>17
  <2>2. /\ runs' = runs
        /\ \A n : ShownTo(ApprovalEvents, n)' = ShownTo(ApprovalEvents, n)
    BY <1>1, SamePast
  <2>3. ASSUME NEW n \in Runs, watch'[n].first, Untold(n) PROVE Untold(n)'
    BY <2>1, <2>2, <2>3 DEF Untold
  <2>4. \A n \in Runs : ShowsWith(panel'.cards, n) => Shows(n)'
    BY <1>14, <2>2 DEF ShowsWith, Shows, CallSlots
  <2>5. CASE \A n \in Runs : watch'[n].first => Untold(n)' \/ ShowsWith(next.cards, n)
    BY <1>4, <2>4, <2>5 DEF AllShown, Runs
  <2>6. CASE next.cards = panel.cards /\ ~IsLatest(i)
    <3>1. Fetching => Fetching'
      <4>1. ASSUME NEW k \in CallSlots, IsLatest(k) PROVE IsLatest(k)'
        BY <1>4, <1>1, <1>8, <2>6, <4>1 DEF IsLatest
      <4> QED BY <4>1 DEF Fetching, CallSlots
    <3>2. Deciding => Deciding'
      <4> SUFFICES ASSUME NEW k \in CallSlots, ToBeTold(k) PROVE ToBeTold(k)'
        BY DEF Deciding, CallSlots
      <4>1. call[k].kind = "decide" /\ call'[k] = call[k]
        BY <1>14 DEF ToBeTold
      <4>2. PICK n \in Runs : n = call[k].run
        BY <1>1, <4>1, AtPresent, PanelType DEF CallsFit, WellCalled
      <4>3. (call[k].outcome = "done" /\ watch'[n].first) => Untold(n)'
        BY <2>1, <2>3, <4>2 DEF ToBeTold
      <4> QED BY <4>1, <4>2, <4>3 DEF ToBeTold
    <3>3. DecidedUntold => DecidedUntold'
      <4> SUFFICES ASSUME NEW n \in Runs, IsDecided(n), watch[n].first => Untold(n)
                   PROVE  IsDecided(n)' /\ (watch'[n].first => Untold(n)')
        BY DEF DecidedUntold, Runs
      <4> QED BY <1>4, <2>1, <2>3, <2>6 DEF IsDecided
    <3>4. AllShown => AllShown'
      <4> SUFFICES ASSUME NEW n \in Runs, watch'[n].first, Untold(n) \/ Shows(n)
                   PROVE  Untold(n)' \/ Shows(n)'
        BY <2>1 DEF AllShown, Runs
      <4>1. Shows(n) => ShowsWith(panel'.cards, n)
        BY <1>4, <2>6 DEF Shows, ShowsWith
      <4> QED BY <2>3, <2>4, <4>1
    <3>5. Fetching \/ Deciding \/ DecidedUntold \/ AllShown
      BY <1>10, <2>1 DEF ListLooksAgain
    <3> QED BY <3>1, <3>2, <3>3, <3>4, <3>5
  <2> QED BY <2>1, <2>5, <2>6 DEF AnswerMakes
<1> QED BY <1>10, <1>12, <1>13, <1>15, <1>16, <1>18, <1>19

LEMMA PanelAnswers ==
    ASSUME History, PanelInv, NEW i \in CallSlots, NEW next, AnswerMakes(i, next),
           Answered(i, next)
    PROVE  PanelInv'
<1>1. CASE call[i].starts /\ panel.starting = 1
  BY <1>1, PanelRenewed DEF Answered
<1>2. CASE ~(call[i].starts /\ panel.starting = 1)
  BY <1>2, PanelEnded DEF Answered
<1> QED BY <1>1, <1>2

\* The approvals that are pending at a moment are of admitted runs.
LEMMA PendingRead ==
    ASSUME History, NEW m \in 1..Now, NEW n \in PendingAt(m)
    PROVE  n \in Runs /\ n \in Admitted /\ runs[n].approval # "none"
<1>1. n \in 1..Len(past[m]) /\ past[m][n].approval = "pending" /\ Now \in 1..Now /\ m <= Now
  BY AtMoment DEF PendingAt
<1>2. n \in 1..Len(past[Now]) /\ Follows(past[m][n], past[Now][n])
  BY <1>1, SincePast
<1>3. n \in Admitted
  BY <1>2 DEF Admitted, runs
<1>4. n \in RunNumbers
  BY <1>3, AtPresent
<1> QED BY <1>1, <1>2, <1>3, <1>4 DEF Follows, runs, Runs, RunNumbers

\* The answer to the latest fetch of approvals shows what is pending, of the runs of
\* which there is no event to come: since it was made, none of them was decided
\* or has come to wait.
LEMMA LatestShows ==
    ASSUME History, PanelInv, broken = 0, panel.starting = 0,
           NEW i \in CallSlots, IsLatest(i), NEW m \in call[i].since..Now,
           NEW n \in Runs, watch[n].first, ~Untold(n)
    PROVE  ShowsWith(Merged(PendingAt(m)), n)
<1> USE DEF PanelInv
<1>1. PICK s \in 1..Now : s = call[i].since
  BY DEF CallsFit, WellCalled
<1>2. m \in 1..Now /\ Now \in 1..Now /\ s <= m /\ m <= Now
  BY <1>1, AtMoment
<1>3. /\ n \in 1..Len(past[s])
      /\ \A k \in ShownTo(ApprovalEvents, n) : k <= watch[n].at => k <= LengthAt(n, s)
  BY <1>1 DEF InTime
<1>4. /\ n \in 1..Len(past[m]) /\ Follows(past[s][n], past[m][n])
      /\ n \in 1..Len(past[Now]) /\ Follows(past[m][n], past[Now][n])
  <2>1. n \in 1..Len(past[m]) /\ Follows(past[s][n], past[m][n])
    BY <1>2, <1>3, SincePast
  <2>2. n \in 1..Len(past[Now]) /\ Follows(past[m][n], past[Now][n])
    BY <1>2, <2>1, SincePast
  <2> QED BY <2>1, <2>2
<1>5. /\ LengthAt(n, s) \in Nat /\ LengthAt(n, m) \in Nat /\ LengthAt(n, s) <= LengthAt(n, m)
      /\ n \in Admitted /\ watch[n].at \in Nat
  <2>1. n \in Admitted /\ n \in RunNumbers
    BY <1>4, AtPresent DEF Admitted, runs
  <2> QED BY <1>2, <1>3, <1>4, <2>1, AtMoment, MaxLogsType, PanelType DEF Follows, LengthAt
<1>6. runs[n].approval \in {past[m][n].approval, "expired"}
  <2> SUFFICES ASSUME runs[n].approval \notin {past[m][n].approval, "expired"} PROVE FALSE
    OBVIOUS
  <2>1. PICK k \in LengthAt(n, m) + 1..LogLength(n) : runs[n].log[k] \in ApprovalEvents
    BY <1>4 DEF Follows, LengthAt, LogLength, runs
  <2>2. k \in Nat /\ k > LengthAt(n, s) /\ k \in 1..LogLength(n)
    BY <1>5, <2>1
  <2>3. k \in ShownTo(ApprovalEvents, n)
    BY <2>1, <2>2 DEF ShownTo
  <2>4. k > watch[n].at
    BY <1>3, <1>5, <2>2, <2>3
  <2> QED BY <2>3, <2>4 DEF Untold
<1>7. runs[n].approval = "pending" => Merged(PendingAt(m))[n] = "pending"
  BY <1>4, <1>6 DEF Merged, PendingAt
<1>8. ASSUME Merged(PendingAt(m))[n] = "pending", n \notin PendingAt(m)
      PROVE  panel.deciding = n
  BY <1>8 DEF Merged, Decisions
<1>9. panel.deciding = n => \E j \in CallSlots : call[j].kind = "decide" /\ call[j].run = n
  BY PanelType DEF StartsFit
<1>10. n \in PendingAt(m) => runs[n].approval \in {"pending", "expired"}
  BY <1>6 DEF PendingAt
<1> QED BY <1>7, <1>8, <1>9, <1>10 DEF ShowsWith

LEMMA PanelTakesApprovals ==
    ASSUME History, PanelInv, NEW i \in CallSlots, TakeApprovals(i)
    PROVE  PanelInv'
<1> USE DEF PanelInv
<1>1. call[i].kind = "approvals" /\ UNCHANGED <<past, watch, broken>>
  BY DEF TakeApprovals
<1>2. /\ panel \in Panels /\ watch \in [Runs -> Watches]
      /\ \A n \in Runs : /\ watch[n].first => watch[n].on
                         /\ watch[n].on => n \in Admitted /\ watch[n].at <= LogLength(n)
      /\ \A n \in Runs : panel.cards[n] # "absent" => n \in Admitted /\ runs[n].approval # "none"
      /\ panel.initialized => panel.starting = 0
  BY PanelType DEF Watched, PanelFits
<1>3. CASE call[i].version # panel.version
  <2>1. AnswerMakes(i, panel)
    <3>1. panel.cards = panel.cards /\ ~IsLatest(i)
      BY <1>3 DEF IsLatest
    <3> HIDE DEF PanelInv
    <3> QED BY <1>1, <1>2, <3>1 DEF AnswerMakes
  <2>2. Answered(i, panel)
    BY <1>3 DEF TakeApprovals
  <2>3. PICK next : next = panel
    OBVIOUS
  <2> HIDE DEF PanelInv
  <2>4. AnswerMakes(i, next) /\ Answered(i, next)
    BY <2>1, <2>2, <2>3
  <2> QED BY <2>4, PanelAnswers
<1>4. CASE call[i].version = panel.version
  <2>1. PICK m \in call[i].since..Now :
            Answered(i, [panel EXCEPT !.cards = Merged(PendingAt(m)),
                                      !.initialized = @ \/ call[i].finishes])
    BY <1>4 DEF TakeApprovals
  <2> DEFINE next == [panel EXCEPT !.cards = Merged(PendingAt(m)),
                                   !.initialized = @ \/ call[i].finishes]
             cards == Merged(PendingAt(m))
             initialized == panel.initialized \/ call[i].finishes
  <2>2. m \in 1..Now
    BY AtMoment DEF CallsFit, WellCalled
  <2>3. /\ cards \in Cards
        /\ \A n \in Runs : cards[n] \in Decisions => cards[n] = panel.cards[n]
        /\ \A n \in Runs : cards[n] # "absent" => n \in PendingAt(m) \/ cards[n] = panel.cards[n]
    BY PanelType DEF Merged, Cards, Decisions
  <2>4. \A n \in Runs : cards[n] # "absent" => n \in Admitted /\ runs[n].approval # "none"
    BY <1>2, <2>2, <2>3, PendingRead
  <2>5. initialized \in BOOLEAN /\ (initialized => panel.starting = 0)
    BY <1>2, PanelType DEF CallsFit, WellCalled
  <2>6. next = [panel EXCEPT !.cards = cards, !.initialized = initialized]
    BY <1>2 DEF Panels
  <2>7. broken = 0 /\ panel.starting = 0 =>
            \A n \in Runs : watch[n].first => Untold(n) \/ ShowsWith(cards, n)
    BY <1>1, <1>4, LatestShows DEF IsLatest
  <2> HIDE DEF cards, initialized, next
  <2>8. /\ next \in Panels /\ next.cards = cards /\ next.initialized = initialized
        /\ next.open = panel.open /\ next.deciding = panel.deciding /\ next.error = panel.error
        /\ next.version = panel.version /\ next.starting = panel.starting
    BY <1>2, <2>3, <2>5, <2>6 DEF Panels, Cards
  <2>9. \A n \in Runs : Untold(n)' <=> Untold(n)
    BY <1>1, SamePast DEF Untold
  <2>10. panel.initialized => initialized
    BY DEF initialized
  <2> HIDE DEF PanelInv
  <2>11. AnswerMakes(i, next)
    BY <1>1, <1>2, <2>3, <2>4, <2>5, <2>7, <2>8, <2>9, <2>10 DEF AnswerMakes
  <2>12. Answered(i, next)
    BY <2>1 DEF next
  <2> QED BY <2>11, <2>12, PanelAnswers
<1> QED BY <1>3, <1>4

\* What a list of runs says of a run.
LEMMA ListingRead ==
    ASSUME History, NEW m \in 1..Now, NEW list \in Listings(m), NEW n \in DOMAIN list
    PROVE  /\ n \in Admitted
           /\ list[n].at \in Positions /\ list[n].at <= LogLength(n)
<1>1. DOMAIN list = 1..Len(past[m]) /\ list[n] \in Rows(n, m)
  BY DEF Listings
<1>2. PICK at \in Changes(n, m) \X Changes(n, m) : list[n].at = LengthAt(n, at[2])
  BY <1>1 DEF Rows
<1>3. PICK k \in Changes(n, m) : k = at[2]
  BY <1>2
<1>4. k \in 1..Now /\ Now \in 1..Now /\ m <= k /\ k <= Now
  BY AtMoment DEF Changes
<1>5. n \in 1..Len(past[k])
  BY <1>1, <1>4, SincePast
<1>6. n \in 1..Len(past[Now]) /\ Follows(past[k][n], past[Now][n])
  BY <1>4, <1>5, SincePast
<1>7. n \in Admitted /\ n \in RunNumbers
  BY <1>6, AtPresent DEF Admitted, runs
<1>8. LengthAt(n, k) \in Positions /\ LengthAt(n, k) <= LogLength(n)
  BY <1>4, <1>5, <1>6, <1>7, AtMoment DEF Follows, LengthAt, LogLength, runs
<1> QED BY <1>2, <1>3, <1>7, <1>8

LEMMA PanelTakesRuns ==
    ASSUME History, PanelInv, NEW i \in CallSlots, TakeRuns(i)
    PROVE  PanelInv'
<1> USE DEF PanelInv
<1>1. /\ call[i].kind = "runs" /\ UNCHANGED <<past, broken>> /\ Answered(i, panel)
      /\ panel \in Panels
  BY PanelType DEF TakeRuns
<1>2. PICK m \in call[i].since..Now : \E list \in Listings(m) :
        watch' = [n \in Runs |->
                    IF n \notin DOMAIN list \/ ~list[n].live THEN NotWatched
                    ELSE IF watch[n].on THEN watch[n]
                    ELSE [on |-> TRUE, at |-> list[n].at, first |-> call[i].starts]]
  BY DEF TakeRuns
<1>3. PICK list \in Listings(m) :
        watch' = [n \in Runs |->
                    IF n \notin DOMAIN list \/ ~list[n].live THEN NotWatched
                    ELSE IF watch[n].on THEN watch[n]
                    ELSE [on |-> TRUE, at |-> list[n].at, first |-> call[i].starts]]
  BY <1>2
<1>4. m \in 1..Now
  BY AtMoment DEF CallsFit, WellCalled
<1>5. /\ watch \in [Runs -> Watches]
      /\ \A n \in Runs : /\ watch[n].first => watch[n].on
                         /\ watch[n].on => n \in Admitted /\ watch[n].at <= LogLength(n)
      /\ \A n \in Runs : panel.cards[n] # "absent" => n \in Admitted /\ runs[n].approval # "none"
      /\ panel.initialized => panel.starting = 0
      /\ call[i].starts \in BOOLEAN
      /\ NotWatched \in Watches /\ ~NotWatched.on /\ ~NotWatched.first
      /\ Watches = [on: BOOLEAN, at: Positions, first: BOOLEAN]
  BY PanelType, MaxLogsType DEF Watched, PanelFits, NotWatched, Calls
<1>6. ASSUME NEW n \in Runs
      PROVE  \/ watch'[n] = NotWatched
             \/ watch[n].on /\ watch'[n] = watch[n]
             \/ /\ watch'[n] = [on |-> TRUE, at |-> list[n].at, first |-> call[i].starts]
                /\ n \in DOMAIN list
  BY <1>3
<1>7. ASSUME NEW n \in Runs
      PROVE  /\ watch'[n] \in Watches
             /\ watch'[n].first => watch'[n].on
             /\ watch'[n].on => n \in Admitted /\ watch'[n].at <= LogLength(n)
             /\ watch'[n].first /\ ~call[i].starts =>
                    watch[n].first /\ watch'[n].at = watch[n].at
  <2> HIDE DEF PanelInv
  <2>1. CASE watch'[n] = NotWatched
    BY <1>5, <2>1
  <2>2. CASE watch[n].on /\ watch'[n] = watch[n]
    BY <1>5, <2>2
  <2>3. CASE /\ watch'[n] = [on |-> TRUE, at |-> list[n].at, first |-> call[i].starts]
             /\ n \in DOMAIN list
    BY <1>4, <1>5, <2>3, ListingRead
  <2> QED BY <1>6, <2>1, <2>2, <2>3
<1>8. watch' \in [Runs -> Watches]
  <2>1. DOMAIN watch' = Runs /\ watch' = [n \in Runs |-> watch'[n]]
    BY <1>3
  <2> HIDE DEF PanelInv
  <2> QED BY <1>7, <2>1
<1>9. panel.cards = panel.cards /\ ~IsLatest(i)
  BY <1>1 DEF IsLatest
<1> HIDE DEF PanelInv
<1>10. AnswerMakes(i, panel)
  BY <1>1, <1>5, <1>7, <1>8, <1>9 DEF AnswerMakes
<1>11. PICK next : next = panel
  OBVIOUS
<1>12. AnswerMakes(i, next) /\ Answered(i, next)
  BY <1>1, <1>10, <1>11
<1> QED BY <1>12, PanelAnswers

\* The answer to a decision.
LEMMA PanelTakesDecision ==
    ASSUME History, PanelInv, NEW i \in CallSlots, TakeDecision(i)
    PROVE  PanelInv'
<1> USE DEF PanelInv
<1>1. /\ call[i].kind = "decide" /\ call[i].outcome \in {"done", "refused"}
      /\ UNCHANGED <<past, watch, broken>>
  BY PanelType DEF TakeDecision, Calls
<1>2. PICK n \in Admitted : n = call[i].run
  BY <1>1 DEF CallsFit, WellCalled
<1>3. n \in Runs /\ n # 0 /\ panel.initialized /\ panel.starting = 0 /\ panel.open
  BY <1>1, AtPresent, PanelType DEF CallsFit, WellCalled, PanelFits
<1> DEFINE card == IF call[i].outcome = "done" THEN call[i].decision ELSE panel.cards[n]
           failed == panel.error \/ call[i].outcome = "refused"
<1>4. panel \in Panels /\ card \in {"absent", "pending"} \cup Decisions /\ failed \in BOOLEAN
  BY <1>3, PanelType DEF Cards, Calls
<1>5. /\ panel' = [panel EXCEPT !.cards = [panel.cards EXCEPT ![n] = card],
                                !.deciding = 0, !.error = failed]
      /\ call' = [call EXCEPT ![i] = Idle]
  BY <1>2, <1>4 DEF TakeDecision, Done, Panels
<1>6. card \in Decisions => WasDecided(i) \/ (IsDecided(n) /\ card = panel.cards[n])
  <2>1. call[i].outcome # "done" => card = panel.cards[n]
    OBVIOUS
  <2>2. call[i].outcome = "done" => WasDecided(i)
    BY <1>1 DEF WasDecided
  <2> HIDE DEF PanelInv, card
  <2> QED BY <2>1, <2>2 DEF IsDecided
<1>7. WasDecided(i) => card \in Decisions
  BY PanelType DEF WasDecided, Calls
<1>8. card # "absent" => WasDecided(i) \/ panel.cards[n] # "absent"
  BY <1>1 DEF WasDecided
<1>9. WasDecided(i) \/ failed
  BY <1>1 DEF WasDecided
<1> DEFINE cards == [panel.cards EXCEPT ![n] = card]
<1> HIDE DEF card, failed
<1>10. cards \in Cards /\ cards[n] = card /\ \A k \in Runs : k # n => cards[k] = panel.cards[k]
  BY <1>3, <1>4, PanelType DEF Cards
<1> HIDE DEF cards
<1>11. /\ panel' \in Panels /\ panel'.cards = cards /\ panel'.deciding = 0
       /\ panel'.error = failed
       /\ panel'.open = panel.open /\ panel'.version = panel.version
       /\ panel'.starting = panel.starting /\ panel'.initialized = panel.initialized
  <2>1. panel' = [panel EXCEPT !.cards = cards, !.deciding = 0, !.error = failed]
    BY <1>5 DEF cards
  <2> HIDE DEF PanelInv
  <2> QED BY <1>4, <1>10, <2>1 DEF Panels, Cards
<1>12. Idle \in Calls /\ Idle.kind = "idle" /\ Idle.version = 0
       /\ ~Idle.starts /\ ~Idle.finishes /\ Idle.since = 1
  BY RunsAsked
<1> DEFINE q == Idle
<1>13. /\ q \in Calls /\ q.kind = "idle" /\ q.version = 0
       /\ ~q.starts /\ ~q.finishes /\ q.since = 1
       /\ call' = [call EXCEPT ![i] = q]
  BY <1>5, <1>12
<1> HIDE DEF q, PanelInv
<1>14. /\ call' \in [CallSlots -> Calls] /\ call'[i] = q
       /\ \A k \in CallSlots : k # i => call'[k] = call[k]
  BY <1>13, CallGets DEF PanelInv, Called
<1> USE DEF PanelInv
<1>15. panel.version \in Nat /\ broken \in Nat
  BY PanelType
<1>16. PanelTypeOK'
  BY <1>1, <1>11, <1>14, TypeKept DEF PanelTypeOK
<1>17. CallsFit'
  <2>1. ASSUME NEW k \in CallSlots PROVE Fits(k)'
    <3>1. CASE k = i
      BY <1>1, <1>11, <1>13, <1>14, <1>15, <3>1, FitsNew
    <3>2. CASE k # i
      <4>1. /\ call[k].starts => panel.starting > 0
            /\ call[k].finishes => panel.starting = 0
        BY DEF CallsFit, WellCalled
      <4> QED BY <1>1, <1>11, <1>14, <1>15, <3>2, <4>1, FitsKept
    <3> QED BY <3>1, <3>2
  <2> QED BY <2>1, AllFit
<1>18. \A k \in CallSlots : /\ call'[k].starts => call'[k] = call[k]
                            /\ call'[k].kind = "decide" => call'[k] = call[k] /\ k # i
                            /\ WasDecided(k)' => WasDecided(k) /\ call'[k] = call[k] /\ k # i
                            /\ IsLatest(k)' => IsLatest(k) /\ call'[k] = call[k]
  BY <1>11, <1>13, <1>14 DEF IsLatest, WasDecided
<1>19. StartsFit'
  BY <1>3, <1>11, <1>18 DEF StartsFit, CallSlots
<1>20. PanelFits'
  <2>1. \A k \in Runs : panel'.cards[k] # "absent" =>
            k \in Admitted /\ runs[k].approval # "none"
    BY <1>2, <1>8, <1>10, <1>11 DEF PanelFits, DecidedOnce
  <2> QED BY <1>1, <1>3, <1>11, <2>1, SamePast DEF PanelFits, Runs
<1>21. \A k \in Runs : IsDecided(k)' => IsDecided(k) \/ (k = n /\ WasDecided(i))
  BY <1>6, <1>10, <1>11 DEF IsDecided
<1>22. DecidedOnce'
  <2>1. runs' = runs /\ Now' = Now /\ \A m : PendingAt(m)' = PendingAt(m)
    BY <1>1, SamePast DEF PendingAt
  <2>2. \A k \in CallSlots :
            WasDecided(k)' => runs'[call'[k].run].approval \notin {"none", "pending"}
    BY <1>18, <2>1 DEF DecidedOnce
  <2>3. \A j, k \in CallSlots :
            WasDecided(j)' /\ WasDecided(k)' /\ call'[j].run = call'[k].run => j = k
    BY <1>18 DEF DecidedOnce
  <2>4. ASSUME NEW k \in Runs, IsDecided(k)'
        PROVE  /\ runs'[k].approval \notin {"none", "pending"}
               /\ \A j \in CallSlots : WasDecided(j)' => call'[j].run # k
    <3>1. CASE IsDecided(k)
      BY <1>18, <2>1, <3>1 DEF DecidedOnce
    <3>2. CASE k = n /\ WasDecided(i)
      BY <1>2, <1>18, <2>1, <3>2 DEF DecidedOnce
    <3> QED BY <1>21, <2>4, <3>1, <3>2
  <2>5. ASSUME NEW j \in CallSlots, IsLatest(j)'
        PROVE  /\ \A k \in CallSlots : call'[k].kind = "decide" => call'[k].run \in call'[j].amid
               /\ \A k \in Runs : IsDecided(k)' =>
                    k \in call'[j].amid \/ \A m \in call'[j].since..Now' : k \notin PendingAt(m)'
    <3>1. IsLatest(j) /\ call'[j] = call[j]
      BY <1>18, <2>5
    <3>2. \A k \in CallSlots : call'[k].kind = "decide" => call'[k].run \in call'[j].amid
      BY <1>18, <3>1 DEF DecidedOnce
    <3>3. n \in call'[j].amid
      BY <1>1, <1>2, <3>1 DEF DecidedOnce
    <3>4. \A k \in Runs : IsDecided(k) =>
            k \in call'[j].amid \/ \A m \in call'[j].since..Now : k \notin PendingAt(m)
      BY <3>1 DEF DecidedOnce
    <3> QED BY <1>21, <2>1, <3>2, <3>3, <3>4
  <2> QED BY <2>2, <2>3, <2>4, <2>5 DEF DecidedOnce, CallSlots, Runs
<1>23. Watched'
  BY <1>1, SamePast DEF Watched, Runs
<1>24. InTime'
  BY <1>1, <1>3, <1>18, <1>23, InTimeKept
<1>25. ListLooksAgain'
  <2> SUFFICES ASSUME broken = 0, ~failed
               PROVE  Fetching' \/ Deciding' \/ DecidedUntold' \/ AllShown'
    <3>1. broken' = broken /\ panel'.error = failed
      BY <1>1, <1>11
    <3> HIDE DEF PanelInv
    <3> QED BY <3>1 DEF ListLooksAgain
  <2>1. WasDecided(i) /\ ~panel.error
    BY <1>9 DEF failed
  <2>2. /\ runs' = runs /\ watch' = watch
        /\ \A k \in Runs : Untold(k)' <=> Untold(k)
    BY <1>1, SamePast DEF Untold
  <2>3. IsDecided(n)'
    BY <1>7, <1>10, <1>11, <2>1 DEF IsDecided
  <2>4. (watch[n].first => Untold(n)) => DecidedUntold'
    BY <1>3, <2>2, <2>3 DEF DecidedUntold, Runs
  <2>5. Fetching => Fetching'
    <3>1. ASSUME NEW k \in CallSlots, IsLatest(k) PROVE IsLatest(k)'
      BY <1>1, <1>11, <1>14, <3>1 DEF IsLatest
    <3> QED BY <3>1 DEF Fetching, CallSlots
  <2>6. Deciding => Deciding' \/ DecidedUntold'
    <3> SUFFICES ASSUME NEW k \in CallSlots, ToBeTold(k) PROVE Deciding' \/ DecidedUntold'
      BY DEF Deciding
    <3>1. CASE k = i
      BY <1>2, <2>1, <2>4, <3>1 DEF ToBeTold, WasDecided
    <3>2. CASE k # i
      <4>1. PICK r \in Runs : r = call[k].run
        BY AtPresent, PanelType DEF ToBeTold, CallsFit, WellCalled
      <4>2. call[k].outcome = "done" /\ watch'[r].first => Untold(r)'
        BY <2>2, <4>1 DEF ToBeTold
      <4>3. call'[k] = call[k]
        BY <1>14, <3>2
      <4>4. ToBeTold(k)'
        BY <4>1, <4>2, <4>3 DEF ToBeTold
      <4> QED BY <4>4 DEF Deciding, CallSlots
    <3> QED BY <3>1, <3>2
  <2>7. DecidedUntold => DecidedUntold'
    <3> SUFFICES ASSUME NEW k \in Runs, IsDecided(k), watch[k].first => Untold(k)
                 PROVE  IsDecided(k)' /\ (watch'[k].first => Untold(k)')
      BY DEF DecidedUntold, Runs
    <3>1. IsDecided(k)'
      BY <1>10, <1>11, <2>3 DEF IsDecided
    <3> QED BY <2>2, <3>1
  <2>8. AllShown => DecidedUntold' \/ AllShown'
    <3> SUFFICES ASSUME AllShown, ~(watch[n].first => Untold(n)) PROVE AllShown'
      BY <2>4
    <3>1. ASSUME NEW k \in Runs, watch'[k].first PROVE Untold(k)' \/ Shows(k)'
      <4>1. CASE k = n
        <5>1. runs[n].approval # "pending" /\ cards[n] # "pending"
          BY <1>2, <1>7, <1>10, <2>1 DEF DecidedOnce, Decisions
        <5> QED BY <1>11, <2>2, <4>1, <5>1 DEF Shows
      <4>2. CASE k # n
        <5>1. Untold(k) \/ Shows(k)
          BY <2>2, <3>1 DEF AllShown
        <5>2. panel'.cards[k] = panel.cards[k]
          BY <1>10, <1>11, <4>2
        <5>3. \A j \in CallSlots :
                call[j].kind = "decide" /\ call[j].run = k => call'[j] = call[j]
          BY <1>2, <1>14, <4>2
        <5> QED BY <2>2, <5>1, <5>2, <5>3 DEF Shows, CallSlots
      <4> QED BY <4>1, <4>2
    <3> QED BY <3>1 DEF AllShown, Runs
  <2>9. Fetching \/ Deciding \/ DecidedUntold \/ AllShown
    BY <1>3, <2>1 DEF ListLooksAgain
  <2> QED BY <2>5, <2>6, <2>7, <2>8, <2>9
<1> QED BY <1>16, <1>17, <1>19, <1>20, <1>22, <1>23, <1>24, <1>25

\* A call fails: the page says so, and expects nothing more of it.
LEMMA PanelBreaks ==
    ASSUME History, PanelInv, NEW i \in CallSlots, Break(i)
    PROVE  PanelInv'
<1> USE DEF PanelInv
<1> DEFINE deciding == IF call[i].kind = "decide" THEN 0 ELSE panel.deciding
<1>1. /\ UNCHANGED <<past, watch>> /\ broken' = broken + 1 /\ broken < MaxBroken
      /\ call[i].kind # "idle"
      /\ panel' = [panel EXCEPT !.deciding = deciding, !.error = TRUE]
      /\ call' = [call EXCEPT ![i] = Idle]
  BY PanelType DEF Break, Done, Panels
<1>2. deciding \in Runs \cup {0}
  BY PanelType
<1>3. panel \in Panels /\ broken \in Nat /\ panel.version \in Nat /\ MaxBroken \in Nat
  BY PanelType, PanelAssumption
<1> HIDE DEF deciding
<1>4. /\ panel' \in Panels /\ panel'.error
      /\ panel'.cards = panel.cards
      /\ panel'.open = panel.open /\ panel'.version = panel.version
      /\ panel'.starting = panel.starting /\ panel'.initialized = panel.initialized
  BY <1>1, <1>2, <1>3 DEF Panels
<1>5. Idle \in Calls /\ Idle.kind = "idle" /\ Idle.version = 0
      /\ ~Idle.starts /\ ~Idle.finishes /\ Idle.since = 1
  BY RunsAsked
<1> DEFINE q == Idle
<1>6. /\ q \in Calls /\ q.kind = "idle" /\ q.version = 0
      /\ ~q.starts /\ ~q.finishes /\ q.since = 1
      /\ call' = [call EXCEPT ![i] = q]
  BY <1>1, <1>5
<1> HIDE DEF q, PanelInv
<1>7. /\ call' \in [CallSlots -> Calls] /\ call'[i] = q
      /\ \A k \in CallSlots : k # i => call'[k] = call[k]
  BY <1>6, CallGets DEF PanelInv, Called
<1>8. broken' \in 0..MaxBroken /\ broken' # 0
  BY <1>1, <1>3
<1> USE DEF PanelInv
<1>9. panel.open
  BY <1>1, PanelType DEF PanelFits
<1>10. PanelTypeOK'
  BY <1>1, <1>4, <1>7, <1>8, TypeKept DEF PanelTypeOK
<1>11. CallsFit'
  <2>1. ASSUME NEW k \in CallSlots PROVE Fits(k)'
    <3>1. CASE k = i
      BY <1>1, <1>3, <1>4, <1>6, <1>7, <3>1, FitsNew
    <3>2. CASE k # i
      <4>1. /\ call[k].starts => panel.starting > 0
            /\ call[k].finishes => panel.starting = 0
        BY DEF CallsFit, WellCalled
      <4> QED BY <1>1, <1>3, <1>4, <1>7, <3>2, <4>1, FitsKept
    <3> QED BY <3>1, <3>2
  <2> QED BY <2>1, AllFit
<1>12. \A k \in CallSlots : /\ call'[k].starts => call'[k] = call[k]
                            /\ call'[k].kind = "decide" => call'[k] = call[k]
                            /\ IsLatest(k)' => IsLatest(k) /\ call'[k] = call[k]
  BY <1>4, <1>6, <1>7 DEF IsLatest
<1>13. StartsFit'
  BY <1>4, <1>8, <1>12 DEF StartsFit, CallSlots
<1>14. PanelFits'
  BY <1>1, <1>4, <1>9, SamePast DEF PanelFits, Runs
<1>15. DecidedOnce'
  <2>1. \A n \in Runs : IsDecided(n)' => IsDecided(n)
    BY <1>4 DEF IsDecided
  <2> QED BY <1>1, <1>12, <2>1, DecisionsKept DEF WasDecided
<1>16. Watched'
  BY <1>1, SamePast DEF Watched, Runs
<1>17. InTime'
  BY <1>1, <1>4, <1>12, <1>16, InTimeKept
<1>18. ListLooksAgain'
  BY <1>8 DEF ListLooksAgain
<1> QED BY <1>10, <1>11, <1>13, <1>14, <1>15, <1>16, <1>17, <1>18

\* The server decides, or refuses to.
LEMMA PanelServed ==
    ASSUME History, PanelInv, NEW i \in CallSlots, ServerDecides(i)
    PROVE  Grows /\ PanelInv'
<1>1. /\ call[i].kind = "decide" /\ call[i].outcome = "open"
      /\ UNCHANGED <<panel, watch, broken>>
      /\ call[i] \in Calls /\ call \in [CallSlots -> Calls]
  BY PanelType DEF PanelInv, ServerDecides
<1>2. PICK n \in Admitted : n = call[i].run
  BY <1>1 DEF PanelInv, CallsFit, WellCalled
<1>3. PICK d \in Decisions : d = call[i].decision
  BY <1>1 DEF Calls
<1> DEFINE Outcome(outcome) == call' = [call EXCEPT ![i].outcome = outcome]
<1>4. \/ DecideApproval(n, d) /\ Outcome("done")
      \/ ExpireOnDecide(n) /\ Outcome("refused")
      \/ UNCHANGED past /\ Outcome("refused")
  BY <1>2, <1>3 DEF ServerDecides
<1>5. ASSUME NEW outcome \in {"done", "refused"}, Outcome(outcome)
      PROVE  /\ SameCalls
             /\ call'[i].outcome = outcome
             /\ \A j \in CallSlots : WasDecided(j)' => WasDecided(j) \/ (j = i /\ outcome = "done")
  <2>1. call' \in [CallSlots -> Calls] /\ \A j \in CallSlots : j # i => call'[j] = call[j]
    BY <1>1, <1>5 DEF Calls
  <2>2. call'[i] = [call[i] EXCEPT !.outcome = outcome]
    BY <1>1, <1>5
  <2>3. /\ call'[i].kind = call[i].kind /\ call'[i].version = call[i].version
        /\ call'[i].starts = call[i].starts /\ call'[i].finishes = call[i].finishes
        /\ call'[i].amid = call[i].amid /\ call'[i].run = call[i].run
        /\ call'[i].since = call[i].since /\ call'[i].outcome = outcome
    <3>1. PICK c \in Calls : c = call[i]
      BY <1>1
    <3> QED BY <2>2, <3>1 DEF Calls
  <2> QED BY <2>1, <2>3 DEF SameCalls, WasDecided
<1>6. CASE DecideApproval(n, d) /\ Outcome("done")
  <2>1. Grows
    BY <1>6, RuntimeGrows DEF Decisions
  <2>2. runs[n].approval = "pending" /\ runs'[n].approval = d
    <3>1. PICK events :
            past' = Append(past, [runs EXCEPT ![n] =
                [runs[n] EXCEPT !.approval = d, !.log = runs[n].log \o events]])
      BY <1>6, AtPresent DEF DecideApproval, Commit, RunRecords
    <3>2. /\ past \in Seq(Seq(RunRecords)) /\ runs \in Seq(RunRecords) /\ runs[n] \in RunRecords
          /\ n \in 1..Len(runs)
      BY AtPresent DEF History, PastTypeOK, Admitted
    <3> DEFINE next == [runs EXCEPT ![n] =
                [runs[n] EXCEPT !.approval = d, !.log = runs[n].log \o events]]
    <3>3. next[n].approval = d
      BY <3>2 DEF RunRecords
    <3> HIDE DEF next
    <3>4. past' = Append(past, next)
      BY <3>1 DEF next
    <3>5. Now' = Now + 1 /\ past'[Now + 1] = next
      BY <3>2, <3>4 DEF Now
    <3> QED BY <1>6, <3>3, <3>5 DEF DecideApproval, runs
  <2>3. /\ SameCalls
        /\ \A j \in CallSlots : WasDecided(j)' => WasDecided(j) \/ j \in {i}
    BY <1>5, <1>6
  <2>4. PICK D \in SUBSET CallSlots : D = {i}
    OBVIOUS
  <2> QED BY <1>1, <1>2, <2>1, <2>2, <2>3, <2>4, PanelGoesOn
<1>7. CASE ExpireOnDecide(n) /\ Outcome("refused")
  <2>1. Grows
    BY <1>7, RuntimeGrows
  <2>2. /\ SameCalls
        /\ \A j \in CallSlots : WasDecided(j)' => WasDecided(j)
    BY <1>5, <1>7
  <2>3. PICK D \in SUBSET CallSlots : D = {}
    OBVIOUS
  <2> QED BY <1>1, <2>1, <2>2, <2>3, PanelGoesOn
<1>8. CASE UNCHANGED past /\ Outcome("refused")
  <2>1. Grows
    BY <1>8, HistoryStands
  <2>2. /\ SameCalls
        /\ \A j \in CallSlots : WasDecided(j)' => WasDecided(j)
    BY <1>5, <1>8
  <2>3. PICK D \in SUBSET CallSlots : D = {}
    OBVIOUS
  <2> QED BY <1>1, <2>1, <2>2, <2>3, PanelGoesOn
<1> QED BY <1>4, <1>6, <1>7, <1>8

LEMMA PanelSteps ==
    ASSUME History, PanelInv, PanelNext
    PROVE  Grows /\ PanelInv'
<1>1. CASE Open
  BY <1>1, HistoryStands, PanelOpens DEF Open
<1>2. CASE OthersAct
  <2>1. Grows
    BY <1>2, AdmitGrows, RuntimeGrows DEF OthersAct, Decisions
  <2>2. UNCHANGED <<panel, watch, broken>> /\ UNCHANGED call /\ call \in [CallSlots -> Calls]
    BY <1>2, PanelType DEF OthersAct, PanelInv
  <2>3. SameCalls /\ \A j \in CallSlots : WasDecided(j)' => WasDecided(j)
    BY <2>2 DEF SameCalls, WasDecided
  <2>4. PICK D \in SUBSET CallSlots : D = {}
    OBVIOUS
  <2> QED BY <2>1, <2>2, <2>3, <2>4, PanelGoesOn
<1>3. ASSUME NEW n \in Runs, ApprovalEvent(n) PROVE Grows /\ PanelInv'
  BY <1>3, HistoryStands, PanelHears DEF ApprovalEvent
<1>4. ASSUME NEW n \in Runs, NEW d \in Decisions, Decide(n, d) PROVE Grows /\ PanelInv'
  BY <1>4, HistoryStands, PanelDecides DEF Decide
<1>5. ASSUME NEW i \in CallSlots, TakeApprovals(i) PROVE Grows /\ PanelInv'
  BY <1>5, HistoryStands, PanelTakesApprovals DEF TakeApprovals
<1>6. ASSUME NEW i \in CallSlots, TakeRuns(i) PROVE Grows /\ PanelInv'
  BY <1>6, HistoryStands, PanelTakesRuns DEF TakeRuns
<1>7. ASSUME NEW i \in CallSlots, TakeDecision(i) PROVE Grows /\ PanelInv'
  BY <1>7, HistoryStands, PanelTakesDecision DEF TakeDecision
<1>8. ASSUME NEW i \in CallSlots, ServerDecides(i) PROVE Grows /\ PanelInv'
  BY <1>8, PanelServed
<1>9. ASSUME NEW i \in CallSlots, Break(i) PROVE Grows /\ PanelInv'
  BY <1>9, HistoryStands, PanelBreaks DEF Break
<1> QED BY <1>1, <1>2, <1>3, <1>4, <1>5, <1>6, <1>7, <1>8, <1>9 DEF PanelNext, Answer

LEMMA PanelStarts == PanelInit => PanelInv
<1> SUFFICES ASSUME PanelInit PROVE PanelInv
  OBVIOUS
<1>1. History /\ Now \in Nat \ {0} /\ 1 \in 1..Now
  BY PastStarts, AtMoment DEF PanelInit
<1>2. /\ panel = [open |-> FALSE, cards |-> [n \in Runs |-> "absent"], deciding |-> 0,
                  version |-> 0, starting |-> 0, initialized |-> FALSE, error |-> FALSE]
      /\ watch = [n \in Runs |-> NotWatched]
      /\ call = [i \in CallSlots |-> Idle]
      /\ broken = 0
  BY DEF PanelInit
<1>3. Idle \in Calls
  BY <1>1, RunsAsked
<1>4. /\ Idle.kind = "idle" /\ Idle.version = 0 /\ ~Idle.starts /\ ~Idle.finishes
      /\ Idle.since = 1
  BY DEF Idle
<1>5. NotWatched \in Watches /\ ~NotWatched.on /\ ~NotWatched.first
  <2>1. Runs = RunNumbers /\ 0 \in Positions
    BY MaxLogsType DEF Runs, RunNumbers
  <2> QED BY <2>1 DEF NotWatched, Watches, Positions
<1>6. PanelTypeOK
  <2>1. 0 \in 0..MaxVersion /\ 0 \in 0..MaxBroken /\ 0 \in 0..2
    BY PanelAssumption
  <2>2. panel \in Panels
    BY <1>2, <2>1 DEF Panels
  <2> QED BY <1>1, <1>2, <1>3, <1>5, <2>1, <2>2 DEF PanelTypeOK, History
<1>7. \A i \in CallSlots : /\ call[i].kind = "idle" /\ call[i].version = 0
                           /\ ~call[i].starts /\ ~call[i].finishes /\ call[i].since = 1
  BY <1>2, <1>4
<1>8. \A n \in Runs : ~watch[n].on /\ ~watch[n].first /\ panel.cards[n] = "absent"
  BY <1>2, <1>5
<1>9. CallsFit
  BY <1>1, <1>2, <1>7 DEF CallsFit, WellCalled
<1>10. StartsFit
  BY <1>2, <1>7 DEF StartsFit
<1>11. PanelFits
  BY <1>2, <1>7, <1>8 DEF PanelFits, Decisions
<1>12. DecidedOnce
  BY <1>7, <1>8 DEF DecidedOnce, WasDecided, IsDecided, IsLatest, Decisions
<1>13. Watched /\ InTime
  BY <1>8 DEF Watched, InTime
<1>14. ListLooksAgain
  BY <1>2 DEF ListLooksAgain
<1> QED BY <1>6, <1>9, <1>10, <1>11, <1>12, <1>13, <1>14 DEF PanelInv

\* What the invariant says of a page at rest: nothing will make it look again, so
\* that the list is complete.
LEMMA PanelComplete == History /\ PanelInv => ListIsComplete
<1> SUFFICES ASSUME History, PanelInv, PanelAtRest, ~panel.error,
                    \A n \in Runs : panel.cards[n] \in Decisions => watch[n].first,
                    NEW n \in Admitted, watch[n].first
             PROVE  /\ runs[n].approval = "pending" => panel.cards[n] = "pending"
                    /\ panel.cards[n] = "pending" => runs[n].approval \in {"pending", "expired"}
  BY DEF ListIsComplete
<1> USE DEF PanelInv
<1>1. panel.open /\ broken = 0 /\ \A i \in CallSlots : call[i].kind = "idle"
  BY DEF PanelAtRest, IdleSlots
<1>2. panel.starting = 0
  <2>1. \A i \in CallSlots : ~call[i].starts
    BY <1>1 DEF CallsFit, WellCalled
  <2>2. panel.starting \in 0..2
    BY PanelType
  <2> QED BY <1>1, <2>1, <2>2 DEF StartsFit
<1>3. ASSUME NEW k \in Runs, watch[k].first PROVE ~Untold(k)
  <2>1. watch[k].on /\ k \in Admitted /\ watch[k].at \in Nat
    BY <1>3, PanelType DEF Watched
  <2>2. NextShown(ApprovalEvents, k, watch[k].at) = 0
    BY <2>1 DEF PanelAtRest
  <2>3. \A i \in ShownTo(ApprovalEvents, k) : i <= watch[k].at /\ i \in Nat
    BY <2>1, <2>2, NextOne DEF ShownTo
  <2> QED BY <2>1, <2>3 DEF Untold
<1>4. ~Fetching /\ ~Deciding
  BY <1>1 DEF Fetching, Deciding, IsLatest, ToBeTold
<1>5. ~DecidedUntold
  BY <1>3 DEF DecidedUntold, IsDecided
<1>6. AllShown
  BY <1>1, <1>2, <1>4, <1>5 DEF ListLooksAgain
<1>7. n \in Runs
  BY AtPresent, PanelType
<1>8. Shows(n)
  BY <1>3, <1>6, <1>7 DEF AllShown
<1> QED BY <1>1, <1>8 DEF Shows

\* A decision that is shown goes only for the answer to a fetch made in its midst.
LEMMA DecisionKept ==
    ASSUME History, PanelInv, PanelNext, NEW n \in Runs,
           IsDecided(n), panel'.cards[n] # panel.cards[n]
    PROVE  /\ panel'.cards[n] = "pending"
           /\ \E i \in CallSlots : n \in call[i].amid /\ call'[i].kind = "idle"
<1> USE DEF PanelInv
<1>1. panel \in Panels /\ panel.cards \in Cards /\ call \in [CallSlots -> Calls]
  BY PanelType
<1>2. panel.starting = 0 /\ \A i \in CallSlots : ~call[i].starts
  <2>1. panel.starting = 0
    BY DEF IsDecided, PanelFits
  <2> QED BY <2>1 DEF CallsFit, WellCalled
<1>3. ASSUME NEW i \in CallSlots, Answered(i, panel) PROVE FALSE
  <2>1. panel' = [panel EXCEPT !.starting = IF call[i].starts THEN @ - 1 ELSE @]
    BY <1>2, <1>3 DEF Answered
  <2> HIDE DEF PanelInv
  <2> QED BY <1>1, <2>1 DEF Panels
<1>4. CASE UNCHANGED panel
  BY <1>4
<1>5. CASE Open
  <2> HIDE DEF PanelInv
  <2> QED BY <1>1, <1>5 DEF Open, Panels
<1>6. ASSUME NEW k \in Runs, ApprovalEvent(k) PROVE FALSE
  <2> HIDE DEF PanelInv
  <2> QED BY <1>1, <1>6 DEF ApprovalEvent, Panels
<1>7. ASSUME NEW k \in Runs, NEW d \in Decisions, Decide(k, d) PROVE FALSE
  <2> HIDE DEF PanelInv
  <2> QED BY <1>1, <1>7 DEF Decide, Panels
<1>8. ASSUME NEW i \in CallSlots, TakeRuns(i) PROVE FALSE
  BY <1>3, <1>8 DEF TakeRuns
<1>9. ASSUME NEW i \in CallSlots, Break(i) PROVE FALSE
  <2> HIDE DEF PanelInv
  <2> QED BY <1>1, <1>9 DEF Break, Panels
<1>10. ASSUME NEW i \in CallSlots, TakeDecision(i) PROVE FALSE
  <2> DEFINE r == call[i].run
             card == IF call[i].outcome = "done" THEN call[i].decision ELSE panel.cards[r]
             failed == panel.error \/ call[i].outcome = "refused"
  <2>1. r \in Runs /\ call[i].kind = "decide"
    BY <1>10, AtPresent, PanelType DEF TakeDecision, CallsFit, WellCalled
  <2>2. panel' = [panel EXCEPT !.cards = [panel.cards EXCEPT ![r] = card],
                               !.deciding = 0, !.error = failed]
    BY <1>1, <1>10 DEF TakeDecision, Panels
  <2>3. card = panel.cards[r] \/ r # n
    <3>1. call[i].outcome = "done" => r # n
      BY <2>1 DEF DecidedOnce, WasDecided
    <3> QED BY <3>1
  <2> HIDE DEF r, card, failed, PanelInv
  <2>4. panel'.cards = [panel.cards EXCEPT ![r] = card]
    BY <1>1, <2>2 DEF Panels
  <2> QED BY <1>1, <2>1, <2>3, <2>4 DEF Cards
<1>11. ASSUME NEW i \in CallSlots, TakeApprovals(i)
       PROVE  panel'.cards[n] = "pending" /\ n \in call[i].amid /\ call'[i].kind = "idle"
  <2>1. call[i].kind = "approvals" /\ call[i].version = panel.version
    BY <1>3, <1>11 DEF TakeApprovals
  <2>2. PICK m \in call[i].since..Now :
            Answered(i, [panel EXCEPT !.cards = Merged(PendingAt(m)),
                                      !.initialized = @ \/ call[i].finishes])
    BY <1>11, <2>1 DEF TakeApprovals
  <2> DEFINE cards == Merged(PendingAt(m))
             initialized == panel.initialized \/ call[i].finishes
  <2>3. n \in PendingAt(m) => cards[n] = "pending"
    BY DEF Merged
  <2>4. n \notin PendingAt(m) => cards[n] = panel.cards[n]
    BY DEF Merged, IsDecided
  <2>5. /\ panel' = [panel EXCEPT !.cards = cards, !.initialized = initialized,
                                  !.starting = panel.starting]
        /\ call' = Done(i)
    <3> HIDE DEF PanelInv, cards
    <3> QED BY <1>1, <1>2, <2>2 DEF Answered, Panels, cards
  <2> HIDE DEF cards, initialized
  <2>6. panel'.cards = cards
    <3> HIDE DEF PanelInv
    <3> QED BY <1>1, <2>5 DEF Panels
  <2>7. n \in PendingAt(m)
    BY <2>4, <2>6
  <2>8. n \in call[i].amid
    BY <2>1, <2>7 DEF DecidedOnce, IsLatest
  <2>9. call'[i].kind = "idle"
    BY <1>1, <2>5 DEF Done, Idle
  <2> QED BY <2>3, <2>6, <2>7, <2>8, <2>9
<1> HIDE DEF PanelInv
<1>12. ASSUME NEW i \in CallSlots, ServerDecides(i) PROVE UNCHANGED panel
  BY <1>12 DEF ServerDecides
<1> QED BY <1>4, <1>5, <1>6, <1>7, <1>8, <1>9, <1>10, <1>11, <1>12
        DEF PanelNext, Answer, OthersAct

-----------------------------------------------------------------------------
(* The three pages on one server.                                          *)

pagesVars == <<chatVars, panelVars, deskVars>>
PagesInv == History /\ ChatInv /\ PanelInv /\ DeskInv

\* What the other pages do, and the runtimes, leaves each page its invariant.
LEMMA PanelIdles ==
    ASSUME Grows, PanelInv, UNCHANGED <<panel, watch, call, broken>>
    PROVE  PanelInv'
<1>1. SameCalls /\ \A i \in CallSlots : WasDecided(i)' => WasDecided(i)
  BY PanelType DEF PanelInv, SameCalls, WasDecided
<1>2. PICK D \in SUBSET CallSlots : D = {}
  OBVIOUS
<1> QED BY <1>1, <1>2, PanelGoesOn

LEMMA PagesStart == PagesInit => PagesInv
BY PastStarts, ChatStarts, PanelStarts, DeskStarts DEF PagesInit, PagesInv, ChatInit

LEMMA PagesStep == PagesInv /\ [PagesNext]_pagesVars => PagesInv'
<1> SUFFICES ASSUME PagesInv, [PagesNext]_pagesVars PROVE PagesInv'
  OBVIOUS
<1> USE DEF PagesInv
<1>1. CASE ChatNext /\ UNCHANGED <<panel, watch, call, broken, desk, feed, visit, misses>>
  <2>1. Grows /\ ChatInv'
    BY <1>1, ChatSteps
  <2>2. PanelInv'
    BY <1>1, <2>1, PanelIdles
  <2>3. DeskInv'
    BY <1>1, <2>1, DeskGoesOn
  <2> QED BY <2>1, <2>2, <2>3 DEF Grows
<1>2. CASE PanelNext /\ UNCHANGED <<page, stream, request, failures, desk, feed, visit, misses>>
  <2>1. Grows /\ PanelInv'
    BY <1>2, PanelSteps
  <2>2. ChatInv'
    BY <1>2, <2>1, ChatGoesOn
  <2>3. DeskInv'
    BY <1>2, <2>1, DeskGoesOn
  <2> QED BY <2>1, <2>2, <2>3 DEF Grows
<1>3. CASE DeskNext /\ UNCHANGED <<page, stream, request, failures, panel, watch, call, broken>>
  <2>1. Grows /\ DeskInv'
    BY <1>3, DeskSteps
  <2>2. ChatInv'
    BY <1>3, <2>1, ChatGoesOn
  <2>3. PanelInv'
    BY <1>3, <2>1, PanelIdles
  <2> QED BY <2>1, <2>2, <2>3 DEF Grows
<1>4. CASE UNCHANGED pagesVars
  <2>1. /\ UNCHANGED <<past, page, stream, request, failures>>
        /\ UNCHANGED <<panel, watch, call, broken, desk, feed, visit, misses>>
    BY <1>4 DEF pagesVars, chatVars, panelVars, deskVars
  <2>2. Grows
    BY <2>1, HistoryStands
  <2>3. ChatInv'
    BY <2>1, <2>2, ChatGoesOn
  <2>4. PanelInv'
    BY <2>1, <2>2, PanelIdles
  <2>5. DeskInv'
    BY <2>1, <2>2, DeskGoesOn
  <2> QED BY <2>2, <2>3, <2>4, <2>5 DEF Grows
<1> QED BY <1>1, <1>2, <1>3, <1>4 DEF PagesNext

\* What every theorem below rests on: the invariant of the server and the pages.
LEMMA PagesAlways == PagesSpec => []PagesInv
<1>1. PagesInit => PagesInv
  BY PagesStart
<1>2. PagesInv /\ [PagesNext]_<<chatVars, panelVars, deskVars>> => PagesInv'
  BY PagesStep DEF pagesVars
<1> QED BY <1>1, <1>2, PTL DEF PagesSpec

\* The pages and their server hold what their types say.
THEOREM PagesTyped == PagesSpec => []PagesTypeOK
<1>1. PagesInv => PagesTypeOK
  BY DEF PagesInv, ChatInv, PanelInv, DeskInv, PagesTypeOK
<1> QED BY <1>1, PagesAlways, PTL

\* Whatever answers come late, in whatever order, the chat page shows messages, run
\* and events of the selected session only, the events of one run, each once, and
\* none that is hidden (use-user-run.ts: isCurrent, receivedIds).
THEOREM ScreenAlwaysBelongs == PagesSpec => []ScreenBelongs
<1>1. PagesInv => ScreenBelongs
  BY ChatBelongs DEF PagesInv
<1> QED BY <1>1, PagesAlways, PTL

\* A chat page with no call under way and no event to come shows its run with every
\* event, and as it is, unless it went on between the statements of the last
\* snapshot (use-user-run.ts: onEvent, refresh; projections.ts).
THEOREM ChatRestsAtPresent == PagesSpec => []RestIsCurrent
<1>1. PagesInv => RestIsCurrent
  BY ChatRestsCurrent DEF PagesInv
<1> QED BY <1>1, PagesAlways, PTL

\* The composer is disabled exactly while a message of the selected session is on
\* its way, or the refresh that follows it (use-user-run.ts: send).
THEOREM ComposerFollowsSend == PagesSpec => []BusyWhileSending
<1>1. PagesInv => BusyWhileSending
  BY DEF PagesInv, ChatInv
<1> QED BY <1>1, PagesAlways, PTL

\* An approvals page with nothing under way or to come, which shows no error and was
\* subscribed in time to what it decided, shows every pending approval of the runs
\* it subscribed to when it opened, and as pending nothing of them but these and what
\* expired (use-approvals.ts: the effect, load, reconcileSubscriptions, onEvent).
THEOREM ListRestsComplete == PagesSpec => []ListIsComplete
<1>1. PagesInv => ListIsComplete
  BY PanelComplete DEF PagesInv
<1> QED BY <1>1, PagesAlways, PTL

\* A recorded decision stays on the approvals page, but for the answer to a fetch
\* that was made while it was under way (use-approvals.ts: upsert, load).
THEOREM DecisionAlwaysStays == PagesSpec => DecisionStays
<1> DEFINE Stay ==
        \A n \in Runs :
            panel.cards[n] \in Decisions /\ panel'.cards[n] # panel.cards[n] =>
                /\ panel'.cards[n] = "pending"
                /\ \E i \in CallSlots : n \in call[i].amid /\ call'[i].kind = "idle"
<1>1. PagesInv /\ [PagesNext]_<<chatVars, panelVars, deskVars>> => [Stay]_panelVars
  <2> SUFFICES ASSUME PagesInv, [PagesNext]_<<chatVars, panelVars, deskVars>>,
                      NEW n \in Runs,
                      panel.cards[n] \in Decisions, panel'.cards[n] # panel.cards[n]
               PROVE  /\ panel'.cards[n] = "pending"
                      /\ \E i \in CallSlots : n \in call[i].amid /\ call'[i].kind = "idle"
    OBVIOUS
  <2>1. panel' # panel
    OBVIOUS
  <2>2. PanelNext
    BY <2>1 DEF PagesNext, panelVars
  <2> QED BY <2>2, DecisionKept DEF PagesInv, IsDecided
<1> QED BY <1>1, PagesAlways, PTL DEF PagesSpec, DecisionStays

\* Whatever projections and listings come late, the runs page shows the selected run
\* only, each event once; and at rest all of its events, and its status unless it
\* went on between the statements of the last projection (use-admin-runs.ts:
\* projectionRequest, receivedIds).
THEOREM DeskShowsAlways == PagesSpec => []DeskShowsItsRun
<1>1. PagesInv => DeskShowsItsRun
  BY DeskCurrent DEF PagesInv
<1> QED BY <1>1, PagesAlways, PTL

=============================================================================
