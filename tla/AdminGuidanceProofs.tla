------------------------ MODULE AdminGuidanceProofs ------------------------
(***************************************************************************)
(* Theorems about AdminGuidance, for every set of runs and executors and   *)
(* every bound.                                                            *)
(***************************************************************************)
EXTENDS AdminGuidance, FiniteSetTheorems, WellFoundedInduction, TLAPS

\* What an executor holds at each place of the program.
Local(m) ==
    /\ m.pc = "idle" => m = Idle
    /\ m.pc # "idle" => m.run \in Runs
    /\ m.pc \in {"restore", "tool"} => m.guidance = None
    /\ m.pc = "call" => m.consumedSteps > 0

TypeInv ==
    /\ TypeOK
    /\ \A e \in Executors : Local(executor[e])

-----------------------------------------------------------------------------
(* Types.                                                                  *)

\* A set of numbers that has an element has a least one, so that Oldest is defined.
LEMMA LeastExists ==
    ASSUME NEW S \in SUBSET Nat, S # {}
    PROVE  \E m \in S : \A k \in S : m <= k
<1> DEFINE R == OpToRel(<, Nat)
<1>1. IsWellFoundedOn(R, Nat)
    BY NatLessThanWellFounded
<1>2. \A k, m \in Nat : k < m => <<k, m>> \in R
    BY DEF OpToRel
<1> HIDE DEF R
<1>3. PICK m \in S : \A k \in S : ~(<<k, m>> \in R)
    BY <1>1, WFMin
<1>4. \A k \in S : k \in Nat /\ m \in Nat /\ ~(k < m)
    BY <1>2, <1>3
<1> QED
    BY <1>4

\* Oldest: one of the commands it chooses from.
LEMMA OldestIsOne ==
    ASSUME NEW S \in SUBSET Commands, S # {}
    PROVE  Oldest(S) \in S
<1>1. S \in SUBSET Nat
    BY DEF Commands
<1>2. \E m \in S : \A k \in S : m <= k
    BY <1>1, LeastExists
<1> QED
    BY <1>2 DEF Oldest

\* The idle executor holds nothing.
LEMMA IdleTyped == Idle \in Memories /\ Local(Idle)
BY ConstantsAssumption DEF Idle, Memories, Local

\* One executor's memory is replaced by another.
LEMMA MemoryTyped ==
    ASSUME TypeInv, NEW e \in Executors, NEW m \in Memories, Local(m), Becomes(e, m)
    PROVE  /\ executor' \in [Executors -> Memories]
           /\ \A f \in Executors : Local(executor'[f])
           /\ executor'[e] = m
           /\ \A f \in Executors \ {e} : executor'[f] = executor[f]
BY DEF TypeInv, TypeOK, Becomes

\* A transaction of an executor replaces its run's row.
LEMMA RowTyped ==
    ASSUME TypeInv, NEW e \in Executors, executor[e].run \in Runs,
           NEW row \in RunRows, Persist(e, row)
    PROVE  /\ run' \in [Runs -> RunRows]
           /\ run'[executor[e].run] = [row EXCEPT !.version = row.version + 1]
           /\ \A q \in Runs \ {executor[e].run} : run'[q] = run[q]
<1>1. [row EXCEPT !.version = row.version + 1] \in RunRows
    BY DEF RunRows
<1> QED
    BY <1>1 DEF TypeInv, TypeOK, Persist

LEMMA TypesInit == Init => TypeInv
<1> SUFFICES ASSUME Init PROVE TypeInv
    OBVIOUS
<1>1. PICK runtime \in [Runs -> {"simple_loop", "state_workflow"}] :
        run = [r \in Runs |-> [runtime |-> runtime[r], status |-> "queued", version |-> 0,
                               consumedSteps |-> 0, guidance |-> None]]
    BY DEF Init
<1>2. run \in [Runs -> RunRows]
    BY <1>1, ConstantsAssumption DEF RunRows, Active
<1>3. command \in [Commands -> CommandRows]
    BY DEF Init, CommandRows
<1>4. executor \in [Executors -> Memories] /\ \A e \in Executors : Local(executor[e])
    BY IdleTyped DEF Init
<1>5. /\ overdue \subseteq Commands /\ heard \in [Commands -> SUBSET (Runs \X Steps)]
      /\ faults \in 0..MaxFaults /\ overlaps \in 0..MaxOverlaps
    BY ConstantsAssumption DEF Init
<1> QED
    BY <1>2, <1>3, <1>4, <1>5 DEF TypeInv, TypeOK

\* A boundary's step is in range.
LEMMA BoundaryTyped ==
    ASSUME TypeInv, NEW e \in Executors, executor[e].run \in Runs
    PROVE  Boundary(e) \in Runs \X Steps
<1>1. executor[e].consumedSteps + 1 \in Steps
    BY ConstantsAssumption DEF TypeInv, TypeOK, Memories, Steps
<1> QED
    BY <1>1 DEF Boundary

LEMMA TakeTyped ==
    ASSUME TypeInv, NEW e \in Executors, NEW r \in Runs, Take(e, r)
    PROVE  /\ executor' \in [Executors -> Memories]
           /\ \A f \in Executors : Local(executor'[f])
           /\ run' \in [Runs -> RunRows]
<1> DEFINE version == IF Leased(r) THEN run[r].version + 1 ELSE run[r].version
           m == [Idle EXCEPT !.pc = "restore", !.run = r, !.version = version]
<1>1. run[r] \in RunRows
    BY DEF TypeInv, TypeOK
<1>2. version \in Nat
    BY <1>1 DEF RunRows
<1> HIDE DEF version
<1>3. m \in Memories /\ Local(m)
    BY <1>2, IdleTyped DEF Idle, Memories, Local
<1>4. Becomes(e, m) /\ run' = [run EXCEPT ![r].version = version]
    BY DEF Take, version
<1>5. [run[r] EXCEPT !.version = version] \in RunRows
    BY <1>1, <1>2 DEF RunRows
<1>6. run' \in [Runs -> RunRows]
    BY <1>4, <1>5 DEF TypeInv, TypeOK
<1> QED
    BY <1>3, <1>4, <1>6, MemoryTyped

LEMMA RestoreTyped ==
    ASSUME TypeInv, NEW e \in Executors, Restore(e)
    PROVE  executor' \in [Executors -> Memories] /\ \A f \in Executors : Local(executor'[f])
<1> DEFINE x == executor[e]
           row == run[executor[e].run]
           m == [executor[e] EXCEPT
                    !.pc = IF row.status = "waiting" THEN "resolve" ELSE "prompt",
                    !.consumedSteps = row.consumedSteps, !.guidance = row.guidance,
                    !.version = IF Leased(executor[e].run) THEN @ ELSE row.version]
<1>1. x \in Memories /\ x.run \in Runs /\ row \in RunRows
    BY DEF TypeInv, TypeOK, Local, Restore, At
<1>2. m \in Memories /\ Local(m)
    BY <1>1 DEF Memories, RunRows, Local
<1>3. Becomes(e, Idle) \/ Becomes(e, m)
    BY DEF Restore, Ends
<1> QED
    BY <1>2, <1>3, IdleTyped, MemoryTyped

\* What an executor holds after a transaction of its own.
LEMMA AdvancedTyped ==
    ASSUME TypeInv, NEW e \in Executors, executor[e].run \in Runs, NEW pc \in {"prompt", "fail"}
    PROVE  Advanced(e, pc) \in Memories /\ Local(Advanced(e, pc))
<1>1. executor[e] \in Memories
    BY DEF TypeInv, TypeOK
<1>2. executor[e].version + 1 \in Nat
    BY <1>1 DEF Memories
<1>3. Advanced(e, pc) \in Memories
    BY <1>1, <1>2 DEF Advanced, Memories
<1>4. Advanced(e, pc).pc = pc /\ Advanced(e, pc).run = executor[e].run
    BY <1>1 DEF Advanced, Memories
<1> QED
    BY <1>3, <1>4 DEF Local

LEMMA ResolveTyped ==
    ASSUME TypeInv, NEW e \in Executors, ResolveWait(e)
    PROVE  /\ executor' \in [Executors -> Memories]
           /\ \A f \in Executors : Local(executor'[f])
           /\ run' \in [Runs -> RunRows]
<1> DEFINE x == executor[e]
           row == [run[executor[e].run] EXCEPT !.status = "running"]
           m == Advanced(e, "prompt")
<1>1. x \in Memories /\ x.run \in Runs /\ run[x.run] \in RunRows
    BY DEF TypeInv, TypeOK, Local, ResolveWait, At
<1>2. row \in RunRows
    BY <1>1 DEF RunRows, Active
<1>3. m \in Memories /\ Local(m)
    BY <1>1, AdvancedTyped
<1>4. Persist(e, row) /\ (Becomes(e, Idle) \/ Becomes(e, m))
    BY DEF ResolveWait, Ends
<1> QED
    BY <1>1, <1>2, <1>3, <1>4, IdleTyped, MemoryTyped, RowTyped

\* What the claim returns.
Guidance(e) ==
    LET replay == AppliedAt(Boundary(e))
        late == {c \in overdue : command[c].status = "accepted"}
        pending == {c \in Commands : command[c].status = "accepted"} \ late
    IN IF replay # {} THEN Oldest(replay) ELSE IF pending # {} THEN Oldest(pending) ELSE None

LEMMA ClaimTyped ==
    ASSUME TypeInv, NEW e \in Executors, ClaimAdminCommandAtBoundary(e)
    PROVE  /\ executor' \in [Executors -> Memories]
           /\ \A f \in Executors : Local(executor'[f])
           /\ command' \in [Commands -> CommandRows]
<1> DEFINE x == executor[e]
           late == {c \in overdue : command[c].status = "accepted"}
           pending == {c \in Commands : command[c].status = "accepted"} \ late
           m == [executor[e] EXCEPT !.pc = "consume", !.guidance = Guidance(e)]
<1>1. x \in Memories /\ x.run \in Runs
    BY DEF TypeInv, TypeOK, Local, ClaimAdminCommandAtBoundary, At
<1>2. Guidance(e) \in Commands \cup {None}
  <2>1. AppliedAt(Boundary(e)) \in SUBSET Commands /\ pending \in SUBSET Commands
      BY DEF AppliedAt
  <2> QED
      BY <2>1, OldestIsOne DEF Guidance
<1>3. m \in Memories /\ Local(m)
    BY <1>1, <1>2 DEF Memories, Local
<1>4. Becomes(e, m)
    BY DEF ClaimAdminCommandAtBoundary, Guidance
<1>5. Boundary(e) \in Runs \X Steps
    BY <1>1, BoundaryTyped
<1>6. \/ command' = command
      \/ command' = [c \in Commands |->
                        IF c \in late THEN [command[c] EXCEPT !.status = "expired"]
                        ELSE IF c = Guidance(e)
                             THEN [status |-> "applied", boundary |-> Boundary(e)]
                             ELSE command[c]]
    BY DEF ClaimAdminCommandAtBoundary, Guidance
<1>7. \A c \in Commands : /\ command[c] \in CommandRows
                          /\ [command[c] EXCEPT !.status = "expired"] \in CommandRows
    BY DEF TypeInv, TypeOK, CommandRows
<1>8. [status |-> "applied", boundary |-> Boundary(e)] \in CommandRows
    BY <1>5 DEF CommandRows
<1> HIDE DEF late, pending, m
<1>9. command' \in [Commands -> CommandRows]
    BY <1>6, <1>7, <1>8 DEF TypeInv, TypeOK
<1> QED
    BY <1>3, <1>4, <1>9, MemoryTyped

LEMMA ConsumeTyped ==
    ASSUME TypeInv, NEW e \in Executors, ConsumeStep(e)
    PROVE  /\ executor' \in [Executors -> Memories]
           /\ \A f \in Executors : Local(executor'[f])
           /\ run' \in [Runs -> RunRows]
<1> DEFINE x == executor[e]
           old == run[executor[e].run]
           row == [old EXCEPT !.status = "running", !.guidance = executor[e].guidance,
                              !.consumedSteps = old.consumedSteps + 1]
           m == [Advanced(e, "call") EXCEPT !.consumedSteps = old.consumedSteps + 1]
<1>1. x \in Memories /\ x.run \in Runs /\ old \in RunRows
    BY DEF TypeInv, TypeOK, Local, ConsumeStep, At
<1>2. old.consumedSteps + 1 \in 0..StepBudget
    BY <1>1, ConstantsAssumption DEF RunRows, ConsumeStep
<1>3. row \in RunRows
    BY <1>1, <1>2 DEF RunRows, Active, Memories
<1>4. m \in Memories /\ Local(m)
  <2>1. Advanced(e, "call") = [x EXCEPT !.pc = "call", !.version = x.version + 1]
      BY DEF Advanced
  <2>2. m = [x EXCEPT !.pc = "call", !.version = x.version + 1,
                      !.consumedSteps = old.consumedSteps + 1]
      BY <1>1, <2>1 DEF Memories
  <2>3. x.version + 1 \in Nat /\ old.consumedSteps + 1 > 0
      BY <1>1 DEF Memories, RunRows
  <2> QED
      BY <1>1, <1>2, <2>2, <2>3 DEF Memories, Local
<1>5. Persist(e, row) /\ Becomes(e, m)
    BY DEF ConsumeStep
<1> HIDE DEF row, m
<1> QED
    BY <1>1, <1>3, <1>4, <1>5, MemoryTyped, RowTyped

LEMMA CallTyped ==
    ASSUME TypeInv, NEW e \in Executors, CallModel(e)
    PROVE  /\ executor' \in [Executors -> Memories]
           /\ \A f \in Executors : Local(executor'[f])
           /\ heard' \in [Commands -> SUBSET (Runs \X Steps)]
<1> DEFINE x == executor[e]
           answered == [executor[e] EXCEPT !.pc = "tool", !.guidance = None]
           failed == [executor[e] EXCEPT !.pc = "fail"]
<1>1. x \in Memories /\ x.run \in Runs /\ x.consumedSteps > 0
    BY DEF TypeInv, TypeOK, Local, CallModel, At
<1>2. answered \in Memories /\ Local(answered) /\ failed \in Memories /\ Local(failed)
    BY <1>1 DEF Memories, Local
<1>3. Becomes(e, answered) \/ Becomes(e, failed)
    BY DEF CallModel, Generated, GenerationFails, Go
<1>4. x.consumedSteps \in Steps
    BY <1>1, ConstantsAssumption DEF Memories, Steps
<1>5. heard' \in [Commands -> SUBSET (Runs \X Steps)]
    BY <1>1, <1>4 DEF CallModel, Hears, TypeInv, TypeOK
<1> QED
    BY <1>2, <1>3, <1>5, MemoryTyped

LEMMA AnswerTyped ==
    ASSUME TypeInv, NEW e \in Executors, AnswerTool(e)
    PROVE  /\ executor' \in [Executors -> Memories]
           /\ \A f \in Executors : Local(executor'[f])
           /\ run' \in [Runs -> RunRows]
<1> DEFINE x == executor[e]
           row == [run[executor[e].run] EXCEPT !.guidance = executor[e].guidance]
           next == IF executor[e].consumedSteps < StepBudget THEN "prompt" ELSE "fail"
<1>1. x \in Memories /\ x.run \in Runs /\ run[x.run] \in RunRows
    BY DEF TypeInv, TypeOK, Local, AnswerTool, At
<1>2. row \in RunRows
  <2>1. x.guidance \in Commands \cup {None}
      BY <1>1 DEF Memories
  <2> QED
      BY <1>1, <2>1 DEF RunRows
<1>3. /\ Advanced(e, next) \in Memories /\ Local(Advanced(e, next))
      /\ [x EXCEPT !.pc = next] \in Memories /\ Local([x EXCEPT !.pc = next])
  <2>1. Advanced(e, next) \in Memories /\ Local(Advanced(e, next))
      BY <1>1, AdvancedTyped
  <2>2. [x EXCEPT !.pc = next] \in Memories /\ Local([x EXCEPT !.pc = next])
      BY <1>1 DEF Memories, Local
  <2> QED
      BY <2>1, <2>2
<1>4. \/ Persist(e, row) /\ Becomes(e, Advanced(e, next))
      \/ run' = run /\ Becomes(e, [x EXCEPT !.pc = next])
    BY DEF AnswerTool, Go
<1> HIDE DEF next
<1>5. CASE Persist(e, row) /\ Becomes(e, Advanced(e, next))
    BY <1>1, <1>2, <1>3, <1>5, MemoryTyped, RowTyped
<1>6. CASE run' = run /\ Becomes(e, [x EXCEPT !.pc = next])
    BY <1>3, <1>6, MemoryTyped DEF TypeInv, TypeOK
<1> QED
    BY <1>4, <1>5, <1>6

\* The run is left with a new status.
LEMMA LeaveTyped ==
    ASSUME TypeInv, NEW e \in Executors, executor[e].pc # "idle",
           NEW status \in {"waiting", "completed", "failed"},
           Persist(e, [run[executor[e].run] EXCEPT !.status = status,
                                                   !.guidance = executor[e].guidance]),
           Ends(e)
    PROVE  /\ executor' \in [Executors -> Memories]
           /\ \A f \in Executors : Local(executor'[f])
           /\ run' \in [Runs -> RunRows]
<1> DEFINE row == [run[executor[e].run] EXCEPT !.status = status,
                                               !.guidance = executor[e].guidance]
<1>1. executor[e] \in Memories /\ executor[e].run \in Runs /\ run[executor[e].run] \in RunRows
    BY DEF TypeInv, TypeOK, Local
<1>2. row \in RunRows
    BY <1>1 DEF RunRows, Memories, Terminal
<1> QED
    BY <1>1, <1>2, IdleTyped, MemoryTyped, RowTyped DEF Ends

\* The program goes on without a transaction.
LEMMA GoTyped ==
    ASSUME TypeInv, NEW e \in Executors, executor[e].pc # "idle",
           NEW pc \in {"consume", "fail"}, Go(e, pc)
    PROVE  executor' \in [Executors -> Memories] /\ \A f \in Executors : Local(executor'[f])
<1> DEFINE m == [executor[e] EXCEPT !.pc = pc]
<1>1. executor[e] \in Memories /\ executor[e].run \in Runs
    BY DEF TypeInv, TypeOK, Local
<1>2. m \in Memories /\ Local(m)
    BY <1>1 DEF Memories, Local
<1> QED
    BY <1>2, MemoryTyped DEF Go

LEMMA TypesStep == TypeInv /\ [Next]_vars => TypeInv'
<1> SUFFICES ASSUME TypeInv, [Next]_vars PROVE TypeInv'
    OBVIOUS
<1> USE DEF TypeInv, TypeOK
<1>1. CASE UNCHANGED vars
    BY <1>1 DEF vars
<1>2. ASSUME NEW c \in Commands, SubmitAdminCommand(c) PROVE TypeInv'
  <2>1. [command[c] EXCEPT !.status = "accepted"] \in CommandRows
      BY DEF CommandRows
  <2> QED
      BY <1>2, <2>1 DEF SubmitAdminCommand
<1>3. ASSUME NEW c \in Commands, Deadline(c) PROVE TypeInv'
    BY <1>3 DEF Deadline
<1>4. ASSUME NEW e \in Executors, NEW r \in Runs, StartExecutor(e, r) PROVE TypeInv'
  <2>1. Take(e, r) /\ UNCHANGED <<command, overdue, heard, faults, overlaps>>
      BY <1>4 DEF StartExecutor, Take
  <2> QED
      BY <2>1, TakeTyped
<1>5. ASSUME NEW e \in Executors, NEW r \in Runs, SupersedeExecutor(e, r) PROVE TypeInv'
  <2>1. /\ Take(e, r) /\ UNCHANGED <<command, overdue, heard, faults>>
        /\ overlaps' \in 0..MaxOverlaps
      BY <1>5, ConstantsAssumption DEF SupersedeExecutor, Take
  <2> QED
      BY <2>1, TakeTyped
<1>6. ASSUME NEW e \in Executors, Restore(e) PROVE TypeInv'
    BY <1>6, RestoreTyped DEF Restore
<1>7. ASSUME NEW e \in Executors, ResolveWait(e) PROVE TypeInv'
    BY <1>7, ResolveTyped DEF ResolveWait
<1>8. ASSUME NEW e \in Executors, ClaimAdminCommandAtBoundary(e) PROVE TypeInv'
    BY <1>8, ClaimTyped DEF ClaimAdminCommandAtBoundary
<1>9. ASSUME NEW e \in Executors, ClaimRefused(e) \/ AbandonStale(e) PROVE TypeInv'
    BY <1>9, IdleTyped, MemoryTyped DEF ClaimRefused, AbandonStale, Ends
<1>10. ASSUME NEW e \in Executors, KeepGuidance(e) \/ BudgetExhausted(e) PROVE TypeInv'
    BY <1>10, GoTyped DEF KeepGuidance, BudgetExhausted, At
<1>11. ASSUME NEW e \in Executors, ConsumeStep(e) PROVE TypeInv'
    BY <1>11, ConsumeTyped DEF ConsumeStep
<1>12. ASSUME NEW e \in Executors, CallModel(e) PROVE TypeInv'
    BY <1>12, CallTyped DEF CallModel
<1>13. ASSUME NEW e \in Executors, AnswerTool(e) PROVE TypeInv'
    BY <1>13, AnswerTyped DEF AnswerTool
<1>14. ASSUME NEW e \in Executors, NEW status \in {"waiting", "completed"}, LeaveRun(e, status)
       PROVE  TypeInv'
    BY <1>14, LeaveTyped DEF LeaveRun, At
<1>15. ASSUME NEW e \in Executors, FailRun(e) PROVE TypeInv'
    BY <1>15, LeaveTyped DEF FailRun, At
<1>16. ASSUME NEW e \in Executors, Crash(e) PROVE TypeInv'
  <2>1. Becomes(e, Idle) /\ faults' \in 0..MaxFaults
      BY <1>16, ConstantsAssumption DEF Crash, Ends
  <2> QED
      BY <1>16, <2>1, IdleTyped, MemoryTyped DEF Crash
<1>17. ASSUME NEW e \in Executors, FailBeforeStep(e) PROVE TypeInv'
  <2>1. faults' \in 0..MaxFaults
      BY <1>17, ConstantsAssumption DEF FailBeforeStep
  <2> QED
      BY <1>17, <2>1, GoTyped DEF FailBeforeStep
<1> QED
    BY <1>1, <1>2, <1>3, <1>4, <1>5, <1>6, <1>7, <1>8, <1>9, <1>10, <1>11, <1>12, <1>13,
       <1>14, <1>15, <1>16, <1>17 DEF Next, ExecutorStep

\* Commands, runs and executors keep their types; in particular the steps of a run
\* never exceed the budget, and no model call is made that was not paid for.
THEOREM GuidanceTyped == Spec => []TypeOK
<1>1. TypeInv => TypeOK
    BY DEF TypeInv
<1> QED
    BY <1>1, TypesInit, TypesStep, PTL DEF Spec
-----------------------------------------------------------------------------
(* What a step does to an executor and its run.  Every invariant below is  *)
(* proved over these moves.                                                *)

\* Places after the continuation was read.
Past == {"resolve", "prompt", "consume", "call", "tool", "fail"}

Rest(e) == \A f \in Executors \ {e} : executor'[f] = executor[f]
OtherRuns(r) == \A q \in Runs \ {r} : run'[q] = run[q]

\* The memory of an executor that goes on: its place and guidance change at most.
Holds(e) ==
    /\ executor'[e].run = executor[e].run
    /\ executor'[e].version = executor[e].version
    /\ executor'[e].consumedSteps = executor[e].consumedSteps

AdminMove ==
    /\ UNCHANGED <<run, executor, heard, faults, overlaps>>
    /\ \A c \in Commands :
        \/ command'[c] = command[c]
        \/ /\ command[c].status = "none" /\ command'[c].status = "accepted"
           /\ command'[c].boundary = command[c].boundary

LeaveMove(e) ==
    /\ executor'[e] = Idle /\ Rest(e)
    /\ UNCHANGED <<command, run, heard, overlaps>>
    /\ \/ faults' = faults + 1
       \/ /\ faults' = faults
          /\ \/ executor[e].pc \in {"resolve", "consume", "tool", "fail"} /\ ~Current(e)
             \/ executor[e].pc = "restore" /\ run[executor[e].run].status \in Terminal
             \/ executor[e].pc = "prompt" /\ run[executor[e].run].status \notin Active

TakeMove(e, r) ==
    /\ executor[e].pc = "idle" /\ executor'[e].pc = "restore" /\ Rest(e)
    /\ executor'[e].run = r /\ executor'[e].version = run'[r].version
    /\ run'[r].version >= run[r].version
    /\ run'[r].status = run[r].status /\ run'[r].guidance = run[r].guidance
    /\ run'[r].consumedSteps = run[r].consumedSteps
    /\ OtherRuns(r)
    /\ UNCHANGED <<command, heard, faults>>
    /\ \/ overlaps' = overlaps + 1
       \/ overlaps' = overlaps /\ \A f \in Executors : executor[f].run # r

RestoreMove(e) ==
    LET r == executor[e].run IN
    /\ executor[e].pc = "restore" /\ executor'[e].pc \in {"resolve", "prompt"} /\ Rest(e)
    /\ run[r].status \notin Terminal
    /\ executor'[e].pc = "resolve" => run[r].status = "waiting"
    /\ executor'[e].run = r
    /\ executor'[e].version \in {executor[e].version, run[r].version}
    /\ executor'[e].consumedSteps = run[r].consumedSteps
    /\ executor'[e].guidance = run[r].guidance
    /\ UNCHANGED <<command, run, heard, faults, overlaps>>

ClaimMove(e) ==
    LET g == executor'[e].guidance IN
    /\ executor[e].pc = "prompt" /\ executor'[e].pc = "consume" /\ Rest(e) /\ Holds(e)
    /\ executor[e].guidance = None
    /\ run[executor[e].run].status \in Active
    /\ \/ command' = command /\ g \in AppliedAt(Boundary(e))
       \/ /\ AppliedAt(Boundary(e)) = {}
          /\ g # None => /\ command[g].status = "accepted"
                         /\ command'[g] = [status |-> "applied", boundary |-> Boundary(e)]
          /\ \A c \in Commands \ {g} :
                \/ command'[c] = command[c]
                \/ /\ command[c].status = "accepted" /\ command'[c].status = "expired"
                   /\ command'[c].boundary = command[c].boundary
    /\ UNCHANGED <<run, heard, faults, overlaps>>

GoMove(e) ==
    /\ \/ executor[e].pc = "prompt" /\ executor[e].guidance # None /\ executor'[e].pc = "consume"
       \/ executor[e].pc = "consume" /\ executor'[e].pc = "fail"
       \/ executor[e].pc = "tool" /\ executor'[e].pc \in {"prompt", "fail"}
       \/ executor[e].pc = "prompt" /\ executor'[e].pc = "fail" /\ faults' = faults + 1
    /\ Rest(e) /\ Holds(e)
    /\ executor'[e].guidance = executor[e].guidance
    /\ faults' = faults \/ (executor'[e].pc = "fail" /\ faults' = faults + 1)
    /\ UNCHANGED <<command, run, heard, overlaps>>

CallMove(e) ==
    /\ executor[e].pc = "call" /\ executor'[e].pc \in {"tool", "fail"}
    /\ Rest(e) /\ Holds(e)
    /\ executor'[e].guidance \in {executor[e].guidance, None}
    /\ \A c \in Commands :
        heard'[c] = IF c = executor[e].guidance
                    THEN heard[c] \cup {<<executor[e].run, executor[e].consumedSteps>>}
                    ELSE heard[c]
    /\ UNCHANGED <<command, run, faults, overlaps>>

\* What an executor goes on with after its transaction.
GoesOn(e) ==
    LET r == executor[e].run IN
    /\ executor'[e].run = r
    /\ executor'[e].version = run'[r].version
    /\ executor'[e].guidance = executor[e].guidance
    /\ \/ /\ executor[e].pc = "resolve" /\ executor'[e].pc = "prompt"
          /\ run'[r].status = "running"
       \/ /\ executor[e].pc = "consume" /\ executor'[e].pc = "call"
          /\ run'[r].status = "running"
       \/ /\ executor[e].pc = "tool" /\ executor'[e].pc \in {"prompt", "fail"}
          /\ run'[r].status = run[r].status
    /\ executor'[e].consumedSteps =
            IF executor[e].pc = "consume" THEN run[r].consumedSteps + 1
            ELSE executor[e].consumedSteps

WriteMove(e) ==
    LET r == executor[e].run IN
    /\ executor[e].pc \in {"resolve", "consume", "tool", "fail"}
    /\ Current(e)
    /\ OtherRuns(r) /\ Rest(e)
    /\ run'[r].version = run[r].version + 1
    /\ run'[r].guidance = IF executor[e].pc = "resolve" THEN run[r].guidance
                                                        ELSE executor[e].guidance
    /\ run'[r].consumedSteps = IF executor[e].pc = "consume" THEN run[r].consumedSteps + 1
                                                             ELSE run[r].consumedSteps
    /\ executor[e].pc = "fail" => run'[r].status = "failed"
    /\ GoesOn(e) \/ (executor'[e] = Idle /\ executor[e].pc # "consume")
    /\ UNCHANGED <<command, heard, faults, overlaps>>

Move ==
    \/ AdminMove
    \/ \E e \in Executors :
        \/ LeaveMove(e) \/ RestoreMove(e) \/ ClaimMove(e) \/ GoMove(e) \/ CallMove(e)
        \/ WriteMove(e) \/ \E r \in Runs : TakeMove(e, r)
\* Only the executor's own memory changes, to one that was shown to be typed.
LEMMA Replaced ==
    ASSUME TypeInv, NEW e \in Executors, NEW m, Becomes(e, m)
    PROVE  executor'[e] = m /\ Rest(e)
BY DEF TypeInv, TypeOK, Becomes, Rest

LEMMA MemoryOf ==
    ASSUME TypeInv, NEW e \in Executors, executor[e].pc # "idle"
    PROVE  executor[e] \in Memories /\ executor[e].run \in Runs
           /\ run[executor[e].run] \in RunRows
BY DEF TypeInv, TypeOK, Local

LEMMA LeavesMove ==
    ASSUME TypeInv, NEW e \in Executors,
           ClaimRefused(e) \/ AbandonStale(e) \/ Crash(e)
           \/ (Restore(e) /\ run[executor[e].run].status \in Terminal)
    PROVE  LeaveMove(e)
<1>1. executor'[e] = Idle /\ Rest(e)
    BY Replaced DEF ClaimRefused, AbandonStale, Crash, Restore, Ends
<1>2. CASE ClaimRefused(e)
    BY <1>1, <1>2 DEF ClaimRefused, At, LeaveMove, TypeInv, TypeOK
<1>3. CASE AbandonStale(e)
    BY <1>1, <1>3 DEF AbandonStale, LeaveMove, TypeInv, TypeOK
<1>4. CASE Crash(e)
    BY <1>1, <1>4 DEF Crash, LeaveMove, TypeInv, TypeOK
<1>5. CASE Restore(e) /\ run[executor[e].run].status \in Terminal
    BY <1>1, <1>5 DEF Restore, At, LeaveMove, TypeInv, TypeOK
<1> QED
    BY <1>2, <1>3, <1>4, <1>5

LEMMA TakesMove ==
    ASSUME TypeInv, NEW e \in Executors, NEW r \in Runs,
           StartExecutor(e, r) \/ SupersedeExecutor(e, r)
    PROVE  TakeMove(e, r)
<1> DEFINE version == IF Leased(r) THEN run[r].version + 1 ELSE run[r].version
           m == [Idle EXCEPT !.pc = "restore", !.run = r, !.version = version]
<1>1. run[r] \in RunRows
    BY DEF TypeInv, TypeOK
<1>2. version \in Nat /\ version >= run[r].version
    BY <1>1 DEF RunRows
<1>3. Take(e, r) /\ run' = [run EXCEPT ![r].version = version] /\ Becomes(e, m)
      /\ At(e, "idle") /\ UNCHANGED <<command, heard, faults>>
    BY DEF StartExecutor, SupersedeExecutor, Take
<1> HIDE DEF version
<1>4. executor'[e] = m /\ Rest(e)
    BY <1>3, Replaced
<1>5. m.pc = "restore" /\ m.run = r /\ m.version = version
    BY DEF Idle
<1> HIDE DEF m
<1>6. run'[r] = [run[r] EXCEPT !.version = version] /\ OtherRuns(r)
    BY <1>3 DEF TypeInv, TypeOK, OtherRuns
<1>7. /\ run'[r].version = version /\ run'[r].status = run[r].status
      /\ run'[r].guidance = run[r].guidance /\ run'[r].consumedSteps = run[r].consumedSteps
    BY <1>1, <1>6 DEF RunRows
<1>8. \/ overlaps' = overlaps + 1
      \/ overlaps' = overlaps /\ \A f \in Executors : executor[f].run # r
    BY DEF StartExecutor, SupersedeExecutor, TypeInv, TypeOK
<1> QED
    BY <1>2, <1>3, <1>4, <1>5, <1>6, <1>7, <1>8 DEF TakeMove, At

LEMMA RestoresMove ==
    ASSUME TypeInv, NEW e \in Executors, Restore(e), run[executor[e].run].status \notin Terminal
    PROVE  RestoreMove(e)
<1> DEFINE row == run[executor[e].run]
           m == [executor[e] EXCEPT
                    !.pc = IF row.status = "waiting" THEN "resolve" ELSE "prompt",
                    !.consumedSteps = row.consumedSteps, !.guidance = row.guidance,
                    !.version = IF Leased(executor[e].run) THEN @ ELSE row.version]
<1>1. Becomes(e, m)
    BY DEF Restore
<1>2. executor'[e] = m /\ Rest(e)
    BY <1>1, Replaced
<1>3. executor[e] \in Memories
    BY DEF TypeInv, TypeOK
<1>4. /\ m.pc \in {"resolve", "prompt"} /\ m.run = executor[e].run
      /\ m.version \in {executor[e].version, row.version}
      /\ m.consumedSteps = row.consumedSteps /\ m.guidance = row.guidance
      /\ m.pc = "resolve" => row.status = "waiting"
    BY <1>3 DEF Memories
<1> HIDE DEF m
<1> QED
    BY <1>2, <1>4 DEF Restore, RestoreMove, At

LEMMA ClaimsMove ==
    ASSUME TypeInv, NEW e \in Executors, ClaimAdminCommandAtBoundary(e)
    PROVE  ClaimMove(e)
<1> DEFINE replay == AppliedAt(Boundary(e))
           late == {c \in overdue : command[c].status = "accepted"}
           pending == {c \in Commands : command[c].status = "accepted"} \ late
           g == Guidance(e)
           m == [executor[e] EXCEPT !.pc = "consume", !.guidance = g]
<1>1. executor[e] \in Memories /\ overdue \subseteq Commands /\ None \notin Commands
    BY ConstantsAssumption DEF TypeInv, TypeOK, Commands
<1>2. Becomes(e, m)
    BY DEF ClaimAdminCommandAtBoundary, Guidance
<1>3. executor'[e] = m /\ Rest(e)
    BY <1>2, Replaced
<1>4. m.pc = "consume" /\ m.guidance = g /\ m.run = executor[e].run
      /\ m.version = executor[e].version /\ m.consumedSteps = executor[e].consumedSteps
    BY <1>1 DEF Memories
<1>5. CASE replay # {}
  <2>1. g \in replay
      BY <1>5, OldestIsOne DEF Guidance, AppliedAt
  <2>2. command' = command
      BY <1>5 DEF ClaimAdminCommandAtBoundary
  <2> HIDE DEF m
  <2> QED
      BY <1>3, <1>4, <2>1, <2>2 DEF ClaimAdminCommandAtBoundary, ClaimMove, At, Holds
<1>6. CASE replay = {}
  <2>1. g \in pending \/ g = None
      BY <1>6, OldestIsOne DEF Guidance
  <2>2. command' = [c \in Commands |->
                        IF c \in late THEN [command[c] EXCEPT !.status = "expired"]
                        ELSE IF c = g
                             THEN [status |-> "applied", boundary |-> Boundary(e)]
                             ELSE command[c]]
      BY <1>6 DEF ClaimAdminCommandAtBoundary, Guidance
  <2> HIDE DEF g
  <2>3. g # None => /\ command[g].status = "accepted"
                    /\ command'[g] = [status |-> "applied", boundary |-> Boundary(e)]
      BY <2>1, <2>2
  <2>4. ASSUME NEW c \in Commands \ {g}
        PROVE  \/ command'[c] = command[c]
               \/ /\ command[c].status = "accepted" /\ command'[c].status = "expired"
                  /\ command'[c].boundary = command[c].boundary
    <3>1. command[c] \in CommandRows
        BY DEF TypeInv, TypeOK
    <3> QED
        BY <2>2, <3>1 DEF CommandRows
  <2> HIDE DEF m, replay, pending, late
  <2>5. /\ executor[e].pc = "prompt" /\ executor[e].guidance = None
        /\ run[executor[e].run].status \in Active
        /\ UNCHANGED <<run, heard, faults, overlaps>>
      BY DEF ClaimAdminCommandAtBoundary, At
  <2> QED
      BY <1>3, <1>4, <1>6, <2>3, <2>4, <2>5 DEF ClaimMove, Holds, replay
<1> QED
    BY <1>5, <1>6
LEMMA GoesMove ==
    ASSUME TypeInv, NEW e \in Executors,
           \/ KeepGuidance(e) \/ BudgetExhausted(e) \/ FailBeforeStep(e)
           \/ (AnswerTool(e) /\ UNCHANGED run)
    PROVE  GoMove(e)
<1>1. executor[e] \in Memories
    BY DEF TypeInv, TypeOK
<1> DEFINE next == IF executor[e].consumedSteps < StepBudget THEN "prompt" ELSE "fail"
<1>2. ASSUME NEW pc, Becomes(e, [executor[e] EXCEPT !.pc = pc])
      PROVE  /\ executor'[e].pc = pc /\ Rest(e) /\ Holds(e)
             /\ executor'[e].guidance = executor[e].guidance
  <2>1. executor'[e] = [executor[e] EXCEPT !.pc = pc] /\ Rest(e)
      BY <1>2, Replaced
  <2> QED
      BY <1>1, <2>1 DEF Memories, Holds
<1>3. CASE KeepGuidance(e)
    BY <1>2, <1>3 DEF KeepGuidance, Go, At, GoMove
<1>4. CASE BudgetExhausted(e)
    BY <1>2, <1>4 DEF BudgetExhausted, Go, At, GoMove
<1>6. CASE FailBeforeStep(e)
    BY <1>2, <1>6 DEF FailBeforeStep, Go, GoMove
<1>5. CASE AnswerTool(e) /\ (UNCHANGED run \/ ~Current(e))
  <2>1. /\ Becomes(e, [executor[e] EXCEPT !.pc = next]) /\ UNCHANGED run
        /\ UNCHANGED <<command, heard, faults, overlaps>> /\ executor[e].pc = "tool"
    <3>1. ~Persist(e, [run[executor[e].run] EXCEPT !.guidance = executor[e].guidance])
      <4>1. CASE ~Current(e)
          BY <4>1 DEF Persist
      <4>2. CASE UNCHANGED run
        <5>1. executor[e].run \in Runs /\ run[executor[e].run] \in RunRows
            BY <1>5, MemoryOf DEF AnswerTool, At
        <5>2. executor[e].guidance \in Commands \cup {None}
            BY <1>1 DEF Memories
        <5> DEFINE row == [run[executor[e].run] EXCEPT !.guidance = executor[e].guidance]
        <5>3. row \in RunRows /\ row.version = run[executor[e].run].version
            BY <5>1, <5>2 DEF RunRows
        <5>4. Persist(e, row) => run'[executor[e].run].version = run[executor[e].run].version + 1
          <6> HIDE DEF row
          <6>1. SUFFICES ASSUME Persist(e, row)
                         PROVE  run'[executor[e].run].version = run[executor[e].run].version + 1
              OBVIOUS
          <6>2. run'[executor[e].run] = [row EXCEPT !.version = row.version + 1]
              BY <5>1, <5>3, <6>1, RowTyped
          <6> QED
              BY <5>3, <6>2 DEF RunRows
        <5>5. run[executor[e].run].version + 1 # run[executor[e].run].version
            BY <5>1 DEF RunRows
        <5> QED
            BY <4>2, <5>4, <5>5
      <4> QED
          BY <1>5, <4>1, <4>2
    <3> QED
        BY <1>5, <3>1 DEF AnswerTool, Go, At
  <2>2. /\ executor'[e].pc = next /\ Rest(e) /\ Holds(e)
        /\ executor'[e].guidance = executor[e].guidance
      BY <1>2, <2>1
  <2> QED
      BY <2>1, <2>2 DEF GoMove
<1> QED
    BY <1>3, <1>4, <1>5, <1>6

LEMMA CallsMove ==
    ASSUME TypeInv, NEW e \in Executors, CallModel(e)
    PROVE  CallMove(e)
<1>1. executor[e] \in Memories
    BY DEF TypeInv, TypeOK
<1> DEFINE answered == [executor[e] EXCEPT !.pc = "tool", !.guidance = None]
           failed == [executor[e] EXCEPT !.pc = "fail"]
<1>2. Becomes(e, answered) \/ Becomes(e, failed)
    BY DEF CallModel, Generated, GenerationFails, Go
<1>3. (executor'[e] = answered \/ executor'[e] = failed) /\ Rest(e)
    BY <1>2, Replaced
<1>4. /\ executor'[e].pc \in {"tool", "fail"} /\ Holds(e)
      /\ executor'[e].guidance \in {executor[e].guidance, None}
    BY <1>1, <1>3 DEF Memories, Holds
<1>5. ASSUME NEW c \in Commands
      PROVE  heard'[c] = IF c = executor[e].guidance
                         THEN heard[c] \cup {<<executor[e].run, executor[e].consumedSteps>>}
                         ELSE heard[c]
    BY DEF CallModel, Hears
<1> QED
    BY <1>3, <1>4, <1>5 DEF CallModel, At, CallMove

\* The row after an executor's transaction.
LEMMA Written ==
    ASSUME TypeInv, NEW e \in Executors, executor[e].pc # "idle",
           NEW row \in RunRows, Persist(e, row)
    PROVE  /\ Current(e) /\ OtherRuns(executor[e].run)
           /\ run'[executor[e].run].version = row.version + 1
           /\ run'[executor[e].run].guidance = row.guidance
           /\ run'[executor[e].run].consumedSteps = row.consumedSteps
           /\ run'[executor[e].run].status = row.status
<1>1. executor[e].run \in Runs
    BY MemoryOf
<1>2. run'[executor[e].run] = [row EXCEPT !.version = row.version + 1] /\ OtherRuns(executor[e].run)
    BY <1>1, RowTyped DEF OtherRuns
<1>3. Current(e)
    BY DEF Persist
<1> QED
    BY <1>2, <1>3 DEF RunRows

\* What an executor holds after its transaction.
LEMMA Went ==
    ASSUME TypeInv, NEW e \in Executors, executor[e].pc # "idle", Current(e),
           NEW pc, Becomes(e, Advanced(e, pc))
    PROVE  /\ executor'[e].pc = pc /\ Rest(e)
           /\ executor'[e].run = executor[e].run
           /\ executor'[e].version = run[executor[e].run].version + 1
           /\ executor'[e].guidance = executor[e].guidance
           /\ executor'[e].consumedSteps = executor[e].consumedSteps
<1>1. executor[e] \in Memories
    BY MemoryOf
<1>2. executor'[e] = [executor[e] EXCEPT !.pc = pc, !.version = executor[e].version + 1]
      /\ Rest(e)
    BY Replaced DEF Advanced
<1> QED
    BY <1>1, <1>2 DEF Memories, Current

LEMMA ResolvesMove ==
    ASSUME TypeInv, NEW e \in Executors, ResolveWait(e)
    PROVE  WriteMove(e)
<1> DEFINE old == run[executor[e].run]
           row == [old EXCEPT !.status = "running"]
<1>1. executor[e].pc = "resolve" /\ old \in RunRows
    BY MemoryOf DEF ResolveWait, At
<1>2. row \in RunRows /\ row.version = old.version /\ row.guidance = old.guidance
      /\ row.consumedSteps = old.consumedSteps /\ row.status = "running"
    BY <1>1 DEF RunRows, Active
<1>3. Persist(e, row) /\ (Becomes(e, Idle) \/ Becomes(e, Advanced(e, "prompt")))
      /\ UNCHANGED <<command, heard, faults, overlaps>>
    BY DEF ResolveWait, Ends
<1> HIDE DEF row
<1>4. /\ Current(e) /\ OtherRuns(executor[e].run)
      /\ run'[executor[e].run].version = old.version + 1
      /\ run'[executor[e].run].guidance = old.guidance
      /\ run'[executor[e].run].consumedSteps = old.consumedSteps
      /\ run'[executor[e].run].status = "running"
    BY <1>1, <1>2, <1>3, Written
<1>5. CASE Becomes(e, Idle)
  <2>1. executor'[e] = Idle /\ Rest(e)
      BY <1>5, Replaced
  <2> QED
      BY <1>1, <1>3, <1>4, <2>1 DEF WriteMove
<1>6. CASE Becomes(e, Advanced(e, "prompt"))
  <2>1. /\ executor'[e].pc = "prompt" /\ Rest(e) /\ executor'[e].run = executor[e].run
        /\ executor'[e].version = old.version + 1
        /\ executor'[e].guidance = executor[e].guidance
        /\ executor'[e].consumedSteps = executor[e].consumedSteps
      BY <1>1, <1>4, <1>6, Went
  <2>2. GoesOn(e)
      BY <1>1, <1>4, <2>1 DEF GoesOn
  <2> QED
      BY <1>1, <1>3, <1>4, <2>1, <2>2 DEF WriteMove
<1> QED
    BY <1>3, <1>5, <1>6

LEMMA ConsumesMove ==
    ASSUME TypeInv, NEW e \in Executors, ConsumeStep(e)
    PROVE  WriteMove(e)
<1> DEFINE old == run[executor[e].run]
           steps == old.consumedSteps + 1
           row == [old EXCEPT !.status = "running", !.guidance = executor[e].guidance,
                              !.consumedSteps = steps]
           m == [executor[e] EXCEPT !.pc = "call", !.version = executor[e].version + 1,
                                    !.consumedSteps = steps]
<1>1. /\ executor[e].pc = "consume" /\ old \in RunRows /\ executor[e] \in Memories
      /\ executor[e].run \in Runs
    BY MemoryOf DEF ConsumeStep, At
<1>2. steps \in 0..StepBudget
    BY <1>1, ConstantsAssumption DEF RunRows, ConsumeStep
<1>3. executor[e].guidance \in Commands \cup {None}
    BY <1>1 DEF Memories
<1>4. row \in RunRows /\ row.version = old.version /\ row.guidance = executor[e].guidance
      /\ row.consumedSteps = steps /\ row.status = "running"
    BY <1>1, <1>2, <1>3 DEF RunRows, Active
<1>5. m = [Advanced(e, "call") EXCEPT !.consumedSteps = steps]
    BY <1>1 DEF Advanced, Memories
<1>6. Persist(e, row) /\ Becomes(e, m) /\ UNCHANGED <<command, heard, faults, overlaps>>
    BY <1>5 DEF ConsumeStep
<1>7. /\ m.pc = "call" /\ m.run = executor[e].run /\ m.version = executor[e].version + 1
      /\ m.guidance = executor[e].guidance /\ m.consumedSteps = steps
    BY <1>1 DEF Memories
<1> HIDE DEF row, m
<1>8. /\ Current(e) /\ OtherRuns(executor[e].run)
      /\ run'[executor[e].run].version = old.version + 1
      /\ run'[executor[e].run].guidance = executor[e].guidance
      /\ run'[executor[e].run].consumedSteps = steps
      /\ run'[executor[e].run].status = "running"
    BY <1>1, <1>4, <1>6, Written
<1>9. executor'[e] = m /\ Rest(e)
    BY <1>6, Replaced
<1>10. GoesOn(e)
    BY <1>1, <1>7, <1>8, <1>9 DEF GoesOn, Current
<1> QED
    BY <1>1, <1>6, <1>8, <1>9, <1>10 DEF WriteMove

LEMMA AnswersMove ==
    ASSUME TypeInv, NEW e \in Executors, AnswerTool(e)
    PROVE  WriteMove(e) \/ GoMove(e)
<1> DEFINE old == run[executor[e].run]
           row == [old EXCEPT !.guidance = executor[e].guidance]
           next == IF executor[e].consumedSteps < StepBudget THEN "prompt" ELSE "fail"
<1>1. /\ executor[e].pc = "tool" /\ old \in RunRows /\ executor[e] \in Memories
      /\ executor[e].run \in Runs
    BY MemoryOf DEF AnswerTool, At
<1>2. executor[e].guidance \in Commands \cup {None}
    BY <1>1 DEF Memories
<1>3. row \in RunRows /\ row.version = old.version /\ row.guidance = executor[e].guidance
      /\ row.consumedSteps = old.consumedSteps /\ row.status = old.status
    BY <1>1, <1>2 DEF RunRows
<1>4. \/ Persist(e, row) /\ Becomes(e, Advanced(e, next))
      \/ UNCHANGED run
    BY DEF AnswerTool
<1>5. next \in {"prompt", "fail"} /\ UNCHANGED <<command, heard, faults, overlaps>>
    BY DEF AnswerTool
<1> HIDE DEF row, next
<1>6. CASE Persist(e, row) /\ Becomes(e, Advanced(e, next))
  <2>1. /\ Current(e) /\ OtherRuns(executor[e].run)
        /\ run'[executor[e].run].version = old.version + 1
        /\ run'[executor[e].run].guidance = executor[e].guidance
        /\ run'[executor[e].run].consumedSteps = old.consumedSteps
        /\ run'[executor[e].run].status = old.status
      BY <1>1, <1>3, <1>6, Written
  <2>2. /\ executor'[e].pc = next /\ Rest(e) /\ executor'[e].run = executor[e].run
        /\ executor'[e].version = old.version + 1
        /\ executor'[e].guidance = executor[e].guidance
        /\ executor'[e].consumedSteps = executor[e].consumedSteps
      BY <1>1, <1>6, <2>1, Went
  <2>3. GoesOn(e)
      BY <1>1, <1>5, <2>1, <2>2 DEF GoesOn
  <2> QED
      BY <1>1, <1>5, <2>1, <2>2, <2>3 DEF WriteMove
<1> QED
    BY <1>4, <1>6, GoesMove

LEMMA EndsMove ==
    ASSUME TypeInv, NEW e \in Executors,
           FailRun(e) \/ \E status \in {"waiting", "completed"} : LeaveRun(e, status)
    PROVE  WriteMove(e)
<1>1. PICK status \in {"waiting", "completed", "failed"} :
        /\ Persist(e, [run[executor[e].run] EXCEPT !.status = status,
                                                   !.guidance = executor[e].guidance])
        /\ executor[e].pc = IF status = "failed" THEN "fail" ELSE "tool"
        /\ Becomes(e, Idle) /\ UNCHANGED <<command, heard, faults, overlaps>>
    BY DEF FailRun, LeaveRun, At, Ends
<1> DEFINE old == run[executor[e].run]
           row == [old EXCEPT !.status = status, !.guidance = executor[e].guidance]
<1>2. executor[e].pc \in {"tool", "fail"} /\ old \in RunRows /\ executor[e] \in Memories
    BY <1>1, MemoryOf
<1>3. executor[e].guidance \in Commands \cup {None}
    BY <1>2 DEF Memories
<1>4. row \in RunRows /\ row.version = old.version /\ row.guidance = executor[e].guidance
      /\ row.consumedSteps = old.consumedSteps /\ row.status = status
    BY <1>2, <1>3 DEF RunRows, Terminal
<1> HIDE DEF row
<1>5. /\ Current(e) /\ OtherRuns(executor[e].run)
      /\ run'[executor[e].run].version = old.version + 1
      /\ run'[executor[e].run].guidance = executor[e].guidance
      /\ run'[executor[e].run].consumedSteps = old.consumedSteps
      /\ run'[executor[e].run].status = status
    BY <1>1, <1>2, <1>4, Written DEF row
<1>6. executor'[e] = Idle /\ Rest(e)
    BY <1>1, Replaced
<1> QED
    BY <1>1, <1>2, <1>5, <1>6 DEF WriteMove

LEMMA AdminsMove ==
    ASSUME TypeInv, NEW c \in Commands, SubmitAdminCommand(c) \/ Deadline(c)
    PROVE  AdminMove
<1>1. CASE SubmitAdminCommand(c)
  <2>1. ASSUME NEW d \in Commands
        PROVE  \/ command'[d] = command[d]
               \/ /\ command[d].status = "none" /\ command'[d].status = "accepted"
                  /\ command'[d].boundary = command[d].boundary
    <3>1. command[d] \in CommandRows
        BY DEF TypeInv, TypeOK
    <3> QED
        BY <1>1, <3>1 DEF SubmitAdminCommand, TypeInv, TypeOK, CommandRows
  <2> QED
      BY <1>1, <2>1 DEF SubmitAdminCommand, AdminMove
<1>2. CASE Deadline(c)
    BY <1>2 DEF Deadline, AdminMove
<1> QED
    BY <1>1, <1>2

\* Every step is one of the moves, or changes nothing.
LEMMA Moves == TypeInv /\ [Next]_vars => Move \/ UNCHANGED vars
<1> SUFFICES ASSUME TypeInv, Next PROVE Move
    OBVIOUS
<1>1. ASSUME NEW c \in Commands, SubmitAdminCommand(c) \/ Deadline(c) PROVE Move
    BY <1>1, AdminsMove DEF Move
<1>2. ASSUME NEW e \in Executors, NEW r \in Runs, StartExecutor(e, r) \/ SupersedeExecutor(e, r)
      PROVE  Move
    BY <1>2, TakesMove DEF Move
<1>3. ASSUME NEW e \in Executors, Restore(e) PROVE Move
    BY <1>3, LeavesMove, RestoresMove DEF Move
<1>4. ASSUME NEW e \in Executors, ClaimRefused(e) \/ AbandonStale(e) \/ Crash(e) PROVE Move
    BY <1>4, LeavesMove DEF Move
<1>5. ASSUME NEW e \in Executors, ClaimAdminCommandAtBoundary(e) PROVE Move
    BY <1>5, ClaimsMove DEF Move
<1>6. ASSUME NEW e \in Executors, KeepGuidance(e) \/ BudgetExhausted(e) \/ FailBeforeStep(e)
      PROVE  Move
    BY <1>6, GoesMove DEF Move
<1>7. ASSUME NEW e \in Executors, CallModel(e) PROVE Move
    BY <1>7, CallsMove DEF Move
<1>8. ASSUME NEW e \in Executors, ResolveWait(e) \/ ConsumeStep(e) PROVE Move
    BY <1>8, ResolvesMove, ConsumesMove DEF Move
<1>9. ASSUME NEW e \in Executors, AnswerTool(e) PROVE Move
    BY <1>9, AnswersMove DEF Move
<1>10. ASSUME NEW e \in Executors,
              FailRun(e) \/ \E status \in {"waiting", "completed"} : LeaveRun(e, status)
       PROVE  Move
    BY <1>10, EndsMove DEF Move
<1> QED
    BY <1>1, <1>2, <1>3, <1>4, <1>5, <1>6, <1>7, <1>8, <1>9, <1>10 DEF Next, ExecutorStep

-----------------------------------------------------------------------------
(* Versions and steps.                                                     *)

\* The versions of a run's row grow, and a row that keeps its version keeps the
\* status, the steps and the guidance, too.
LEMMA RowsGrow ==
    ASSUME TypeInv, TypeInv', Move, NEW r \in Runs
    PROVE  /\ run'[r].version >= run[r].version
           /\ run'[r].consumedSteps >= run[r].consumedSteps
           /\ run'[r].version = run[r].version =>
                /\ run'[r].status = run[r].status
                /\ run'[r].consumedSteps = run[r].consumedSteps
                /\ run'[r].guidance = run[r].guidance
<1>1. run[r].version \in Nat /\ run[r].consumedSteps \in Nat
    BY ConstantsAssumption DEF TypeInv, TypeOK, RunRows
<1>2. CASE run'[r] = run[r]
    BY <1>1, <1>2
<1>3. CASE AdminMove
    BY <1>2, <1>3 DEF AdminMove
<1>4. ASSUME NEW e \in Executors,
             LeaveMove(e) \/ RestoreMove(e) \/ ClaimMove(e) \/ GoMove(e) \/ CallMove(e)
      PROVE  run' = run
    BY <1>4 DEF LeaveMove, RestoreMove, ClaimMove, GoMove, CallMove
<1>5. ASSUME NEW e \in Executors, WriteMove(e), executor[e].run = r
      PROVE  run'[r].version = run[r].version + 1
             /\ run'[r].consumedSteps >= run[r].consumedSteps
    BY <1>1, <1>5 DEF WriteMove
<1>6. ASSUME NEW e \in Executors, WriteMove(e), executor[e].run # r
      PROVE  run'[r] = run[r]
    BY <1>6 DEF WriteMove, OtherRuns
<1>7. ASSUME NEW e \in Executors, NEW q \in Runs, TakeMove(e, q), q # r
      PROVE  run'[r] = run[r]
    BY <1>7 DEF TakeMove, OtherRuns
<1>8. ASSUME NEW e \in Executors, TakeMove(e, r)
      PROVE  /\ run'[r].version >= run[r].version /\ run'[r].status = run[r].status
             /\ run'[r].consumedSteps = run[r].consumedSteps
             /\ run'[r].guidance = run[r].guidance
    BY <1>8 DEF TakeMove
<1>9. CASE \E e \in Executors : WriteMove(e) /\ executor[e].run = r
  <2>1. PICK e \in Executors : WriteMove(e) /\ executor[e].run = r
      BY <1>9
  <2> QED
      BY <1>1, <1>5, <2>1
<1>10. CASE \E e \in Executors : TakeMove(e, r)
  <2>1. PICK e \in Executors : TakeMove(e, r)
      BY <1>10
  <2> QED
      BY <1>1, <1>8, <2>1
<1> QED
    BY <1>2, <1>3, <1>4, <1>6, <1>7, <1>9, <1>10 DEF Move

\* An executor that has read the continuation is never ahead of its run, and as
\* long as its version is the run's it has the run's steps, and the run goes on.
Behind(e) ==
    LET row == run[executor[e].run] IN
    /\ executor[e].pc # "idle" => executor[e].version <= row.version
    /\ executor[e].pc \in Past => executor[e].consumedSteps <= row.consumedSteps
    /\ executor[e].pc \in Past /\ Current(e) =>
        executor[e].consumedSteps = row.consumedSteps /\ row.status \notin Terminal

BehindInv == \A e \in Executors : Behind(e)

\* Whatever the others do, an executor that rests stays behind its run; if its
\* version is the run's after the step, the step did not touch the run.
LEMMA RestsBehind ==
    ASSUME TypeInv, TypeInv', Move, NEW f \in Executors, executor'[f] = executor[f], Behind(f)
    PROVE  /\ Behind(f)'
           /\ executor[f].pc # "idle" /\ Current(f)' => Current(f)
<1>1. CASE executor[f].pc = "idle"
    BY <1>1 DEF Behind, Past
<1>2. CASE executor[f].pc # "idle"
  <2> DEFINE r == executor[f].run
  <2>1. r \in Runs /\ executor[f] \in Memories
      BY <1>2, MemoryOf
  <2>2. /\ executor[f].version \in Nat /\ executor[f].consumedSteps \in Nat
        /\ run[r].version \in Nat /\ run'[r].version \in Nat
        /\ run[r].consumedSteps \in Nat /\ run'[r].consumedSteps \in Nat
      BY <2>1, ConstantsAssumption DEF TypeInv, TypeOK, RunRows, Memories
  <2>3. /\ run'[r].version >= run[r].version
        /\ run'[r].consumedSteps >= run[r].consumedSteps
        /\ run'[r].version = run[r].version =>
            run'[r].status = run[r].status /\ run'[r].consumedSteps = run[r].consumedSteps
      BY <2>1, RowsGrow
  <2>4. executor[f].version <= run[r].version
      BY <1>2 DEF Behind
  <2>5. Current(f)' => Current(f) /\ run'[r].version = run[r].version
      BY <2>2, <2>3, <2>4 DEF Current
  <2>6. executor[f].version <= run'[r].version
      BY <2>2, <2>3, <2>4
  <2>7. executor[f].pc \in Past => executor[f].consumedSteps <= run'[r].consumedSteps
      BY <2>2, <2>3 DEF Behind
  <2>8. executor[f].pc \in Past /\ Current(f)' =>
            executor[f].consumedSteps = run'[r].consumedSteps /\ run'[r].status \notin Terminal
      BY <2>3, <2>5 DEF Behind
  <2> QED
      BY <2>5, <2>6, <2>7, <2>8 DEF Behind
<1> QED
    BY <1>1, <1>2

LEMMA BehindInit == Init => BehindInv
BY DEF Init, BehindInv, Behind, Idle, Past

\* The executor that takes the step stays behind its run.
LEMMA MovesBehind ==
    ASSUME TypeInv, TypeInv', Move, BehindInv, NEW e \in Executors,
           \/ LeaveMove(e) \/ RestoreMove(e) \/ ClaimMove(e) \/ GoMove(e) \/ CallMove(e)
           \/ WriteMove(e) \/ \E r \in Runs : TakeMove(e, r)
    PROVE  Behind(e)'
<1>1. Behind(e)
    BY DEF BehindInv
<1> DEFINE r == executor[e].run
<1>2. CASE executor'[e] = Idle
    BY <1>2 DEF Behind, Idle, Past
<1>3. CASE LeaveMove(e)
    BY <1>2, <1>3 DEF LeaveMove
<1>4. CASE RestoreMove(e)
  <2>1. r \in Runs
      BY <1>4, MemoryOf DEF RestoreMove
  <2>2. run[r].version \in Nat /\ run[r].consumedSteps \in Nat
      BY <2>1, ConstantsAssumption DEF TypeInv, TypeOK, RunRows
  <2>3. executor[e].version <= run[r].version
      BY <1>1, <1>4 DEF Behind, RestoreMove
  <2> QED
      BY <1>4, <2>2, <2>3 DEF RestoreMove, Behind
<1>5. CASE ClaimMove(e) \/ GoMove(e) \/ CallMove(e)
  <2>1. /\ executor[e].pc \in Past /\ executor'[e].pc \in Past /\ Holds(e) /\ UNCHANGED run
      BY <1>5 DEF ClaimMove, GoMove, CallMove, Past
  <2>2. executor[e].pc # "idle"
      BY <2>1 DEF Past
  <2>3. Current(e)' => Current(e)
      BY <2>1 DEF Current, Holds
  <2> QED
      BY <1>1, <2>1, <2>2, <2>3 DEF Behind, Holds
<1>6. CASE WriteMove(e)
  <2>1. r \in Runs
      BY <1>6, MemoryOf DEF WriteMove
  <2>2. /\ run[r].version \in Nat /\ run[r].consumedSteps \in Nat
        /\ run'[r].version \in Nat /\ run'[r].consumedSteps \in Nat
      BY <2>1, ConstantsAssumption DEF TypeInv, TypeOK, RunRows
  <2>3. executor[e].consumedSteps = run[r].consumedSteps /\ run[r].status \notin Terminal
      BY <1>1, <1>6 DEF Behind, WriteMove, Past
  <2>4. CASE GoesOn(e)
    <3>1. executor'[e].run = r /\ executor'[e].version = run'[r].version
        BY <2>4 DEF GoesOn
    <3>2. executor'[e].consumedSteps = run'[r].consumedSteps
        BY <1>6, <2>3, <2>4 DEF GoesOn, WriteMove
    <3>3. run'[r].status \notin Terminal
        BY <1>6, <2>3, <2>4 DEF GoesOn, WriteMove, Terminal
    <3> QED
        BY <2>2, <3>1, <3>2, <3>3 DEF Behind
  <2> QED
      BY <1>2, <1>6, <2>4 DEF WriteMove
<1>7. ASSUME NEW q \in Runs, TakeMove(e, q)
      PROVE  Behind(e)'
  <2>1. run'[q].version \in Nat
      BY DEF TypeInv, TypeOK, RunRows
  <2> QED
      BY <1>7, <2>1 DEF TakeMove, Behind, Past
<1> QED
    BY <1>3, <1>4, <1>5, <1>6, <1>7

\* In a move only the executor that takes it changes its memory.
LEMMA OneMoves ==
    ASSUME Move, NEW f \in Executors
    PROVE  \/ executor'[f] = executor[f]
           \/ LeaveMove(f) \/ RestoreMove(f) \/ ClaimMove(f) \/ GoMove(f) \/ CallMove(f)
           \/ WriteMove(f) \/ \E r \in Runs : TakeMove(f, r)
<1>1. AdminMove => executor'[f] = executor[f]
    BY DEF AdminMove
<1>2. ASSUME NEW e \in Executors \ {f},
             \/ LeaveMove(e) \/ RestoreMove(e) \/ ClaimMove(e) \/ GoMove(e) \/ CallMove(e)
             \/ WriteMove(e) \/ \E r \in Runs : TakeMove(e, r)
      PROVE  executor'[f] = executor[f]
    BY <1>2 DEF LeaveMove, RestoreMove, ClaimMove, GoMove, CallMove, WriteMove, TakeMove, Rest
<1> QED
    BY <1>1, <1>2 DEF Move

LEMMA BehindStep ==
    ASSUME TypeInv, TypeInv', BehindInv, Move
    PROVE  BehindInv'
<1> SUFFICES ASSUME NEW f \in Executors PROVE Behind(f)'
    BY DEF BehindInv
<1>1. CASE executor'[f] = executor[f]
    BY <1>1, RestsBehind DEF BehindInv
<1> QED
    BY <1>1, OneMoves, MovesBehind

-----------------------------------------------------------------------------
(* The claim.                                                              *)

\* A command that was applied has a boundary of its own, and what an executor or a
\* continuation holds was applied to its run.
BindInv ==
    /\ \A c \in Commands :
        IF command[c].status = "applied" THEN command[c].boundary \in Runs \X Steps
                                         ELSE command[c].boundary = NoBoundary
    /\ \A c, d \in Commands :
        command[c].status = "applied" /\ command[c].boundary = command[d].boundary => c = d
    /\ \A e \in Executors : executor[e].guidance # None =>
        /\ command[executor[e].guidance].status = "applied"
        /\ command[executor[e].guidance].boundary[1] = executor[e].run
    /\ \A r \in Runs : run[r].guidance # None =>
        command[run[r].guidance].status = "applied" /\ command[run[r].guidance].boundary[1] = r

LEMMA BindInit == Init => BindInv
BY DEF Init, BindInv, Idle

\* A command that was applied stays what it is.
LEMMA AppliedStays ==
    ASSUME TypeInv, Move, NEW c \in Commands, command[c].status = "applied"
    PROVE  command'[c] = command[c]
<1>1. CASE AdminMove
    BY <1>1 DEF AdminMove
<1>2. ASSUME NEW e \in Executors, ClaimMove(e)
      PROVE  command'[c] = command[c]
    BY <1>2, ConstantsAssumption DEF ClaimMove, Commands
<1>3. ASSUME NEW e \in Executors,
             \/ LeaveMove(e) \/ RestoreMove(e) \/ GoMove(e) \/ CallMove(e)
             \/ WriteMove(e) \/ \E r \in Runs : TakeMove(e, r)
      PROVE  command'[c] = command[c]
    BY <1>3 DEF LeaveMove, RestoreMove, GoMove, CallMove, WriteMove, TakeMove
<1> QED
    BY <1>1, <1>2, <1>3 DEF Move

\* A claim gives the executor a command that was applied at its boundary, or none,
\* and applies nothing else.
LEMMA Claimed ==
    ASSUME TypeInv, TypeInv', BindInv, NEW e \in Executors, ClaimMove(e)
    PROVE  /\ Boundary(e) \in Runs \X Steps
           /\ executor'[e].guidance # None =>
                /\ command'[executor'[e].guidance].status = "applied"
                /\ command'[executor'[e].guidance].boundary = Boundary(e)
           /\ \A c \in Commands : command'[c].status = "applied" =>
                \/ command'[c] = command[c]
                \/ c = executor'[e].guidance /\ AppliedAt(Boundary(e)) = {}
           /\ \A c \in Commands : command'[c].status # "applied" =>
                command'[c].boundary = command[c].boundary /\ command[c].status # "applied"
<1> DEFINE g == executor'[e].guidance
<1>1. executor[e].run \in Runs /\ executor[e] \in Memories /\ executor'[e] \in Memories
    BY MemoryOf DEF ClaimMove, TypeInv, TypeOK
<1>2. g \in Commands \cup {None}
    BY <1>1 DEF Memories
<1>3. Boundary(e) \in Runs \X Steps
    BY <1>1, ConstantsAssumption DEF Memories, Boundary, Steps
<1>4. Boundary(e) # NoBoundary
    BY <1>3, ConstantsAssumption DEF NoBoundary
<1>5. CASE command' = command /\ g \in AppliedAt(Boundary(e))
  <2>1. command[g].boundary = Boundary(e) /\ g \in Commands
      BY <1>5 DEF AppliedAt
  <2>2. command[g].status = "applied"
      BY <1>4, <2>1 DEF BindInv
  <2> QED
      BY <1>3, <1>5, <2>1, <2>2
<1>6. CASE /\ AppliedAt(Boundary(e)) = {}
           /\ g # None => /\ command[g].status = "accepted"
                          /\ command'[g] = [status |-> "applied", boundary |-> Boundary(e)]
           /\ \A c \in Commands \ {g} :
                \/ command'[c] = command[c]
                \/ /\ command[c].status = "accepted" /\ command'[c].status = "expired"
                   /\ command'[c].boundary = command[c].boundary
  <2>1. None \notin Commands
      BY ConstantsAssumption DEF Commands
  <2> HIDE DEF g
  <2>2. g # None => command'[g].status = "applied" /\ command'[g].boundary = Boundary(e)
      BY <1>6
  <2>3. ASSUME NEW c \in Commands, command'[c].status = "applied"
        PROVE  command'[c] = command[c] \/ (c = g /\ AppliedAt(Boundary(e)) = {})
      BY <1>6, <2>3
  <2>4. ASSUME NEW c \in Commands, command'[c].status # "applied"
        PROVE  command'[c].boundary = command[c].boundary /\ command[c].status # "applied"
    <3>1. c # g
        BY <2>1, <2>2, <2>4
    <3> QED
        BY <1>6, <2>4, <3>1
  <2> QED
      BY <1>3, <2>2, <2>3, <2>4 DEF g
<1> QED
    BY <1>5, <1>6 DEF ClaimMove

LEMMA BindStep ==
    ASSUME TypeInv, TypeInv', BindInv, Move
    PROVE  BindInv'
<1>1. ASSUME NEW c \in Commands
      PROVE  IF command'[c].status = "applied" THEN command'[c].boundary \in Runs \X Steps
                                               ELSE command'[c].boundary = NoBoundary
  <2>1. CASE AdminMove
      BY <2>1 DEF AdminMove, BindInv
  <2>2. ASSUME NEW e \in Executors, ClaimMove(e)
        PROVE  IF command'[c].status = "applied" THEN command'[c].boundary \in Runs \X Steps
                                                 ELSE command'[c].boundary = NoBoundary
    <3>1. executor'[e].guidance \in Commands \cup {None} /\ None \notin Commands
        BY ConstantsAssumption DEF TypeInv, TypeOK, Memories, Commands
    <3> QED
        BY <2>2, <3>1, Claimed DEF BindInv
  <2>3. ASSUME NEW e \in Executors,
               \/ LeaveMove(e) \/ RestoreMove(e) \/ GoMove(e) \/ CallMove(e)
               \/ WriteMove(e) \/ \E r \in Runs : TakeMove(e, r)
        PROVE  command' = command
      BY <2>3 DEF LeaveMove, RestoreMove, GoMove, CallMove, WriteMove, TakeMove
  <2> QED
      BY <2>1, <2>2, <2>3 DEF Move, BindInv
<1>2. ASSUME NEW c \in Commands, NEW d \in Commands,
             command'[c].status = "applied", command'[c].boundary = command'[d].boundary
      PROVE  c = d
  <2>1. command'[d].status = "applied"
    <3>1. command'[c].boundary \in Runs \X Steps
        BY <1>1, <1>2
    <3>2. command'[c].boundary # NoBoundary
        BY <3>1, ConstantsAssumption DEF NoBoundary
    <3> QED
        BY <1>1, <1>2, <3>2
  <2>2. CASE AdminMove
      BY <1>2, <2>1, <2>2 DEF AdminMove, BindInv
  <2>3. ASSUME NEW e \in Executors, ClaimMove(e)
        PROVE  c = d
    <3> DEFINE g == executor'[e].guidance
    <3>1. /\ command'[c] = command[c] \/ (c = g /\ AppliedAt(Boundary(e)) = {})
          /\ command'[d] = command[d] \/ (d = g /\ AppliedAt(Boundary(e)) = {})
        BY <1>2, <2>1, <2>3, Claimed
    <3>2. CASE command'[c] = command[c] /\ command'[d] = command[d]
        BY <1>2, <3>2 DEF BindInv
    <3>3. CASE c = g /\ command'[d] = command[d] /\ AppliedAt(Boundary(e)) = {}
      <4>1. command'[c].boundary = Boundary(e)
          BY <2>3, <3>3, Claimed, ConstantsAssumption DEF Commands
      <4> QED
          BY <1>2, <3>3, <4>1 DEF AppliedAt
    <3>4. CASE d = g /\ command'[c] = command[c] /\ AppliedAt(Boundary(e)) = {}
      <4>1. command'[d].boundary = Boundary(e)
          BY <2>3, <3>4, Claimed, ConstantsAssumption DEF Commands
      <4> QED
          BY <1>2, <3>4, <4>1 DEF AppliedAt
    <3> QED
        BY <3>1, <3>2, <3>3, <3>4
  <2>4. ASSUME NEW e \in Executors,
               \/ LeaveMove(e) \/ RestoreMove(e) \/ GoMove(e) \/ CallMove(e)
               \/ WriteMove(e) \/ \E r \in Runs : TakeMove(e, r)
        PROVE  c = d
    <3>1. command' = command
        BY <2>4 DEF LeaveMove, RestoreMove, GoMove, CallMove, WriteMove, TakeMove
    <3> QED
        BY <1>2, <3>1 DEF BindInv
  <2> QED
      BY <2>2, <2>3, <2>4 DEF Move
<1>3. ASSUME NEW f \in Executors, executor'[f].guidance # None
      PROVE  /\ command'[executor'[f].guidance].status = "applied"
             /\ command'[executor'[f].guidance].boundary[1] = executor'[f].run
  <2> DEFINE g == executor'[f].guidance
  <2>1. g \in Commands
      BY <1>3 DEF TypeInv, TypeOK, Memories
  <2>2. SUFFICES \/ command[g].status = "applied" /\ command[g].boundary[1] = executor'[f].run
                 \/ command'[g].status = "applied" /\ command'[g].boundary[1] = executor'[f].run
      BY <2>1, AppliedStays
  <2>3. CASE executor'[f] = executor[f]
      BY <1>3, <2>3 DEF BindInv
  <2>4. CASE LeaveMove(f) \/ \E r \in Runs : TakeMove(f, r)
    <3>1. executor'[f].guidance = None
        BY <2>4 DEF LeaveMove, TakeMove, Idle, TypeInv, Local
    <3> QED
        BY <1>3, <3>1
  <2>5. CASE RestoreMove(f)
    <3>1. executor[f].run \in Runs
        BY <2>5, MemoryOf DEF RestoreMove
    <3> QED
        BY <1>3, <2>5, <3>1 DEF RestoreMove, BindInv
  <2>6. CASE ClaimMove(f)
      BY <1>3, <2>6, Claimed DEF ClaimMove, Holds, Boundary
  <2>7. CASE GoMove(f) \/ CallMove(f)
      BY <1>3, <2>7 DEF GoMove, CallMove, Holds, BindInv
  <2>8. CASE WriteMove(f)
    <3>1. executor'[f].guidance = executor[f].guidance /\ executor'[f].run = executor[f].run
        BY <1>3, <2>8 DEF WriteMove, GoesOn, Idle
    <3> QED
        BY <1>3, <3>1 DEF BindInv
  <2> QED
      BY <2>3, <2>4, <2>5, <2>6, <2>7, <2>8, OneMoves
<1>4. ASSUME NEW r \in Runs, run'[r].guidance # None
      PROVE  /\ command'[run'[r].guidance].status = "applied"
             /\ command'[run'[r].guidance].boundary[1] = r
  <2>1. run'[r].guidance \in Commands
      BY <1>4 DEF TypeInv, TypeOK, RunRows
  <2>2. SUFFICES \/ run'[r].guidance = run[r].guidance
                 \/ \E e \in Executors : executor[e].run = r
                                         /\ executor[e].guidance = run'[r].guidance
      BY <1>4, <2>1, AppliedStays DEF BindInv
  <2>3. CASE AdminMove
      BY <2>3 DEF AdminMove
  <2>4. ASSUME NEW e \in Executors,
               LeaveMove(e) \/ RestoreMove(e) \/ ClaimMove(e) \/ GoMove(e) \/ CallMove(e)
        PROVE  run'[r].guidance = run[r].guidance
      BY <2>4 DEF LeaveMove, RestoreMove, ClaimMove, GoMove, CallMove
  <2>5. ASSUME NEW e \in Executors, NEW q \in Runs, TakeMove(e, q)
        PROVE  run'[r].guidance = run[r].guidance
      BY <2>5 DEF TakeMove, OtherRuns
  <2>6. ASSUME NEW e \in Executors, WriteMove(e)
        PROVE  \/ run'[r].guidance = run[r].guidance
               \/ executor[e].run = r /\ executor[e].guidance = run'[r].guidance
      BY <2>6 DEF WriteMove, OtherRuns
  <2> QED
      BY <2>3, <2>4, <2>5, <2>6 DEF Move
<1> QED
    BY <1>1, <1>2, <1>3, <1>4 DEF BindInv

\* A step that changes nothing keeps an invariant, and another is a move.
LEMMA BindNext == TypeInv /\ BindInv /\ [Next]_vars => BindInv'
<1> SUFFICES ASSUME TypeInv, BindInv, [Next]_vars PROVE BindInv'
    OBVIOUS
<1>1. TypeInv'
    BY TypesStep
<1>2. CASE Move
    BY <1>1, <1>2, BindStep
<1>3. CASE UNCHANGED vars
    BY <1>3 DEF vars, BindInv
<1> QED
    BY <1>2, <1>3, Moves

\* Whatever an executor holds or a continuation stores is a command that was claimed
\* for that run, although the claim is not fenced by the lease or the version, and
\* two commands never share a boundary.
THEOREM GuidanceBound == Spec => []GuidanceIsBound
<1>1. BindInv => GuidanceIsBound
    BY DEF BindInv, GuidanceIsBound
<1> QED
    BY <1>1, TypesInit, TypesStep, BindInit, BindNext, PTL DEF Spec

-----------------------------------------------------------------------------
(* What a continuation forgets.                                            *)

\* An executor whose version is the run's holds the stored guidance, or the model
\* has heard that guidance.
SaidInv == \A e \in Executors :
    LET stored == run[executor[e].run].guidance IN
    executor[e].pc \in Past /\ Current(e) /\ stored # None =>
        executor[e].guidance = stored \/ heard[stored] # {}

LEMMA SaidInit == Init => SaidInv
BY DEF Init, SaidInv, Idle, Past

\* The model does not forget what it heard.
LEMMA HeardStays ==
    ASSUME Move, NEW c \in Commands, heard[c] # {}
    PROVE  heard'[c] # {}
<1>1. ASSUME NEW e \in Executors, CallMove(e) PROVE heard'[c] # {}
    BY <1>1 DEF CallMove
<1>2. ASSUME NEW e \in Executors,
             \/ LeaveMove(e) \/ RestoreMove(e) \/ ClaimMove(e) \/ GoMove(e)
             \/ WriteMove(e) \/ \E r \in Runs : TakeMove(e, r)
      PROVE  heard' = heard
    BY <1>2 DEF LeaveMove, RestoreMove, ClaimMove, GoMove, WriteMove, TakeMove
<1>3. AdminMove => heard' = heard
    BY DEF AdminMove
<1> QED
    BY <1>1, <1>2, <1>3 DEF Move

LEMMA SaidStep ==
    ASSUME TypeInv, TypeInv', BehindInv, SaidInv, Move
    PROVE  SaidInv'
<1> SUFFICES ASSUME NEW f \in Executors, executor'[f].pc \in Past, Current(f)',
                    run'[executor'[f].run].guidance # None
             PROVE  \/ executor'[f].guidance = run'[executor'[f].run].guidance
                    \/ heard'[run'[executor'[f].run].guidance] # {}
    BY DEF SaidInv
<1> DEFINE r == executor[f].run
           stored == run'[r].guidance
<1>1. CASE executor'[f] = executor[f]
  <2>1. executor[f].pc # "idle" /\ r \in Runs
      BY <1>1, MemoryOf DEF Past
  <2>2. Current(f)
      BY <1>1, <2>1, RestsBehind DEF BehindInv
  <2>3. run'[r].version = run[r].version
      BY <1>1, <2>2 DEF Current
  <2>4. run'[r].guidance = run[r].guidance
      BY <2>1, <2>3, RowsGrow
  <2>5. stored \in Commands
      BY <1>1, <2>1 DEF TypeInv, TypeOK, RunRows
  <2>6. executor[f].guidance = stored \/ heard[stored] # {}
      BY <1>1, <2>2, <2>4 DEF SaidInv
  <2> QED
      BY <1>1, <2>5, <2>6, HeardStays
<1>2. CASE LeaveMove(f) \/ \E q \in Runs : TakeMove(f, q)
    BY <1>2 DEF LeaveMove, TakeMove, Idle, Past
<1>3. CASE RestoreMove(f)
    BY <1>3 DEF RestoreMove
<1>4. CASE ClaimMove(f) \/ GoMove(f) \/ CallMove(f)
  <2>1. executor[f].pc \in Past /\ executor'[f].run = r /\ Holds(f) /\ run' = run
      BY <1>4 DEF ClaimMove, GoMove, CallMove, Holds, Past
  <2>2. r \in Runs
      BY <2>1, MemoryOf DEF Past
  <2>3. Current(f) /\ stored = run[r].guidance /\ stored \in Commands
      BY <2>1, <2>2 DEF Current, Holds, TypeInv, TypeOK, RunRows
  <2>4. executor[f].guidance = stored \/ heard[stored] # {}
      BY <2>1, <2>3 DEF SaidInv
  <2>5. CASE heard[stored] # {}
      BY <2>1, <2>3, <2>5, HeardStays
  <2>6. CASE executor[f].guidance = stored
    <3>1. CASE ClaimMove(f)
        BY <2>1, <2>6, <3>1 DEF ClaimMove
    <3>2. CASE GoMove(f)
        BY <2>1, <2>6, <3>2 DEF GoMove
    <3>3. CASE CallMove(f)
        BY <2>1, <2>3, <2>6, <3>3 DEF CallMove
    <3> QED
        BY <1>4, <3>1, <3>2, <3>3
  <2> QED
      BY <2>4, <2>5, <2>6
<1>5. CASE WriteMove(f)
  <2>1. GoesOn(f)
      BY <1>5 DEF WriteMove, Idle, Past
  <2>2. executor'[f].run = r /\ executor'[f].guidance = executor[f].guidance
      BY <2>1 DEF GoesOn
  <2>3. CASE executor[f].pc # "resolve"
      BY <1>5, <2>2, <2>3 DEF WriteMove
  <2>4. CASE executor[f].pc = "resolve"
    <3>1. r \in Runs /\ Current(f) /\ stored = run[r].guidance
        BY <1>5, <2>4, MemoryOf DEF WriteMove
    <3>2. stored \in Commands
        BY <2>2, <3>1 DEF TypeInv, TypeOK, RunRows
    <3>3. executor[f].guidance = stored \/ heard[stored] # {}
        BY <2>2, <2>4, <3>1 DEF SaidInv, Past
    <3> QED
        BY <2>2, <3>2, <3>3, HeardStays
  <2> QED
      BY <2>3, <2>4
<1> QED
    BY <1>1, <1>2, <1>3, <1>4, <1>5, OneMoves

LEMMA BehindNext == TypeInv /\ BehindInv /\ [Next]_vars => BehindInv'
<1> SUFFICES ASSUME TypeInv, BehindInv, [Next]_vars PROVE BehindInv'
    OBVIOUS
<1>1. TypeInv'
    BY TypesStep
<1>2. CASE Move
    BY <1>1, <1>2, BehindStep
<1>3. CASE UNCHANGED vars
    BY <1>3 DEF vars, BehindInv, Behind, Current
<1> QED
    BY <1>2, <1>3, Moves

LEMMA SaidNext == TypeInv /\ BehindInv /\ SaidInv /\ [Next]_vars => SaidInv'
<1> SUFFICES ASSUME TypeInv, BehindInv, SaidInv, [Next]_vars PROVE SaidInv'
    OBVIOUS
<1>1. TypeInv'
    BY TypesStep
<1>2. CASE Move
    BY <1>1, <1>2, SaidStep
<1>3. CASE UNCHANGED vars
    BY <1>3 DEF vars, SaidInv, Current
<1> QED
    BY <1>2, <1>3, Moves

\* Only a transaction of an executor whose version is the run's replaces the guidance
\* of the continuation, by its own.
LEMMA Forgotten ==
    ASSUME TypeInv, SaidInv, Move, NEW r \in Runs, run[r].guidance # None,
           run'[r].guidance # run[r].guidance
    PROVE  heard[run[r].guidance] # {}
<1>1. PICK e \in Executors : WriteMove(e) /\ executor[e].run = r
  <2>1. ~AdminMove
      BY DEF AdminMove
  <2>2. ASSUME NEW e \in Executors
        PROVE  ~(LeaveMove(e) \/ RestoreMove(e) \/ ClaimMove(e) \/ GoMove(e) \/ CallMove(e))
      BY DEF LeaveMove, RestoreMove, ClaimMove, GoMove, CallMove
  <2>3. ASSUME NEW e \in Executors, NEW q \in Runs
        PROVE  ~TakeMove(e, q)
      BY DEF TakeMove, OtherRuns
  <2>4. ASSUME NEW e \in Executors, WriteMove(e)
        PROVE  executor[e].run = r
      BY <2>4 DEF WriteMove, OtherRuns
  <2> QED
      BY <2>1, <2>2, <2>3, <2>4 DEF Move
<1>2. executor[e].pc \in Past /\ Current(e) /\ run'[r].guidance = executor[e].guidance
    BY <1>1 DEF WriteMove, Past
<1> QED
    BY <1>1, <1>2 DEF SaidInv

\* Guidance stored in a continuation leaves it only after the model has heard it,
\* whatever crashes or is superseded: the row is rewritten only by an executor whose
\* version is the run's, and such a one still holds what is stored.
THEOREM StoredIsHeard == Spec => StoredGuidanceIsHeard
<1> DEFINE Kept == \A r \in Runs, c \in Commands :
            run[r].guidance = c /\ run'[r].guidance # c => heard[c] # {}
<1>1. TypeInv /\ SaidInv /\ [Next]_vars => [Kept]_vars
  <2> SUFFICES ASSUME TypeInv, SaidInv, Move,
                      NEW r \in Runs, NEW c \in Commands,
                      run[r].guidance = c, run'[r].guidance # c
               PROVE  heard[c] # {}
      BY Moves
  <2>1. run[r].guidance # None
      BY ConstantsAssumption DEF Commands
  <2> QED
      BY <2>1, Forgotten
<1> QED
    BY <1>1, TypesInit, TypesStep, BehindInit, BehindNext, SaidInit, SaidNext, PTL
       DEF Spec, StoredGuidanceIsHeard

-----------------------------------------------------------------------------
(* Lost commands.                                                          *)

\* A run that has ended stays so, since nobody can write to it.
LEMMA EndsForGood ==
    ASSUME TypeInv, BehindInv, Move, NEW r \in Runs, run[r].status \in Terminal
    PROVE  run'[r].status \in Terminal
<1>1. ASSUME NEW e \in Executors, WriteMove(e)
      PROVE  run'[r] = run[r]
  <2>1. executor[e].run # r
      BY <1>1 DEF WriteMove, BehindInv, Behind, Past
  <2> QED
      BY <1>1, <2>1 DEF WriteMove, OtherRuns
<1>2. ASSUME NEW e \in Executors, NEW q \in Runs, TakeMove(e, q)
      PROVE  run'[r].status = run[r].status
    BY <1>2 DEF TakeMove, OtherRuns
<1>3. ASSUME NEW e \in Executors,
             LeaveMove(e) \/ RestoreMove(e) \/ ClaimMove(e) \/ GoMove(e) \/ CallMove(e)
      PROVE  run' = run
    BY <1>3 DEF LeaveMove, RestoreMove, ClaimMove, GoMove, CallMove
<1>4. AdminMove => run' = run
    BY DEF AdminMove
<1> QED
    BY <1>1, <1>2, <1>3, <1>4 DEF Move

\* The run's part of Lost: it has ended, or it is past the boundary's step and
\* stores something else.
PassedOver(c) ==
    LET r == command[c].boundary[1]  step == command[c].boundary[2] IN
    \/ run[r].status \in Terminal
    \/ run[r].consumedSteps >= step /\ run[r].guidance # c

\* The executors' part: none that holds the command can say it any more.
Unsaid(c) == \A e \in Executors : executor[e].guidance = c => ~At(e, "call") /\ ~Current(e)

LEMMA PassedOverStays ==
    ASSUME TypeInv, TypeInv', BehindInv, BindInv, Move, NEW c \in Commands,
           command[c].status = "applied", PassedOver(c), Unsaid(c)
    PROVE  PassedOver(c)'
<1> DEFINE r == command[c].boundary[1]
           step == command[c].boundary[2]
<1>1. command'[c] = command[c] /\ r \in Runs /\ step \in Nat
    BY AppliedStays, ConstantsAssumption DEF BindInv, Steps
<1>2. CASE run[r].status \in Terminal
    BY <1>1, <1>2, EndsForGood DEF PassedOver
<1>3. CASE run[r].consumedSteps >= step /\ run[r].guidance # c
  <2>1. run'[r].consumedSteps >= step
    <3>1. run'[r].consumedSteps >= run[r].consumedSteps
        BY <1>1, RowsGrow
    <3>2. run[r].consumedSteps \in Nat /\ run'[r].consumedSteps \in Nat
        BY <1>1, ConstantsAssumption DEF TypeInv, TypeOK, RunRows
    <3> QED
        BY <1>1, <1>3, <3>1, <3>2
  <2>2. run'[r].guidance # c
    <3>1. ASSUME NEW e \in Executors, WriteMove(e)
          PROVE  run'[r].guidance # c
      <4>1. run'[r] = run[r] \/ executor[e].run = r
          BY <1>1, <3>1 DEF WriteMove, OtherRuns
      <4>2. CASE executor[e].run = r
          BY <1>3, <3>1, <4>2 DEF WriteMove, Unsaid
      <4> QED
          BY <1>3, <4>1, <4>2
    <3>2. ASSUME NEW e \in Executors, NEW q \in Runs, TakeMove(e, q)
          PROVE  run'[r].guidance # c
      <4>1. run'[r] = run[r] \/ q = r
          BY <1>1, <3>2 DEF TakeMove, OtherRuns
      <4> QED
          BY <1>3, <3>2, <4>1 DEF TakeMove
    <3>3. ASSUME NEW e \in Executors,
                 LeaveMove(e) \/ RestoreMove(e) \/ ClaimMove(e) \/ GoMove(e) \/ CallMove(e)
          PROVE  run' = run
        BY <3>3 DEF LeaveMove, RestoreMove, ClaimMove, GoMove, CallMove
    <3>4. AdminMove => run' = run
        BY DEF AdminMove
    <3> QED
        BY <1>3, <3>1, <3>2, <3>3, <3>4 DEF Move
  <2> QED
      BY <1>1, <2>1, <2>2 DEF PassedOver
<1> QED
    BY <1>2, <1>3 DEF PassedOver

LEMMA UnsaidStays ==
    ASSUME TypeInv, TypeInv', BehindInv, BindInv, Move, NEW c \in Commands,
           command[c].status = "applied", PassedOver(c), Unsaid(c)
    PROVE  Unsaid(c)'
<1> SUFFICES ASSUME NEW f \in Executors, executor'[f].guidance = c
             PROVE  executor'[f].pc # "call" /\ ~Current(f)'
    BY DEF Unsaid, At
<1> DEFINE r == command[c].boundary[1]
           step == command[c].boundary[2]
<1>1. r \in Runs /\ step \in Nat /\ c # None
    BY ConstantsAssumption DEF BindInv, Steps, Commands
<1>2. CASE executor'[f] = executor[f]
  <2>1. executor[f].pc # "idle"
      BY <1>1, <1>2 DEF TypeInv, Local, Idle
  <2>2. executor[f].pc # "call" /\ ~Current(f)
      BY <1>2 DEF Unsaid, At
  <2> QED
      BY <1>2, <2>1, <2>2, RestsBehind DEF BehindInv
<1>3. CASE LeaveMove(f) \/ \E q \in Runs : TakeMove(f, q)
  <2>1. executor'[f].guidance = None
      BY <1>3 DEF LeaveMove, TakeMove, Idle, TypeInv, Local
  <2> QED
      BY <1>1, <2>1
<1>4. CASE RestoreMove(f)
  <2>1. executor[f].run \in Runs /\ run[executor[f].run].guidance = c
      BY <1>4, MemoryOf DEF RestoreMove
  <2>2. executor[f].run = r
      BY <1>1, <2>1 DEF BindInv
  <2>3. run[r].status \notin Terminal
      BY <1>4, <2>2 DEF RestoreMove
  <2> QED
      BY <2>1, <2>2, <2>3 DEF PassedOver
<1>5. CASE ClaimMove(f)
  <2>1. command'[c] = command[c]
      BY AppliedStays
  <2>2. command[c].boundary = Boundary(f) /\ Boundary(f) \in Runs \X Steps
      BY <1>1, <1>5, <2>1, Claimed
  <2>3. executor[f].run = r /\ step = executor[f].consumedSteps + 1
      BY <2>2 DEF Boundary
  <2>4. run[r].consumedSteps >= step
      BY <1>5, <2>3 DEF ClaimMove, PassedOver, Active, Terminal
  <2>5. executor[f].consumedSteps \in Nat /\ run[r].consumedSteps \in Nat
      BY <1>1, ConstantsAssumption DEF TypeInv, TypeOK, Memories, RunRows
  <2>6. ~Current(f)
      BY <1>5, <2>3, <2>4, <2>5 DEF BehindInv, Behind, Past, ClaimMove
  <2>7. executor'[f].pc # "call" /\ Holds(f) /\ run' = run
      BY <1>5 DEF ClaimMove
  <2> QED
      BY <2>6, <2>7 DEF Current, Holds
<1>6. CASE GoMove(f) \/ CallMove(f)
  <2>1. /\ executor[f].guidance = c \/ c = None
        /\ executor'[f].pc # "call" /\ Holds(f) /\ run' = run
      BY <1>6 DEF GoMove, CallMove
  <2>2. ~Current(f)
      BY <1>1, <2>1 DEF Unsaid
  <2> QED
      BY <2>1, <2>2 DEF Current, Holds
<1>7. CASE WriteMove(f)
  <2>1. executor'[f].guidance \in {executor[f].guidance, None}
      BY <1>7 DEF WriteMove, GoesOn, Idle
  <2> QED
      BY <1>1, <1>7, <2>1 DEF WriteMove, Unsaid
<1> QED
    BY <1>2, <1>3, <1>4, <1>5, <1>6, <1>7, OneMoves

LEMMA UnheardStays ==
    ASSUME Move, NEW c \in Commands, Unsaid(c), heard[c] = {}
    PROVE  heard'[c] = {}
<1>1. ASSUME NEW e \in Executors, CallMove(e) PROVE heard'[c] = {}
    BY <1>1 DEF CallMove, Unsaid, At
<1>2. ASSUME NEW e \in Executors,
             \/ LeaveMove(e) \/ RestoreMove(e) \/ ClaimMove(e) \/ GoMove(e)
             \/ WriteMove(e) \/ \E r \in Runs : TakeMove(e, r)
      PROVE  heard' = heard
    BY <1>2 DEF LeaveMove, RestoreMove, ClaimMove, GoMove, WriteMove, TakeMove
<1>3. AdminMove => heard' = heard
    BY DEF AdminMove
<1> QED
    BY <1>1, <1>2, <1>3 DEF Move

LEMMA LostIs ==
    ASSUME NEW c \in Commands
    PROVE  Lost(c) <=> /\ command[c].status = "applied" /\ heard[c] = {}
                       /\ PassedOver(c) /\ Unsaid(c)
BY DEF Lost, PassedOver, Unsaid

LEMMA LostStays ==
    ASSUME TypeInv, TypeInv', BehindInv, BindInv, Move, NEW c \in Commands, Lost(c)
    PROVE  Lost(c)'
<1>1. command[c].status = "applied" /\ heard[c] = {} /\ PassedOver(c) /\ Unsaid(c)
    BY LostIs
<1>2. command'[c].status = "applied"
    BY <1>1, AppliedStays
<1>3. heard'[c] = {} /\ PassedOver(c)' /\ Unsaid(c)'
    BY <1>1, UnheardStays, PassedOverStays, UnsaidStays
<1> QED
    BY <1>2, <1>3 DEF Lost, PassedOver, Unsaid

\* A command that is recorded as applied, was not heard and was passed over is lost
\* for good: its run never comes to that boundary again, no executor that still
\* holds it reaches the model, and no other run may claim it.
THEOREM LostIsForGood == Spec => LostForGood
<1> DEFINE Kept == \A c \in Commands : Lost(c) => Lost(c)'
<1>1. TypeInv /\ TypeInv' /\ BehindInv /\ BindInv /\ [Next]_vars => [Kept]_vars
    BY Moves, LostStays
<1> QED
    BY <1>1, TypesInit, TypesStep, BehindInit, BehindNext, BindInit, BindNext, PTL
       DEF Spec, LostForGood

-----------------------------------------------------------------------------
(* Executors that are not superseded.                                      *)

\* As long as no executor is superseded, a run has one at most, and its version is
\* the run's.
SoleInv == overlaps = 0 =>
    \A e \in Executors : executor[e].pc # "idle" =>
        /\ Current(e)
        /\ \A f \in Executors \ {e} : executor[f].run # executor[e].run

LEMMA SoleInit == Init => SoleInv
BY DEF Init, SoleInv, Idle

\* The number of superseded executors never falls, nor does that of the faults.
LEMMA BoundsGrow ==
    ASSUME TypeInv, TypeInv', Move
    PROVE  /\ overlaps' = 0 => overlaps = 0
           /\ faults' = 0 => faults = 0
<1>1. overlaps \in Nat /\ faults \in Nat /\ overlaps' \in Nat /\ faults' \in Nat
    BY ConstantsAssumption DEF TypeInv, TypeOK
<1>2. CASE AdminMove
    BY <1>2 DEF AdminMove
<1>3. ASSUME NEW e \in Executors, LeaveMove(e)
      PROVE  overlaps' = overlaps /\ faults' >= faults
    BY <1>1, <1>3 DEF LeaveMove
<1>4. ASSUME NEW e \in Executors, NEW r \in Runs, TakeMove(e, r)
      PROVE  (overlaps' > 0 \/ overlaps' = overlaps) /\ faults' = faults
    BY <1>1, <1>4 DEF TakeMove
<1>5. ASSUME NEW e \in Executors,
             RestoreMove(e) \/ ClaimMove(e) \/ GoMove(e) \/ CallMove(e) \/ WriteMove(e)
      PROVE  overlaps' = overlaps /\ faults' \in {faults, faults + 1}
    BY <1>5 DEF RestoreMove, ClaimMove, GoMove, CallMove, WriteMove
<1> QED
    BY <1>1, <1>2, <1>3, <1>4, <1>5 DEF Move

\* Nobody else writes to the run of a sole executor.
LEMMA RestsAlone ==
    ASSUME TypeInv, TypeInv', SoleInv, Move, overlaps' = 0, NEW f \in Executors,
           executor'[f] = executor[f], executor[f].pc # "idle"
    PROVE  /\ run'[executor[f].run] = run[executor[f].run]
           /\ \A e \in Executors \ {f} : executor'[e].run # executor[f].run
<1> DEFINE r == executor[f].run
<1>1. overlaps = 0 /\ r \in Runs
    BY BoundsGrow, MemoryOf
<1>2. \A e \in Executors \ {f} : executor[e].run # r
    BY <1>1 DEF SoleInv
<1>3. r # None
    BY <1>1, ConstantsAssumption
<1>4. CASE AdminMove
    BY <1>2, <1>4 DEF AdminMove
<1>5. ASSUME NEW e \in Executors, NEW q \in Runs, TakeMove(e, q)
      PROVE  e # f /\ q # r /\ executor'[e].run # r /\ run'[r] = run[r] /\ Rest(e)
  <2>1. overlaps' = overlaps /\ \A g \in Executors : executor[g].run # q
      BY <1>1, <1>5 DEF TakeMove
  <2> QED
      BY <1>1, <1>5, <2>1 DEF TakeMove, OtherRuns
<1>6. ASSUME NEW e \in Executors, WriteMove(e)
      PROVE  e # f /\ executor'[e].run # r /\ run'[r] = run[r] /\ Rest(e)
  <2>1. e # f
      BY <1>6 DEF WriteMove, GoesOn, Idle
  <2>2. executor'[e].run \in {executor[e].run, None}
      BY <1>6 DEF WriteMove, GoesOn, Idle
  <2> QED
      BY <1>1, <1>2, <1>3, <1>6, <2>1, <2>2 DEF WriteMove, OtherRuns
<1>7. ASSUME NEW e \in Executors, LeaveMove(e)
      PROVE  e # f /\ executor'[e].run # r /\ run' = run /\ Rest(e)
    BY <1>3, <1>7 DEF LeaveMove, Idle
<1>8. ASSUME NEW e \in Executors, RestoreMove(e) \/ ClaimMove(e) \/ GoMove(e) \/ CallMove(e)
      PROVE  e # f /\ executor'[e].run # r /\ run' = run /\ Rest(e)
  <2>1. e # f /\ executor'[e].run = executor[e].run /\ run' = run /\ Rest(e)
      BY <1>8 DEF RestoreMove, ClaimMove, GoMove, CallMove, Holds
  <2> QED
      BY <1>2, <2>1
<1> QED
    BY <1>2, <1>4, <1>5, <1>6, <1>7, <1>8 DEF Move, Rest

LEMMA SoleStep ==
    ASSUME TypeInv, TypeInv', SoleInv, Move
    PROVE  SoleInv'
<1> SUFFICES ASSUME overlaps' = 0, NEW f \in Executors, executor'[f].pc # "idle"
             PROVE  /\ Current(f)'
                    /\ \A e \in Executors \ {f} : executor'[e].run # executor'[f].run
    BY DEF SoleInv
<1>1. overlaps = 0
    BY BoundsGrow
<1>2. CASE executor'[f] = executor[f]
    BY <1>1, <1>2, RestsAlone DEF SoleInv, Current
<1>3. CASE LeaveMove(f)
    BY <1>3 DEF LeaveMove, Idle
<1>4. ASSUME NEW r \in Runs, TakeMove(f, r)
      PROVE  /\ Current(f)'
             /\ \A e \in Executors \ {f} : executor'[e].run # executor'[f].run
    BY <1>1, <1>4 DEF TakeMove, Rest, Current
<1>5. CASE RestoreMove(f) \/ ClaimMove(f) \/ GoMove(f) \/ CallMove(f) \/ WriteMove(f)
  <2>1. executor[f].pc # "idle" /\ Rest(f)
      BY <1>5 DEF RestoreMove, ClaimMove, GoMove, CallMove, WriteMove
  <2>2. executor'[f].run = executor[f].run
      BY <1>5 DEF RestoreMove, ClaimMove, GoMove, CallMove, WriteMove, GoesOn, Holds, Idle
  <2>3. Current(f) /\ \A e \in Executors \ {f} : executor'[e].run # executor'[f].run
      BY <1>1, <2>1, <2>2 DEF SoleInv, Rest
  <2>4. Current(f)'
    <3>1. CASE RestoreMove(f)
        BY <2>3, <3>1 DEF RestoreMove, Current
    <3>2. CASE ClaimMove(f) \/ GoMove(f) \/ CallMove(f)
        BY <2>3, <3>2 DEF ClaimMove, GoMove, CallMove, Holds, Current
    <3>3. CASE WriteMove(f)
        BY <3>3 DEF WriteMove, GoesOn, Idle, Current
    <3> QED
        BY <1>5, <3>1, <3>2, <3>3
  <2> QED
      BY <2>3, <2>4
<1> QED
    BY <1>2, <1>3, <1>4, <1>5, OneMoves

LEMMA SoleNext == TypeInv /\ SoleInv /\ [Next]_vars => SoleInv'
<1> SUFFICES ASSUME TypeInv, SoleInv, [Next]_vars PROVE SoleInv'
    OBVIOUS
<1>1. TypeInv'
    BY TypesStep
<1>2. CASE Move
    BY <1>1, <1>2, SoleStep
<1>3. CASE UNCHANGED vars
    BY <1>3 DEF vars, SoleInv, Current
<1> QED
    BY <1>2, <1>3, Moves

-----------------------------------------------------------------------------
(* The boundary's command and its step.                                    *)

\* A boundary is never further than the step the run pays for next.
Reached(c) ==
    command[c].status = "applied" =>
        command[c].boundary[2] <= run[command[c].boundary[1]].consumedSteps + 1

\* Without a crash, the step of a boundary is paid for, or the executor that claimed
\* at it is there to pay for it or to fail, or the run has ended.
Settled(c) ==
    LET r == command[c].boundary[1] IN
    command[c].status = "applied" =>
        \/ command[c].boundary[2] <= run[r].consumedSteps
        \/ run[r].status \in Terminal
        \/ \E e \in Executors : executor[e].run = r /\ executor[e].pc \in {"consume", "fail"}

\* Guidance an executor has before it claims is the one it read.
Stored(e) ==
    executor[e].pc \in {"resolve", "prompt"} /\ executor[e].guidance # None =>
        run[executor[e].run].guidance = executor[e].guidance

\* Who is about to pay for a boundary's step holds the boundary's command, or has
\* read another one, left by an executor that died.
Answers(e, c) ==
    executor[e].pc = "consume" /\ command[c].boundary = Boundary(e) =>
        executor[e].guidance = c \/ (faults > 0 /\ run[executor[e].run].guidance # None)

StepInv ==
    /\ \A c \in Commands : Reached(c)
    /\ overlaps = 0 /\ faults = 0 => \A c \in Commands : Settled(c)
    /\ overlaps = 0 => \A e \in Executors : Stored(e)
    /\ overlaps = 0 => \A e \in Executors, c \in Commands : Answers(e, c)

LEMMA StepInit == Init => StepInv
BY DEF Init, StepInv, Reached, Settled, Stored, Answers, Idle

LEMMA ReachedStep ==
    ASSUME TypeInv, TypeInv', BehindInv, BindInv, StepInv, Move,
           NEW c \in Commands, command'[c].status = "applied"
    PROVE  command'[c].boundary[2] <= run'[command'[c].boundary[1]].consumedSteps + 1
<1> DEFINE r == command'[c].boundary[1]
           step == command'[c].boundary[2]
<1>1. r \in Runs /\ step \in Nat
    BY BindStep, ConstantsAssumption DEF BindInv, Steps
<1>2. /\ run[r].consumedSteps \in Nat /\ run'[r].consumedSteps \in Nat
      /\ run'[r].consumedSteps >= run[r].consumedSteps
    BY <1>1, RowsGrow, ConstantsAssumption DEF TypeInv, TypeOK, RunRows
<1>3. SUFFICES step <= run[r].consumedSteps + 1
    BY <1>1, <1>2
<1>4. CASE command'[c] = command[c]
    BY <1>4 DEF StepInv, Reached
<1>5. CASE \E e \in Executors : ClaimMove(e)
  <2>1. PICK e \in Executors : ClaimMove(e)
      BY <1>5
  <2>2. command'[c] = command[c] \/ c = executor'[e].guidance
      BY <2>1, Claimed
  <2>3. CASE c = executor'[e].guidance
    <3>1. command'[c].boundary = Boundary(e)
        BY <2>1, <2>3, Claimed, ConstantsAssumption DEF Commands
    <3>2. r = executor[e].run /\ step = executor[e].consumedSteps + 1
        BY <3>1 DEF Boundary
    <3>3. executor[e].consumedSteps <= run[r].consumedSteps
        BY <2>1, <3>2 DEF ClaimMove, BehindInv, Behind, Past
    <3>4. executor[e].consumedSteps \in Nat
        BY ConstantsAssumption DEF TypeInv, TypeOK, Memories
    <3> QED
        BY <1>2, <3>2, <3>3, <3>4
  <2> QED
      BY <1>4, <2>2, <2>3
<1>6. CASE AdminMove
    BY <1>4, <1>6 DEF AdminMove
<1>7. ASSUME NEW e \in Executors,
             \/ LeaveMove(e) \/ RestoreMove(e) \/ GoMove(e) \/ CallMove(e)
             \/ WriteMove(e) \/ \E q \in Runs : TakeMove(e, q)
      PROVE  command' = command
    BY <1>7 DEF LeaveMove, RestoreMove, GoMove, CallMove, WriteMove, TakeMove
<1> QED
    BY <1>4, <1>5, <1>6, <1>7 DEF Move

LEMMA SettledStep ==
    ASSUME TypeInv, TypeInv', BehindInv, BindInv, SoleInv, StepInv, Move,
           overlaps' = 0, faults' = 0, NEW c \in Commands, command'[c].status = "applied"
    PROVE  Settled(c)'
<1> DEFINE r == command'[c].boundary[1]
           step == command'[c].boundary[2]
<1>1. overlaps = 0 /\ faults = 0
    BY BoundsGrow
<1>2. r \in Runs /\ step \in Nat
    BY BindStep, ConstantsAssumption DEF BindInv, Steps
<1>3. /\ run[r].consumedSteps \in Nat /\ run'[r].consumedSteps \in Nat
      /\ run'[r].consumedSteps >= run[r].consumedSteps
    BY <1>2, RowsGrow, ConstantsAssumption DEF TypeInv, TypeOK, RunRows
<1>4. CASE command'[c] = command[c]
  <2>1. CASE step <= run[r].consumedSteps
    <3>1. step <= run'[r].consumedSteps
        BY <1>2, <1>3, <2>1
    <3> QED
        BY <3>1 DEF Settled
  <2>2. CASE run[r].status \in Terminal
      BY <1>2, <2>2, EndsForGood DEF Settled
  <2>3. CASE \E e \in Executors :
                executor[e].run = r /\ executor[e].pc \in {"consume", "fail"}
    <3>1. PICK e \in Executors : executor[e].run = r /\ executor[e].pc \in {"consume", "fail"}
        BY <2>3
    <3>2. CASE executor'[e] = executor[e]
        BY <3>1, <3>2 DEF Settled
    <3>3. CASE LeaveMove(e)
      <4>1. Current(e)
          BY <1>1, <3>1 DEF SoleInv
      <4> QED
          BY <1>1, <3>1, <3>3, <4>1 DEF LeaveMove
    <3>4. CASE GoMove(e)
        BY <3>1, <3>4 DEF GoMove, Holds, Settled
    <3>5. CASE WriteMove(e) /\ executor[e].pc = "consume"
      <4>1. run'[r].consumedSteps = run[r].consumedSteps + 1
          BY <3>1, <3>5 DEF WriteMove
      <4>2. step <= run[r].consumedSteps + 1
          BY <1>4 DEF StepInv, Reached
      <4> QED
          BY <4>1, <4>2 DEF Settled
    <3>6. CASE WriteMove(e) /\ executor[e].pc = "fail"
        BY <3>1, <3>6 DEF WriteMove, Terminal, Settled
    <3>7. CASE RestoreMove(e) \/ ClaimMove(e) \/ CallMove(e) \/ \E q \in Runs : TakeMove(e, q)
        BY <3>1, <3>7 DEF RestoreMove, ClaimMove, CallMove, TakeMove
    <3> QED
        BY <3>1, <3>2, <3>3, <3>4, <3>5, <3>6, <3>7, OneMoves
  <2>4. Settled(c) /\ command[c].status = "applied"
      BY <1>1, <1>4 DEF StepInv
  <2> QED
      BY <1>4, <2>1, <2>2, <2>3, <2>4 DEF Settled
<1>5. ASSUME NEW e \in Executors, ClaimMove(e), c = executor'[e].guidance
      PROVE  Settled(c)'
  <2>1. command'[c].boundary = Boundary(e)
      BY <1>5, Claimed, ConstantsAssumption DEF Commands
  <2>2. executor'[e].run = r /\ executor'[e].pc = "consume"
      BY <1>5, <2>1 DEF ClaimMove, Holds, Boundary
  <2> QED
      BY <2>2 DEF Settled
<1>6. ASSUME NEW e \in Executors, ClaimMove(e)
      PROVE  Settled(c)'
    BY <1>4, <1>5, <1>6, Claimed
<1>7. CASE AdminMove
    BY <1>4, <1>7 DEF AdminMove
<1>8. ASSUME NEW e \in Executors,
             \/ LeaveMove(e) \/ RestoreMove(e) \/ GoMove(e) \/ CallMove(e)
             \/ WriteMove(e) \/ \E q \in Runs : TakeMove(e, q)
      PROVE  command' = command
    BY <1>8 DEF LeaveMove, RestoreMove, GoMove, CallMove, WriteMove, TakeMove
<1> QED
    BY <1>4, <1>6, <1>7, <1>8 DEF Move

LEMMA StoredStep ==
    ASSUME TypeInv, TypeInv', SoleInv, StepInv, Move, overlaps' = 0, NEW f \in Executors
    PROVE  Stored(f)'
<1>1. overlaps = 0 /\ Stored(f)
    BY BoundsGrow DEF StepInv
<1>2. CASE executor'[f] = executor[f]
  <2>1. CASE executor[f].pc = "idle"
      BY <1>2, <2>1 DEF Stored
  <2>2. CASE executor[f].pc # "idle"
      BY <1>1, <1>2, <2>2, RestsAlone DEF Stored
  <2> QED
      BY <2>1, <2>2
<1>3. CASE LeaveMove(f) \/ ClaimMove(f) \/ CallMove(f) \/ \E r \in Runs : TakeMove(f, r)
    BY <1>3 DEF LeaveMove, ClaimMove, CallMove, TakeMove, Stored, Idle
<1>4. CASE RestoreMove(f)
    BY <1>4 DEF RestoreMove, Stored
<1>5. CASE GoMove(f)
    BY <1>5 DEF GoMove, Stored, TypeInv, Local
<1>6. CASE WriteMove(f)
  <2>1. CASE executor'[f] = Idle
      BY <2>1 DEF Stored, Idle
  <2>2. CASE GoesOn(f) /\ executor[f].pc = "resolve"
      BY <1>1, <1>6, <2>2 DEF WriteMove, GoesOn, Stored
  <2>3. CASE GoesOn(f) /\ executor[f].pc \in {"consume", "tool"}
      BY <1>6, <2>3 DEF WriteMove, GoesOn, Stored
  <2> QED
      BY <1>6, <2>1, <2>2, <2>3 DEF WriteMove, GoesOn
<1> QED
    BY <1>2, <1>3, <1>4, <1>5, <1>6, OneMoves

LEMMA AnswersStep ==
    ASSUME TypeInv, TypeInv', BehindInv, BindInv, SoleInv, StepInv, Move, overlaps' = 0,
           NEW f \in Executors, NEW c \in Commands,
           executor'[f].pc = "consume", command'[c].boundary = Boundary(f)'
    PROVE  \/ executor'[f].guidance = c
           \/ faults' > 0 /\ run'[executor'[f].run].guidance # None
<1>1. overlaps = 0 /\ (faults' = 0 => faults = 0) /\ faults \in Nat /\ faults' \in Nat
    BY BoundsGrow, ConstantsAssumption DEF TypeInv, TypeOK
<1>2. CASE executor'[f] = executor[f]
  <2>1. /\ executor[f].run \in Runs /\ run'[executor[f].run] = run[executor[f].run]
        /\ \A e \in Executors \ {f} : executor'[e].run # executor[f].run
      BY <1>2, MemoryOf, RestsAlone
  <2>2. command'[c].boundary = Boundary(f)
      BY <1>2 DEF Boundary
  <2>3. command[c].boundary = Boundary(f)
    <3>1. command'[c].status = "applied"
      <4>1. command'[c].boundary # NoBoundary
          BY <2>1, <2>2, ConstantsAssumption DEF Boundary, NoBoundary
      <4> QED
          BY <4>1, BindStep DEF BindInv
    <3>2. ASSUME NEW e \in Executors, ClaimMove(e)
          PROVE  command'[c] = command[c]
      <4>1. e # f /\ executor'[e].run = executor[e].run
          BY <1>2, <3>2 DEF ClaimMove, Holds
      <4>2. command'[c].boundary # Boundary(e)
          BY <2>1, <2>2, <4>1 DEF Boundary
      <4> QED
          BY <3>1, <3>2, <4>2, Claimed, ConstantsAssumption DEF Commands
    <3>3. ASSUME NEW e \in Executors,
                 \/ LeaveMove(e) \/ RestoreMove(e) \/ GoMove(e) \/ CallMove(e)
                 \/ WriteMove(e) \/ \E q \in Runs : TakeMove(e, q)
          PROVE  command' = command
        BY <3>3 DEF LeaveMove, RestoreMove, GoMove, CallMove, WriteMove, TakeMove
    <3>4. AdminMove => command'[c].boundary = command[c].boundary
        BY DEF AdminMove
    <3> QED
        BY <2>2, <3>2, <3>3, <3>4 DEF Move
  <2>4. executor[f].guidance = c \/ (faults > 0 /\ run[executor[f].run].guidance # None)
      BY <1>1, <1>2, <2>3 DEF StepInv, Answers
  <2> QED
      BY <1>1, <1>2, <2>1, <2>4
<1>3. CASE ClaimMove(f)
  <2>1. Boundary(f)' = Boundary(f) /\ executor'[f].run = executor[f].run
      BY <1>3 DEF ClaimMove, Holds, Boundary
  <2>2. command'[c].status = "applied"
    <3>1. command'[c].boundary # NoBoundary
        BY <1>3, <2>1, Claimed, ConstantsAssumption DEF NoBoundary
    <3> QED
        BY <3>1, BindStep DEF BindInv
  <2>3. CASE executor'[f].guidance # None
    <3>1. executor'[f].guidance \in Commands
        BY <2>3 DEF TypeInv, TypeOK, Memories
    <3>2. command'[executor'[f].guidance].boundary = command'[c].boundary
        BY <1>3, <2>1, <2>3, Claimed
    <3> QED
        BY <2>2, <3>1, <3>2, BindStep DEF BindInv
  <2>4. CASE executor'[f].guidance = None
    <3>1. c # None /\ None \notin AppliedAt(Boundary(f))
        BY ConstantsAssumption DEF Commands, AppliedAt
    <3>2. AppliedAt(Boundary(f)) = {}
        BY <1>3, <2>4, <3>1 DEF ClaimMove
    <3>3. command'[c] = command[c]
        BY <1>3, <2>2, <2>4, <3>1, Claimed
    <3> QED
        BY <2>1, <3>2, <3>3 DEF AppliedAt
  <2> QED
      BY <2>3, <2>4
<1>4. CASE GoMove(f)
  <2> DEFINE r == executor[f].run
  <2>1. /\ executor[f].pc = "prompt" /\ executor[f].guidance # None
        /\ executor'[f].run = r /\ Boundary(f)' = Boundary(f)
        /\ command' = command /\ run' = run /\ faults' = faults
      BY <1>4 DEF GoMove, Holds, Boundary
  <2>2. r \in Runs /\ Current(f) /\ \A e \in Executors \ {f} : executor[e].run # r
      BY <1>1, <2>1, MemoryOf DEF SoleInv
  <2>3. run[r].guidance # None
      BY <1>1, <2>1 DEF StepInv, Stored
  <2>4. faults > 0
    <3>1. SUFFICES ASSUME faults = 0 PROVE FALSE
        BY <1>1
    <3>2. command[c].boundary = Boundary(f)
        BY <2>1
    <3>3. command[c].boundary[1] = r /\ command[c].boundary[2] = executor[f].consumedSteps + 1
        BY <3>2 DEF Boundary
    <3>4. command[c].status = "applied"
      <4>1. command[c].boundary # NoBoundary
          BY <2>2, <3>2, ConstantsAssumption DEF Boundary, NoBoundary
      <4> QED
          BY <4>1 DEF BindInv
    <3>5. executor[f].consumedSteps = run[r].consumedSteps /\ run[r].status \notin Terminal
        BY <2>1, <2>2 DEF BehindInv, Behind, Past
    <3>6. run[r].consumedSteps \in Nat
        BY <2>2, ConstantsAssumption DEF TypeInv, TypeOK, RunRows
    <3>7. Settled(c)
        BY <1>1, <3>1 DEF StepInv
    <3>8. PICK e \in Executors : executor[e].run = r /\ executor[e].pc \in {"consume", "fail"}
        BY <3>3, <3>4, <3>5, <3>6, <3>7 DEF Settled
    <3> QED
        BY <2>1, <2>2, <3>8
  <2> QED
      BY <2>1, <2>3, <2>4
<1>5. CASE \/ LeaveMove(f) \/ RestoreMove(f) \/ CallMove(f) \/ WriteMove(f)
           \/ \E r \in Runs : TakeMove(f, r)
    BY <1>5 DEF LeaveMove, RestoreMove, CallMove, WriteMove, GoesOn, TakeMove, Idle
<1> QED
    BY <1>2, <1>3, <1>4, <1>5, OneMoves

LEMMA StepNext ==
    TypeInv /\ BehindInv /\ BindInv /\ SoleInv /\ StepInv /\ [Next]_vars => StepInv'
<1> SUFFICES ASSUME TypeInv, BehindInv, BindInv, SoleInv, StepInv, [Next]_vars PROVE StepInv'
    OBVIOUS
<1>1. TypeInv'
    BY TypesStep
<1>2. CASE Move
  <2>1. \A c \in Commands : Reached(c)'
      BY <1>1, <1>2, ReachedStep DEF Reached
  <2>2. ASSUME overlaps' = 0, faults' = 0, NEW c \in Commands PROVE Settled(c)'
    <3>1. command'[c].status = "applied" => Settled(c)'
        BY <1>1, <1>2, <2>2, SettledStep
    <3> QED
        BY <3>1 DEF Settled
  <2>3. ASSUME overlaps' = 0, NEW e \in Executors PROVE Stored(e)'
      BY <1>1, <1>2, <2>3, StoredStep
  <2>4. ASSUME overlaps' = 0, NEW e \in Executors, NEW c \in Commands PROVE Answers(e, c)'
    <3>1. executor'[e].pc = "consume" /\ command'[c].boundary = Boundary(e)' =>
            \/ executor'[e].guidance = c
            \/ faults' > 0 /\ run'[executor'[e].run].guidance # None
        BY <1>1, <1>2, <2>4, AnswersStep
    <3> QED
        BY <3>1 DEF Answers
  <2> QED
      BY <2>1, <2>2, <2>3, <2>4 DEF StepInv
<1>3. CASE UNCHANGED vars
    BY <1>3 DEF vars, StepInv, Reached, Settled, Stored, Answers, Boundary
<1> QED
    BY <1>2, <1>3, Moves

\* A run pays for a step in one way: an executor whose version is the run's.
LEMMA Pays ==
    ASSUME TypeInv, BehindInv, Move, NEW r \in Runs,
           run'[r].consumedSteps > run[r].consumedSteps
    PROVE  \E e \in Executors :
            /\ executor[e].pc = "consume" /\ executor[e].run = r
            /\ Boundary(e) = <<r, run'[r].consumedSteps>>
            /\ run'[r].guidance = executor[e].guidance
<1>1. run[r].consumedSteps \in Nat
    BY ConstantsAssumption DEF TypeInv, TypeOK, RunRows
<1>2. run'[r].consumedSteps # run[r].consumedSteps
    BY <1>1
<1>3. ~AdminMove
    BY <1>2 DEF AdminMove
<1>4. ASSUME NEW e \in Executors
      PROVE  ~(LeaveMove(e) \/ RestoreMove(e) \/ ClaimMove(e) \/ GoMove(e) \/ CallMove(e))
    BY <1>2 DEF LeaveMove, RestoreMove, ClaimMove, GoMove, CallMove
<1>5. ASSUME NEW e \in Executors, NEW q \in Runs
      PROVE  ~TakeMove(e, q)
    BY <1>2 DEF TakeMove, OtherRuns
<1>6. PICK e \in Executors : WriteMove(e)
    BY <1>3, <1>4, <1>5 DEF Move
<1>7. executor[e].run = r
    BY <1>2, <1>6 DEF WriteMove, OtherRuns
<1>8. executor[e].pc = "consume" /\ run'[r].consumedSteps = run[r].consumedSteps + 1
      /\ run'[r].guidance = executor[e].guidance /\ Current(e)
    BY <1>2, <1>6, <1>7 DEF WriteMove
<1>9. executor[e].consumedSteps = run[r].consumedSteps
    BY <1>7, <1>8 DEF BehindInv, Behind, Past
<1> QED
    BY <1>7, <1>8, <1>9 DEF Boundary

\* As long as no executor is superseded, the step a boundary belongs to is paid for
\* with the boundary's command, in whichever order the executors crash and return,
\* unless the continuation still holds an earlier command since such a crash.
THEOREM GuidanceIsPaidFor == Spec => GuidanceGoesWithItsStep
<1> DEFINE Goes == \A r \in Runs, c \in Commands :
            /\ overlaps = 0
            /\ run'[r].consumedSteps > run[r].consumedSteps
            /\ command[c].boundary = <<r, run'[r].consumedSteps>>
            => run'[r].guidance = c \/ (faults > 0 /\ run[r].guidance # None)
<1>1. TypeInv /\ BehindInv /\ StepInv /\ [Next]_vars => [Goes]_vars
  <2> SUFFICES ASSUME TypeInv, BehindInv, StepInv, Move, NEW r \in Runs, NEW c \in Commands,
                      overlaps = 0, run'[r].consumedSteps > run[r].consumedSteps,
                      command[c].boundary = <<r, run'[r].consumedSteps>>
               PROVE  run'[r].guidance = c \/ (faults > 0 /\ run[r].guidance # None)
      BY Moves
  <2>1. PICK e \in Executors :
            /\ executor[e].pc = "consume" /\ executor[e].run = r
            /\ Boundary(e) = <<r, run'[r].consumedSteps>>
            /\ run'[r].guidance = executor[e].guidance
      BY Pays
  <2> QED
      BY <2>1 DEF StepInv, Answers
<1> QED
    BY <1>1, TypesInit, TypesStep, BehindInit, BehindNext, BindInit, BindNext, SoleInit,
       SoleNext, StepInit, StepNext, PTL DEF Spec, GuidanceGoesWithItsStep

-----------------------------------------------------------------------------
(* How often the model hears a command.                                    *)

BoundRun(c) == command[c].boundary[1]
BoundStep(c) == command[c].boundary[2]
Ready(e) == executor[e].pc \in {"prompt", "consume"}

\* A command is heard after its boundary was reached, and by finitely many calls.
HeardOK(c) ==
    /\ IsFiniteSet(heard[c])
    /\ heard[c] # {} => /\ command[c].status = "applied"
                        /\ BoundStep(c) <= run[BoundRun(c)].consumedSteps

\* The stored guidance of a run that goes on was paid for; a run that waits has none.
StoredOK(r) ==
    LET row == run[r] IN
    /\ row.guidance # None /\ row.status \notin Terminal =>
        BoundStep(row.guidance) <= row.consumedSteps
    /\ row.status = "waiting" => row.guidance = None

\* What an executor holds before a call was stored by its run, or is the command of
\* the boundary it is at; and nothing is stored while it resolves a wait.
HandsOK(e) ==
    LET c == executor[e].guidance  row == run[executor[e].run] IN
    /\ c # None =>
        /\ Ready(e) => BoundStep(c) <= executor[e].consumedSteps + 1
        /\ executor[e].pc = "call" => BoundStep(c) <= executor[e].consumedSteps
        /\ Ready(e) /\ Current(e) =>
            row.guidance = c \/ BoundStep(c) = row.consumedSteps + 1
    /\ executor[e].pc = "resolve" => c = None /\ (Current(e) => row.guidance = None)

HoldInv ==
    /\ \A c \in Commands : HeardOK(c)
    /\ \A r \in Runs : StoredOK(r)
    /\ \A e \in Executors : HandsOK(e)

LEMMA AppliedTyped ==
    ASSUME TypeInv, BindInv, NEW c \in Commands, command[c].status = "applied"
    PROVE  BoundRun(c) \in Runs /\ BoundStep(c) \in Nat
<1>1. command[c].boundary \in Runs \X Steps
    BY DEF BindInv
<1> QED
    BY <1>1, ConstantsAssumption DEF BoundRun, BoundStep, Steps

LEMMA HeldTyped ==
    ASSUME TypeInv, BindInv, NEW e \in Executors, executor[e].guidance # None
    PROVE  /\ executor[e].guidance \in Commands /\ executor[e].run \in Runs
           /\ command[executor[e].guidance].status = "applied"
           /\ BoundRun(executor[e].guidance) = executor[e].run
           /\ BoundStep(executor[e].guidance) \in Nat
           /\ executor[e].consumedSteps \in Nat
<1>1. executor[e].guidance \in Commands /\ executor[e].consumedSteps \in Nat
    BY ConstantsAssumption DEF TypeInv, TypeOK, Memories
<1>2. /\ command[executor[e].guidance].status = "applied"
      /\ BoundRun(executor[e].guidance) = executor[e].run
    BY DEF BindInv, BoundRun
<1> QED
    BY <1>1, <1>2, AppliedTyped

LEMMA StoredTyped ==
    ASSUME TypeInv, BindInv, NEW r \in Runs, run[r].guidance # None
    PROVE  /\ run[r].guidance \in Commands
           /\ command[run[r].guidance].status = "applied"
           /\ BoundRun(run[r].guidance) = r
           /\ BoundStep(run[r].guidance) \in Nat
<1>1. run[r].guidance \in Commands
    BY DEF TypeInv, TypeOK, RunRows
<1>2. command[run[r].guidance].status = "applied" /\ BoundRun(run[r].guidance) = r
    BY DEF BindInv, BoundRun
<1> QED
    BY <1>1, <1>2, AppliedTyped

LEMMA StepsTyped ==
    ASSUME TypeInv, NEW r \in Runs
    PROVE  run[r].consumedSteps \in Nat /\ run[r].version \in Nat
BY ConstantsAssumption DEF TypeInv, TypeOK, RunRows

LEMMA HoldInit == Init => HoldInv
<1> SUFFICES ASSUME Init PROVE HoldInv
    OBVIOUS
<1>1. \A c \in Commands : heard[c] = {} /\ IsFiniteSet(heard[c])
    BY FS_EmptySet DEF Init
<1>2. \A r \in Runs : run[r].guidance = None
    BY DEF Init
<1>3. \A e \in Executors : executor[e].guidance = None /\ executor[e].pc = "idle"
    BY DEF Init, Idle
<1> QED
    BY <1>1, <1>2, <1>3 DEF HoldInv, HeardOK, StoredOK, HandsOK

\* The model hears in a call only, and what the caller holds.
LEMMA HeardChange ==
    ASSUME Move, NEW c \in Commands
    PROVE  \/ heard'[c] = heard[c]
           \/ \E e \in Executors : CallMove(e) /\ executor[e].guidance = c
<1>1. CASE AdminMove
    BY <1>1 DEF AdminMove
<1>2. ASSUME NEW e \in Executors, CallMove(e), executor[e].guidance # c
      PROVE  heard'[c] = heard[c]
    BY <1>2 DEF CallMove
<1>3. ASSUME NEW e \in Executors,
             \/ LeaveMove(e) \/ RestoreMove(e) \/ ClaimMove(e) \/ GoMove(e)
             \/ WriteMove(e) \/ \E r \in Runs : TakeMove(e, r)
      PROVE  heard' = heard
    BY <1>3 DEF LeaveMove, RestoreMove, ClaimMove, GoMove, WriteMove, TakeMove
<1> QED
    BY <1>1, <1>2, <1>3 DEF Move

LEMMA HeardStep ==
    ASSUME TypeInv, TypeInv', BehindInv, BindInv, HoldInv, Move, NEW c \in Commands
    PROVE  HeardOK(c)'
<1>1. HeardOK(c)
    BY DEF HoldInv
<1>2. CASE heard'[c] = heard[c]
  <2>1. SUFFICES ASSUME heard[c] # {}
                 PROVE  /\ command'[c].status = "applied"
                        /\ command'[c].boundary[2] <=
                            run'[command'[c].boundary[1]].consumedSteps
      BY <1>1, <1>2 DEF HeardOK, BoundRun, BoundStep
  <2>2. command[c].status = "applied" /\ BoundStep(c) <= run[BoundRun(c)].consumedSteps
      BY <1>1, <2>1 DEF HeardOK
  <2>3. BoundRun(c) \in Runs /\ BoundStep(c) \in Nat
      BY <2>2, AppliedTyped
  <2>4. command'[c] = command[c]
      BY <2>2, AppliedStays
  <2>5. run'[BoundRun(c)].consumedSteps >= run[BoundRun(c)].consumedSteps
      BY <2>3, RowsGrow
  <2>6. run'[BoundRun(c)].consumedSteps \in Nat /\ run[BoundRun(c)].consumedSteps \in Nat
      BY <2>3, ConstantsAssumption DEF TypeInv, TypeOK, RunRows
  <2> QED
      BY <2>2, <2>3, <2>4, <2>5, <2>6 DEF BoundRun, BoundStep
<1>3. CASE \E e \in Executors : CallMove(e) /\ executor[e].guidance = c
  <2>1. PICK e \in Executors : CallMove(e) /\ executor[e].guidance = c
      BY <1>3
  <2>2. c # None
      BY ConstantsAssumption DEF Commands
  <2>3. /\ command[c].status = "applied" /\ BoundRun(c) = executor[e].run
        /\ BoundStep(c) \in Nat /\ executor[e].consumedSteps \in Nat
        /\ executor[e].run \in Runs
      BY <2>1, <2>2, HeldTyped
  <2>4. BoundStep(c) <= executor[e].consumedSteps
      BY <2>1, <2>2 DEF HoldInv, HandsOK, CallMove
  <2>5. executor[e].consumedSteps <= run[executor[e].run].consumedSteps
      BY <2>1 DEF BehindInv, Behind, Past, CallMove
  <2>6. run[executor[e].run].consumedSteps \in Nat
      BY <2>3, StepsTyped
  <2>7. IsFiniteSet(heard'[c])
    <3>1. IsFiniteSet(heard[c])
        BY <1>1 DEF HeardOK
    <3>2. heard'[c] = heard[c] \cup {<<executor[e].run, executor[e].consumedSteps>>}
        BY <2>1 DEF CallMove
    <3> QED
        BY <3>1, <3>2, FS_AddElement
  <2>8. command' = command /\ run' = run
      BY <2>1 DEF CallMove
  <2>9. BoundStep(c) <= run[BoundRun(c)].consumedSteps
      BY <2>3, <2>4, <2>5, <2>6
  <2> QED
      BY <2>3, <2>7, <2>8, <2>9 DEF HeardOK, BoundRun, BoundStep
<1> QED
    BY <1>2, <1>3, HeardChange

LEMMA StoredKept ==
    ASSUME TypeInv, TypeInv', BehindInv, BindInv, HoldInv, Move, NEW r \in Runs
    PROVE  StoredOK(r)'
<1>1. StoredOK(r)
    BY DEF HoldInv
<1>2. CASE /\ run'[r].status = run[r].status /\ run'[r].consumedSteps = run[r].consumedSteps
           /\ run'[r].guidance = run[r].guidance
  <2>1. CASE run[r].guidance = None
      BY <1>2, <2>1 DEF StoredOK
  <2>2. CASE run[r].guidance # None
    <3>1. command'[run[r].guidance] = command[run[r].guidance]
        BY <2>2, StoredTyped, AppliedStays
    <3> QED
        BY <1>1, <1>2, <3>1 DEF StoredOK, BoundStep
  <2> QED
      BY <2>1, <2>2
<1>3. ASSUME NEW e \in Executors, WriteMove(e), executor[e].run = r
      PROVE  StoredOK(r)'
  <2> DEFINE g == executor[e].guidance
  <2>1. executor[e].pc \in {"resolve", "consume", "tool", "fail"} /\ Current(e)
        /\ command' = command
      BY <1>3 DEF WriteMove
  <2>2. CASE executor[e].pc = "fail"
    <3>1. run'[r].status = "failed"
        BY <1>3, <2>2 DEF WriteMove
    <3> QED
        BY <3>1 DEF StoredOK, Terminal
  <2>3. CASE executor[e].pc = "tool"
    <3>1. g = None
        BY <2>3 DEF TypeInv, Local
    <3>2. run'[r].guidance = None
        BY <1>3, <2>3, <3>1 DEF WriteMove
    <3> QED
        BY <3>2 DEF StoredOK
  <2>4. CASE executor[e].pc = "resolve"
    <3>1. run[r].guidance = None
        BY <1>3, <2>1, <2>4 DEF HoldInv, HandsOK
    <3>2. run'[r].guidance = None
        BY <1>3, <2>4, <3>1 DEF WriteMove
    <3> QED
        BY <3>2 DEF StoredOK
  <2>5. CASE executor[e].pc = "consume"
    <3>1. /\ run'[r].guidance = g /\ run'[r].consumedSteps = run[r].consumedSteps + 1
          /\ run'[r].status = "running"
      <4>1. GoesOn(e)
          BY <1>3, <2>5 DEF WriteMove
      <4> QED
          BY <1>3, <2>5, <4>1 DEF WriteMove, GoesOn
    <3>2. executor[e].consumedSteps = run[r].consumedSteps
        BY <1>3, <2>1, <2>5 DEF BehindInv, Behind, Past
    <3>3. g # None => BoundStep(g) <= run[r].consumedSteps + 1
        BY <2>5, <3>2 DEF HoldInv, HandsOK, Ready
    <3> QED
        BY <2>1, <3>1, <3>3 DEF StoredOK, BoundStep
  <2> QED
      BY <2>1, <2>2, <2>3, <2>4, <2>5
<1>4. ASSUME NEW e \in Executors, WriteMove(e), executor[e].run # r
      PROVE  run'[r] = run[r]
    BY <1>4 DEF WriteMove, OtherRuns
<1>5. ASSUME NEW e \in Executors, NEW q \in Runs, TakeMove(e, q)
      PROVE  /\ run'[r].status = run[r].status /\ run'[r].consumedSteps = run[r].consumedSteps
             /\ run'[r].guidance = run[r].guidance
    BY <1>5 DEF TakeMove, OtherRuns
<1>6. ASSUME NEW e \in Executors,
             LeaveMove(e) \/ RestoreMove(e) \/ ClaimMove(e) \/ GoMove(e) \/ CallMove(e)
      PROVE  run' = run
    BY <1>6 DEF LeaveMove, RestoreMove, ClaimMove, GoMove, CallMove
<1>7. AdminMove => run' = run
    BY DEF AdminMove
<1> QED
    BY <1>2, <1>3, <1>4, <1>5, <1>6, <1>7 DEF Move

LEMMA HandsStep ==
    ASSUME TypeInv, TypeInv', BehindInv, BindInv, HoldInv, Move, NEW f \in Executors
    PROVE  HandsOK(f)'
<1> DEFINE r == executor[f].run
           g == executor[f].guidance
<1>1. HandsOK(f)
    BY DEF HoldInv
<1>2. CASE executor'[f] = executor[f]
  <2>1. CASE executor[f].pc = "idle"
      BY <1>2, <2>1 DEF TypeInv, Local, Idle, HandsOK, Ready
  <2>2. CASE executor[f].pc # "idle"
    <3>1. r \in Runs
        BY <2>2, MemoryOf
    <3>2. g # None => command'[g] = command[g]
        BY HeldTyped, AppliedStays
    <3>3. Current(f)' => /\ Current(f)
                         /\ run'[r].consumedSteps = run[r].consumedSteps
                         /\ run'[r].guidance = run[r].guidance
      <4> SUFFICES ASSUME Current(f)'
                   PROVE  /\ Current(f)
                          /\ run'[r].consumedSteps = run[r].consumedSteps
                          /\ run'[r].guidance = run[r].guidance
          OBVIOUS
      <4>1. Current(f)
          BY <1>2, <2>2, RestsBehind DEF BehindInv
      <4>2. run'[r].version = run[r].version
          BY <1>2, <4>1 DEF Current
      <4> QED
          BY <3>1, <4>1, <4>2, RowsGrow
    <3> QED
        BY <1>1, <1>2, <3>2, <3>3 DEF HandsOK, Ready, BoundStep
  <2> QED
      BY <2>1, <2>2
<1>3. CASE LeaveMove(f) \/ \E q \in Runs : TakeMove(f, q)
  <2>1. executor'[f].guidance = None /\ executor'[f].pc # "resolve"
      BY <1>3 DEF LeaveMove, TakeMove, Idle, TypeInv, Local
  <2> QED
      BY <2>1 DEF HandsOK
<1>4. CASE RestoreMove(f)
  <2>1. r \in Runs /\ StoredOK(r)
      BY <1>4, MemoryOf DEF RestoreMove, HoldInv
  <2>2. /\ executor'[f].guidance = run[r].guidance /\ executor'[f].pc \in {"resolve", "prompt"}
        /\ executor'[f].consumedSteps = run[r].consumedSteps /\ executor'[f].run = r
        /\ executor'[f].pc = "resolve" => run[r].status = "waiting"
        /\ run[r].status \notin Terminal /\ run' = run /\ command' = command
      BY <1>4 DEF RestoreMove
  <2>3. run[r].guidance # None => /\ BoundStep(run[r].guidance) <= run[r].consumedSteps
                                  /\ BoundStep(run[r].guidance) \in Nat
      BY <2>1, <2>2, StoredTyped DEF StoredOK
  <2>4. executor'[f].pc = "resolve" => run[r].guidance = None
      BY <2>1, <2>2 DEF StoredOK
  <2>5. run[r].consumedSteps \in Nat
      BY <2>1, StepsTyped
  <2>6. run[r].guidance # None => BoundStep(run[r].guidance) <= run[r].consumedSteps + 1
      BY <2>3, <2>5
  <2> QED
      BY <2>2, <2>4, <2>6 DEF HandsOK, Ready, BoundStep
<1>5. CASE ClaimMove(f)
  <2>1. /\ executor'[f].pc = "consume" /\ Holds(f) /\ run' = run /\ executor[f].pc = "prompt"
      BY <1>5 DEF ClaimMove
  <2>2. SUFFICES ASSUME executor'[f].guidance # None
                 PROVE  /\ command'[executor'[f].guidance].boundary[2] <=
                            executor'[f].consumedSteps + 1
                        /\ Current(f)' => command'[executor'[f].guidance].boundary[2] =
                            run'[executor'[f].run].consumedSteps + 1
      BY <2>1 DEF HandsOK, Ready, BoundStep
  <2>3. command'[executor'[f].guidance].boundary = Boundary(f)
      BY <1>5, <2>2, Claimed
  <2>4. command'[executor'[f].guidance].boundary[2] = executor[f].consumedSteps + 1
      BY <2>3 DEF Boundary
  <2>5. executor[f].consumedSteps \in Nat
      BY ConstantsAssumption DEF TypeInv, TypeOK, Memories
  <2>6. Current(f)' => executor[f].consumedSteps = run[r].consumedSteps
      BY <2>1 DEF Current, Holds, BehindInv, Behind, Past
  <2> QED
      BY <2>1, <2>4, <2>5, <2>6 DEF Holds
<1>6. CASE GoMove(f)
  <2>1. /\ Holds(f) /\ run' = run /\ command' = command /\ executor'[f].guidance = g
        /\ Current(f)' => Current(f)
      BY <1>6 DEF GoMove, Holds, Current
  <2>2. \/ executor[f].pc = "prompt" /\ executor'[f].pc = "consume"
        \/ executor'[f].pc = "fail"
        \/ executor[f].pc = "tool" /\ executor'[f].pc = "prompt"
      BY <1>6 DEF GoMove
  <2>3. executor[f].pc = "tool" => g = None
      BY DEF TypeInv, Local
  <2>4. CASE executor[f].pc = "prompt" /\ executor'[f].pc = "consume"
      BY <1>1, <2>1, <2>4 DEF HandsOK, Ready, Holds, BoundStep
  <2>5. CASE executor'[f].pc = "fail"
      BY <2>5 DEF HandsOK, Ready
  <2>6. CASE executor[f].pc = "tool" /\ executor'[f].pc = "prompt"
      BY <2>1, <2>3, <2>6 DEF HandsOK, Ready
  <2> QED
      BY <2>2, <2>4, <2>5, <2>6
<1>7. CASE CallMove(f)
    BY <1>7 DEF CallMove, HandsOK, Ready
<1>8. CASE WriteMove(f)
  <2>1. CASE executor'[f] = Idle
      BY <2>1 DEF HandsOK, Idle, Ready
  <2>2. CASE GoesOn(f)
    <3>1. /\ executor'[f].guidance = g /\ executor'[f].run = r /\ command' = command
          /\ executor'[f].pc # "resolve" /\ Current(f) /\ r \in Runs
        BY <1>8, <2>2, MemoryOf DEF GoesOn, WriteMove
    <3>2. CASE executor[f].pc \in {"resolve", "tool"}
      <4>1. g = None
          BY <1>1, <3>2 DEF HandsOK, TypeInv, Local
      <4> QED
          BY <3>1, <4>1 DEF HandsOK
    <3>3. CASE executor[f].pc = "consume"
      <4>1. executor[f].consumedSteps = run[r].consumedSteps
          BY <3>1, <3>3 DEF BehindInv, Behind, Past
      <4>2. executor'[f].pc = "call" /\ executor'[f].consumedSteps = run[r].consumedSteps + 1
          BY <2>2, <3>3 DEF GoesOn
      <4>3. g # None => BoundStep(g) <= run[r].consumedSteps + 1
          BY <1>1, <3>3, <4>1 DEF HandsOK, Ready
      <4> QED
          BY <3>1, <4>2, <4>3 DEF HandsOK, Ready, BoundStep
    <3> QED
        BY <2>2, <3>2, <3>3 DEF GoesOn
  <2> QED
      BY <1>8, <2>1, <2>2 DEF WriteMove
<1> QED
    BY <1>2, <1>3, <1>4, <1>5, <1>6, <1>7, <1>8, OneMoves

LEMMA HoldNext ==
    TypeInv /\ BehindInv /\ BindInv /\ HoldInv /\ [Next]_vars => HoldInv'
<1> SUFFICES ASSUME TypeInv, BehindInv, BindInv, HoldInv, [Next]_vars PROVE HoldInv'
    OBVIOUS
<1>1. TypeInv'
    BY TypesStep
<1>2. CASE Move
    BY <1>1, <1>2, HeardStep, StoredKept, HandsStep DEF HoldInv
<1>3. CASE UNCHANGED vars
    BY <1>3 DEF vars, HoldInv, HeardOK, StoredOK, HandsOK, Ready, Current, BoundRun, BoundStep
<1> QED
    BY <1>2, <1>3, Moves

\* A set with at most one element more, and one with an element less.
LEMMA OneMore ==
    ASSUME NEW S, IsFiniteSet(S), NEW x, NEW T \in SUBSET (S \cup {x})
    PROVE  /\ IsFiniteSet(T) /\ Cardinality(T) \in Nat /\ Cardinality(S) \in Nat
           /\ Cardinality(T) <= Cardinality(S) + 1
<1>1. IsFiniteSet(S \cup {x})
      /\ Cardinality(S \cup {x}) \in {Cardinality(S), Cardinality(S) + 1}
    BY FS_AddElement
<1>2. IsFiniteSet(T) /\ Cardinality(T) <= Cardinality(S \cup {x})
    BY <1>1, FS_Subset
<1>3. Cardinality(T) \in Nat /\ Cardinality(S) \in Nat /\ Cardinality(S \cup {x}) \in Nat
    BY <1>1, <1>2, FS_CardinalityType
<1> QED
    BY <1>1, <1>2, <1>3

LEMMA NoMore ==
    ASSUME NEW S, IsFiniteSet(S), NEW T \in SUBSET S
    PROVE  /\ IsFiniteSet(T) /\ Cardinality(T) \in Nat /\ Cardinality(S) \in Nat
           /\ Cardinality(T) <= Cardinality(S)
BY FS_Subset, FS_CardinalityType

LEMMA OneLess ==
    ASSUME NEW S, IsFiniteSet(S), NEW x \in S, NEW T \in SUBSET (S \ {x})
    PROVE  /\ IsFiniteSet(T) /\ Cardinality(T) \in Nat /\ Cardinality(S) \in Nat
           /\ Cardinality(T) + 1 <= Cardinality(S)
<1>1. IsFiniteSet(S \ {x}) /\ Cardinality(S \ {x}) = Cardinality(S) - 1
    BY FS_RemoveElement
<1>2. IsFiniteSet(T) /\ Cardinality(T) <= Cardinality(S \ {x})
    BY <1>1, FS_Subset
<1>3. Cardinality(T) \in Nat /\ Cardinality(S) \in Nat
    BY <1>2, FS_CardinalityType
<1> QED
    BY <1>1, <1>2, <1>3

\* Executors of a run beyond the first were started over one that was superseded.
Crew(r) == {e \in Executors : executor[e].run = r}

CrewInv == \A r \in Runs : IsFiniteSet(Crew(r)) /\ Cardinality(Crew(r)) <= 1 + overlaps

LEMMA BoundsTyped ==
    ASSUME TypeInv
    PROVE  faults \in Nat /\ overlaps \in Nat
BY ConstantsAssumption DEF TypeInv, TypeOK

LEMMA CrewInit == Init => CrewInv
<1> SUFFICES ASSUME Init, NEW r \in Runs
             PROVE  IsFiniteSet(Crew(r)) /\ Cardinality(Crew(r)) <= 1 + overlaps
    BY DEF CrewInv
<1>1. Crew(r) = {}
    BY ConstantsAssumption DEF Init, Idle, Crew
<1> QED
    BY <1>1, FS_EmptySet DEF Init

\* An executor comes to a run by a claim or a new attempt only.
LEMMA CrewChange ==
    ASSUME TypeInv, Move, NEW f \in Executors, executor'[f].run \in Runs
    PROVE  executor[f].run = executor'[f].run \/ TakeMove(f, executor'[f].run)
<1>1. Idle.run \notin Runs
    BY ConstantsAssumption DEF Idle
<1>2. CASE \E q \in Runs : TakeMove(f, q)
    BY <1>2 DEF TakeMove
<1>3. CASE \/ LeaveMove(f) \/ RestoreMove(f) \/ ClaimMove(f) \/ GoMove(f) \/ CallMove(f)
           \/ WriteMove(f)
    BY <1>1, <1>3 DEF LeaveMove, RestoreMove, ClaimMove, GoMove, CallMove, WriteMove, GoesOn, Holds
<1> QED
    BY <1>2, <1>3, OneMoves

\* A move counts at most one superseded executor, and one that is lost or fails.
LEMMA Counted ==
    ASSUME TypeInv, Move
    PROVE  faults' \in {faults, faults + 1} /\ overlaps' \in {overlaps, overlaps + 1}
<1>1. CASE AdminMove
    BY <1>1 DEF AdminMove
<1>2. ASSUME NEW e \in Executors, LeaveMove(e)
      PROVE  overlaps' = overlaps /\ faults' \in {faults, faults + 1}
    BY <1>2 DEF LeaveMove
<1>3. ASSUME NEW e \in Executors, NEW r \in Runs, TakeMove(e, r)
      PROVE  faults' = faults /\ overlaps' \in {overlaps, overlaps + 1}
    BY <1>3 DEF TakeMove
<1>4. ASSUME NEW e \in Executors,
             RestoreMove(e) \/ ClaimMove(e) \/ GoMove(e) \/ CallMove(e) \/ WriteMove(e)
      PROVE  overlaps' = overlaps /\ faults' \in {faults, faults + 1}
    BY <1>4 DEF RestoreMove, ClaimMove, GoMove, CallMove, WriteMove
<1> QED
    BY <1>1, <1>2, <1>3, <1>4 DEF Move

LEMMA CrewStep ==
    ASSUME TypeInv, CrewInv, Move
    PROVE  CrewInv'
<1> SUFFICES ASSUME NEW r \in Runs
             PROVE  IsFiniteSet(Crew(r)') /\ Cardinality(Crew(r)') <= 1 + overlaps'
    BY DEF CrewInv
<1>1. /\ IsFiniteSet(Crew(r)) /\ Cardinality(Crew(r)) <= 1 + overlaps
      /\ overlaps \in Nat /\ overlaps' \in {overlaps, overlaps + 1}
    BY BoundsTyped, Counted DEF CrewInv
<1>2. CASE \E e \in Executors : TakeMove(e, r)
  <2>1. PICK e \in Executors : TakeMove(e, r)
      BY <1>2
  <2>2. Crew(r)' \in SUBSET (Crew(r) \cup {e})
      BY <2>1 DEF TakeMove, Rest, Crew
  <2>3. /\ IsFiniteSet(Crew(r)') /\ Cardinality(Crew(r)') \in Nat /\ Cardinality(Crew(r)) \in Nat
        /\ Cardinality(Crew(r)') <= Cardinality(Crew(r)) + 1
      BY <1>1, <2>2, OneMore
  <2>4. overlaps' = overlaps + 1 \/ Cardinality(Crew(r)) = 0
    <3>1. CASE \A f \in Executors : executor[f].run # r
      <4>1. Crew(r) = {}
          BY <3>1 DEF Crew
      <4> QED
          BY <4>1, FS_EmptySet
    <3> QED
        BY <2>1, <3>1 DEF TakeMove
  <2> QED
      BY <1>1, <2>3, <2>4
<1>3. CASE ~\E e \in Executors : TakeMove(e, r)
  <2>1. Crew(r)' \in SUBSET Crew(r)
      BY <1>3, CrewChange DEF Crew
  <2>2. /\ IsFiniteSet(Crew(r)') /\ Cardinality(Crew(r)') \in Nat /\ Cardinality(Crew(r)) \in Nat
        /\ Cardinality(Crew(r)') <= Cardinality(Crew(r))
      BY <1>1, <2>1, NoMore
  <2> QED
      BY <1>1, <2>2
<1> QED
    BY <1>2, <1>3

LEMMA CrewNext == TypeInv /\ CrewInv /\ [Next]_vars => CrewInv'
<1> SUFFICES ASSUME TypeInv, CrewInv, [Next]_vars PROVE CrewInv'
    OBVIOUS
<1>1. CASE Move
    BY <1>1, CrewStep
<1>2. CASE UNCHANGED vars
    BY <1>2 DEF vars, CrewInv, Crew
<1> QED
    BY <1>1, <1>2, Moves

\* The command is in the continuation of a run that goes on.
Kept(c) == run[BoundRun(c)].guidance = c /\ run[BoundRun(c)].status \notin Terminal

\* An executor that can still say the command: it calls the model with it, or it has
\* it, or will read it, from the continuation, and is not superseded.
Speaks(e, c) ==
    /\ executor[e].run = BoundRun(c)
    /\ \/ executor[e].pc = "call" /\ executor[e].guidance = c
       \/ /\ Kept(c)
          /\ \/ executor[e].pc = "restore"
             \/ Ready(e) /\ executor[e].guidance = c /\ Current(e)

Speakers(c) == {e \in Executors : Speaks(e, c)}

\* Nobody works on the run: the next executor will read the command.
Tends(e, r) == executor[e].run = r /\ (executor[e].pc = "restore" \/ Current(e))
Untended(c) == Kept(c) /\ \A e \in Executors : ~Tends(e, BoundRun(c))

\* The calls that were made with a command and those that can come without another loss.
Told(c) ==
    Cardinality(heard[c]) + Cardinality(Speakers(c)) + (IF Untended(c) THEN 1 ELSE 0)

TellInv == \A c \in Commands : command[c].status = "applied" =>
    Told(c) <= 1 + faults + overlaps

LEMMA TellInit == Init => TellInv
BY DEF Init, TellInv

LEMMA ToldTyped ==
    ASSUME TypeInv, BindInv, HoldInv, CrewInv, NEW c \in Commands,
           command[c].status = "applied"
    PROVE  /\ IsFiniteSet(heard[c]) /\ Cardinality(heard[c]) \in Nat
           /\ IsFiniteSet(Speakers(c)) /\ Cardinality(Speakers(c)) \in Nat
           /\ Cardinality(Speakers(c)) <= 1 + overlaps
<1>1. IsFiniteSet(heard[c])
    BY DEF HoldInv, HeardOK
<1>2. BoundRun(c) \in Runs
    BY AppliedTyped
<1>3. IsFiniteSet(Crew(BoundRun(c))) /\ Cardinality(Crew(BoundRun(c))) <= 1 + overlaps
    BY <1>2 DEF CrewInv
<1>4. Speakers(c) \in SUBSET Crew(BoundRun(c))
    BY DEF Speakers, Speaks, Crew
<1>5. /\ IsFiniteSet(Speakers(c)) /\ Cardinality(Speakers(c)) \in Nat
      /\ Cardinality(Crew(BoundRun(c))) \in Nat
      /\ Cardinality(Speakers(c)) <= Cardinality(Crew(BoundRun(c)))
    BY <1>3, <1>4, NoMore
<1>6. Cardinality(heard[c]) \in Nat
    BY <1>1, FS_CardinalityType
<1> QED
    BY <1>1, <1>3, <1>5, <1>6, BoundsTyped

\* Where nothing is said and nobody comes to say it, the sum does not grow.
LEMMA ToldAgain ==
    ASSUME TypeInv, BindInv, HoldInv, CrewInv, TellInv, Move, NEW c \in Commands,
           command[c].status = "applied", heard'[c] = heard[c],
           Speakers(c)' \in SUBSET Speakers(c), Untended(c)' => Untended(c)
    PROVE  Told(c)' <= 1 + faults' + overlaps'
<1>1. /\ faults \in Nat /\ overlaps \in Nat
      /\ faults' \in {faults, faults + 1} /\ overlaps' \in {overlaps, overlaps + 1}
    BY BoundsTyped, Counted
<1>2. /\ Cardinality(heard[c]) \in Nat /\ Cardinality(Speakers(c)) \in Nat
      /\ Cardinality(Speakers(c)') \in Nat
      /\ Cardinality(Speakers(c)') <= Cardinality(Speakers(c))
    BY ToldTyped, NoMore
<1>3. Cardinality(heard[c]) + Cardinality(Speakers(c)) + (IF Untended(c) THEN 1 ELSE 0)
        <= 1 + faults + overlaps
    BY DEF TellInv, Told
<1>4. Cardinality(heard'[c]) = Cardinality(heard[c])
    OBVIOUS
<1>5. Told(c)' = Cardinality(heard'[c]) + Cardinality(Speakers(c)')
                 + (IF Untended(c)' THEN 1 ELSE 0)
    BY DEF Told
<1> QED
    BY <1>1, <1>2, <1>3, <1>4, <1>5

\* A continuation gets a command when a step is paid for with it.
LEMMA KeptChange ==
    ASSUME TypeInv, TypeInv', BindInv, HoldInv, Move, NEW c \in Commands,
           command[c].status = "applied", Kept(c)'
    PROVE  \/ Kept(c)
           \/ \E e \in Executors : /\ WriteMove(e) /\ executor[e].pc = "consume"
                                   /\ executor[e].run = BoundRun(c)
                                   /\ executor[e].guidance = c
<1> DEFINE r == BoundRun(c)
<1>1. r \in Runs /\ command'[c] = command[c] /\ c # None
    BY AppliedTyped, AppliedStays, ConstantsAssumption DEF Commands
<1>2. run'[r].guidance = c /\ run'[r].status \notin Terminal
    BY <1>1 DEF Kept, BoundRun
<1>3. CASE run'[r].guidance = run[r].guidance /\ run'[r].status = run[r].status
    BY <1>2, <1>3 DEF Kept
<1>4. ASSUME NEW e \in Executors, WriteMove(e), executor[e].run = r
      PROVE  executor[e].pc = "consume" /\ executor[e].guidance = c
  <2>1. executor[e].pc \in {"resolve", "consume", "tool", "fail"} /\ Current(e)
      BY <1>4 DEF WriteMove
  <2>2. executor[e].pc # "fail"
      BY <1>2, <1>4 DEF WriteMove, Terminal
  <2>3. executor[e].pc # "tool"
      BY <1>1, <1>2, <1>4 DEF WriteMove, TypeInv, Local
  <2>4. executor[e].pc # "resolve"
      BY <1>1, <1>2, <1>4, <2>1 DEF WriteMove, HoldInv, HandsOK
  <2> QED
      BY <1>2, <1>4, <2>1, <2>2, <2>3, <2>4 DEF WriteMove
<1>5. ASSUME NEW e \in Executors, WriteMove(e), executor[e].run # r
      PROVE  run'[r] = run[r]
    BY <1>1, <1>5 DEF WriteMove, OtherRuns
<1>6. ASSUME NEW e \in Executors, NEW q \in Runs, TakeMove(e, q)
      PROVE  run'[r].status = run[r].status /\ run'[r].guidance = run[r].guidance
    BY <1>1, <1>6 DEF TakeMove, OtherRuns
<1>7. ASSUME NEW e \in Executors,
             LeaveMove(e) \/ RestoreMove(e) \/ ClaimMove(e) \/ GoMove(e) \/ CallMove(e)
      PROVE  run' = run
    BY <1>7 DEF LeaveMove, RestoreMove, ClaimMove, GoMove, CallMove
<1>8. AdminMove => run' = run
    BY DEF AdminMove
<1> QED
    BY <1>3, <1>4, <1>5, <1>6, <1>7, <1>8 DEF Move

\* An executor that rests does not begin to speak, unless the continuation changes.
LEMMA RestsSilent ==
    ASSUME TypeInv, TypeInv', BehindInv, Move, NEW c \in Commands,
           command[c].status = "applied", Kept(c)' => Kept(c),
           NEW f \in Executors, executor'[f] = executor[f], Speaks(f, c)'
    PROVE  Speaks(f, c)
<1>1. command'[c] = command[c]
    BY AppliedStays
<1>2. executor[f].pc # "idle" /\ Current(f)' => Current(f)
    BY RestsBehind DEF BehindInv
<1> QED
    BY <1>1, <1>2 DEF Speaks, Ready, BoundRun

\* An executor that rests tends its run as long as the run's version stays.
LEMMA RestsTending ==
    ASSUME NEW f \in Executors, executor'[f] = executor[f], NEW r \in Runs,
           run'[r].version = run[r].version, Tends(f, r)
    PROVE  Tends(f, r)'
BY DEF Tends, Current

\* The hypotheses under which a move is looked at for one command.
HearCase(c) ==
    /\ TypeInv /\ TypeInv' /\ BehindInv /\ BindInv /\ HoldInv /\ CrewInv /\ TellInv /\ Move
    /\ command[c].status = "applied"

\* What every move leaves as it is, but for the executor that takes it.
LEMMA OthersSilent ==
    ASSUME NEW c \in Commands, HearCase(c), NEW e \in Executors, Rest(e),
           Kept(c)' => Kept(c)
    PROVE  Speakers(c)' \in SUBSET (Speakers(c) \cup {e})
<1>1. ASSUME NEW f \in Executors, f # e, Speaks(f, c)' PROVE Speaks(f, c)
    BY <1>1, RestsSilent DEF HearCase, Rest
<1> QED
    BY <1>1 DEF Speakers

LEMMA OthersTend ==
    ASSUME NEW c \in Commands, HearCase(c), NEW e \in Executors, Rest(e),
           run'[BoundRun(c)].version = run[BoundRun(c)].version,
           Kept(c)' => Kept(c), Untended(c)'
    PROVE  Untended(c) \/ Tends(e, BoundRun(c))
<1>1. command'[c] = command[c] /\ BoundRun(c) \in Runs
    BY AppliedStays, AppliedTyped DEF HearCase
<1>2. BoundRun(c)' = BoundRun(c)
    BY <1>1 DEF BoundRun
<1>3. ASSUME NEW f \in Executors, f # e PROVE ~Tends(f, BoundRun(c))
  <2>1. ~Tends(f, BoundRun(c))'
      BY <1>2 DEF Untended
  <2> QED
      BY <1>1, <1>2, <1>3, <2>1, RestsTending DEF Rest
<1> QED
    BY <1>3 DEF Untended

\* The executor that takes a move leaves no more to be said than before it.
LEMMA MovesSilent ==
    ASSUME NEW c \in Commands, HearCase(c), NEW e \in Executors, Rest(e),
           heard'[c] = heard[c], Kept(c)' => Kept(c),
           Speaks(e, c)' => Speaks(e, c),
           Untended(c)' => /\ run'[BoundRun(c)].version = run[BoundRun(c)].version
                           /\ ~Tends(e, BoundRun(c))
    PROVE  Told(c)' <= 1 + faults' + overlaps'
<1>1. Speakers(c)' \in SUBSET Speakers(c)
  <2>1. Speakers(c)' \in SUBSET (Speakers(c) \cup {e})
      BY OthersSilent
  <2>2. e \in Speakers(c)' => e \in Speakers(c)
      BY DEF Speakers
  <2> QED
      BY <2>1, <2>2
<1>2. Untended(c)' => Untended(c)
    BY OthersTend
<1> QED
    BY <1>1, <1>2, ToldAgain DEF HearCase

\* For the moves that leave the rows alone.
LEMMA KeptSame ==
    ASSUME NEW c \in Commands, HearCase(c), run' = run
    PROVE  /\ Kept(c)' <=> Kept(c)
           /\ command'[c] = command[c] /\ BoundRun(c)' = BoundRun(c) /\ BoundStep(c)' = BoundStep(c)
           /\ BoundRun(c) \in Runs /\ BoundStep(c) \in Nat /\ c # None
<1>1. command'[c] = command[c]
    BY AppliedStays DEF HearCase
<1>2. BoundRun(c) \in Runs /\ BoundStep(c) \in Nat /\ c # None
    BY AppliedTyped, ConstantsAssumption DEF HearCase, Commands
<1> QED
    BY <1>1, <1>2 DEF Kept, BoundRun, BoundStep

LEMMA LeaveTells ==
    ASSUME NEW c \in Commands, HearCase(c), NEW e \in Executors, LeaveMove(e)
    PROVE  Told(c)' <= 1 + faults' + overlaps'
<1>1. run' = run /\ heard' = heard /\ Rest(e) /\ executor'[e] = Idle /\ overlaps' = overlaps
    BY DEF LeaveMove
<1>2. /\ Kept(c)' <=> Kept(c)
      /\ BoundRun(c)' = BoundRun(c) /\ BoundRun(c) \in Runs
    BY <1>1, KeptSame
<1>3. ~Speaks(e, c)'
    BY <1>1 DEF Speaks, Idle, Ready
<1>4. CASE faults' = faults + 1
  <2>1. Speakers(c)' \in SUBSET Speakers(c)
      BY <1>1, <1>2, <1>3, OthersSilent DEF Speakers
  <2>2. /\ Cardinality(heard[c]) \in Nat /\ Cardinality(Speakers(c)) \in Nat
        /\ Cardinality(Speakers(c)') \in Nat
        /\ Cardinality(Speakers(c)') <= Cardinality(Speakers(c))
        /\ faults \in Nat /\ overlaps \in Nat
      BY <2>1, ToldTyped, NoMore, BoundsTyped DEF HearCase
  <2>3. Cardinality(heard[c]) + Cardinality(Speakers(c)) + (IF Untended(c) THEN 1 ELSE 0)
            <= 1 + faults + overlaps
      BY DEF HearCase, TellInv, Told
  <2>4. Told(c)' = Cardinality(heard[c]) + Cardinality(Speakers(c)')
                   + (IF Untended(c)' THEN 1 ELSE 0)
      BY <1>1 DEF Told
  <2> QED
      BY <1>1, <1>4, <2>2, <2>3, <2>4
<1>5. CASE faults' = faults
  <2>1. Kept(c) => ~Tends(e, BoundRun(c))
    <3> SUFFICES ASSUME Kept(c), Tends(e, BoundRun(c)) PROVE FALSE
        OBVIOUS
    <3>1. executor[e].run = BoundRun(c) /\ (executor[e].pc = "restore" \/ Current(e))
        BY DEF Tends
    <3>2. faults # faults + 1
        BY BoundsTyped DEF HearCase
    <3>3. run[BoundRun(c)].status \notin Terminal \cup {"waiting"}
      <4>1. StoredOK(BoundRun(c)) /\ c # None
          BY <1>1, <1>2, KeptSame DEF HearCase, HoldInv
      <4> QED
          BY <4>1 DEF Kept, StoredOK
    <3>4. run[BoundRun(c)].status \in Active
        BY <1>2, <3>3 DEF HearCase, TypeInv, TypeOK, RunRows
    <3> QED
        BY <1>5, <3>1, <3>2, <3>3, <3>4 DEF LeaveMove
  <2> QED
      BY <1>1, <1>2, <1>3, <2>1, MovesSilent DEF Untended
<1> QED
    BY <1>4, <1>5 DEF LeaveMove

LEMMA RestoreTells ==
    ASSUME NEW c \in Commands, HearCase(c), NEW e \in Executors, RestoreMove(e)
    PROVE  Told(c)' <= 1 + faults' + overlaps'
<1>1. /\ run' = run /\ heard' = heard /\ Rest(e) /\ overlaps' = overlaps /\ faults' = faults
      /\ executor[e].pc = "restore" /\ executor'[e].pc \in {"resolve", "prompt"}
      /\ executor'[e].run = executor[e].run
    BY DEF RestoreMove
<1>2. /\ Kept(c)' <=> Kept(c)
      /\ BoundRun(c)' = BoundRun(c) /\ BoundRun(c) \in Runs
    BY <1>1, KeptSame
<1>3. Speaks(e, c)' => Speaks(e, c)
    BY <1>1, <1>2 DEF Speaks
<1>4. CASE Kept(c) /\ executor[e].run = BoundRun(c) /\ ~Current(e)'
  <2>1. e \in Speakers(c) /\ ~Speaks(e, c)'
      BY <1>1, <1>2, <1>4 DEF Speakers, Speaks
  <2>2. Speakers(c)' \in SUBSET (Speakers(c) \ {e})
      BY <1>1, <1>2, <2>1, OthersSilent DEF Speakers
  <2>3. /\ Cardinality(heard[c]) \in Nat /\ Cardinality(Speakers(c)) \in Nat
        /\ Cardinality(Speakers(c)') \in Nat
        /\ Cardinality(Speakers(c)') + 1 <= Cardinality(Speakers(c))
        /\ faults \in Nat /\ overlaps \in Nat
      BY <2>1, <2>2, ToldTyped, OneLess, BoundsTyped DEF HearCase
  <2>4. Cardinality(heard[c]) + Cardinality(Speakers(c)) + (IF Untended(c) THEN 1 ELSE 0)
            <= 1 + faults + overlaps
      BY DEF HearCase, TellInv, Told
  <2>5. Told(c)' = Cardinality(heard[c]) + Cardinality(Speakers(c)')
                   + (IF Untended(c)' THEN 1 ELSE 0)
      BY <1>1 DEF Told
  <2> QED
      BY <1>1, <2>3, <2>4, <2>5
<1>5. CASE ~(Kept(c) /\ executor[e].run = BoundRun(c) /\ ~Current(e)')
  <2>1. Untended(c)' => ~Tends(e, BoundRun(c))
      BY <1>1, <1>2, <1>5 DEF Untended, Tends
  <2> QED
      BY <1>1, <1>2, <1>3, <2>1, MovesSilent
<1> QED
    BY <1>4, <1>5

LEMMA ClaimTells ==
    ASSUME NEW c \in Commands, HearCase(c), NEW e \in Executors, ClaimMove(e)
    PROVE  Told(c)' <= 1 + faults' + overlaps'
<1>1. /\ run' = run /\ heard' = heard /\ Rest(e) /\ Holds(e)
      /\ executor[e].pc = "prompt" /\ executor'[e].pc = "consume"
    BY DEF ClaimMove
<1>2. /\ Kept(c)' <=> Kept(c)
      /\ BoundRun(c)' = BoundRun(c) /\ BoundStep(c)' = BoundStep(c)
      /\ BoundRun(c) \in Runs /\ BoundStep(c) \in Nat /\ c # None
    BY <1>1, KeptSame
<1>3. ~Speaks(e, c)'
  <2> SUFFICES ASSUME Speaks(e, c)' PROVE FALSE
      OBVIOUS
  <2>1. Kept(c) /\ executor'[e].guidance = c /\ Current(e)' /\ executor'[e].run = BoundRun(c)
      BY <1>1, <1>2 DEF Speaks
  <2>2. Current(e) /\ executor[e].run = BoundRun(c)
      BY <1>1, <2>1 DEF Current, Holds
  <2>3. command'[c].boundary = Boundary(e)
      BY <1>2, <2>1, Claimed DEF HearCase
  <2>4. BoundStep(c) = executor[e].consumedSteps + 1
      BY <1>2, <2>3 DEF BoundStep, Boundary
  <2>5. executor[e].consumedSteps = run[BoundRun(c)].consumedSteps
      BY <1>1, <2>2 DEF HearCase, BehindInv, Behind, Past
  <2>6. BoundStep(c) <= run[BoundRun(c)].consumedSteps
    <3>1. StoredOK(BoundRun(c))
        BY <1>2 DEF HearCase, HoldInv
    <3> QED
        BY <1>2, <2>1, <3>1 DEF StoredOK, Kept
  <2>7. run[BoundRun(c)].consumedSteps \in Nat
      BY <1>2, StepsTyped DEF HearCase
  <2> QED
      BY <2>4, <2>5, <2>6, <2>7
<1>4. Untended(c)' => ~Tends(e, BoundRun(c))
  <2>1. Tends(e, BoundRun(c)) => Tends(e, BoundRun(c))'
      BY <1>1, <1>2 DEF Tends, Current, Holds
  <2> QED
      BY <2>1, <1>2 DEF Untended
<1> QED
    BY <1>1, <1>2, <1>3, <1>4, MovesSilent

LEMMA GoTells ==
    ASSUME NEW c \in Commands, HearCase(c), NEW e \in Executors, GoMove(e)
    PROVE  Told(c)' <= 1 + faults' + overlaps'
<1>1. /\ run' = run /\ heard' = heard /\ Rest(e) /\ Holds(e)
      /\ executor'[e].guidance = executor[e].guidance
      /\ \/ executor[e].pc = "prompt" /\ executor'[e].pc = "consume"
         \/ executor[e].pc \in {"prompt", "consume"} /\ executor'[e].pc = "fail"
         \/ executor[e].pc = "tool" /\ executor'[e].pc \in {"prompt", "fail"}
    BY DEF GoMove
<1>2. /\ Kept(c)' <=> Kept(c)
      /\ BoundRun(c)' = BoundRun(c) /\ BoundRun(c) \in Runs /\ c # None
    BY <1>1, KeptSame
<1>3. Speaks(e, c)' => Speaks(e, c)
  <2>1. executor[e].pc = "tool" => executor[e].guidance = None
      BY DEF HearCase, TypeInv, Local
  <2>2. Current(e)' <=> Current(e)
      BY <1>1 DEF Current, Holds
  <2> QED
      BY <1>1, <1>2, <2>1, <2>2 DEF Speaks, Ready, Holds
<1>4. Untended(c)' => ~Tends(e, BoundRun(c))
  <2>1. Tends(e, BoundRun(c)) => Tends(e, BoundRun(c))'
      BY <1>1, <1>2 DEF Tends, Current, Holds
  <2> QED
      BY <2>1, <1>2 DEF Untended
<1> QED
    BY <1>1, <1>2, <1>3, <1>4, MovesSilent

LEMMA CallTells ==
    ASSUME NEW c \in Commands, HearCase(c), NEW e \in Executors, CallMove(e)
    PROVE  Told(c)' <= 1 + faults' + overlaps'
<1>1. /\ run' = run /\ Rest(e) /\ Holds(e) /\ faults' = faults /\ overlaps' = overlaps
      /\ executor[e].pc = "call" /\ executor'[e].pc \in {"tool", "fail"}
    BY DEF CallMove
<1>2. /\ Kept(c)' <=> Kept(c)
      /\ BoundRun(c)' = BoundRun(c) /\ BoundRun(c) \in Runs /\ c # None
    BY <1>1, KeptSame
<1>3. ~Speaks(e, c)'
    BY <1>1 DEF Speaks, Ready
<1>4. Untended(c)' => ~Tends(e, BoundRun(c))
  <2>1. Tends(e, BoundRun(c)) => Tends(e, BoundRun(c))'
      BY <1>1, <1>2 DEF Tends, Current, Holds
  <2> QED
      BY <2>1, <1>2 DEF Untended
<1>5. CASE executor[e].guidance # c
  <2>1. heard'[c] = heard[c]
      BY <1>5 DEF CallMove
  <2> QED
      BY <1>1, <1>2, <1>3, <1>4, <2>1, MovesSilent
<1>6. CASE executor[e].guidance = c
  <2> DEFINE x == <<executor[e].run, executor[e].consumedSteps>>
  <2>1. heard'[c] = heard[c] \cup {x}
      BY <1>6 DEF CallMove
  <2>2. executor[e].run = BoundRun(c)
      BY <1>2, <1>6, HeldTyped DEF HearCase
  <2>3. e \in Speakers(c)
      BY <1>1, <1>6, <2>2 DEF Speakers, Speaks
  <2>4. Speakers(c)' \in SUBSET (Speakers(c) \ {e})
      BY <1>1, <1>2, <1>3, OthersSilent DEF Speakers
  <2>5. /\ Cardinality(Speakers(c)) \in Nat /\ Cardinality(Speakers(c)') \in Nat
        /\ Cardinality(Speakers(c)') + 1 <= Cardinality(Speakers(c))
        /\ faults \in Nat /\ overlaps \in Nat
      BY <2>3, <2>4, ToldTyped, OneLess, BoundsTyped DEF HearCase
  <2>6. /\ Cardinality(heard[c]) \in Nat /\ Cardinality(heard'[c]) \in Nat
        /\ Cardinality(heard'[c]) <= Cardinality(heard[c]) + 1
    <3>1. heard'[c] \in SUBSET (heard[c] \cup {x})
        BY <2>1
    <3>2. IsFiniteSet(heard[c])
        BY ToldTyped DEF HearCase
    <3> QED
        BY <3>1, <3>2, OneMore
  <2>7. Untended(c)' => Untended(c)
      BY <1>1, <1>2, <1>4, OthersTend
  <2>8. Cardinality(heard[c]) + Cardinality(Speakers(c)) + (IF Untended(c) THEN 1 ELSE 0)
            <= 1 + faults + overlaps
      BY DEF HearCase, TellInv, Told
  <2>9. Told(c)' = Cardinality(heard'[c]) + Cardinality(Speakers(c)')
                   + (IF Untended(c)' THEN 1 ELSE 0)
      BY DEF Told
  <2> QED
      BY <1>1, <2>5, <2>6, <2>7, <2>8, <2>9
<1> QED
    BY <1>5, <1>6

LEMMA TakeTells ==
    ASSUME NEW c \in Commands, HearCase(c), NEW e \in Executors, NEW q \in Runs, TakeMove(e, q)
    PROVE  Told(c)' <= 1 + faults' + overlaps'
<1> DEFINE r == BoundRun(c)
<1>1. /\ heard' = heard /\ Rest(e) /\ faults' = faults
      /\ executor[e].pc = "idle" /\ executor'[e].pc = "restore" /\ executor'[e].run = q
    BY DEF TakeMove
<1>2. r \in Runs /\ BoundRun(c)' = r /\ c # None
    BY AppliedTyped, AppliedStays, ConstantsAssumption DEF HearCase, Commands, BoundRun
<1>3. Kept(c)' <=> Kept(c)
  <2>1. run'[r].status = run[r].status /\ run'[r].guidance = run[r].guidance
      BY <1>2 DEF TakeMove, OtherRuns
  <2> QED
      BY <1>2, <2>1 DEF Kept
<1>4. executor[e].run \notin Runs
    BY <1>1, ConstantsAssumption DEF HearCase, TypeInv, Local, Idle
<1>5. CASE q # r
  <2>1. ~Speaks(e, c)' /\ ~Tends(e, r)
      BY <1>1, <1>2, <1>4, <1>5 DEF Speaks, Tends
  <2>2. run'[r] = run[r]
      BY <1>2, <1>5 DEF TakeMove, OtherRuns
  <2> QED
      BY <1>1, <1>3, <2>1, <2>2, MovesSilent
<1>6. CASE q = r
  <2>1. ~Untended(c)'
      BY <1>1, <1>2, <1>6 DEF Untended, Tends
  <2>2. CASE ~Kept(c)
    <3>1. ~Speaks(e, c)'
        BY <1>1, <1>3, <2>2 DEF Speaks
    <3> QED
        BY <1>1, <1>3, <2>1, <3>1, MovesSilent
  <2>3. CASE Kept(c)
    <3>1. Speakers(c)' \in SUBSET (Speakers(c) \cup {e})
        BY <1>1, <1>3, OthersSilent
    <3>2. /\ Cardinality(heard[c]) \in Nat /\ Cardinality(Speakers(c)) \in Nat
          /\ Cardinality(Speakers(c)') \in Nat
          /\ Cardinality(Speakers(c)') <= Cardinality(Speakers(c)) + 1
          /\ faults \in Nat /\ overlaps \in Nat
        BY <3>1, ToldTyped, OneMore, BoundsTyped DEF HearCase
    <3>3. overlaps' = overlaps + 1 \/ (overlaps' = overlaps /\ Untended(c))
        BY <1>6, <2>3 DEF TakeMove, Untended, Tends
    <3>4. Cardinality(heard[c]) + Cardinality(Speakers(c)) + (IF Untended(c) THEN 1 ELSE 0)
            <= 1 + faults + overlaps
        BY DEF HearCase, TellInv, Told
    <3>5. Told(c)' = Cardinality(heard[c]) + Cardinality(Speakers(c)')
        BY <1>1, <2>1, <3>2 DEF Told
    <3> QED
        BY <1>1, <3>2, <3>3, <3>4, <3>5
  <2> QED
      BY <2>2, <2>3
<1> QED
    BY <1>5, <1>6

\* The step that is paid for with a command which the continuation did not hold is
\* the step of its boundary: nobody has said the command yet.
LEMMA FirstTells ==
    ASSUME NEW c \in Commands, HearCase(c), CrewInv', NEW e \in Executors,
           WriteMove(e), executor[e].pc = "consume", executor[e].run = BoundRun(c),
           executor[e].guidance = c, ~Kept(c)
    PROVE  Told(c)' <= 1 + faults' + overlaps'
<1> DEFINE r == BoundRun(c)
<1>1. /\ heard' = heard /\ faults' = faults /\ overlaps' = overlaps /\ command' = command
      /\ Current(e) /\ GoesOn(e)
    BY DEF WriteMove, HearCase
<1>2. r \in Runs /\ BoundRun(c)' = r /\ c # None /\ BoundStep(c) \in Nat
    BY <1>1, AppliedTyped, ConstantsAssumption DEF HearCase, Commands, BoundRun
<1>3. run[r].status \notin Terminal
    BY <1>1 DEF HearCase, BehindInv, Behind, Past
<1>4. BoundStep(c) = run[r].consumedSteps + 1
  <2>1. run[r].guidance # c
      BY <1>3 DEF Kept
  <2> QED
      BY <1>1, <1>2, <2>1 DEF HearCase, HoldInv, HandsOK, Ready
<1>5. heard[c] = {}
  <2>1. run[r].consumedSteps \in Nat
      BY <1>2, StepsTyped DEF HearCase
  <2> QED
      BY <1>4, <2>1 DEF HearCase, HoldInv, HeardOK
<1>6. ~Untended(c)'
  <2>1. executor'[e].run = r /\ executor'[e].version = run'[r].version
      BY <1>1 DEF GoesOn
  <2> QED
      BY <1>2, <2>1 DEF Untended, Tends, Current
<1>7. /\ Cardinality(Speakers(c)') \in Nat /\ Cardinality(Speakers(c)') <= 1 + overlaps'
  <2>1. IsFiniteSet(Crew(r)') /\ Cardinality(Crew(r)') <= 1 + overlaps'
      BY <1>2 DEF CrewInv
  <2>2. Speakers(c)' \in SUBSET Crew(r)'
      BY <1>2 DEF Speakers, Speaks, Crew
  <2>3. /\ Cardinality(Speakers(c)') \in Nat /\ Cardinality(Crew(r)') \in Nat
        /\ Cardinality(Speakers(c)') <= Cardinality(Crew(r)')
      BY <2>1, <2>2, NoMore
  <2>4. overlaps' \in Nat
      BY <1>1, BoundsTyped DEF HearCase
  <2> QED
      BY <2>1, <2>3, <2>4
<1>8. Cardinality(heard'[c]) = 0
    BY <1>1, <1>5, FS_EmptySet
<1>9. Told(c)' = 0 + Cardinality(Speakers(c)')
    BY <1>6, <1>7, <1>8 DEF Told
<1>10. faults \in Nat /\ overlaps \in Nat
    BY BoundsTyped DEF HearCase
<1> QED
    BY <1>1, <1>7, <1>9, <1>10

LEMMA WriteTells ==
    ASSUME NEW c \in Commands, HearCase(c), CrewInv', NEW e \in Executors, WriteMove(e)
    PROVE  Told(c)' <= 1 + faults' + overlaps'
<1> DEFINE r == BoundRun(c)
<1>1. /\ heard' = heard /\ command' = command /\ Rest(e) /\ Current(e)
      /\ executor[e].pc \in {"resolve", "consume", "tool", "fail"}
    BY DEF WriteMove
<1>2. r \in Runs /\ BoundRun(c)' = r /\ c # None
    BY <1>1, AppliedTyped, ConstantsAssumption DEF HearCase, Commands, BoundRun
<1>3. executor'[e] = Idle \/ GoesOn(e)
    BY DEF WriteMove
<1>4. ASSUME executor[e].run # r
      PROVE  Told(c)' <= 1 + faults' + overlaps'
  <2>1. run'[r] = run[r]
      BY <1>2, <1>4 DEF WriteMove, OtherRuns
  <2>2. Kept(c)' <=> Kept(c)
      BY <1>2, <2>1 DEF Kept
  <2>3. ~Speaks(e, c)' /\ ~Tends(e, r)
      BY <1>2, <1>3, <1>4, ConstantsAssumption DEF Speaks, Tends, GoesOn, Idle
  <2> QED
      BY <1>1, <2>1, <2>2, <2>3, MovesSilent
<1>5. ASSUME executor[e].run = r, executor[e].pc = "consume", executor[e].guidance = c
      PROVE  Told(c)' <= 1 + faults' + overlaps'
  <2>1. CASE ~Kept(c)
      BY <1>5, <2>1, FirstTells DEF HearCase
  <2>2. CASE Kept(c)
    <3>1. Speaks(e, c)
        BY <1>1, <1>5, <2>2 DEF Speaks, Ready
    <3>2. ~Untended(c)'
      <4>1. executor'[e].run = r /\ executor'[e].version = run'[r].version
          BY <1>5 DEF WriteMove, GoesOn
      <4> QED
          BY <1>2, <4>1 DEF Untended, Tends, Current
    <3> QED
        BY <1>1, <2>2, <3>1, <3>2, MovesSilent
  <2> QED
      BY <2>1, <2>2
<1>6. ASSUME executor[e].run = r, ~(executor[e].pc = "consume" /\ executor[e].guidance = c)
      PROVE  Told(c)' <= 1 + faults' + overlaps'
  <2>1. ~Kept(c)'
    <3>1. CASE executor[e].pc = "fail"
        BY <1>2, <1>6, <3>1 DEF Kept, WriteMove, Terminal
    <3>2. CASE executor[e].pc = "resolve"
      <4>1. run[r].guidance = None
          BY <1>1, <1>6, <3>2 DEF HearCase, HoldInv, HandsOK
      <4> QED
          BY <1>2, <1>6, <3>2, <4>1 DEF Kept, WriteMove
    <3>3. CASE executor[e].pc = "tool"
      <4>1. executor[e].guidance = None
          BY <3>3 DEF HearCase, TypeInv, Local
      <4> QED
          BY <1>2, <1>6, <3>3, <4>1 DEF Kept, WriteMove
    <3>4. CASE executor[e].pc = "consume"
        BY <1>2, <1>6, <3>4 DEF Kept, WriteMove
    <3> QED
        BY <1>1, <3>1, <3>2, <3>3, <3>4
  <2>2. ~Speaks(e, c)' /\ ~Untended(c)'
    <3>1. executor'[e].pc = "call" => executor[e].pc = "consume"
                                      /\ executor'[e].guidance = executor[e].guidance
        BY <1>3 DEF GoesOn, Idle
    <3> QED
        BY <1>6, <2>1, <3>1 DEF Speaks, Untended
  <2> QED
      BY <1>1, <2>1, <2>2, MovesSilent
<1> QED
    BY <1>4, <1>5, <1>6

\* A command that is claimed for the first time: nobody has it, nobody has said it.
LEMMA NewTells ==
    ASSUME TypeInv, TypeInv', BindInv, HoldInv, Move, NEW c \in Commands,
           command[c].status # "applied", command'[c].status = "applied"
    PROVE  Told(c)' <= 1 + faults' + overlaps'
<1>1. PICK e \in Executors : ClaimMove(e)
  <2>1. ~AdminMove
      BY DEF AdminMove
  <2>2. ASSUME NEW e \in Executors,
               \/ LeaveMove(e) \/ RestoreMove(e) \/ GoMove(e) \/ CallMove(e)
               \/ WriteMove(e) \/ \E q \in Runs : TakeMove(e, q)
        PROVE  command' = command
      BY <2>2 DEF LeaveMove, RestoreMove, GoMove, CallMove, WriteMove, TakeMove
  <2> QED
      BY <2>1, <2>2 DEF Move
<1>2. /\ run' = run /\ heard' = heard /\ Rest(e) /\ executor'[e].pc = "consume"
      /\ faults' = faults /\ overlaps' = overlaps
    BY <1>1 DEF ClaimMove
<1>3. heard[c] = {} /\ c # None
    BY ConstantsAssumption DEF HoldInv, HeardOK, Commands
<1>4. ~Kept(c)'
  <2>1. command'[c].boundary[1] \in Runs
    <3>1. command'[c].boundary = Boundary(e)
      <4>1. c = executor'[e].guidance
          BY <1>1, Claimed
      <4> QED
          BY <1>1, <1>3, <4>1, Claimed
    <3> QED
        BY <1>1, <3>1, Claimed
  <2>2. \A r \in Runs : run[r].guidance # c
      BY <1>3 DEF BindInv
  <2> QED
      BY <1>2, <2>1, <2>2 DEF Kept, BoundRun
<1>5. Speakers(c)' = {}
  <2>1. ASSUME NEW f \in Executors PROVE ~(executor'[f].pc = "call" /\ executor'[f].guidance = c)
      BY <1>2, <1>3 DEF Rest, BindInv
  <2> QED
      BY <1>4, <2>1 DEF Speakers, Speaks
<1>6. Told(c)' = 0
  <2>1. Cardinality(heard'[c]) = 0 /\ Cardinality(Speakers(c)') = 0
      BY <1>2, <1>3, <1>5, FS_EmptySet
  <2> QED
      BY <1>4, <2>1 DEF Told, Untended
<1> QED
    BY <1>2, <1>6, BoundsTyped

LEMMA TellNext ==
    TypeInv /\ BehindInv /\ BindInv /\ HoldInv /\ CrewInv /\ TellInv /\ [Next]_vars => TellInv'
<1> SUFFICES ASSUME TypeInv, BehindInv, BindInv, HoldInv, CrewInv, TellInv, [Next]_vars
             PROVE  TellInv'
    OBVIOUS
<1>1. TypeInv' /\ BindInv' /\ HoldInv' /\ CrewInv'
    BY TypesStep, BindNext, HoldNext, CrewNext
<1>2. CASE Move
  <2> SUFFICES ASSUME NEW c \in Commands, command'[c].status = "applied"
               PROVE  Told(c)' <= 1 + faults' + overlaps'
      BY DEF TellInv
  <2>1. CASE command[c].status # "applied"
      BY <1>1, <1>2, <2>1, NewTells
  <2>2. CASE command[c].status = "applied"
    <3>1. HearCase(c)
        BY <1>1, <1>2, <2>2 DEF HearCase
    <3>2. CASE AdminMove
      <4>1. command'[c] = command[c]
          BY <1>2, <2>2, AppliedStays
      <4>2. Told(c)' = Told(c) /\ faults' = faults /\ overlaps' = overlaps
          BY <3>2, <4>1 DEF AdminMove, Told, Speakers, Speaks, Ready, Untended, Tends, Kept,
                            Current, BoundRun
      <4> QED
          BY <2>2, <4>2 DEF TellInv
    <3> QED
        BY <1>1, <1>2, <3>1, <3>2, LeaveTells, RestoreTells, ClaimTells, GoTells, CallTells,
           WriteTells, TakeTells DEF Move
  <2> QED
      BY <2>1, <2>2
<1>3. CASE UNCHANGED vars
    BY <1>3 DEF vars, TellInv, Told, Speakers, Speaks, Ready, Untended, Tends, Kept, Current,
                BoundRun
<1> QED
    BY <1>2, <1>3, Moves

\* The model hears a command at one step, and at one more for every executor that was
\* lost or superseded, however crashes, overlaps and repeated claims follow each other.
THEOREM HeardOnce == Spec => []HeardOncePerLoss
<1>1. TypeInv /\ BindInv /\ HoldInv /\ CrewInv /\ TellInv => HeardOncePerLoss
  <2> SUFFICES ASSUME TypeInv, BindInv, HoldInv, CrewInv, TellInv, NEW c \in Commands
               PROVE  Cardinality(heard[c]) <= 1 + faults + overlaps
      BY DEF HeardOncePerLoss
  <2>1. faults \in Nat /\ overlaps \in Nat
      BY BoundsTyped
  <2>2. CASE command[c].status = "applied"
    <3>1. Cardinality(heard[c]) \in Nat /\ Cardinality(Speakers(c)) \in Nat
        BY <2>2, ToldTyped
    <3>2. Cardinality(heard[c]) + Cardinality(Speakers(c)) + (IF Untended(c) THEN 1 ELSE 0)
            <= 1 + faults + overlaps
        BY <2>2 DEF TellInv, Told
    <3> QED
        BY <2>1, <3>1, <3>2
  <2>3. CASE command[c].status # "applied"
    <3>1. heard[c] = {}
        BY <2>3 DEF HoldInv, HeardOK
    <3> QED
        BY <2>1, <3>1, FS_EmptySet
  <2> QED
      BY <2>2, <2>3
<1> QED
    BY <1>1, TypesInit, TypesStep, BehindInit, BehindNext, BindInit, BindNext, HoldInit,
       HoldNext, CrewInit, CrewNext, TellInit, TellNext, PTL DEF Spec
=============================================================================
