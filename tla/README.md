# TLA+ models of the agentic chat MVP

Specifications, model-checking instances and machine-checked proofs for the two
durable agent runtimes of this repository, for what they share (approvals,
simulated sends, report jobs, dispatch intents and the administrator's hidden
commands), and for the way a run's events reach the browser: the event stream
and the three pages that follow it. Paths are relative to `src/`; `R/` stands for
`packages/db/src/repositories/` and `RT/` for `packages/runtime/src/`.

    tlc -config Deferred.cfg MCSimpleLoop   # a model-checking run
    tlapm SimpleLoopWakeups.tla             # the proofs of one module

`PROJECT.json` lists the components, the runs, the lines each definition models
(`map`), the mutants that show that each property can fail, the hazards the
properties are for, the disagreements found, and the theorems.

## 1. The system

A user's message is admitted as a *run* of a conversation, with one of two
runtimes. Either runtime drives the same loop: call the model, run the tool it
asks for, at most `LOOP_STEP_BUDGET` times. Two tools do not answer at once:
`report.generate` hands a job to a queue, and `notification.send_email` waits
for an administrator's approval. The run then *waits*, in the database only, and
is resumed when the job completes or the administrator decides.

| Component | State | Operations | Talks to |
|---|---|---|---|
| Contracts (`packages/contracts/src`) | none | status tables, schemas | everybody |
| Admission (`R/admission.ts`) | conversations, messages, runs, idempotency keys, dispatch intents | admit, replay | API; leaves an intent for a runtime |
| Simple-loop worker (`RT/compose-worker.ts`, `RT/compose-simple-dispatch.ts`, `R/simple-loop-dispatch.ts`) | `dispatch_intents` of topic `simple_loop.execute` | list, handle, acknowledge, acknowledge as stale | simple-loop runtime |
| Simple-loop runtime (`RT/simple-loop`, `R/simple-loop*.ts`, `R/leases.ts`) | `runs` (status, version, lease, fencing version, budget, continuation), `tool_calls` | claim, restore, resolve a wait, consume a step, record an outcome, wait, complete | approvals, report jobs, provider |
| State-workflow runtime (`RT/state-workflow`, `R/state-workflow*.ts`) | the same rows without a lease; a Temporal workflow's status, wait and accepted signal | reconcileStart, advanceRun, applySignal; the workflow's activations | Temporal, approvals, report jobs |
| Reconciliation (`RT/state-workflow/client.ts`, `signal-reconciliation.ts`) | start and signal intents | start workflows, send and mark signals | Temporal |
| Approvals (`RT/application/approvals.ts`, `R/approval-decisions.ts`, `R/simulated-sends.ts`) | `approval_requests`, `simulated_sends` | decide, expire, reserve, send, complete | both runtimes, tool registry |
| Report jobs (`R/report-job-*.ts`, `RT/jobs/report-queue.ts`) | `jobs`, dispatch intents, BullMQ | accept, enqueue, mark, progress, complete | Redis, both runtimes |
| Hidden commands (`R/admin-commands.ts`, `RT/simple-loop/admin-guidance.ts`, `RT/state-workflow/activity-guidance.ts`) | `admin_commands`, the continuation's `guidanceCommandId` | submit, expire, claim at a boundary | both runtimes |
| Event log and stream (`apps/api/src/events`, `apps/api/src/services.ts`) | `run_events`, a cursor per connection | append under the run's row, wake, read, send, resume from the last event | API, pages |
| Projections and queries (`RT/application/projections.ts`, `api-queries.ts`, `R/api-projection-reads.ts`) | none | read row, cursor and events, one statement after the other | pages |
| User's chat page (`apps/web/src/state/use-user-run.ts`, `use-conversation-sessions.ts`) | selected session and run, epoch, messages, projection, events, busy, subscription | select, load, refresh, send, subscribe, recover | queries, stream, admission |
| Admin's approvals page (`use-approvals.ts`) | cards, versions, deciding, a subscription per run | bootstrap, refresh, reconcile, decide | queries, stream, approvals |
| Admin's runs page (`use-admin-runs.ts`) | listing, selected run, projection, events, request number | list, select, load, subscribe | queries, stream |
| Tools (`packages/tools/src`) | calculator, registry, in-memory ledger | evaluate, load a skill, execute | runtimes |
| Provider (`RT/provider`) | none | generate, with timeouts and failures | runtimes |
| API server, routes and components, test kit | requests; labels; fixtures | | |

### What is hard here

* **Who may write a run.** A simple-loop session reads, calls the model for
  seconds, and writes. Its lease may lapse meanwhile and another worker may take
  the run. Every transaction therefore checks owner, version, fencing version
  and expiry, except the reservation of a send and the claim of a hidden
  command, which check neither. The state-workflow runtime has no lease at all:
  a timed-out attempt goes on beside its retry and only the version separates them.
* **Four tables, many handlers.** A wait is a fact of the run's status, of its
  continuation, of the call and of the job or approval. Entering it, deciding it
  and resolving it are transactions of different programs.
* **Wake-ups.** A run is resumed only through an intent. Acknowledging one is a
  later transaction than the work, and the listing it came from is older still.
* **Effects outside of the transaction.** The send, the queue's `add` and the
  workflow's signal each happen between two transactions.
* **Two copies of the wait.** The workflow correlates signals with a copy that
  lags behind the row.
* **Answers that come late.** A page has several calls under way, selects
  something else meanwhile, and takes the answers in any order. A snapshot is
  three statements, between which the run goes on, and its cursor is where the
  live events begin.
* **Connections that break.** The stream moves its cursor before it sends, and
  what was sent may never arrive; the client resumes from what it received.

Correctness, by component: *runs* change status only along the contracts' table
and end; *leases* give one writer; *waits* agree over all tables and are resumed;
*intents* are neither lost nor stuck; *sends* happen at most once, only when
approved, and once approved; *results* are told to the model once and are true;
*jobs* accepted are completed; *hidden commands* are applied once, to one step,
and heard; *events* are numbered without gap and reach every subscriber once and
in order; a *page* shows what is selected, nothing else, and is up to date when
all is quiet.

## 2. Modules

| Module | Contents | State |
|---|---|---|
| `Contracts` | statuses, transition tables, skills and their tools | done |
| `RunLifecycle` | abstract: what a run promises its user, its administrator and its model | done |
| `SimpleLoop` | simple-loop runtime, its worker, approvals and sends, report jobs and queue; implements `RunLifecycle` | done |
| `SimpleLoopProofs`, `SimpleLoopLedger`, `SimpleLoopWakeups` | theorems about `SimpleLoop`, each module on the one before, the refinement's steps last | done |
| `StateWorkflow` | Temporal workflow, activities, reconciliation loop, approvals, report jobs; implements `RunLifecycle` | done |
| `StateWorkflowProofs`, `StateWorkflowFollows` | theorems about `StateWorkflow`, the refinement's steps included; then why the workflow follows the run | done |
| `AdminGuidance` | hidden commands, with executors of either runtime | done |
| `AdminGuidanceProofs` | theorems about `AdminGuidance` | done |
| `Delivery` | abstract: what a subscription promises | done |
| `EventStream` | log, transactions, generator, wire, reconnecting client; implements `Delivery` | done |
| `EventStreamProofs` | theorems about `EventStream`, the refinement's steps included | done |
| `RunLog` | the server as a page sees it: runs with status and log, and the queries | done |
| `ChatPage`, `ApprovalsPage`, `AdminRunsPage` | the three pages, each on `RunLog` | done |
| `Pages` | composes the pages on one server | done |
| `PagesProofs` | theorems about `Pages`, page by page | done |
| `MCSimpleLoop`, `MCStateWorkflow`, `MCAdminGuidance`, `MCEventStream`, `MCPages`, `MCApprovalsPage` | instances for TLC | done |

### How the modules correspond to the code

One action is one database transaction, one external call, or one activation of
the workflow, whole: with the events' and messages' effect on what the
properties see, and the intents and rows written with it. Between two actions of
a session anything may happen: a crash, a lapse of the lease, another session. A
variable is a table or a memory; a call is named by the step that made it, since
parallel calls are disabled and call identifiers are unique.

**`SimpleLoop`.** `session[w]` is the stack of worker `w`, `session[w].pc` the
place between two transactions. A worker lists pending intents
(`ListPending`), takes one (`PickIntent`), reads the run (`ReadRun`), leaves at
once if it has ended or its wait is not ready (`CheckWait`), claims the lease
(`ClaimRunLease`, `ClaimRefused`), restores the continuation
(`RestoreSession`), resolves an answered wait (`ResolveDeferredCall`,
`ReserveSimulatedSend`, `ExecuteApprovedSend`, `CompleteSimulatedSend`,
`ResolveSimpleLoopWait`), and drives the loop: `ConsumeSimpleLoopStep`
(or `BudgetExhausted`, or `FailBeforeStep` when a call of `beforeGenerate` fails),
then one of the model's answers with the transaction that records it
(`PersistSimpleLoopSkill`, `PersistToolOutcome`, `PersistReportWait` followed by
`EnqueueReport` and `MarkReportDispatched`, `PersistApprovalWait`,
`EndGeneration`, `FailAgent`), until `CompleteSimpleLoopRun`. The worker then
acknowledges the intent (`AcknowledgeSimpleLoopDispatch`,
`AcknowledgeStaleDispatch`). `Persist` is `lockSimpleLoopLease`: no transaction
of a session passes without the lease, and a refused one ends the session
(`AbandonStale`). Beside the workers run the administrator (`DecideApproval`,
`ExpireOnDecide`), the clock (`ApprovalDeadline`, `LeaseLapses`) and the report
worker (`RecordReportProgress`, `CompleteReportJob`, `ReportAttemptFails`).

**`StateWorkflow`.** `workflow[r]` is the execution: its status and wait, the
activity it awaits, that activity's attempt number, and a stashed signal.
`session[s]` is an attempt in an activity slot. The three activities are
`ReconcileStart`; `ReadRun` and the loop, as above and with the same failed calls,
but recorded by the state-workflow repositories; and `ReadWait` with the resolution. An attempt can
fail, be timed out while it goes on (`AttemptTimesOut`) or die with the process
(`AttemptLost`); the server then retries it up to `maximumAttempts` or fails the
workflow. `CompleteActivity` is the workflow's activation on an answer,
`SignalWorkflow` the delivery of the oldest pending signal, which
`acceptCorrelatedSignal` may drop. The reconciliation loop and the slots die
together (`ProcessDies`), since they share a process and the loop has no `try`.

**`RunLifecycle`.** It sees of a run what its user, its administrator and its
model can tell of it: the status, the model steps taken, the call that is
outstanding, what has become of each deferred call, how often its message left
and how often the model was told. Both runtimes read these off their tables:
`WaitsFor` is the continuation's wait of a waiting row (in `StateWorkflow` also of
one that was failed over its report), `AnswerTo` the approval's or the job's
status; leases, versions, sessions, intents and the workflow are not seen. `Step`
is `consumeSimpleLoopStep` or `consumeStateWorkflowStep`; `AskApproval` and
`OrderReport` enter a wait; `Decide` is `decideApproval` or the expiry, `MakeReport`
`completeReportJob`, `Send` the send of an approved message; `Tell` is the wait's
resolution; `End` completes or fails a running run, and fails a queued one, for a
call that fails before the first step fails the run (`RT/simple-loop/runtime.ts:227`,
`RT/state-workflow/activity-runner.ts:125`). `GiveUp`, and a `Tell` that brings a
failed run back, exist with `ReportsRevive` only, which is `FALSE` for
`SimpleLoop` and `TRUE` for `StateWorkflow`, where the code does both.

**`AdminGuidance`.** `command[c]` is a row of `admin_commands`, `executor[e]`
what a session or attempt holds in memory, `heard[c]` the model calls that had
the instruction. Of the runtimes it keeps what decides about commands: the
status, the version, the step count and the guidance stored in the continuation.
`ClaimAdminCommandAtBoundary` is the claim's transaction, `ConsumeStep` the
step's, and `FailBeforeStep` is either of them failing, and the run with it. An
executor that is superseded while it runs (`SupersedeExecutor`)
stands for a lapsed lease or a timed-out attempt.

**`EventStream`.** `writer[w]` is a transaction between the lock of the run
(`LockRun`), the number it computes (`Number`) and its insertion
(`InsertEvents`, `RollBack`). `server` is the generator of one connection
(`createTrackedEventStream`): it resolves the client's cursor (`ResolveCursor`),
waits for a signal of the timer (`Wake`, `TakeSignal`), reads (`ReadEvents`),
and yields what the subscriber may see (`Send`, `AllSent`). `wire` is what was
sent and not yet received (`Receive`); `Drop` loses it, and `Connect` begins
again with the last number received. `emitted` of the code is left out, since
within a connection the cursor already excludes what it would.

**`RunLog`.** The runtimes' transactions with nothing but their effect on a
run's status, approval and log; `CompleteRun` may fail a queued run, as in the
runtimes. The log holds the events' types, so that
visibility is the code's. `past[m]` is the database at moment `m`: a query's
statements each read a moment between its call and its answer
(`SnapshotMoments`), which is how a torn snapshot comes about. The cursor of a
snapshot is where `Delivery` starts, so a page's subscription is the next event
to show after its position (`NextShown`).

**`ChatPage`.** `page` is what the hook's refs and states hold, `request[i]` a
call under way with the session, epoch and run it was made for, `stream` the
subscription. `page.changed` stands for the effects of a render that have not
run yet; nothing but an event of the old subscription comes between.
`LoadConversation`, `LoadRun`, `Refresh` and `TakeReceipt` are the answers' code
behind its `await`s, `Arrive` is `onEvent`, `Refuse` is the server's refusal of
another run's cursor and the refetch that follows. `FirstSession` and
`ChooseSession` are the ways a session is selected.

**`ApprovalsPage`.** `panel` holds cards, version and `deciding`; `call[i]` a
call with its version and what the server did; `watch[n]` the subscription to a
run. `Open` starts the bootstrap, `Answered` counts its first calls and starts
the fetch that ends it, `TakeApprovals` and `TakeRuns` are the answers,
`ApprovalEvent` is `onEvent`, `Decide`, `ServerDecides` and `TakeDecision` a
decision.

**`AdminRunsPage`.** `desk` holds listing, selected run, projection, events and
which call is the newest (`projectionRequest`); `Render` runs the effects,
`TakeList` and `TakeRun` are the answers, `FeedArrives` is `onEvent`.

`Pages` runs the three pages on one `RunLog`, one page open at a time: pages
share nothing but the server, and each page's module already has every step
another page can make the server do.

Abstracted everywhere: message texts, argument hashes, event payloads, skill
instructions; the model's answer and a synchronous tool's outcome are free
choices. Left out of the runtimes because nothing but tests calls it: the wait
for a user, `renewRunLease`, `claimNext`.

## 3. Runs

The instances of the runtimes have one run of the conversation, because the
transactions of two runs share no row but the intents' listing and, for hidden
commands, the queue. Every bound is a constant: `StepBudget` stands for
`LOOP_STEP_BUDGET`; `MaxLapses` the fencing version up to which leases lapse under
working sessions; `MaxFaults` the faults in a behaviour. A fault of `SimpleLoop` is
a crash, a lease that runs out under a working session, or a failed call: of
`beforeGenerate`, which fails the run (`FailBeforeStep`), or of the queue, which
ends the session (`EnqueueFails`). One of `StateWorkflow` is a crash, an attempt
timed out while it goes on, or a failed call before a step or of the queue
(`HandOverFails`), both of which fail the run. One of `AdminGuidance` is a crash or
a failed claim or step. A generation or a tool that fails is an answer like others,
and costs no fault. The transactions that record an outcome do not fail of
themselves in the models; section 5 says which failures that leaves out.

| Run | Instance | What it shows |
|---|---|---|
| `Deferred` | 2 workers, emails and reports, 3 steps, 1 fault, 3 lapses, approvals expire | safety with racing, stale and crashing workers; the run's life |
| `Recovery` | 2 workers, synchronous tools, 2 faults, fair | runs end and intents are acknowledged whatever crashes |
| `Resume` | 2 workers, both deferred tools, no faults, fair | answered waits are resumed, approved sends sent |
| `CrashedSend` | 1 worker, 1 fault, fair | **violation**: a reserved send is never made |
| `Retries` | 2 slots, 3 attempts, 3 faults, approvals expire | safety of the workflow's rows under overlapping attempts; the run's life |
| `Workflow` | 2 slots, 3 attempts, 1 fault, fair | workflow and row agree, signals are applied, runs advance |
| `LostSignal` | 2 slots, no faults, fair | **violation**: a fast job's signal is dropped |
| `RevivedRun` | 2 slots, 2 faults | **violation**: failed to running |
| `Guidance` | 1 run of either runtime, 2 executors, 2 commands, 3 steps, 1 fault, 1 overlap | hidden commands: claims, storage, hearing, loss |
| `Pages` | 2 conversations, 2 runs, 1 failed call, 2 or 3 calls at a time | the three pages with late, reordered and failed calls |
| `UnseenApproval` | 1 run, 2 calls, fair | **violation**: an approval that never appears |
| `Stream` | 2 transactions, 5 events, 2 broken connections, fair | the stream implements `Delivery`; numbers are free |

Why the bounds are enough to be interesting. Three steps let a run load a skill,
make a deferred call, and make another or answer, which is the shortest path on
which a second wait, an exhausted budget after a resumption, and a stale intent
of the first wait meet. Two workers are two contenders for a lease; a third
would only repeat the second's part. Three lapses allow a session to be superseded by
another and that by a third. In `StateWorkflow` three attempts are the code's
`maximumAttempts`, so two overlapping attempts and a failed workflow are all
reached. `SYMMETRY` is used only in runs that check invariants and action
properties, over workers and slots, which nothing compares.

In `Stream` the log may begin with anything, two connections break, and a
transaction may append a hidden event between two shown ones, so that a cursor
has to pass over what was never sent. In `Pages` the user selects up to two
sessions one after the other, the second run is admitted while the first is
shown, two calls (three on the admin's pages) are under way together, and the
logs are long enough for an approval to be asked for, decided and resolved.
`MaxLogs` gives the runs' numbers of events; when a call has failed, and on the
pages with the larger state, `PagesBound` shortens them, and it takes the
conversations as alike. `VIEW Relevant` leaves out the moments of `past` that no
call under way can read any more, the numbering of the remaining ones, and a
subscription of a session that was left, none of which a later step or a
property looks at. The approvals page was also explored with seven versions,
four calls and logs of six and five events (2.7 million states, not exhausted),
and the runs page with logs of five and three, without a violation.

The distinct states of the passing runs range from thirty thousand to a million
and a half. `CHECK_DEADLOCK FALSE` is set where the system may stop: a workflow's
run that ended leaves nothing to do, an executor's likewise, and pages and stream
rest when nothing is admitted any more. The simple loop's workers poll for ever.

### Properties

*Safety of the database.* `OneEmailPerApproval`: an email leaves at most once
per call and only after approval, though the reservation is not fenced.
`WaitAgreement`: run, continuation, call, and job or approval agree on every
wait. `ResultsTold`: what the model is told of a deferred call is told once and
true. `SingleWriter`: a session that can still write holds the newest lease.
`NoLostWakeup`: a run somebody could work on has a pending intent.
`WorkflowFollowsRun`: the workflow's copy and the row agree when no activity is
under way, after one fault (section 4 says what two do). `GuidanceIsBound`,
`HeardOncePerLoss`: hidden commands go to one boundary each, and are repeated only
for an executor that was lost.
`NumbersAreFree`: numbered events are inserted where they were numbered.

*What a step may never do.* `LegalRunTransitions`, `LegalCallTransitions`: the
contracts' tables of runs, calls, approvals and jobs, which the handlers do not
consult. The first fails in `StateWorkflow` (`RevivedRun`), and of one step only
(`OnlyAnswersRevive`, a theorem). `RunPromise`, of either runtime: every step is one
of `RunLifecycle` or is not seen by it, so a run never waits for two calls, never
goes on before the call it waits for has its answer, never sends a message
it has ceased to wait for, and never tells the model twice.
`EndsAnnounced` (a theorem): a run ends from running, as its event says, or was
failed out of the queue over a call that failed before its first step; never out of
a wait.
`StrandedForever`: a send that was reserved by a lost session or whose approval
expired, and a report that was accepted and never handed to the queue or given
up by it, stay where they are. `LostForGood`: a command that was applied and not
heard, with nobody left to say it, is never heard. `GuidanceGoesWithItsStep`,
`StoredGuidanceIsHeard`: a command is paid for with its step, and is not
forgotten before it was heard. `DecisionStays`: a recorded decision stays on the
screen.

*The pages.* `ScreenBelongs`, `DeskShowsItsRun`: nothing on the screen is of
another session or run, nothing is there twice, nothing hidden. `RestIsCurrent`
and the second half of `DeskShowsItsRun`: when no call, effect or event is
outstanding the page shows the whole log, the status and the messages; the status
and the messages may be old only after a torn snapshot, which is said in the
formula, for the code has no cure for it. `BusyWhileSending`: the composer is
disabled exactly while a send of the session on the screen is under way.
`ListIsComplete`: every pending approval of the runs subscribed to at the
bootstrap is on the screen.

*Liveness.* `RunsEnd`, `IntentsDispatched`, `WaitsResume`, `ApprovedIsExecuted`;
`AcceptedSignalsApplied`, `SignalsDispatched`, `RunsAdvance`;
`DeliveredInTheEnd`, which is `Delivery`'s fair specification as a property of
`EventStream`.

### Fairness

* `WF(WorkerStep(w))`: the worker is a loop that lists and handles without end,
  and `restart: unless-stopped` of `compose.yaml` brings a dead one back.
* `WF(LeaseLapses(r))`: time passes; an unrenewed lease runs out.
* `WF(ReportStep(r))`: BullMQ hands waiting jobs to its worker, and a stalled
  one again.
* `WF(SlotStep(s))`, `WF(Reconcile)`, `WF(AttemptLost(r))`: the worker process
  is restarted, and the Temporal server times out an attempt nobody works on.
* `EventStream`: the timer of `createPollingRunEventSource` fires without end,
  the generator and the network do what they are about to do, and the client's
  subscription link connects again; nothing is asked of the transactions.
* `ApprovalsPage` (for the counterexample): the page opens, events and answers
  arrive, and the server does what it is asked.

Nobody owes a decision, a command or a fault, so no fairness is assumed of the
administrator, and `AdminGuidance` and the other pages need none. Weak fairness is
enough: no action of the code waits for a condition that others keep switching off.

### What the code does that its documents do not say

Four runs are counterexamples; `findings` quotes the lines.

1. `CrashedSend`. The reservation of a send is committed first and never read
   again, so a crash or a lapse right after it strands the run. An approval that
   expires before the worker comes to reserve has the same end.
2. `LostSignal`. A job that completes before `advanceRun` has returned is
   signalled to a workflow that does not wait yet.
3. `RevivedRun`. The resolution of a wait does not look at the run's status. The
   event it writes is one no reader accepts.
4. `UnseenApproval`. The approvals page lists the runs when it opens and on
   approval events of runs it knows; a run admitted later is not subscribed to.

A run that is failed out of the queue is legal by the contracts' table, but
its event names a status it never had: `completeSimpleLoopRun` writes
`previous: "running"` whatever the row said (`R/simple-loop-outcomes.ts:153`, and
`R/state-workflow-outcomes.ts:156`). No document says otherwise; `EndsAnnounced` is
where the models say it.

Two more are stated by passing runs, as ends from which no step leads out.
`StrandedForever` (`Deferred`): the report job is committed with its wait and
handed to the queue afterwards (`RT/simple-loop/durable-waits.ts:112`), and nothing
reads the pending `report.generate` intents, although
`docs/simple-loop-architecture.md:226` has it recovered. `LostForGood`
(`Guidance`): the command is applied before the step is known to be payable, or
is claimed by an executor that holds older guidance already, and is then never
heard, although `docs/agentic-chat-mvp-development-blueprint.md:182` has it
applied "once at the next safe run boundary".

## 4. Theorems

`tlapm` proves these for every set of runs, workers, executors, writers and
skills and every value of the bounds. The only assumptions are those the
modules state of their constants (`ConstantsAssumption` and `NoneIsNoSkill` of
`SimpleLoop`, `ConstantsAssumption` of `StateWorkflow` and of `AdminGuidance`,
`StreamAssumption` of `EventStream`, `ServerAssumption`, `PageAssumption`,
`PanelAssumption` and `DeskAssumption` of the pages): the bounds are numbers, and
`None` is none of the things it stands beside. TLC evaluates each in the runs of
the module's instance.

| Theorem | Module | States |
|---|---|---|
| `TypeCorrect` | `SimpleLoopProofs` | `Spec => []TypeOK` |
| `OneWriter` | `SimpleLoopProofs` | `Spec => []SingleWriter` |
| `Announced` | `SimpleLoopProofs` | `Spec => EndsAnnounced` |
| `LegalRuns` | `SimpleLoopProofs` | `Spec => LegalRunTransitions` |
| `OneEmail` | `SimpleLoopProofs` | `Spec => []OneEmailPerApproval` |
| `WaitsAgree` | `SimpleLoopLedger` | `Spec => []WaitAgreement` |
| `ToldOnce` | `SimpleLoopLedger` | `Spec => []ResultsTold` |
| `LegalCalls` | `SimpleLoopLedger` | `Spec => LegalCallTransitions` |
| `NoWayOut` | `SimpleLoopLedger` | `Spec => StrandedForever` |
| `NoneLost` | `SimpleLoopWakeups` | `Spec => []NoLostWakeup` |
| `LoopKeepsPromise` | `SimpleLoopWakeups` | `Spec => RunPromise`, where the promise is `RunLifecycle` |
| `WorkflowTyped` | `StateWorkflowProofs` | `Spec => []TypeOK` |
| `EmailSentOnce` | `StateWorkflowProofs` | `Spec => []OneEmailPerApproval` |
| `OutcomesTold` | `StateWorkflowProofs` | `Spec => []ResultsTold` |
| `WaitsDeferred` | `StateWorkflowProofs` | `Spec => []WaitAgreement` |
| `LegalTransitionsOfCalls` | `StateWorkflowProofs` | `Spec => LegalCallTransitions` |
| `RevivedByReport` | `StateWorkflowProofs` | `Spec => OnlyAnswersRevive` |
| `WorkflowKeepsPromise` | `StateWorkflowProofs` | `Spec => RunPromise`, where the promise is `RunLifecycle` |
| `WorkflowFollows` | `StateWorkflowFollows` | `Spec => [](faults <= 1 => WorkflowFollowsRun)` |
| `GuidanceTyped` | `AdminGuidanceProofs` | `Spec => []TypeOK` |
| `GuidanceBound` | `AdminGuidanceProofs` | `Spec => []GuidanceIsBound` |
| `StoredIsHeard` | `AdminGuidanceProofs` | `Spec => StoredGuidanceIsHeard` |
| `LostIsForGood` | `AdminGuidanceProofs` | `Spec => LostForGood` |
| `GuidanceIsPaidFor` | `AdminGuidanceProofs` | `Spec => GuidanceGoesWithItsStep` |
| `HeardOnce` | `AdminGuidanceProofs` | `Spec => []HeardOncePerLoss` |
| `PagesTyped` | `PagesProofs` | `PagesSpec => []PagesTypeOK` |
| `ScreenAlwaysBelongs` | `PagesProofs` | `PagesSpec => []ScreenBelongs` |
| `ChatRestsAtPresent` | `PagesProofs` | `PagesSpec => []RestIsCurrent` |
| `ComposerFollowsSend` | `PagesProofs` | `PagesSpec => []BusyWhileSending` |
| `ListRestsComplete` | `PagesProofs` | `PagesSpec => []ListIsComplete` |
| `DecisionAlwaysStays` | `PagesProofs` | `PagesSpec => DecisionStays` |
| `DeskShowsAlways` | `PagesProofs` | `PagesSpec => []DeskShowsItsRun` |
| `StreamTyped` | `EventStreamProofs` | `Spec => []TypeOK` |
| `NumbersStayFree` | `EventStreamProofs` | `Spec => []NumbersAreFree` |
| `StreamDelivers` | `EventStreamProofs` | `Spec => Promise!Spec`, where `Promise` is `Delivery` |

**`SimpleLoop`** has about fifty actions. `SimpleLoopProofs` first sorts them by
what they do to a session and its row (`Move`: a `SoftMove` writes no row, a
`ClaimMove` takes the lease, a `WriteMove` passes `lockSimpleLoopLease`, a
`LapseMove` only ends a lease, and some move nothing), each action with its
lemma. The invariants are then proved over the moves.

* `TypeInv` strengthens `TypeOK` with what keeps a call's number in range: a
  session that calls the model has paid for a step (`StepPaid`).
* `LeaseInv` is why there is one writer. A session's version is never ahead of
  the row's, and while they are equal the row names the session as owner.
  Every write moves the version, so all others fall behind.
* `StatusInv` says which status a *current* session meets at each place of the
  program (`Meets`). It is inductive only together with `LeaseInv`, since a
  session that is not current may meet anything. A session about to end a run
  finds it running; or queued, and then it fails it and a fault has been
  counted, which no step takes back (`FaultsStay`). From this follow the legal
  transitions and what the event announces.
* `EmailInv` is about sessions that are *not* current, because reserving needs
  no lease: a call whose email left was reserved and approved (`SentOnce`); a
  session about to send holds the call's only reservation, approved and not yet
  sent, and no other session is about to send it (`AboutToSend`); approvals are
  asked for ledger calls only (`AskedOfCalls`), so no later step asks again; and
  a session that resolves has the number of a call (`DeferredInv`).
* `LedgerInv` (`SimpleLoopLedger`) is about the tables. `WaitInv`: a session that
  talks to the model carries no wait, and a current one that resolves carries the
  row's. `BooksInv`: the call's status follows the approval's (`Answered`) and the
  job's (`Reported`); a waiting row names the call that is deferred (`Awaited`);
  who hands a job to the queue hands over the run's (`AtQueue`); a current session
  that resolves has read a decision or a completed job, which never change any
  more (`Resumed`); and what was told is true and told once (`Told`), since the
  row's wait has not been told yet and telling it clears it.
* `WakeInv` (`SimpleLoopWakeups`) follows the intents. Nothing resumes a wait
  before it is over (`Unanswered`), so the intent the decision or the job writes
  is new; a session that gives up has read that the run had ended, or waited for
  something that was still open (`WaitSeen`); hence one that is about to
  acknowledge either leaves a run nobody can work on, or another intent than the
  pending one (`Woken`).
* `LifeInv` is `LedgerInv` with two facts the promise needs: a call is of one kind
  (`OneKind`), and an approval that is pending, or granted and not yet told of, is
  the one its run waits for (`Open`). `decideApproval` and the send check
  neither, so a decision or a message is a step of the promise only for this. Each
  action is then mapped to its step (`Lives`), or shown to leave alone what the
  promise sees.

**`StateWorkflow`** has no lease, so nothing is said of who holds a run. `Inv`
has four parts, proved together since each needs the others' facts.

* `TypeInv`: as above, and an attempt that applies a signal carries the wait the
  signal answers; the workflow retries activities only where it called one.
* `FenceInv` is what the version gives. An attempt's version is never ahead
  (`Behind`), and an attempt whose version *is* the row's finds the row as it
  left it (`Met`): running with the step's call not yet made at the model, waiting
  with its own wait at the hand-over, still in the wait it read while it applies a
  signal; and a wait it carries to the end is the row's, or of a call that was
  never made; an attempt about to end a queued run is about to fail it. All others
  throw. Only an attempt that fails the run leaves it a wait,
  and that one a report's (`Carries`, `Rows`).
* `BooksInv` relates the tables as in `SimpleLoop`, and adds `TrueSignals`: every
  signal in the outbox, in the workflow or in an attempt says what was decided or
  completed, however late it comes. So whoever resolves tells the truth.
* `EmailInv` covers the attempts the version does not stop, for sending checks
  none: the reservation's row is unique to the call, an attempt about to send
  holds it alone (`Sends`), and nobody reserves again.

`OnlyAnswersRevive` follows from `Met` place by place: a completion finds the run
running, or, if it fails it, queued or waiting; a resolution finds its wait, and a row with a
wait is a waiting one or one that was failed over a report.

The promise needs `LifeInv`: `Inv`, a call is of one kind (`OneKind`), and a
report or an approval that is still open is the one the run waits for
(`OneOutstanding`). No transaction checks the latter. It speaks of nothing but what
the promise sees, and the promise's own steps keep it, so it is carried along
with the refinement, action by action (`Lives`).

`WorkflowFollows` (`StateWorkflowFollows`) is about the two copies of a wait, and
here the faults must be counted. `FollowInv` says, for any number of faults, that the server awaits one
attempt of a workflow's current activity and that attempt was given the
workflow's signal (`Expected`), that an attempt that applies a signal has one
(`Heard`), how a workflow's fields hang together (`Shaped`), and that no two
pending intents answer one wait (`Distinct`). With at most one fault it says more
(`SoloInv`):

* `OneFault`: at most one attempt goes on that the server has given up (an
  *orphan*), or one is about to fail a run that waits for its report, not both.
* `Blame`: every run that the fault did not touch is `Calm`. Its one attempt is
  awaited and has the row's version, and an intent for it finds the workflow where
  it takes it.
* `Late`: an orphan that could still answer the run's wait holds the signal that
  the workflow has itself taken, so both bring it out of the same wait.
* `Says`: what an awaited attempt is going to answer is true of the row, and
  remains so until it has answered: no orphan can write the row any more then,
  short of a second fault.
* `Follows`: the property, and for a workflow that applies a signal, that the row
  still waits as the workflow does, or was brought out of the wait by the
  attempt that is about to say so, or by an orphan whose successor will find it.

The steps are sorted by what they do to attempts and workflows (`Sorts`: an
attempt goes on, leaves, is taken up or is timed out; a workflow is changed from
outside; all die; or neither is touched), and each part is proved over the sorts.

**`AdminGuidance`** is treated alike: `Moves` sorts its actions into eight moves,
and each invariant is proved over these.

* `BindInv` is inductive alone. A claim writes a boundary only where no command
  has it, and reads back the command of a boundary otherwise; whatever is held or
  stored came from a claim for the same run.
* `BehindInv`: an executor is never ahead of its run, and while its version is
  the run's it has the run's steps and the run has not ended. `RowsGrow` is what
  carries it over the steps of others: a row that keeps its version keeps its
  content, although not every taking of a run moves the version.
* `SaidInv` rests on it: an executor whose version is the run's holds what is
  stored, or the model has heard that. Only such an executor rewrites the row.
* `LostForGood` needs no further invariant: a run that ended stays so
  (`EndsForGood`), a claim that finds a passed-over command at its boundary is
  made by an executor that is behind, and one that is behind stays behind.
* `SoleInv` and `StepInv` describe what happens as long as nobody is superseded:
  one executor to a run, always current; a boundary that is not yet paid for has
  an executor about to pay or to fail (`Settled`), until one dies; whoever is
  about to pay holds the boundary's command, or guidance it read (`Answers`).
* `HeardOncePerLoss` is an account (`TellInv`). To the calls made with a command it
  adds the executors that can still make one without another loss (`Speakers`:
  those calling with it, those that hold it and are current, those about to read
  it), and one more if the run goes on, stores it and nobody tends it
  (`Untended`). A call moves one unit; a step that adds one is a crash or an
  overlap, and the bound grows with it; every other way of leaving a run, a
  stale executor or a refused claim, is one where somebody else tends it or nothing
  is stored (`HoldInv`). The account is opened when a step is first paid for with
  the command: nobody has said it, and at most `1 + overlaps` executors are on
  the run (`CrewInv`).

**`EventStream`** implements `Delivery` with the identity on `log`, `start` and
`received`. The invariant is `Places /\ Pipe`: everything to be shown between the
last event received and the server's cursor is on the wire, in order, or still
to be sent, and nothing else is. A received event is then the next one promised,
and every other step leaves `received` alone and at most extends the log.
`WriterInv` adds that one transaction at a time holds the run, so that the log
does not grow between a transaction's lock and its insertion.

**`Pages`**. `PagesInv` is `History` of the server with an invariant of each page.
The server's transactions, whoever makes them, only add a run or let one go on
(`Follows`): its log grows, a new status or decision comes with its event. That
is all a page needs to know of them, and of the steps of the other pages
(`Grows`). The screen's half of each invariant is a matter of guards; the other
half says why a page that is *not* current will look again, and is what makes
"at rest" inductive.

* `ChatInv`: a request names a run that was there when it was made, and one of the
  session it was made in (`ChatAsked`); what is shown is of the selected session
  (`ChatShows`); a subscription is the selected run's unless an effect is to
  come (`StreamFits`); one send of a session is under way at most (`OneSend`), so
  the composer is enabled by the one that disabled it. `LooksAgain`: as long as
  no call failed, a request for the selected run is under way, or what is shown is
  the run as it was at one moment, and everything later is still to come from the
  subscription (`Fresh`), or the page has another run's projection and will be
  refused the subscription and read again (`Misled`).
* `PanelInv`: the first calls are under way while they count (`StartsFit`); an
  approval is decided by one call, and the latest fetch was made amid the decisions
  it does not know of or after them (`DecidedOnce`), which is why a decision stays;
  the latest fetch comes after every approval event told of (`InTime`).
  `ListLooksAgain`: a fetch whose answer will be taken is under way, or a decision
  the page will be told of, or every run subscribed to is shown as it is, but for
  events still to come; or an error is on the screen.
* `DeskInv`: if the newest call is under way, it is one for the selected run
  (`DeskAsked`); what is shown is the selected run's (`DeskHolds`), as it was at one
  moment, with the subscription behind that moment (`DeskLooksAgain`).

A page shows lists, and the properties speak of which events are in them and in
which order, so the module begins with facts about the elements of finite sets
of numbers by rank (`Kth`), from which `EventsAt`, `NextShown` and the merging of
lists follow.

Model-checked only: all liveness, `DeliveredInTheEnd` included, which needs `ENABLED`.
Two properties of `StateWorkflow` are not theorems as they stand, because they are
false. `LegalRunTransitions` is what `RevivedRun` violates; `OnlyAnswersRevive` is
the part of it that holds. `WorkflowFollowsRun` holds up to one fault, which is what
`Workflow` checks and `WorkflowFollows` states. With `MaxFaults = 2` TLC finds it
violated: an attempt is timed out after it put the run to wait for a report, its
successor finds the wait and answers with it, and then the first cannot hand the
report over and fails the run, which its version still allows. The workflow awaits
a signal for a run that has ended.

## 5. Plan

`Calculator`: the bounded evaluator (`packages/tools/src/calculator.ts`) as
recursive functions, compared with a reference definition. It keeps no state, and
what a recursive definition computes for every input is out of the prover's reach,
so it comes after the runtimes and the pages.

### Not modelled

* *Replay of an admission* (`R/admission.ts:89`). The key is reserved with a hash
  that covers a fresh command id and time, and the web client makes a fresh key
  for each send, so that no caller reaches the replay. *Continuing a run that
  waits for its user* (`admitContinuation`): the status is never entered by code
  that is not a test.
* *A message sent twice by hand*, after it was accepted and the refresh failed:
  messages have no identity in `ChatPage`.
* *A recording transaction that fails.* When the transaction of a synchronous tool
  fails, the tool's own execution throws, and the agent library hands the model an
  error and goes on; when that of an approval's wait fails, the run is failed
  with the wait in its continuation; and when a call of a wait's resolution or the
  run's completion fails, the error leaves the loop and the session or attempt
  ends. For the last stand a crash of the worker in `SimpleLoop`, and in
  `StateWorkflow` an attempt that is given up for a retry and goes no further
  (`AttemptTimesOut`); the first two are not modelled.
* *Failures of a page's subscription itself.* `Drop` breaks connections in
  `EventStream`; to a page, its subscription is a reader that may be late. That the
  link gives up, or the server refuses for another reason than a foreign cursor,
  is not modelled.
* *The order of row locks.* A transaction is one step; a deadlock the database
  breaks is one of its failures.
* *API server and routers*, *components and routes of the web application*: they
  validate, forward and present, and keep no state the others depend on.
* *Formats of the provider, migrations, seed, test kit*: mappings, columns
  without control, and fixtures.
* *Failures of the pages' own code*: a call of a page fails as a whole; an
  exception thrown in a handler is not modelled.
