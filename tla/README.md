# Verification of the SEO content orchestrator

This directory holds TLA+ models of the orchestrator, the TLC configurations
that check them on small instances and TLAPS proofs about them for every value
of their constants. `PROJECT.json` relates every definition to the lines it
models. Paths below are relative to `src/seo_orchestrator/` of the repository
unless they begin with another directory.

## 1. The system

A user plans an SEO job over a Worker API, a human approves its paid plan, a
worker process submits the job to an execution provider, polls it, stores the
result as an artifact bundle and, after a second approval, exports it. All of
it is kept in one SQLite database; the *supervised rail*, on which a human
operator executes the stages instead of a provider, has a second one.

| part | state | operations | interacts with |
| --- | --- | --- | --- |
| Runner (`runner.py`) | none of its own: a lease token and what it read | `tick`: cancel, finalise, poll, requeue, recover, submit | database, executor, artifact store |
| RunnerRepository (`db/repositories.py:880-2314`) | `job_execution_runs`, `job_stage_retry_budgets` | claims, records, marks, candidate queries | called by the runner in `BEGIN IMMEDIATE` transactions |
| JobService, ApprovalService (`services/jobs.py`, `services/approvals.py`) | `jobs`, `approvals`, `job_transitions` | plan, request approval, approve, cancel, retry, `transition` | API, runner, finalizer |
| Worker API (`api/`) | none | one transaction per request | services |
| Worker process (`cli.py:335`) | its executor | start, loop, stop | runner |
| Executors (`executors/`, `integrations/n8n/`) | the provider's runs, by idempotency key | submit, lookup, poll, cancel | called by the runner |
| Supervised rail and finalizer (`supervised_rail.py`, `services/supervised_subscription.py`) | sessions, packets, completions in a second database | prepare, bind completion, finalize, recover, cancel | `jobs` through JobService, artifact store |
| Export saga (`services/exports.py`) | export attempts and receipts | prepare, approve, claim, write, record receipt | `jobs`, sinks |
| Callbacks (`services/callbacks.py`) | nonces, receipts | receive | API |
| Notification sink (`services/notifications.py`) | slots, deliveries in memory | send, close | threads |
| Artifact store (`services/artifacts.py`) | bundle directories | write, open | finalisers |
| Company cards, briefs, snapshots | immutable versions | create, compose, freeze | planning |
| Hermes plugin (`integrations/hermes/`) | none | Telegram commands | Worker API |

What is hard in it: the runner reads, decides, calls and records in separate
steps, and between any two of them the API may cancel or retry the job, a lease
may run out and another worker take the run, the process may die and start
again with another executor, the approval may lapse, and a provider call may
have had its effect although it failed. No test reaches most of these
interleavings. `PROJECT.json` lists the hazards one by one, each at its line,
with the properties that would notice.

## 2. The modules

| module | what it is |
| --- | --- |
| `JobStore` | the tables `jobs`, `job_execution_runs`, `job_stage_retry_budgets`, and every statement of JobService, ApprovalService and RunnerRepository on them, as guards and effects |
| `JobRunner` | extends `JobStore` with the runner's control flow, the API, the operator, the provider and the clock; the specification `Spec`, fairness and the properties |
| `JobLifecycle` | the abstract specification: the frozen transition graph, attempts, and when paid work may start and be answered for |
| `ExportSaga` | the export of a job to a sheet: plans, approvals, claims, attempts and receipts, the backend, and callers of `execute_export` |
| `ExportOnce` | the abstract specification of an export |
| `NotificationSink` | `HermesWebhookSink`: threads that send and close, the locks, slots and delivery states between them, and the network |
| `SupervisedRail` | the ledger of the supervised rail: its tables, one operator per transaction, and its own verification |
| `SupervisedSubscription` | extends it with processes that run the three supervised commands of `cli.py` or call the finalizer, the main database's job, the key file, the artifact directory, crashes |
| `OperatorRail` | the abstract specification of a run: stages in order, success after the last, one bundle, closed once |
| `ArtifactStore` | `write_bundle` and `bind_artifact_manifest` by several writers: staging, rename, fsync, loss of power |
| `BundleOnce` | the abstract specification of a job's artifact directory |
| `MCJobRunner`, `MCExportSaga`, `MCNotificationSink`, `MCSupervised`, `MCArtifactStore` | values of the constants for TLC |
| `JobStoreProofs` | lemmas: what each statement preserves, type by type |
| `JobRunnerProofs` | the inductive invariant and the theorems of the runner, for any number of workers |
| `OneWorkerProofs` | what holds with one worker, with the refinement of `JobLifecycle` |
| `ExportSagaProofs` | those of the export saga, and its refinement of `ExportOnce` |
| `NotificationSinkProofs` | those of the notification sink: its deliveries, its counters, its shutdown |
| `SupervisedProofs`, `LedgerProofs` | those of the supervised run, its refinement of `OperatorRail`, and of its ledger |
| `ArtifactStoreProofs` | those of the artifact store, and its refinement of `BundleOnce` |

### JobStore

`job[j]` is a row of `jobs`: `state`, `stage` (current_stage), `attempt`,
`window` (the paid approval: absent, valid now, not valid now) and `manifest`
(is an artifact manifest bound). `run[j][a]` is the row of
`job_execution_runs` for attempt `a`: does it exist (`row`), is the external id
recorded (`ext`), `status`, `stage`, `next` (next_action_at: NULL, later, due)
and the lease (`lease`, `over`). `budget[j][s]` counts the failures of stage
`s`.

Each operator is one conditional UPDATE, or the body of one transaction: its
`Can...` is the WHERE clause, the caller decides what no matching row means.
Abstractions:

- A lease token stands for its holder. The runner draws a fresh token before
  each claim and holds at most one, so a row's token is the runner's current one
  exactly if the runner made the last claim and did not give it up.
- The clock is what a WHERE clause can tell of it. `LeaseRunsOut`,
  `ActionComesDue` and `ApprovalLapses` are the only ways time shows.
- Stages the code never compares (`accepted`, `canceling`, `outline`, NULL) are
  all `"plain"`.
- The database keeps a poll budget per `poll:<stage>` (`runner.py:1130`). The model has
  one poll counter, that of a provider that names no stage (`executors/mock.py`, the
  n8n wrapper): all its polls count as `poll:unknown`. The executor the CLI runs,
  `StagedMockExecutor`, names fourteen stages and so has a budget for each; what
  `RetryBudgetBounded` says of the counter holds for each of them, not for their sum.
- Plan, snapshot, approval binding and acceptance are immutable rows guarded by
  triggers, so the checks of them the runner repeats before and after each call
  come down to one thing that may change: which executor this process runs
  (`Matches`).
- `approve_job` writes `expires_at = NULL` today, but the schema, the services
  and the tests support an expiry; `ApprovalsLapse` switches it on.
- Supersession and the export edges of the graph do not touch a job between the
  approval gate and its result (`supersede_pending_jobs` selects earlier states
  only).

### JobRunner

`at[r]` is where runner `r` is in its program and `cand[r]` what it has
observed: the candidate's job, attempt and state, the status it decided to
record and whether it spends retry budget. One step is one transaction, one
read outside a transaction, or one provider call. `tick` is `Tick`; the handlers
are `Cancel` (`_cancel`), `Terminal` (`_finalize_terminal`), `Poll` (`_poll`),
`Requeue` (`_requeue`) and `Recovery` (`_mark_stale`, `_submit`,
`_recover_dispatch_without_submit`); the points are named after them
(`poll_claim`, `poll_call`, ...). A handler that returns False or True goes back
to `idle`. An exception that leaves `tick` is the point `raised`, from which only
`Restart` leads away, because `cli.run_worker` catches nothing.

- The candidate of a tick is chosen by five queries in a fixed order; within a
  query the ORDER BY is abstracted to any candidate, except that queued jobs
  come before interrupted ones. The queries are read in one step: nothing is
  remembered between them, and a job that changes before its handler claims it is
  exactly what the claims guard against.
- Before each of the five provider calls `_lease_call_timeout` may find too little of the
  lease left, and then nothing is called (`TooLittleLease`). Any time may have passed since
  the claim, so this can always happen, whatever `Faults` is: a poll that meets it counts as
  a transient failure, a submission puts its dispatch before an operator
  (`runner.py:718`).
- A provider call answers, fails (`transient`: the retry policy covers the error;
  `fatal`: it does not; `ambiguous`: the output is invalid) or both fails and has
  its effect. `Faults` says which calls may.
- `write_bundle` is idempotent file I/O; its only trace in the tables is the
  binding of the manifest. A failure of it is a crash at `poll_bind` or
  `terminal_bind`.
- The query for malformed timestamps is left out: the schema refuses them.
- `Operator` is the supervised finalizer's effect on `jobs`.

Bounds of the model: `MaxAttempts` (the API's retry is unbounded in the code;
`CanRetry` and `Retries` stop there) and `MaxCrashes`.

### JobLifecycle

Three variables, seven actions: a job is queued, run, canceled, finished and
retried along `domain/jobs.py:50-67`; external work belongs to the current
attempt of a job that left the queue; a result needs work started in the same
attempt, unless an operator executes the job; only a retry makes an attempt.
`JobRunner` instantiates it with the provider's record as `started`: what the
provider really did, not what the tables say.

### ExportSaga and ExportOnce

Every key of the export tables begins with company and job, so one job is
modelled, after it has succeeded; its state, snapshot and artifact cannot change
any more. A destination (`Targets`) stands for the plan, the fingerprint, the
approval and the backend request it determines. The tables are sets of at most
one row (their primary keys; INSERT OR IGNORE adds only to the empty set), except
`plans`, a sequence in rowid order, of which the last counts.

`call[c]` is where caller `c` is in `execute_export`. A `transaction()` is one
step; the backend's `write` is two, its effect (`TakeEffect`) and its return, so
that others can look the row up in between. `WriteRaises` is an exception before
or after the effect, `Abandon` a crash, a raising lookup, a backend receipt that
fails `_validate_backend_receipt`, or a database error: the call is gone, the
attempt stays. Refusals that change nothing (`ApprovalInvalid`, `NotFound`, an
`execute_export` that finds its receipt) are left out.

What a backend is like is the variable `kind`, chosen at the start and never changed
(`Backends` says which there are). `BackendDedups` is what `MockSheetExportBackend` does:
a second write of an export key returns the first row. `LateEffects`: a write that raised
may still happen. `BackendAssumption` excludes a backend that has late effects and appends
blindly; no client could give at-most-once on it, and the protocol of
`SheetExportBackend` takes a `None` of `lookup` for "not written"
(`services/exports.py:477`).

`ExportOnce` has three variables and three actions: approve, write one row where
an approval says, store its receipt.

Bound: `MaxFaults`, write errors and abandoned calls of one behaviour.

### NotificationSink

One sink and the threads of its process; everything is in memory, so a restart is a
new behaviour. `at[s]` is where thread `s` is in `send` and `_send_admitted`,
`closer[c]` where a thread is in `close`. A step is one block under a lock, one
semaphore operation, one unlocked assignment, or one thing the network does:
`_finish_state` is two steps, `SetStatus` and `Signal`, because it sets the status
without the lock and the waiters' event after it.

`states` holds every `_DeliveryState` ever made, `events[k]` the number of the one
`_events` has for the key: a retry replaces a failed state, and threads that wait for
that one keep it. `wire` is what has reached the receiver and `lost` what was given up
on its way, which may still arrive (`ArriveLate`); its repetition there is what the
idempotency key is for. Deliveries that the receiver answers 409 or another status, a
timeout before and after it has the request, a bad clock or nonce are all `PostFails`.

Left out: faults of locks, semaphores and events themselves, which the code turns
into a generic error, and a client handed in by a test (`_owns_client` is true in
production). Bound: `MaxSends`, the calls of `send`.

### SupervisedRail, SupervisedSubscription and OperatorRail

Every table of the ledger begins with company and job and no statement joins two jobs, so
one run is modelled. `status`, `session`, `issued`, `completions`, `events` and
`artifact` are the rows of `supervised_jobs`, `supervised_packets`,
`supervised_completions` and `supervised_events`; a packet is its sequence number, because
its content is computed from the packet and the completion before it. A payload is what
its checks tell apart: malformed, citing a source that is not frozen, sound for the stage
but not for the final QA, sound. The MAC chain of the events keeps out writers other than
the program, which are not modelled; what the verification asks of events and rows
besides is `Verifies`, event by event as `_validated_status_projection` and
`_validate_authenticated_materializations` have it.

A process runs `supervised-packet`, `supervised-bind` (with or without
`--resolve-recovery`) or `supervised-status` (`CliCommands`), or calls
`SupervisedSubscriptionFinalizer.finalize`, for which `cli.py` has no command and which
nothing in the repository but its tests calls. `at[p]` is where it
is, `call[p]` what it remembers. A transaction, on either database, is one step, and so is
each SELECT of a validated read: it runs in autocommit, so `ReadRow`, `ReadHead`,
`ReadEvents` and `ReadRows` see the ledger of four different moments, and a read that is
torn ends in `alarmed`, the `DataIntegrityError` of a tampered ledger. `job`, `bundle` and
`bound` are the job's state, the manifest in its directory and the job's pointer to it;
`key` the file of the integrity key, which is created empty and then written. `HoldRun` and
`CancelRun` are operations of the rail without a command, `CancelJob` is the API. A process
may die at any step. `write_bundle` is one step here; `ArtifactStore` looks inside.

Bounds: `MaxSetbacks` (rejected completions and recoveries, each of which adds events
for ever) and `MaxCrashes`, which `Unlimited` takes away.

`OperatorRail` has five variables and no processes, crashes or events.

### ArtifactStore and BundleOnce

One job that has succeeded and the calls of `write_bundle` for it. `staging[w]` is the
directory the writer is filling, file by file, `target` the directory under the job's
name, `kept` that name as far as the disk has it: the rename changes `target`, an fsync of
the parent (`SyncJobs`; `CleanUp` does one too) or the operating system (`WriteBack`)
takes it to `kept`, `LosePower` brings `kept` back. A bundle is the `created_at` of its writer
and the number of its files, because everything else is computed from the recorded
result. `behind` is a clock that has not reached the job's `finished_at`: the writer
refuses then. A staging directory that a dead writer or a failed clean-up leaves is not
kept in the model: its name is random, nothing in the code looks at it again or collects it.

`Fails` is an OSError at any point before the rename or after the fsync, `SyncFails` the one
after the rename, which raises although the bundle is there, and `Dies` the death of the
process. The reading of a bundle by `open_artifact` and the checks of modes, owners, link
counts and symbolic links are left out: they refuse, and change nothing.

Bounds: `MaxFaults`, failing calls and deaths together, and `MaxLosses`, losses of power.

## 3. The runs

| run | instance | checks |
| --- | --- | --- |
| `RunnerSafety` | 1 job, 1 runner, executors `mock` and `n8n`, all faults and outcomes, 3 attempts, 1 retry, 2 crashes | `TypeOK`, `ResultMatchesRun`, `OnePaidRun`, `IntentPrecedesWork`, `RecordedTruth`, `RetryBudgetBounded`, `RunningJobIsTended`, `StaleCallerConflicts`, refinement of `JobLifecycle` |
| `TwoRunners` | 1 job, 2 runners (symmetric), transient cancel faults (polls fail transiently in every instance), 2 attempts, no crash (a runner that pauses for ever is a crashed one: leases run out) | `LeaseProtectsStatus` |
| `Settles` | fair; 1 job, 1 runner, all faults, 2 attempts, 1 crash | `RunningJobSettles`, `CanceledRunSettles` |
| `Served` | fair; 2 jobs of 2 users, 1 runner, submissions that fail for good, invalid polls, transient cancel faults | `ServedUnlessBlocked` |
| `Operated` | 2 jobs, one executed by an operator, 1 runner, all faults, 1 crash | `OperatedStartsNoWork` |
| `HeadOfLine` | as `Served`, with a provider that never fails | refutes `QueuedJobServed` |
| `Exports` | fair; 2 destinations, 3 callers, 3 faults, a backend that appends or the mock's with late effects | `TypeOK`, `OneWriter`, `RowIsApprovedPlan`, `ReceiptIsFinal`, `ClaimIsResumable`, refinement of `ExportOnce`, `ExportCompletes` |
| `Deliveries` | 2 keys, 2 messages, 3 senders (symmetric), 1 closer, 4 calls; 2 request and 2 transport slots, room for 1 key | `SingleFlight`, `OneMessagePerKey`, `ReceiptIsEarned`, `DeliveredOnce` |
| `SinkCloses` | fair; 2 keys, 1 message, 2 senders, 2 closers, 3 calls; 2 request slots, 1 transport slot | `TypeOK`, `SlotsBalance`, `ClientOutlivesRequests`, `NothingIsAbandoned`, `CloseEnds` |
| `OperatorRace` | 2 processes (symmetric), 1 operator, 2 sessions, 2 manifests (both symmetric), 1 setback, any number of deaths | `TypeOK`, `LedgerVerifies`, `SucceededWasReviewed`, `FrozenMeansPublished`, refinement of `OperatorRail` (`OneRun`) |
| `OperatorLive` | fair; 2 processes, 1 operator, 1 session, 1 manifest, no setback, 1 death | `FinalizeCompletes` |
| `Bundles` | fair; 2 writers, 2 stamps, 3 faults, 2 losses of power, a clock that may be behind | `TypeOK`, `PublishedIsComplete`, refinement of `BundleOnce` (`OneBundle`), `BoundAtLast` |

The first six use `MCJobRunner`, the next one `MCExportSaga`, then two each
`MCNotificationSink` and `MCSupervised`, the last one `MCArtifactStore`. Only `HeadOfLine`
expects a violation.

What the properties say, in the order in which they matter:

- `IntentPrecedesWork`: whatever the provider has, the tables knew of before.
- `OnePaidRun`: no attempt starts while an earlier one is being paid for.
- `RecordedTruth`: a recorded success, retryable failure or cancellation is what
  the provider did. (A recorded final failure is not: the runner writes
  `FAILED_FINAL` when a poll fails for good, and the provider may be working on.)
- `ResultMatchesRun`: the job's result is the result of its current run.
- `StaleCallerConflicts`: nobody working for a past attempt moves the job.
- `RetryBudgetBounded`: the budget bounds the failures over all attempts; the
  failure that finds the poll budget spent is counted too, so the poll counter
  may reach `MaxRetries + 1`.
- `LeaseProtectsStatus`: the lease alone keeps statuses from regressing; the
  schema's trigger never has to refuse.
- `OperatedStartsNoWork`: a plan an operator executes costs no provider work.
- `RunningJobIsTended`: a running job that no runner holds and no deadline holds back
  is before an operator or in a query of the next tick, whatever crashed in between.
- `RunningJobSettles`, `CanceledRunSettles`: nothing hangs; what cannot end by itself
  reaches an operator (`reconciliation_required`, `cancel_reconciliation_required`).
- `ServedUnlessBlocked`: a queued job is dispatched or reaches an operator, unless a
  canceled job that the cancel handler can never claim (`Blocked`) is before it for good.
  `QueuedJobServed`, the same without the exception, is what `HeadOfLine` refutes.

Of an export:

- `ExportOnceSpec`: no interleaving of callers, failures and retries puts a second
  row on the sheet, nor a receipt before a row. On the appending backend the service
  alone must see to it. (The first half is the invariant `AtMostOneRow`.)
- `OneWriter`: two callers are never both in `write`.
- `RowIsApprovedPlan`: the row, also a late one, is where the latest plan and an
  approval want it, although plans change until the claim.
- `ReceiptIsFinal`: a receipt is that of the row that is there, and nobody can
  begin to write after it.
- `ClaimIsResumable`: whatever failed or was abandoned, the next request is accepted by
  the claim, and what it meets there is no attempt, an attempt whose row its lookup finds,
  a call in progress that holds the attempt, or a stranded export.
- `ExportCompletes`: a claimed export gets its receipt unless it is *stranded*: the
  caller that held the attempt went away before its write took effect. Nothing in
  `services/exports.py` releases such an attempt, every later request ends in
  `StateConflict` at line 485. That is safe, and needs an operator.

Of the notification sink:

- `SingleFlight`, `DeliveredOnce`: one request of a key at a time, and none is made
  after one that succeeded (the plan of stage B, line 1206: "Completion is delivered
  exactly once per destination"). A request given up earlier may arrive after it.
- `OneMessagePerKey`: such a request says the same as the others.
- `ReceiptIsEarned`: a thread that joined somebody's delivery is not told of a success
  when the delivery failed and the next one has not ended.
- `SlotsBalance`: the counters are those of the threads inside, on every path.
- `NothingIsAbandoned`: nobody waits for what nobody will do. A delivery whose event is not
  set has a thread that will set it, one whose event is set has been decided, and a sink that
  is closing has a closer on its way to `publish`. A path that left `_send_admitted` without
  `_finish_state` would make its key in flight for ever.
- `ClientOutlivesRequests`, `CloseEnds`: `close` waits for the sends, and not for ever.

Of a supervised run:

- `LedgerVerifies`: the rail's own verification accepts what the rail wrote, whatever the
  order of packets, completions, rejections, recoveries and cancellations.
- `SucceededWasReviewed`: the job succeeds only with four accepted stages and a final QA
  passed, although the finalizer reads all that long before it writes the job.
- `FrozenMeansPublished`: the ledger is frozen over the one manifest that is in the
  directory and in the job's row, whichever finalizers raced and died between the writes.
- `OneRun`: the processes together are one `OperatorRail`.
- `FinalizeCompletes`: one call of `finalize` on a ready and sound run freezes it, whatever
  an earlier finalizer left when it died and whatever others do meanwhile, unless the job is
  canceled or a process dies during the call. Who makes the call is left open.

Of the artifact store:

- `PublishedIsComplete`: readers never see part of a bundle, also after a loss of power.
- `OneBundle`: the directory gets one bundle and keeps it while the machine is up, and for
  good once it is on the disk; the job is bound only to what is there.
- `NothingLeftBehind` (proved; no run has it): a writer that has published its bundle, lost
  the race or found a bundle has no staging directory any more.
- `BoundAtLast`: the finalisation of a job ends, whoever failed or died before.

Are the bounds enough? Three attempts let a retry be retried; two crashes let a
recovery crash; one retry reaches both sides of the budget. Jobs interact only
through the candidate queries and the unique index on active jobs, which two
jobs of two users exercise (two jobs of one user would exclude each other).
Two runners are the least number that can take a lease from each other. Of three
callers one can hold the attempt, one a stale one, and one look on; three faults
let a failed write be followed by a failed retry and an abandoned call. Three
senders are an owner, one that joined it and one that finds the sink full and comes
back after the failure; a second key meets a full table. Two
processes can each be in any command, so two finalizers, or a finalizer and a submission,
meet at all pairs of points, and any number of them may have died before; two manifests
tell whose bundle was recorded, one setback puts a rejection or a recovery anywhere among
the stages, and more of them are covered by the proofs. Two writers and two losses of
power let a bundle disappear, be written again by another writer and disappear again;
three faults let each of the two fail and one of them a second time. Every
property fails for the mutant listed with it in `PROJECT.json`, a plausible
slip in the code: the definitions `X_<mistake>` next to each `X`.

### Fairness

`FairSpec` assumes that a worker process keeps ticking (`run_worker` is a loop
with a bounded wait), that a stopped one is started again (it is a service),
that time passes, and that the provider finishes what it accepted. Weak fairness
is enough: a runner's step stays enabled until it is taken. No request of the
API, no operator, no crash and no lapse of an approval is assumed to happen.

For exports, a caller inside `execute_export` goes on, and while there is no
receipt somebody asks again (weak fairness of one `Execute` by anybody).

For the sink, a thread inside `send` or `close` goes on: both waits of a sender have a
timeout, and so has the request (`timeout_seconds`, at most 10 per phase of the request;
a receiver that trickles its answer for ever would defeat it). Nobody has to call either.

For a supervised run, a process in a command or in `finalize` goes on, and nothing else:
nobody has to begin anything, because no code starts or repeats a finalizer. For the store, a writer goes on, a
job without a manifest is finalised again, which the runner does on each tick, and the
clock catches up.

### What the refuted properties show

`HeadOfLine` is a bug, and needs no failing provider. A dispatch ends in stage
`reconciliation_required` without an external id: too little of the lease was left to call
the provider (`runner.py:718`, the run's trace), or the submission failed for good or was
ambiguous, or a lapsed approval's lookup missed, or a queued job was quarantined. The job is
canceled before or after that, and keeps its stage. `next_cancel_candidate` goes on
selecting it, because it leaves out `cancel_reconciliation_required` only, and
`claim_canceled_lookup` refuses it, because the job is not `dispatching` any more.
The handler returns False, `tick` stops, and every later tick does the same: all
other jobs of the database starve. `Served` shows that nothing else starves them.

Other statements of the code or its documents that the models do not bear out, each
defined beside the properties, but without a run of its own:

- `JobRunner!WorkerKeepsTicking` (1 job, 1 runner, no faults): a legal cancel request ends
  the worker process. The job is read, canceled, and `update_running_stage` finds nothing
  (`runner.py:882`). Nothing is lost, as the runs show with `raised` as an ordinary point,
  but every such race costs a restart.
- `JobRunner!StaleCallerConflicts` with 2 runners, which the tests use and the design document
  (line 191) leaves for later. A runner finalising attempt 1 reads the job without its
  attempt; meanwhile the other runner finalises it and the API queues attempt 2, which the
  first runner then moves to `FAILED_RETRYABLE`. `ResultMatchesRun`, the refinement and,
  given three attempts, `RetryBudgetBounded` and `OnePaidRun` fail for the same reason; that
  is why `TwoRunners` checks what the lease does guarantee.
- `JobRunner!RunningJobIsTended` with 2 runners: `update_running_stage` (`runner.py:882`) asks
  for neither the lease nor the run's stage. The lease of a runner whose submission was
  recorded runs out; the other runner submits again, cannot record the acceptance, and marks
  run and job `reconciliation_required`; the first runner then takes the mark off the job.
  The job is left running, before no operator and in no query.
- `SupervisedSubscription!SucceededHasArtifact`: the design of the rail
  (`docs/superpowers/specs/2026-08-23-supervised-subscription-rail-design.md:165`) has the job
  succeed after its artifact is written and bound; the finalizer marks it first, and a job
  whose finalizer died has none until the next finalizer.
- `SupervisedSubscription!ReadyPassedQA`: the same design (line 147) has "revision QA passed
  before `FINAL_QA_READY`". A run becomes `FINAL_QA_READY` when its last stage is accepted,
  and `finalize` computes the final QA after that: if it fails, the run takes neither another
  completion nor a cancellation, and its job runs until the API cancels it.
- The operator's playbook
  (`docs/superpowers/specs/supervised-rail-operator-playbook.md:94`, `:139`) says that a
  completion that does not match leaves the ledger unchanged. `bind_completion` has already
  appended `SUBMITTED` when it compares, and appends `REJECTED`
  (`supervised_rail.py:1774`); `SupervisedRail!BindCompletion` does the same, and
  `LedgerVerifies` covers both events.
- `ArtifactStore!BoundIsDurable`: the docstrings (`services/jobs.py:406`,
  `services/artifacts.py:1307`) say "durably"; a bundle that another writer renamed and did not
  sync yet is found, verified and bound without an fsync (`artifacts.py:1182`). A loss of power
  then leaves a row that points at nothing.

Two more are reachable in the models as ordinary behaviour, and no document promises
otherwise:

- False alarms of the ledger: a read that another process's transaction tears
  (`supervised_rail.py:1044`), and the repetition of a recovery's resolution after the next
  packet (`supervised_rail.py:2204`), are both reported as corruption.
- A process that dies between creating and writing the key file (`supervised_rail.py:1259`)
  leaves a ledger that no command opens any more.

## 4. The proofs

`JobRunnerProofs` proves, for every set of jobs and runners, every set of
faults, outcomes and executors and every bound:

- `TypeCorrect`: `Spec => []TypeOK`
- `IntentIsDurable`: `Spec => []IntentPrecedesWork`
- `RecordsAreTrue`: `Spec => []RecordedTruth`
- `OperatorsPlansCostNothing`: `Spec => []OperatedStartsNoWork`
- `LeasesGuardStatus`: `Spec => []LeaseProtectsStatus`

`RecordedTruth` is not inductive: it says nothing of a runner that is about to
record. `IInv` adds two parts. `StatusBacked`: a run row's status and external id
come from a provider run that exists. `Knows`, for each runner and the point it
is at: what it is about to record is true already, and stays true, because a
provider's terminal answer can only become `CANCELED`. The argument for the first
three never mentions the lease: a late answer of a runner that lost its lease is refused by the WHERE
clause, but it would be true as well. That is why the theorems hold for any
number of runners.

The other two start from the points a runner has to be watched at: `Approaches` says of
each action that it leads to a submission only after the executor check, and to an answer
to record only by asking for one. For `OperatorsPlansCostNothing` the invariant adds that
a runner on its way to `submit_authorized` runs the plan's executor
(`NoOperatedWork`). `LeasesGuardStatus` is the one that is about the lease: every statement
gives a lease to its own runner or to nobody and changes a status only under its own
lease (`Respectful`), so while a runner holds the lease the status is the one it saw
(`Holding`); and a run the provider was seen running is never merely accepted again (`Backs`).

The proof follows the structure of `Next`: `RunnerMoves` splits into ordinary
steps (`OrdinaryMoves`, one step per action, each by the lemma of
`JobStoreProofs` on the statement it runs) and the steps that call the provider
(`ProviderMoves`); `RemoteMoves` and `OthersMove` cover provider, clock, API and
operator; `NextIInv` collects them. The assumptions are the named ones of the
modules (`JobsAssumption`, ..., `ExecutorAssumption`), which say that the null
token is not a runner, the bounds are numbers and the supervised name is no
executor's.

`OneWorkerProofs` proves what the lease alone does not give, for every set of jobs, attempts,
budgets, faults and executors and any number of crashes, under `SingleWorker` (all runners
are the same one):

- `ResultsAreOfTheRun`: `SingleWorker /\ Spec => []ResultMatchesRun`
- `PaidRunsFollowEachOther`: `SingleWorker /\ Spec => []OnePaidRun`
- `RetriesAreBounded`: `SingleWorker /\ Spec => []RetryBudgetBounded`
- `RunningJobsAreTended`: `SingleWorker /\ Spec => []RunningJobIsTended`
- `StaleCallersConflict`: `SingleWorker /\ Spec => StaleCallerConflicts`
- `OneWorkerImplementsLifecycle`: `SingleWorker /\ Spec => LifecycleSpec`

The hypothesis is the deployment of the code: the design document
(`docs/superpowers/specs/2026-08-03-telegram-seo-orchestrator-design.md:191`) has the database
"local to the isolated worker for MVP". It cannot be dropped: section 3 tells how a second
runner refutes all six. The API, the operator, the provider and
the clock go on stepping between any two steps of the worker, so this is not the sequential
program.

`OneInv` is about the tables and about what the worker carries in its local variables from
one statement to the next. `TablesKept` relates the tables to each other: an external id comes
with a status (`StatusHasId`), the runs of earlier attempts have ended (`PastIsOver`), a job's
result is that of its current run (`ResultsAgree`), and the counters keep to the budget, except
that the failure which exceeds it ended the run for good (`BudgetsKept`). Two of these are
stronger than the properties they yield: `OnePaidRun` follows from `PastIsOver` and
`ResultMatchesRun` from `ResultsAgree`, neither being inductive alone. The other three parts
speak of the worker at a point of `JobRunner`:

- `Follows`: what it knows of the job although `transition` compares the state only. Between
  the claim and the transition an API cancel may come, and nothing else, so the attempt it
  read is still the job's attempt whenever its transition can succeed.
- `Reads`: the status it is about to make the job follow is the one the run row has.
- `Spends`: the allowance read before the provider call still holds when the failure is
  counted after it.

The proof splits the steps once: most of them leave job, run and budget alone or change
columns no part looks at (`Regular`), and the rest are a recorded status, a counted failure, a
result, a retry, a claim and a bind. `JobMoves` states what any step may do to a job's row;
`StaleCallersConflict` and the refinement both follow from it, without another pass over the
actions.

`RunningJobsAreTended` is the safety core of `RunningJobSettles`: it needs no fairness to say
that a running job is where the next tick looks for it. The queries of `tick` read different columns
of two rows that several statements write one after the other, and `OneInv` mentions no stage, so
`TendInv` adds three parts to it:

- `FutureIsBlank`: the rows of attempts to come are empty, so that a retry starts clean;
- `InReach`: of a job's row and its current run's row, that nothing was accepted while the
  job waits, that a run put before an operator means a job put before an operator, and that a
  running job is `dispatching` until its run is accepted;
- `Placed`: what the point of a worker that carries the current attempt says of those rows. A job
  that waits for a claim is worked on by nobody past the claim, and no worker that dispatches, accepts
  or polls finds its run before an operator. It is this last part a second runner breaks.

A step is treated by what it does to the two rows: `Local` (it writes no others), `Calm` (it changes
nothing `TendInv` looks at, or takes a mark off the run), `Tends` (it leaves the job within
reach). `CalmGoes` and `TendGoes` prove the invariant for all such steps at once; what remains per
action is to show which kind it is.

`ExportSagaProofs` proves, for every set of callers and destinations and every
bound, from `ExportAssumption` and `BackendAssumption`:

- `SagaTypes`, `WritersExclude`, `RowIsApproved`, `ReceiptIsLast`: the invariants of the
  run above;
- `ClaimsAreResumable`: `Spec => []ClaimIsResumable`;
- `RowIsUnique`: `Spec => []AtMostOneRow`, which the proof of the refinement uses;
- `SagaImplementsExportOnce`: `Spec => ExportOnceSpec`.

`AtMostOneRow` alone is not inductive: nothing in it says that a caller about to
write finds an empty sheet. `OwnerInv` says that one caller at most is between its
claim and the end of its write, `CallInv` that it owns the attempt or comes after the
receipt, and `PlainInv` that with an appending backend a row on the sheet keeps its
attempt until the receipt, so that a new attempt begins, and an old one is
released, only over an empty sheet. Steps of a caller that leave the tables alone
share one lemma (`SameTables`).

`ClaimsAreResumable` is the safety core of `ExportCompletes`: without fairness it says that a
request which comes is not refused for ever. `HeldInv` says that before the receipt there is no
attempt, or a caller in `Writing` holds it, or the row is on the sheet, or it is an orphan's. A call that
leaves `Writing` gives its attempt back, leaves its row, or is abandoned (`GoesOnHeld`,
`RowEndsIt`, `FaultHeld`); a row once on the sheet stays there. With a late effect an orphan's row may
still appear, and the attempt is then of the second kind.

`NotificationSinkProofs` proves `FlightsExclude`, `NothingAfterDelivery`,
`KeyHasOneMessage` and `ReceiptsAreEarned` for every set of threads, keys and messages
and all bounds. The invariant: a thread that delivers owns a state nobody else owns
(`OwnerInv`), the state is in flight, and an in-flight state is its key's current one,
because all earlier ones have failed (`BookInv`). So two owners of one key would own the
same state, and a delivered state leaves no owner. Steps that change no state share
`MoveInv`. It also proves `SinkTypes`, `SlotsAreBalanced` and `ClientIsLast`: each
counter is the cardinality of the set of threads between its increment and its decrement
(`CountInv`; finite, because threads enter one by one), a step moves one thread
(`MoveCounts`), and once the sink is not open and that number is zero, nobody is inside
and nobody comes in (`ShutInv`).

`NobodyIsLeftWaiting` proves `NothingIsAbandoned`, the safety core of `CloseEnds` and of what
the threads in `wait` hope for. `TendedInv` has what makes it inductive: a thread at `signal`
has already set the status, which is why the order of the two assignments in `_finish_state`
matters. A move of a thread that delivers ends at another point of the delivery
(`MoveTended`) unless it is `Signal`. `ClosingInv` is about the closers: the one that finds the
sink open stays between `drain` and `publish` until the sink is closed.

`SupervisedProofs` proves `SupervisedTypes`, `SuccessIsReviewed`, `FrozenIsPublished` and
`ProcessesImplementOneRun` for every set of processes, operators, sessions and manifests
and all bounds. The invariant: `ShapeInv` ties the packets and completions to the status, so
that a ready ledger is complete; it never goes back, so what a process read of it is still
true when it acts (`ReadInv`); `StepInv` gives each of the finalizer's four writes the
one before, by whomever it was made. `LedgerProofs` adds `LedgerIsExplained`: the
verification counts the events of a type before a position, an event appended at the end
leaves those counts alone, so every event is judged once, when it is written, and by
totals that `LedgerInv` says are the rows (`AppendExplains`, on cardinalities of finite
sets).

`ArtifactStoreProofs` proves `StoreTypes`, `BundlesAreWhole`, `NothingIsLeftBehind` and the
refinement of `BundleOnce`: a writer has a directory of its own exactly while it stages, whole when it is
renamed (`StageInv`); who has seen the job's directory still sees it (`SeenInv`); and what
the disk has is what readers see (`DiskInv`).

Model-checked only: the liveness properties `BoundAtLast`, `CanceledRunSettles`, `CloseEnds`,
`ExportCompletes`, `FinalizeCompletes`, `RunningJobSettles` and `ServedUnlessBlocked` (fairness and
ENABLED are out of the prover's reach). Every invariant, action property and refinement of
the passing runs has its theorem.

## 5. Not modelled

`PROJECT.json` lists every component with its status. Left out are:

- planning and supersession (`plan_job`, `supersede_pending_jobs`), company cards, briefs and
  snapshots: immutable rows under unique indexes and triggers, single transactions each;
- callbacks (nonces, receipts): one transaction per callback;
- the n8n wrapper and executor, the Hermes plugin, the workflow transformation: HTTP, files
  and JSON; what the runner relies on is the provider of `JobRunner`;
- `RetryPolicy`'s delays (a due time is *later* or *due*), migrations, settings, canonical
  JSON, authentication, URL policy, validators: pure functions or start-up code.

Known limits of the code that no property speaks of: the sink never forgets an event key and
refuses every new one after `max_tracked_events` (`services/notifications.py:575`); the API's
cancel does not look at the ledger, and a run goes on waiting for completions of a
canceled job (`services/jobs.py:449`).

## 6. Plan

1. `JobStore`, `JobRunner`, `JobLifecycle`, their proofs. Done.
2. `ExportSaga` over `ExportOnce`, with its proofs. Done.
3. `NotificationSink`, with its proofs. Done.
4. `SupervisedRail`, `SupervisedSubscription` over `OperatorRail`, with their proofs. Done.
5. `ArtifactStore` over `BundleOnce`, with its proofs. Done.
6. `JobApproval`: planning, supersession, one active job per creator, approval
   binding; invariant `OneActivePerCreator`. Left. `CallbackReceipts` (nonces, replays). Left.
7. Theorems: `OperatedStartsNoWork`, `LeaseProtectsStatus`. Done. Then for one runner
   `RetryBudgetBounded`, `OnePaidRun`, `ResultMatchesRun`, `StaleCallerConflicts`, the
   refinement of `JobLifecycle` and `RunningJobIsTended`. Done.
8. The safety cores of the liveness properties: `RunningJobIsTended` for the runner,
   `ClaimIsResumable` for the export, `NothingIsAbandoned` for the sink. Done.
