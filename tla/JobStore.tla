------------------------------ MODULE JobStore ------------------------------
(***************************************************************************)
(* The durable half of the job core: the tables `jobs`,                    *)
(* `job_execution_runs` and `job_stage_retry_budgets` of the worker's one  *)
(* SQLite database, and the statements the services and the runner run     *)
(* against them.  Every operator below is the body of one BEGIN IMMEDIATE  *)
(* transaction (db/connection.py:147), so it is one atomic step of whoever *)
(* uses it.                                                                *)
(*                                                                         *)
(* A conditional UPDATE is a guard (does the WHERE clause match the row?)  *)
(* and an effect; the caller decides what a row count of zero means.       *)
(* Clock values are abstracted to what a WHERE clause can tell of them: a  *)
(* lease is held and over or not, a next_action_at is NULL, later or due.  *)
(* Stage names the code never compares with are all "plain", NULL too.     *)
(*                                                                         *)
(* Definitions named X_<mistake> are deliberately wrong forms of X, used   *)
(* to see that the properties tell them apart from X; nothing else refers  *)
(* to them.                                                                *)
(***************************************************************************)
EXTENDS Naturals

CONSTANTS
  Jobs,           \* primary keys of the jobs table
  Runners,        \* worker processes that share the database
  Nobody,         \* the NULL lease token
  Creator,        \* created_by of each job
  PlanExecutor,   \* executor name in each job's immutable plan
  MaxRetries,     \* maximum_retries of the plans
  MaxAttempts     \* bound of the model: attempts of one job

ASSUME JobsAssumption    == Jobs # {}
ASSUME RunnersAssumption == Nobody \notin Runners
ASSUME BoundsAssumption  == MaxRetries \in Nat /\ MaxAttempts \in Nat \ {0}

VARIABLES
  job,      \* jobs: state, current_stage, attempt, approval window, manifest
  run,      \* job_execution_runs, by job and attempt
  budget    \* job_stage_retry_budgets: failures counted by job and stage

store == <<job, run, budget>>

-----------------------------------------------------------------------------
(* Types of the stored values.                                             *)

Attempts == 1 .. MaxAttempts

JobStates == {"AWAITING_PAID_APPROVAL", "QUEUED", "RUNNING", "SUCCEEDED",
              "FAILED_RETRYABLE", "FAILED_FINAL", "CANCELED"}

\* AWAITING_EXPORT_APPROVAL, EXPORTED and the states before the approval gate
\* belong to planning and export, which do not touch the runner's tables.
ALLOWED_TRANSITIONS ==
  { <<"AWAITING_PAID_APPROVAL", "QUEUED">>,
    <<"QUEUED", "RUNNING">>,           <<"RUNNING", "SUCCEEDED">>,
    <<"QUEUED", "FAILED_RETRYABLE">>,  <<"RUNNING", "FAILED_RETRYABLE">>,
    <<"FAILED_RETRYABLE", "QUEUED">>,  <<"QUEUED", "CANCELED">>,
    <<"RUNNING", "CANCELED">>,         <<"RUNNING", "FAILED_FINAL">> }

Active == {"QUEUED", "RUNNING", "FAILED_RETRYABLE"}

LiveStatuses     == {"ACCEPTED", "RUNNING"}
FailedStatuses   == {"FAILED_RETRYABLE", "FAILED_FINAL"}
TerminalStatuses == FailedStatuses \cup {"SUCCEEDED", "CANCELED"}
RunStatuses      == {"NULL"} \cup LiveStatuses \cup TerminalStatuses

JobStages == {"plain", "dispatching", "reconciliation_required",
              "cancel_reconciliation_required"}
RunStages == {"plain", "reconciliation_required", "cancel_retry_pending",
              "cancel_reconciliation_required"}

Budgets == {"submission", "poll", "cancel"}
Windows == {"none", "open", "lapsed"}   \* paid approval: absent, valid now, not now

JobRows == [state : JobStates, stage : JobStages, attempt : Attempts,
            window : Windows, manifest : BOOLEAN]
RunRows == [row : BOOLEAN, ext : BOOLEAN, status : RunStatuses, stage : RunStages,
            next : {"null", "later", "due"}, lease : Runners \cup {Nobody},
            over : BOOLEAN]

StoreTypeOK ==
  /\ job \in [Jobs -> JobRows]
  /\ run \in [Jobs -> [Attempts -> RunRows]]
  /\ budget \in [Jobs -> [Budgets -> Nat]]

NoRow == [row |-> FALSE, ext |-> FALSE, status |-> "NULL", stage |-> "plain",
          next |-> "null", lease |-> Nobody, over |-> FALSE]

StoreInit ==
  /\ job = [j \in Jobs |-> [state |-> "AWAITING_PAID_APPROVAL", stage |-> "plain",
                            attempt |-> 1, window |-> "none", manifest |-> FALSE]]
  /\ run = [j \in Jobs |-> [a \in Attempts |-> NoRow]]
  /\ budget = [j \in Jobs |-> [s \in Budgets |-> 0]]

-----------------------------------------------------------------------------
(* JobService and ApprovalService: changes of the jobs table.              *)

\* JobService.transition finds a duplicate cancel before anything else.
DuplicateCancel(j, to) == job[j].state = "CANCELED" /\ to = "CANCELED"

CanTransition_NoCompare(j, from, to) ==
  /\ <<from, to>> \in ALLOWED_TRANSITIONS
  /\ from # "AWAITING_PAID_APPROVAL"
  /\ to = "RUNNING" => job[j].window = "open"
  /\ to = "SUCCEEDED" => job[j].window # "none"

\* The compare-and-swap compares the state, and only the state.  The edge out
\* of the paid approval gate is reserved for ApprovalService.
CanTransition(j, from, to) ==
  /\ job[j].state = from
  /\ <<from, to>> \in ALLOWED_TRANSITIONS
  /\ from # "AWAITING_PAID_APPROVAL"
  /\ to = "RUNNING" => job[j].window = "open"
  /\ to = "SUCCEEDED" => job[j].window # "none"

NextAttempt_Forgotten(j, from, to) == job[j].attempt

NextAttempt(j, from, to) ==
  IF from = "FAILED_RETRYABLE" /\ to = "QUEUED"
    THEN job[j].attempt + 1 ELSE job[j].attempt

\* current_stage is kept when the caller passes None, as it does for a provider
\* that names no stage (MockExecutor, the n8n wrapper).
Transition(j, from, to) ==
  job' = IF DuplicateCancel(j, to) THEN job
         ELSE [job EXCEPT ![j].state   = to,
                          ![j].attempt = NextAttempt(j, from, to)]

TransitionOK(j, from, to) == DuplicateCancel(j, to) \/ CanTransition(j, from, to)

\* The unique index one_active_job_per_creator.
CreatorIsFree(j) ==
  \A k \in Jobs \ {j} : Creator[k] = Creator[j] => job[k].state \notin Active

\* ApprovalService.approve_job: record, binding and queueing in one transaction.
Approve(j) ==
  /\ job[j].state = "AWAITING_PAID_APPROVAL"
  /\ CreatorIsFree(j)
  /\ job' = [job EXCEPT ![j].state = "QUEUED", ![j].window = "open"]
  /\ UNCHANGED <<run, budget>>

\* POST /v1/jobs/{id}/cancel; the caller names the state it expects.
CancelJob(j) ==
  /\ \E from \in {"QUEUED", "RUNNING"} :
       /\ CanTransition(j, from, "CANCELED")
       /\ Transition(j, from, "CANCELED")
  /\ UNCHANGED <<run, budget>>

CanRetry_WhileRunning(j) ==
  /\ job[j].state \in {"FAILED_RETRYABLE", "RUNNING"}
  /\ job[j].attempt < MaxAttempts

\* POST /v1/jobs/{id}/retry, and the runner's own requeue.
CanRetry(j) ==
  /\ CanTransition(j, "FAILED_RETRYABLE", "QUEUED")
  /\ job[j].attempt < MaxAttempts

RetryJob(j) ==
  /\ CanRetry(j)
  /\ Transition(j, "FAILED_RETRYABLE", "QUEUED")
  /\ UNCHANGED <<run, budget>>

BindArtifactManifest(j) == job' = [job EXCEPT ![j].manifest = TRUE]

\* update_running_stage, and the job half of the reconciliation marks.  They
\* match the attempt as well as the state.
StageIn(c, states) ==
  job[c.job].attempt = c.att /\ job[c.job].state \in states

SetJobStage(c, states, stage) ==
  job' = IF StageIn(c, states) THEN [job EXCEPT ![c.job].stage = stage] ELSE job

-----------------------------------------------------------------------------
(* job_execution_runs: what a WHERE clause can say of a row.  A candidate  *)
(* c names a job, an attempt and the state the scheduler saw.              *)

Row(c) == run[c.job][c.att]
SetRow(c, new) == run' = [run EXCEPT ![c.job][c.att] = new]

Unleased(row) == row.lease = Nobody \/ row.over
Leased(row, r)  == [row EXCEPT !.lease = r, !.over = FALSE]
Released(row)   == [row EXCEPT !.lease = Nobody, !.over = FALSE]

Owns_AnyToken(r, c) == Row(c).lease # Nobody

\* lease_token = ?: a runner holds one token at a time and claims afresh
\* before every use, so its name stands for its current token.
Owns(r, c) == Row(c).lease = r
OwnsLive(r, c) == Owns(r, c) /\ Row(c).status \in LiveStatuses
OwnsUnsubmitted(r, c) == Owns(r, c) /\ ~Row(c).ext /\ Row(c).status = "NULL"

\* job_execution_runs_external_status_monotonic: the status trigger.
StatusMayBecome(old, new) ==
  /\ old # "NULL" => new # "NULL"
  /\ old \in TerminalStatuses => new = old
  /\ ~(old = "RUNNING" /\ new = "ACCEPTED")

ConsumeRetry(c, s) == budget' = [budget EXCEPT ![c.job][s] = @ + 1]
RetryAllowed_OneMore(c, s) == budget[c.job][s] <= MaxRetries
RetryAllowed(c, s) == budget[c.job][s] + 1 <= MaxRetries

-----------------------------------------------------------------------------
(* RunnerRepository: claims.                                               *)

CanClaimExisting(c, statuses) ==
  /\ Row(c).row /\ Row(c).status \in statuses
  /\ Unleased(Row(c))
  /\ StageIn(c, {c.st})

ClaimExisting(r, c) == SetRow(c, Leased(Row(c), r)) /\ UNCHANGED <<job, budget>>

\* INSERT ... ON CONFLICT DO NOTHING, then the conditional UPDATE.
CanClaimSubmission(c) ==
  /\ StageIn(c, {c.st})
  /\ c.st = "RUNNING" => job[c.job].stage = "dispatching"
  /\ Row(c).row => Unleased(Row(c))

ClaimSubmission_RowLater(r, c) ==
  /\ SetRow(c, Leased(Row(c), r))
  /\ job' = IF c.st = "QUEUED"
            THEN [job EXCEPT ![c.job].state = "RUNNING", ![c.job].stage = "dispatching"]
            ELSE job
  /\ UNCHANGED budget

\* The queued job starts running in the transaction that records the intent
\* to submit.
ClaimSubmission(r, c) ==
  /\ SetRow(c, Leased([Row(c) EXCEPT !.row = TRUE], r))
  /\ job' = IF c.st = "QUEUED"
            THEN [job EXCEPT ![c.job].state = "RUNNING", ![c.job].stage = "dispatching"]
            ELSE job
  /\ UNCHANGED budget

CanClaimCanceledLookup(c) ==
  /\ Row(c).row /\ ~Row(c).ext /\ Row(c).status = "NULL"
  /\ Unleased(Row(c))
  /\ StageIn(c, {"CANCELED"}) /\ job[c.job].stage = "dispatching"

ReleaseLease(c) == SetRow(c, Released(Row(c))) /\ UNCHANGED <<job, budget>>

-----------------------------------------------------------------------------
(* RunnerRepository: results of external calls.  Each needs the lease      *)
(* token and gives it up.                                                  *)

\* record_external_acceptance and record_lookup_acceptance_for_canceled.
RecordAcceptance(c) ==
  /\ SetRow(c, [Released(Row(c)) EXCEPT !.ext = TRUE, !.status = "ACCEPTED",
                                        !.next = "null"])
  /\ UNCHANGED <<job, budget>>

CanRecordLookupForCanceled(r, c) ==
  /\ Owns(r, c) /\ ~Row(c).ext
  /\ StageIn(c, {"CANCELED"}) /\ job[c.job].stage = "dispatching"

RecordSubmitTransportFailure(c) ==
  /\ SetRow(c, [Released(Row(c)) EXCEPT !.next = "later"])
  /\ ConsumeRetry(c, "submission")
  /\ UNCHANGED job

RecordPollTransportFailure(c) ==
  /\ SetRow(c, [Released(Row(c)) EXCEPT !.next = "later"])
  /\ ConsumeRetry(c, "poll")
  /\ UNCHANGED job

\* The stage the provider names, or none: no guard compares either.
PollStatusRow(c, status) ==
  [Released(Row(c)) EXCEPT
     !.status = status, !.stage = "plain",
     !.next = IF status \in LiveStatuses \cup {"FAILED_RETRYABLE"}
                THEN "later" ELSE "null"]

RecordPollStatus_AsAnswered(c, status, consume) ==
  /\ SetRow(c, PollStatusRow(c, IF consume THEN "FAILED_RETRYABLE" ELSE status))
  /\ IF consume THEN ConsumeRetry(c, "poll") ELSE UNCHANGED budget

RecordPollStatus(c, status, consume) ==
  /\ SetRow(c, PollStatusRow(c, status))
  /\ IF consume THEN ConsumeRetry(c, "poll") ELSE UNCHANGED budget

\* reconcile_poll_after_local_cancel needs the row to be unleased.
CanReconcilePoll(c, statuses) ==
  /\ Row(c).lease = Nobody /\ Row(c).status \in statuses
  /\ StageIn(c, {"CANCELED"})

\* Its terminal branch leaves CANCELED out.
PollReconcilable(terminal) ==
  IF terminal THEN TerminalStatuses \ {"CANCELED"} ELSE LiveStatuses

ReconcilePoll(c, terminal) ==
  /\ SetRow(c, [Row(c) EXCEPT !.next = "null",
                  !.stage = IF terminal THEN "cancel_reconciliation_required" ELSE @])
  /\ UNCHANGED <<job, budget>>

CanReconcileTerminal(c) ==
  /\ Row(c).status \in TerminalStatuses \ {"CANCELED"}
  /\ Unleased(Row(c))
  /\ StageIn(c, {"CANCELED"})

CanReconcileClaimedTerminal(r, c) ==
  /\ Owns(r, c) /\ Row(c).status \in TerminalStatuses
  /\ StageIn(c, {"CANCELED"})

ReconcileTerminal(c) ==
  /\ SetRow(c, [Released(Row(c)) EXCEPT !.stage = "cancel_reconciliation_required",
                                        !.next = "null"])
  /\ UNCHANGED <<job, budget>>

RecordExhaustedPollAfterLocalCancel(c) ==
  /\ SetRow(c, [Released(Row(c)) EXCEPT !.next = "null"])
  /\ UNCHANGED <<job, budget>>

MarkRetryConsumed(c) ==
  /\ SetRow(c, [Released(Row(c)) EXCEPT !.next = "null"])
  /\ UNCHANGED <<job, budget>>

\* begin_cancel_stage: any stage but a pending retry becomes 'canceling'.
BeginCancelStage(c) ==
  /\ SetRow(c, [Row(c) EXCEPT
       !.stage = IF @ = "cancel_retry_pending" THEN @ ELSE "plain"])
  /\ UNCHANGED <<job, budget>>

RecordCancelTransportFailure_Swapped(c) ==
  /\ SetRow(c, [Released(Row(c)) EXCEPT !.stage = "later",
                                        !.next = "cancel_retry_pending"])
  /\ ConsumeRetry(c, "cancel")
  /\ UNCHANGED job

RecordCancelTransportFailure_AsCanceled(c) ==
  /\ SetRow(c, [Released(Row(c)) EXCEPT !.status = "CANCELED", !.next = "null"])
  /\ ConsumeRetry(c, "cancel")
  /\ UNCHANGED job

RecordCancelTransportFailure(c) ==
  /\ SetRow(c, [Released(Row(c)) EXCEPT !.stage = "cancel_retry_pending",
                                        !.next = "later"])
  /\ ConsumeRetry(c, "cancel")
  /\ UNCHANGED job

MarkReconciliation_RunOnly(c, states, stage) ==
  /\ SetRow(c, [Released(Row(c)) EXCEPT !.stage = stage, !.next = "null"])
  /\ UNCHANGED <<job, budget>>

\* The two-row marks: the run row first, then the job row if it still matches.
\* A job row that no longer matches leaves the first half committed.
MarkReconciliation(c, states, stage) ==
  /\ SetRow(c, [Released(Row(c)) EXCEPT !.stage = stage, !.next = "null"])
  /\ SetJobStage(c, states, stage)
  /\ UNCHANGED budget

CanRecordRemoteCanceled(r, c) ==
  /\ Owns(r, c) /\ Row(c).ext
  /\ StatusMayBecome(Row(c).status, "CANCELED")

RecordRemoteCanceled(c) ==
  /\ SetRow(c, [Released(Row(c)) EXCEPT !.status = "CANCELED", !.next = "null"])
  /\ UNCHANGED <<job, budget>>

CanQuarantineRunning(c) ==
  Row(c).row /\ ~Row(c).ext /\ Row(c).status = "NULL" /\ Unleased(Row(c))

\* Its job half needs the job to be dispatching still.
QuarantineRunning(c) ==
  /\ SetRow(c, [Released(Row(c)) EXCEPT !.stage = "reconciliation_required",
                                        !.next = "null"])
  /\ job' = IF StageIn(c, {"RUNNING"}) /\ job[c.job].stage = "dispatching"
            THEN [job EXCEPT ![c.job].stage = "reconciliation_required"] ELSE job
  /\ UNCHANGED budget

CanQuarantineQueued(c) ==
  /\ StageIn(c, {"QUEUED"})
  /\ ~Row(c).ext /\ Row(c).status = "NULL" /\ Row(c).lease = Nobody

QuarantineQueued(c) ==
  /\ SetRow(c, [Row(c) EXCEPT !.row = TRUE, !.stage = "reconciliation_required"])
  /\ SetJobStage(c, {"QUEUED"}, "reconciliation_required")
  /\ UNCHANGED budget

\* mark_reconciliation_required, for a running job nobody dispatched.
MarkStale(c) ==
  /\ SetRow(c, IF Row(c).row THEN Row(c)
               ELSE [NoRow EXCEPT !.row = TRUE, !.stage = "reconciliation_required"])
  /\ SetJobStage(c, {"RUNNING"}, "reconciliation_required")
  /\ UNCHANGED budget

-----------------------------------------------------------------------------
(* RunnerRepository: the candidate queries.  All but one join the run row  *)
(* of the job's current attempt.                                           *)

CurrentRun(j) == run[j][job[j].attempt]

CancelCandidate_NoRetry(j) ==
  LET row == CurrentRun(j) IN
  /\ job[j].state = "CANCELED" /\ row.row
  /\ row.status # "CANCELED"
  /\ row.stage \notin {"cancel_reconciliation_required", "cancel_retry_pending"}
  /\ Unleased(row)

CancelCandidate_EvenCanceled(j) ==
  LET row == CurrentRun(j) IN
  /\ job[j].state = "CANCELED" /\ row.row
  /\ row.stage # "cancel_reconciliation_required"
  /\ row.stage = "cancel_retry_pending" => row.next # "later"
  /\ Unleased(row)

CancelCandidate(j) ==
  LET row == CurrentRun(j) IN
  /\ job[j].state = "CANCELED" /\ row.row
  /\ row.status # "CANCELED"
  /\ row.stage # "cancel_reconciliation_required"
  /\ row.stage = "cancel_retry_pending" => row.next # "later"
  /\ Unleased(row)

TerminalCandidate(j) ==
  LET row == CurrentRun(j) IN
  /\ row.row /\ row.stage # "reconciliation_required"
  /\ \/ job[j].state = "RUNNING" /\ row.status \in TerminalStatuses
     \/ job[j].state = "QUEUED" /\ ~row.ext /\ row.status \in FailedStatuses
     \/ job[j].state = "SUCCEEDED" /\ row.status = "SUCCEEDED" /\ ~job[j].manifest
  /\ Unleased(row)

PollCandidate(j) ==
  LET row == CurrentRun(j) IN
  /\ job[j].state = "RUNNING" /\ row.row /\ row.ext
  /\ row.status \in LiveStatuses
  /\ row.stage # "reconciliation_required"
  /\ row.next # "later"
  /\ Unleased(row)

RetryCandidate(j) ==
  LET row == CurrentRun(j) IN
  /\ job[j].state = "FAILED_RETRYABLE" /\ row.row
  /\ row.status = "FAILED_RETRYABLE"
  /\ row.next = "due"
  /\ Unleased(row)

QueuedCandidate(j) ==
  /\ job[j].state = "QUEUED" /\ job[j].stage # "reconciliation_required"
  /\ Unleased(CurrentRun(j))

InterruptedCandidate_StaleOnly(j) ==
  /\ job[j].state = "RUNNING" /\ job[j].stage # "reconciliation_required"
  /\ ~CurrentRun(j).row

\* A dispatch nobody finished, or a running job that has had no run row for
\* longer than stale_after.
InterruptedCandidate(j) ==
  LET row == CurrentRun(j) IN
  /\ job[j].state = "RUNNING"
  /\ \/ /\ job[j].stage = "dispatching"
        /\ ~row.ext /\ row.status = "NULL"
        /\ row.next # "later" /\ Unleased(row)
     \/ ~row.row /\ job[j].stage # "reconciliation_required"

=============================================================================
