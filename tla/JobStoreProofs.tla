--------------------------- MODULE JobStoreProofs ---------------------------
(***************************************************************************)
(* Lemmas about the statements of JobStore: what each of them leaves of    *)
(* the types, of the rows and of the recorded statuses.                    *)
(***************************************************************************)
EXTENDS JobStore, TLAPS

\* The part of a candidate that a statement uses.
Keyed(c) == c.job \in Jobs /\ c.att \in Attempts

\* No statement deletes a run row, and none takes a job's approval record away.
Kept ==
  /\ \A j \in Jobs : job[j].window # "none" => job'[j].window # "none"
  /\ \A j \in Jobs, a \in Attempts : run[j][a].row => run'[j][a].row

StatusKept ==
  \A j \in Jobs, a \in Attempts : run'[j][a].status = run[j][a].status

\* The only status that may change is the one of c's row, and it becomes s.
StatusOnly(c, s) ==
  \A j \in Jobs, a \in Attempts :
    \/ run'[j][a].status = run[j][a].status
    \/ j = c.job /\ a = c.att /\ run'[j][a].status = s

Harmless == StoreTypeOK' /\ Kept /\ StatusKept
Records(c, s) == StoreTypeOK' /\ Kept /\ StatusOnly(c, s)

-----------------------------------------------------------------------------
\* A changed run row: the general form of every statement on job_execution_runs.
LEMMA RowChange ==
  ASSUME StoreTypeOK, NEW c, Keyed(c), NEW new, new \in RunRows,
         Row(c).row => new.row, SetRow(c, new)
  PROVE  /\ run' \in [Jobs -> [Attempts -> RunRows]]
         /\ \A j \in Jobs, a \in Attempts : run[j][a].row => run'[j][a].row
         /\ StatusOnly(c, new.status)
         /\ new.status = Row(c).status => StatusKept
<1>1. run \in [Jobs -> [Attempts -> RunRows]] /\ c.job \in Jobs /\ c.att \in Attempts
  BY DEF StoreTypeOK, Keyed
<1>2. run' = [run EXCEPT ![c.job][c.att] = new]
  BY DEF SetRow
<1>3. run' \in [Jobs -> [Attempts -> RunRows]]
  BY <1>1, <1>2
<1>4. \A j \in Jobs, a \in Attempts :
        run'[j][a] = IF j = c.job /\ a = c.att THEN new ELSE run[j][a]
  BY <1>1, <1>2
<1>5. QED
  BY <1>1, <1>3, <1>4 DEF Row, StatusOnly, StatusKept

\* A changed row of the jobs table that keeps its approval record.
LEMMA JobChange ==
  ASSUME StoreTypeOK, NEW j \in Jobs, NEW new \in JobRows,
         new.window = job[j].window, job' = [job EXCEPT ![j] = new]
  PROVE  /\ job' \in [Jobs -> JobRows]
         /\ \A k \in Jobs : job[k].window # "none" => job'[k].window # "none"
<1>1. job \in [Jobs -> JobRows]
  BY DEF StoreTypeOK
<1>2. job' \in [Jobs -> JobRows]
  BY <1>1
<1>3. \A k \in Jobs : job'[k] = IF k = j THEN new ELSE job[k]
  BY <1>1
<1>4. QED
  BY <1>2, <1>3

\* The rows of the tables, for use in the leaves below.
LEMMA RowTypes ==
  ASSUME StoreTypeOK, NEW c, Keyed(c)
  PROVE  Row(c) \in RunRows /\ job[c.job] \in JobRows
BY DEF StoreTypeOK, Keyed, Row

\* A row change that comes with no change of the jobs table and a typed budget.
LEMMA RowOnly ==
  ASSUME StoreTypeOK, NEW c, Keyed(c), NEW new, new \in RunRows,
         Row(c).row => new.row, SetRow(c, new), job' = job,
         budget' \in [Jobs -> [Budgets -> Nat]]
  PROVE  /\ Records(c, new.status)
         /\ new.status = Row(c).status => Harmless
<1>1. job' \in [Jobs -> JobRows] /\ \A k \in Jobs : job'[k].window = job[k].window
  BY DEF StoreTypeOK
<1>2. QED
  BY <1>1, RowChange DEF Records, Harmless, StoreTypeOK, Kept

\* A change of the jobs table alone.
LEMMA JobOnly ==
  ASSUME StoreTypeOK, NEW j \in Jobs, NEW new \in JobRows,
         new.window = job[j].window, job' = [job EXCEPT ![j] = new],
         UNCHANGED <<run, budget>>
  PROVE  Harmless
BY JobChange DEF Harmless, StoreTypeOK, Kept, StatusKept

LEMMA NothingChanges ==
  ASSUME StoreTypeOK, UNCHANGED store
  PROVE  Harmless
BY DEF Harmless, StoreTypeOK, Kept, StatusKept, store

LEMMA BudgetType ==
  ASSUME StoreTypeOK, NEW c, Keyed(c), NEW s \in Budgets, ConsumeRetry(c, s)
  PROVE  budget' \in [Jobs -> [Budgets -> Nat]]
BY DEF StoreTypeOK, Keyed, ConsumeRetry

LEMMA LeasedType ==
  ASSUME NEW row \in RunRows, NEW r \in Runners
  PROVE  /\ Leased(row, r) \in RunRows /\ Leased(row, r).status = row.status
         /\ Leased(row, r).row = row.row
         /\ Released(row) \in RunRows /\ Released(row).status = row.status
         /\ Released(row).row = row.row
BY DEF RunRows, Leased, Released

-----------------------------------------------------------------------------
(* The jobs table.                                                         *)

LEMMA TransitionSafe ==
  ASSUME StoreTypeOK, NEW j \in Jobs, NEW from \in JobStates, NEW to \in JobStates,
         NextAttempt(j, from, to) \in Attempts,
         Transition(j, from, to), UNCHANGED <<run, budget>>
  PROVE  Harmless
<1>1. CASE DuplicateCancel(j, to)
  BY <1>1, NothingChanges DEF Transition, store
<1>2. CASE ~DuplicateCancel(j, to)
  <2> DEFINE new == [job[j] EXCEPT !.state = to, !.attempt = NextAttempt(j, from, to)]
  <2>1. job' = [job EXCEPT ![j] = new]
    BY <1>2 DEF Transition, StoreTypeOK
  <2>2. job[j] \in JobRows
    BY DEF StoreTypeOK
  <2>3. new \in JobRows /\ new.window = job[j].window
    BY <2>2 DEF JobRows
  <2>4. QED
    BY <2>1, <2>3, JobOnly
<1>3. QED
  BY <1>1, <1>2

\* Every transition but a retry keeps the attempt.
LEMMA SameAttempt ==
  ASSUME StoreTypeOK, NEW j \in Jobs, NEW from, NEW to, from # "FAILED_RETRYABLE"
  PROVE  NextAttempt(j, from, to) \in Attempts
BY DEF StoreTypeOK, JobRows, NextAttempt

LEMMA RetryJobSafe ==
  ASSUME StoreTypeOK, NEW j \in Jobs, RetryJob(j)
  PROVE  Harmless
<1>1. NextAttempt(j, "FAILED_RETRYABLE", "QUEUED") \in Attempts
  BY BoundsAssumption DEF StoreTypeOK, JobRows, NextAttempt, RetryJob, CanRetry, Attempts
<1>2. QED
  BY <1>1, TransitionSafe DEF RetryJob, JobStates

LEMMA ApproveSafe ==
  ASSUME StoreTypeOK, NEW j \in Jobs, Approve(j)
  PROVE  Harmless
<1>1. job \in [Jobs -> JobRows]
  BY DEF StoreTypeOK
<1>2. job' = [job EXCEPT ![j] = [job[j] EXCEPT !.state = "QUEUED", !.window = "open"]]
  BY <1>1 DEF Approve
<1>3. [job[j] EXCEPT !.state = "QUEUED", !.window = "open"] \in JobRows
  BY <1>1 DEF JobRows, JobStates, Windows
<1>4. job' \in [Jobs -> JobRows]
  BY <1>1, <1>2, <1>3
<1>5. \A k \in Jobs : job[k].window # "none" => job'[k].window # "none"
  BY <1>1, <1>2 DEF JobRows
<1>6. QED
  BY <1>4, <1>5 DEF Approve, Harmless, StoreTypeOK, Kept, StatusKept

LEMMA CancelJobSafe ==
  ASSUME StoreTypeOK, NEW j \in Jobs, CancelJob(j)
  PROVE  Harmless
<1>1. PICK from \in {"QUEUED", "RUNNING"} : Transition(j, from, "CANCELED")
  BY DEF CancelJob
<1>2. NextAttempt(j, from, "CANCELED") \in Attempts
  BY SameAttempt
<1>3. QED
  BY <1>1, <1>2, TransitionSafe DEF CancelJob, JobStates

LEMMA BindSafe ==
  ASSUME StoreTypeOK, NEW j \in Jobs, BindArtifactManifest(j), UNCHANGED <<run, budget>>
  PROVE  Harmless
<1>1. job \in [Jobs -> JobRows]
  BY DEF StoreTypeOK
<1>2. job' = [job EXCEPT ![j] = [job[j] EXCEPT !.manifest = TRUE]]
  BY <1>1 DEF BindArtifactManifest
<1>3. [job[j] EXCEPT !.manifest = TRUE] \in JobRows
      /\ [job[j] EXCEPT !.manifest = TRUE].window = job[j].window
  BY <1>1 DEF JobRows
<1>4. QED
  BY <1>2, <1>3, JobOnly

\* A stage written to the job row: the half of a statement the jobs table sees.
LEMMA StageSafe ==
  ASSUME StoreTypeOK, NEW c, Keyed(c), NEW states, NEW stage \in JobStages,
         SetJobStage(c, states, stage)
  PROVE  /\ job' \in [Jobs -> JobRows]
         /\ \A k \in Jobs : job[k].window # "none" => job'[k].window # "none"
<1>1. job \in [Jobs -> JobRows] /\ c.job \in Jobs
  BY DEF StoreTypeOK, Keyed
<1>2. CASE ~StageIn(c, states)
  BY <1>1, <1>2 DEF SetJobStage
<1>3. CASE StageIn(c, states)
  <2>1. job' = [job EXCEPT ![c.job] = [job[c.job] EXCEPT !.stage = stage]]
    BY <1>1, <1>3 DEF SetJobStage
  <2>2. [job[c.job] EXCEPT !.stage = stage] \in JobRows
        /\ [job[c.job] EXCEPT !.stage = stage].window = job[c.job].window
    BY <1>1 DEF JobRows
  <2>3. QED
    BY <1>1, <2>1, <2>2, JobChange
<1>4. QED
  BY <1>2, <1>3

-----------------------------------------------------------------------------
(* Statements on job_execution_runs, most of them with a stage of the job. *)

LEMMA RowAndJob ==
  ASSUME StoreTypeOK, NEW c, Keyed(c), NEW new, new \in RunRows,
         Row(c).row => new.row, SetRow(c, new),
         job' \in [Jobs -> JobRows],
         \A k \in Jobs : job[k].window # "none" => job'[k].window # "none",
         budget' = budget
  PROVE  /\ Records(c, new.status)
         /\ new.status = Row(c).status => Harmless
BY RowChange DEF Records, Harmless, StoreTypeOK, Kept

LEMMA ClaimExistingSafe ==
  ASSUME StoreTypeOK, NEW c, Keyed(c), NEW r \in Runners, ClaimExisting(r, c)
  PROVE  Harmless
<1>1. budget' \in [Jobs -> [Budgets -> Nat]] /\ job' = job
  BY DEF ClaimExisting, StoreTypeOK
<1>2. QED
  BY <1>1, RowTypes, LeasedType, RowOnly DEF ClaimExisting

LEMMA ReleaseLeaseSafe ==
  ASSUME StoreTypeOK, NEW c, Keyed(c), Runners # {}, ReleaseLease(c)
  PROVE  Harmless
<1>1. budget' \in [Jobs -> [Budgets -> Nat]] /\ job' = job
  BY DEF ReleaseLease, StoreTypeOK
<1>2. QED
  BY <1>1, RowTypes, LeasedType, RowOnly DEF ReleaseLease

LEMMA ClaimSubmissionSafe ==
  ASSUME StoreTypeOK, NEW c, Keyed(c), NEW r \in Runners, ClaimSubmission(r, c)
  PROVE  Harmless /\ Row(c)'.row
<1> DEFINE new == Leased([Row(c) EXCEPT !.row = TRUE], r)
<1>1. Row(c) \in RunRows /\ job[c.job] \in JobRows
  BY RowTypes
<1>2. [Row(c) EXCEPT !.row = TRUE] \in RunRows
      /\ [Row(c) EXCEPT !.row = TRUE].row = TRUE
      /\ [Row(c) EXCEPT !.row = TRUE].status = Row(c).status
  BY <1>1 DEF RunRows
<1>3. new \in RunRows /\ new.row = TRUE /\ new.status = Row(c).status
  BY <1>2, LeasedType
<1>4. job' \in [Jobs -> JobRows]
      /\ \A k \in Jobs : job[k].window # "none" => job'[k].window # "none"
  <2> DEFINE start == [job[c.job] EXCEPT !.state = "RUNNING", !.stage = "dispatching"]
  <2>1. CASE c.st = "QUEUED"
    <3>1. job' = [job EXCEPT ![c.job] = start]
      BY <2>1 DEF ClaimSubmission, StoreTypeOK
    <3>2. start \in JobRows /\ start.window = job[c.job].window
      BY <1>1 DEF JobRows, JobStates, JobStages
    <3>3. QED
      BY <3>1, <3>2, JobChange DEF Keyed
  <2>2. CASE c.st # "QUEUED"
    BY <2>2 DEF ClaimSubmission, StoreTypeOK
  <2>3. QED
    BY <2>1, <2>2
<1>5. SetRow(c, new) /\ budget' = budget
  BY DEF ClaimSubmission
<1>6. Harmless
  BY <1>3, <1>4, <1>5, RowAndJob
<1>7. Row(c)' = new
  BY <1>5 DEF SetRow, Row, StoreTypeOK, Keyed
<1>8. QED
  BY <1>3, <1>6, <1>7

LEMMA RecordAcceptanceSafe ==
  ASSUME StoreTypeOK, NEW c, Keyed(c), Runners # {}, RecordAcceptance(c)
  PROVE  Records(c, "ACCEPTED")
<1> DEFINE new == [Released(Row(c)) EXCEPT !.ext = TRUE, !.status = "ACCEPTED",
                                           !.next = "null"]
<1>1. Released(Row(c)) \in RunRows /\ Released(Row(c)).row = Row(c).row
  BY RowTypes, LeasedType
<1>2. new \in RunRows /\ (Row(c).row => new.row) /\ new.status = "ACCEPTED"
  BY <1>1 DEF RunRows, RunStatuses, LiveStatuses
<1>3. budget' \in [Jobs -> [Budgets -> Nat]] /\ job' = job /\ SetRow(c, new)
  BY DEF RecordAcceptance, StoreTypeOK
<1> HIDE DEF new
<1>4. QED
  BY <1>2, <1>3, RowOnly

\* A row that gives its lease up, with another stage and deadline: what a
\* transport failure, a reconciliation and a consumed retry write.
LEMMA ReleasedRow ==
  ASSUME NEW row \in RunRows, Runners # {}, NEW stage \in RunStages,
         NEW next \in {"null", "later", "due"}
  PROVE  /\ [Released(row) EXCEPT !.stage = stage, !.next = next] \in RunRows
         /\ [Released(row) EXCEPT !.stage = stage, !.next = next].status = row.status
         /\ [Released(row) EXCEPT !.stage = stage, !.next = next].row = row.row
BY DEF RunRows, Released

LEMMA DeferredRow ==
  ASSUME NEW row \in RunRows, Runners # {}, NEW next \in {"null", "later", "due"}
  PROVE  /\ [Released(row) EXCEPT !.next = next] \in RunRows
         /\ [Released(row) EXCEPT !.next = next].status = row.status
         /\ [Released(row) EXCEPT !.next = next].row = row.row
BY DEF RunRows, Released

LEMMA RecordSubmitTransportFailureSafe ==
  ASSUME StoreTypeOK, NEW c, Keyed(c), Runners # {}, RecordSubmitTransportFailure(c)
  PROVE  Harmless
<1> DEFINE new == [Released(Row(c)) EXCEPT !.next = "later"]
<1>1. budget' \in [Jobs -> [Budgets -> Nat]] /\ job' = job
  BY BudgetType DEF RecordSubmitTransportFailure, Budgets
<1>2. new \in RunRows /\ (Row(c).row => new.row) /\ new.status = Row(c).status
  BY RowTypes, DeferredRow
<1>3. SetRow(c, new)
  BY DEF RecordSubmitTransportFailure
<1> HIDE DEF new
<1>4. QED
  BY <1>1, <1>2, <1>3, RowOnly

LEMMA RecordPollTransportFailureSafe ==
  ASSUME StoreTypeOK, NEW c, Keyed(c), Runners # {}, RecordPollTransportFailure(c)
  PROVE  Harmless
<1> DEFINE new == [Released(Row(c)) EXCEPT !.next = "later"]
<1>1. budget' \in [Jobs -> [Budgets -> Nat]] /\ job' = job
  BY BudgetType DEF RecordPollTransportFailure, Budgets
<1>2. new \in RunRows /\ (Row(c).row => new.row) /\ new.status = Row(c).status
  BY RowTypes, DeferredRow
<1>3. SetRow(c, new)
  BY DEF RecordPollTransportFailure
<1> HIDE DEF new
<1>4. QED
  BY <1>1, <1>2, <1>3, RowOnly

LEMMA RecordCancelTransportFailureSafe ==
  ASSUME StoreTypeOK, NEW c, Keyed(c), Runners # {}, RecordCancelTransportFailure(c)
  PROVE  Harmless
<1> DEFINE new == [Released(Row(c)) EXCEPT !.stage = "cancel_retry_pending", !.next = "later"]
<1>1. budget' \in [Jobs -> [Budgets -> Nat]] /\ job' = job
  BY BudgetType DEF RecordCancelTransportFailure, Budgets
<1>2. new \in RunRows /\ (Row(c).row => new.row) /\ new.status = Row(c).status
  <2>1. Row(c) \in RunRows /\ "cancel_retry_pending" \in RunStages
    BY RowTypes DEF RunStages
  <2>2. QED
    BY <2>1, ReleasedRow
<1>3. SetRow(c, new)
  BY DEF RecordCancelTransportFailure
<1> HIDE DEF new
<1>4. QED
  BY <1>1, <1>2, <1>3, RowOnly

LEMMA PollStatusRowType ==
  ASSUME NEW c, Row(c) \in RunRows, Runners # {}, NEW status \in RunStatuses
  PROVE  /\ PollStatusRow(c, status) \in RunRows
         /\ PollStatusRow(c, status).status = status
         /\ Row(c).row => PollStatusRow(c, status).row
BY DEF PollStatusRow, RunRows, RunStages, Released

\* With or without a stage of the job, which progress writes in the same
\* transaction.
LEMMA RecordPollStatusSafe ==
  ASSUME StoreTypeOK, NEW c, Keyed(c), Runners # {}, NEW status \in RunStatuses,
         NEW consume, RecordPollStatus(c, status, consume),
         job' \in [Jobs -> JobRows],
         \A k \in Jobs : job[k].window # "none" => job'[k].window # "none"
  PROVE  Records(c, status)
<1>1. budget' \in [Jobs -> [Budgets -> Nat]]
  BY BudgetType DEF RecordPollStatus, Budgets, StoreTypeOK
<1>2. SetRow(c, PollStatusRow(c, status))
  BY DEF RecordPollStatus
<1>3. /\ run' \in [Jobs -> [Attempts -> RunRows]]
      /\ \A j \in Jobs, a \in Attempts : run[j][a].row => run'[j][a].row
      /\ StatusOnly(c, status)
  BY <1>2, RowTypes, PollStatusRowType, RowChange
<1>4. QED
  BY <1>1, <1>3 DEF Records, StoreTypeOK, Kept

LEMMA ReconcilePollSafe ==
  ASSUME StoreTypeOK, NEW c, Keyed(c), NEW terminal, ReconcilePoll(c, terminal)
  PROVE  Harmless
<1> DEFINE new == [Row(c) EXCEPT !.next = "null",
                     !.stage = IF terminal THEN "cancel_reconciliation_required" ELSE @]
<1>1. Row(c) \in RunRows
  BY RowTypes
<1>2. new \in RunRows /\ new.row = Row(c).row /\ new.status = Row(c).status
  BY <1>1 DEF RunRows, RunStages
<1>3. SetRow(c, new) /\ job' = job /\ budget' \in [Jobs -> [Budgets -> Nat]]
  BY DEF ReconcilePoll, StoreTypeOK
<1>4. QED
  BY <1>2, <1>3, RowOnly

LEMMA ReconcileTerminalSafe ==
  ASSUME StoreTypeOK, NEW c, Keyed(c), Runners # {}, ReconcileTerminal(c)
  PROVE  Harmless
<1> DEFINE new == [Released(Row(c)) EXCEPT !.stage = "cancel_reconciliation_required", !.next = "null"]
<1>1. budget' \in [Jobs -> [Budgets -> Nat]] /\ job' = job
  BY DEF ReconcileTerminal, StoreTypeOK
<1>2. new \in RunRows /\ (Row(c).row => new.row) /\ new.status = Row(c).status
  <2>1. Row(c) \in RunRows /\ "cancel_reconciliation_required" \in RunStages
    BY RowTypes DEF RunStages
  <2>2. QED
    BY <2>1, ReleasedRow
<1>3. SetRow(c, new)
  BY DEF ReconcileTerminal
<1> HIDE DEF new
<1>4. QED
  BY <1>1, <1>2, <1>3, RowOnly

LEMMA RecordExhaustedPollSafe ==
  ASSUME StoreTypeOK, NEW c, Keyed(c), Runners # {},
         RecordExhaustedPollAfterLocalCancel(c)
  PROVE  Harmless
<1> DEFINE new == [Released(Row(c)) EXCEPT !.next = "null"]
<1>1. budget' \in [Jobs -> [Budgets -> Nat]] /\ job' = job
  BY DEF RecordExhaustedPollAfterLocalCancel, StoreTypeOK
<1>2. new \in RunRows /\ (Row(c).row => new.row) /\ new.status = Row(c).status
  BY RowTypes, DeferredRow
<1>3. SetRow(c, new)
  BY DEF RecordExhaustedPollAfterLocalCancel
<1> HIDE DEF new
<1>4. QED
  BY <1>1, <1>2, <1>3, RowOnly

LEMMA MarkRetryConsumedSafe ==
  ASSUME StoreTypeOK, NEW c, Keyed(c), Runners # {}, MarkRetryConsumed(c)
  PROVE  Harmless
<1> DEFINE new == [Released(Row(c)) EXCEPT !.next = "null"]
<1>1. budget' \in [Jobs -> [Budgets -> Nat]] /\ job' = job
  BY DEF MarkRetryConsumed, StoreTypeOK
<1>2. new \in RunRows /\ (Row(c).row => new.row) /\ new.status = Row(c).status
  BY RowTypes, DeferredRow
<1>3. SetRow(c, new)
  BY DEF MarkRetryConsumed
<1> HIDE DEF new
<1>4. QED
  BY <1>1, <1>2, <1>3, RowOnly

LEMMA BeginCancelStageSafe ==
  ASSUME StoreTypeOK, NEW c, Keyed(c), BeginCancelStage(c)
  PROVE  Harmless
<1> DEFINE new == [Row(c) EXCEPT
       !.stage = IF @ = "cancel_retry_pending" THEN @ ELSE "plain"]
<1>1. Row(c) \in RunRows
  BY RowTypes
<1>2. new \in RunRows /\ new.row = Row(c).row /\ new.status = Row(c).status
  BY <1>1 DEF RunRows, RunStages
<1>3. SetRow(c, new) /\ job' = job /\ budget' \in [Jobs -> [Budgets -> Nat]]
  BY DEF BeginCancelStage, StoreTypeOK
<1>4. QED
  BY <1>2, <1>3, RowOnly

LEMMA MarkReconciliationSafe ==
  ASSUME StoreTypeOK, NEW c, Keyed(c), Runners # {}, NEW states,
         NEW stage \in JobStages \cap RunStages, MarkReconciliation(c, states, stage)
  PROVE  Harmless
<1> DEFINE new == [Released(Row(c)) EXCEPT !.stage = stage, !.next = "null"]
<1>1. /\ job' \in [Jobs -> JobRows]
      /\ \A k \in Jobs : job[k].window # "none" => job'[k].window # "none"
      /\ budget' = budget
  BY StageSafe DEF MarkReconciliation
<1>2. new \in RunRows /\ (Row(c).row => new.row) /\ new.status = Row(c).status
  BY RowTypes, ReleasedRow
<1>3. SetRow(c, new)
  BY DEF MarkReconciliation
<1> HIDE DEF new
<1>4. QED
  BY <1>1, <1>2, <1>3, RowAndJob

LEMMA RecordRemoteCanceledSafe ==
  ASSUME StoreTypeOK, NEW c, Keyed(c), Runners # {}, RecordRemoteCanceled(c)
  PROVE  Records(c, "CANCELED")
<1> DEFINE new == [Released(Row(c)) EXCEPT !.status = "CANCELED", !.next = "null"]
<1>1. Released(Row(c)) \in RunRows /\ Released(Row(c)).row = Row(c).row
  BY RowTypes, LeasedType
<1>2. new \in RunRows /\ (Row(c).row => new.row) /\ new.status = "CANCELED"
  BY <1>1 DEF RunRows, RunStatuses, TerminalStatuses
<1>3. budget' \in [Jobs -> [Budgets -> Nat]] /\ job' = job /\ SetRow(c, new)
  BY DEF RecordRemoteCanceled, StoreTypeOK
<1> HIDE DEF new
<1>4. QED
  BY <1>2, <1>3, RowOnly

LEMMA QuarantineRunningSafe ==
  ASSUME StoreTypeOK, NEW c, Keyed(c), Runners # {}, QuarantineRunning(c)
  PROVE  Harmless
<1> DEFINE new == [Released(Row(c)) EXCEPT !.stage = "reconciliation_required", !.next = "null"]
<1>1. /\ job' \in [Jobs -> JobRows]
      /\ \A k \in Jobs : job[k].window # "none" => job'[k].window # "none"
  <2> DEFINE newJob == [job[c.job] EXCEPT !.stage = "reconciliation_required"]
  <2>1. newJob \in JobRows /\ newJob.window = job[c.job].window
    BY RowTypes DEF JobRows, JobStages
  <2>2. job' = job \/ job' = [job EXCEPT ![c.job] = newJob]
    BY DEF QuarantineRunning, StoreTypeOK
  <2>3. QED
    BY <2>1, <2>2, JobChange DEF Keyed, StoreTypeOK
<1>2. new \in RunRows /\ (Row(c).row => new.row) /\ new.status = Row(c).status
  <2>1. Row(c) \in RunRows /\ "reconciliation_required" \in RunStages
    BY RowTypes DEF RunStages
  <2>2. QED
    BY <2>1, ReleasedRow
<1>3. SetRow(c, new) /\ budget' = budget
  BY DEF QuarantineRunning
<1> HIDE DEF new
<1>4. QED
  BY <1>1, <1>2, <1>3, RowAndJob

LEMMA QuarantineQueuedSafe ==
  ASSUME StoreTypeOK, NEW c, Keyed(c), QuarantineQueued(c)
  PROVE  Harmless
<1> DEFINE new == [Row(c) EXCEPT !.row = TRUE, !.stage = "reconciliation_required"]
<1>1. Row(c) \in RunRows
  BY RowTypes
<1>2. new \in RunRows /\ new.row /\ new.status = Row(c).status
  BY <1>1 DEF RunRows, RunStages
<1>3. /\ job' \in [Jobs -> JobRows]
      /\ \A k \in Jobs : job[k].window # "none" => job'[k].window # "none"
      /\ budget' = budget /\ SetRow(c, new)
  BY StageSafe DEF QuarantineQueued, JobStages
<1>4. QED
  BY <1>2, <1>3, RowAndJob

\* A row that was never inserted has recorded no status.
LEMMA MarkStaleSafe ==
  ASSUME StoreTypeOK, NEW c, Keyed(c), MarkStale(c),
         ~Row(c).row => Row(c).status = "NULL"
  PROVE  Harmless
<1> DEFINE new == IF Row(c).row THEN Row(c)
                  ELSE [NoRow EXCEPT !.row = TRUE, !.stage = "reconciliation_required"]
<1>1. Row(c) \in RunRows
  BY RowTypes
<1>2. new \in RunRows /\ (Row(c).row => new.row) /\ new.status = Row(c).status
  BY <1>1 DEF RunRows, RunStages, RunStatuses, NoRow
<1>3. /\ job' \in [Jobs -> JobRows]
      /\ \A k \in Jobs : job[k].window # "none" => job'[k].window # "none"
      /\ budget' = budget /\ SetRow(c, new)
  BY StageSafe DEF MarkStale, JobStages
<1>4. QED
  BY <1>2, <1>3, RowAndJob

=============================================================================
