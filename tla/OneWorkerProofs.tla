--------------------------- MODULE OneWorkerProofs ---------------------------
(***************************************************************************)
(* What holds of the runner when one worker uses the database, which is    *)
(* how it is deployed, and fails with two: a job's result is that of its   *)
(* current run, paid runs follow each other, the retry budget is kept, no  *)
(* running job is lost between the queries of a tick, no stale caller      *)
(* moves a job, and the core implements JobLifecycle.                      *)
(* For any number of jobs, attempts, retries and crashes and whatever the  *)
(* provider, the operator and the users of the API do meanwhile.           *)
(***************************************************************************)
EXTENDS JobRunnerProofs

\* The database is local to one worker for now (the design document, line 191).
SingleWorker == \A q, r \in Runners : q = r

-----------------------------------------------------------------------------
(* The inductive invariant.                                                *)

\* An external id is recorded with a status and never without one.
StatusHasId == \A j \in Jobs, a \in Attempts : run[j][a].ext <=> run[j][a].status # "NULL"

\* The runs of earlier attempts have ended.
PastIsOver ==
  \A j \in Jobs, a \in Attempts : a < job[j].attempt => provider[j][a] \in TerminalStatuses

\* A job's result is that of its current run.
ResultsAgree ==
  \A j \in Jobs :
    /\ job[j].state \in FailedStatuses => CurrentRun(j).status = job[j].state
    /\ job[j].state = "SUCCEEDED" => \/ PlanExecutor[j] = Supervised
                                     \/ CurrentRun(j).status = "SUCCEEDED"
    /\ job[j].manifest => job[j].state = "SUCCEEDED"

\* The counters keep to the budget; the failure beyond it ended the run for good.
BudgetsKept ==
  /\ RetryBudgetBounded
  /\ \A j \in Jobs : budget[j]["poll"] > MaxRetries => CurrentRun(j).status = "FAILED_FINAL"

\* Points at which the runner works on a job that is running, or was when a
\* cancel request or the runner's own last step came.
Working == {"poll_call", "poll_record", "poll_local", "poll_apply", "poll_fatal",
            "poll_fatal_local", "poll_fatal_apply", "terminal_check", "terminal_apply"}

\* What the only runner knows of the job and the run it works on.
Follows(point, c) ==
  /\ point \in {"recover", "submit", "submit_claim"} => c.st \in {"QUEUED", "RUNNING"}
  /\ point \in Intended => /\ job[c.job].attempt = c.att
                           /\ job[c.job].state \in {"RUNNING", "CANCELED"}
  /\ point = "poll_claim" => c.st = "RUNNING"
  /\ point = "terminal_claim" => c.st \in {"RUNNING", "SUCCEEDED"}
  /\ point \in Working => /\ job[c.job].attempt = c.att
                          /\ job[c.job].state \in {"RUNNING", "CANCELED", "SUCCEEDED"}
  /\ point # "terminal_queued"
  /\ point = "retry_claim" => c.st = "FAILED_RETRYABLE"
  /\ point = "retry_apply" /\ job[c.job].state = "FAILED_RETRYABLE" =>
       job[c.job].attempt = c.att

\* What it is about to make the job follow is what the run row says.
Reads(point, c) ==
  /\ point = "poll_local" => c.seen # "NULL" /\ Row(c).status = c.seen
  /\ point \in {"poll_apply", "terminal_check", "terminal_apply"} =>
       c.seen \in TerminalStatuses /\ Row(c).status = c.seen
  /\ point \in {"poll_fatal_local", "poll_fatal_apply"} => Row(c).status = "FAILED_FINAL"

\* What it is about to count still fits the budget, or ends the run.
Spends(point, c) ==
  /\ point = "submit_retry" => RetryAllowed(c, "submission")
  /\ point = "cancel_retry" => RetryAllowed(c, "cancel")
  /\ point = "poll_retry"   => RetryAllowed(c, "poll")
  /\ point = "poll_record" /\ c.spend => c.seen = "FAILED_FINAL" \/ RetryAllowed(c, "poll")

TablesKept == StatusHasId /\ PastIsOver /\ ResultsAgree /\ BudgetsKept

OneInv ==
  /\ TablesKept
  /\ \A r \in Runners : /\ Follows(at[r], cand[r])
                        /\ Reads(at[r], cand[r])
                        /\ Spends(at[r], cand[r])

\* Everything known of a state.
Worked == SingleWorker /\ IInv /\ NoOperatedWork /\ Holding /\ OneInv

-----------------------------------------------------------------------------
(* What a step changes of the tables, as far as OneInv can tell.           *)

SameJob(j) ==
  /\ job'[j].state = job[j].state
  /\ job'[j].attempt = job[j].attempt
  /\ job'[j].manifest = job[j].manifest

JobsSame == \A j \in Jobs : SameJob(j)

SameRow(j, a) ==
  run'[j][a].status = run[j][a].status /\ run'[j][a].ext = run[j][a].ext

RowsSame == \A j \in Jobs, a \in Attempts : SameRow(j, a)

Quiet == JobsSame /\ RowsSame /\ budget' = budget

\* The job of c gets a new state.
Moved(c, to) ==
  /\ job'[c.job].state = to
  /\ job'[c.job].attempt = job[c.job].attempt
  /\ job'[c.job].manifest = job[c.job].manifest
  /\ \A j \in Jobs \ {c.job} : SameJob(j)
  /\ RowsSame /\ budget' = budget

\* The run of c gets a status.
Recorded(c, s) ==
  /\ JobsSame
  /\ run'[c.job][c.att].status = s /\ run'[c.job][c.att].ext
  /\ \A j \in Jobs, a \in Attempts : j # c.job \/ a # c.att => SameRow(j, a)

LEMMA QuietRow ==
  ASSUME StoreTypeOK, NEW c, Keyed(c), NEW new, SetRow(c, new),
         new.status = Row(c).status, new.ext = Row(c).ext
  PROVE  RowsSame
<1>1. run \in [Jobs -> [Attempts -> RunRows]] /\ c.job \in Jobs /\ c.att \in Attempts
  BY DEF StoreTypeOK, Keyed
<1>2. \A j \in Jobs, a \in Attempts :
        run'[j][a] = IF j = c.job /\ a = c.att THEN new ELSE run[j][a]
  BY <1>1 DEF SetRow
<1>3. QED
  BY <1>1, <1>2 DEF RowsSame, SameRow, Row

LEMMA RecordedRow ==
  ASSUME StoreTypeOK, NEW c, Keyed(c), NEW new, SetRow(c, new), JobsSame, new.ext
  PROVE  Recorded(c, new.status)
<1>1. run \in [Jobs -> [Attempts -> RunRows]] /\ c.job \in Jobs /\ c.att \in Attempts
  BY DEF StoreTypeOK, Keyed
<1>2. \A j \in Jobs, a \in Attempts :
        run'[j][a] = IF j = c.job /\ a = c.att THEN new ELSE run[j][a]
  BY <1>1 DEF SetRow
<1>3. QED
  BY <1>1, <1>2 DEF Recorded, SameRow

LEMMA StageQuiet ==
  ASSUME StoreTypeOK, NEW c, Keyed(c), NEW states, NEW stage, SetJobStage(c, states, stage)
  PROVE  JobsSame
<1>1. job \in [Jobs -> JobRows]
  BY DEF StoreTypeOK
<1>2. job' = job \/ job' = [job EXCEPT ![c.job].stage = stage]
  BY DEF SetJobStage
<1>3. QED
  BY <1>1, <1>2 DEF JobsSame, SameJob, JobRows

LEMMA NothingQuiet ==
  ASSUME UNCHANGED store
  PROVE  Quiet
BY DEF Quiet, JobsSame, SameJob, RowsSame, SameRow, store

LEMMA JobUnchanged ==
  ASSUME job' = job
  PROVE  JobsSame
BY DEF JobsSame, SameJob

\* The statements that move no job, record no status and count no failure.
LEMMA QuietStatements ==
  ASSUME StoreTypeOK, NEW r \in Runners, NEW c, Keyed(c), NEW terminal, NEW states, NEW stage,
         \/ ClaimExisting(r, c) \/ ReleaseLease(c) \/ ReconcilePoll(c, terminal)
         \/ ReconcileTerminal(c) \/ RecordExhaustedPollAfterLocalCancel(c)
         \/ MarkRetryConsumed(c) \/ BeginCancelStage(c)
         \/ MarkReconciliation(c, states, stage)
         \/ QuarantineRunning(c) \/ QuarantineQueued(c)
  PROVE  Quiet
<1>1. Row(c) \in RunRows
  BY RowTypes
<1>2. CASE ClaimExisting(r, c) \/ ReleaseLease(c)
  BY <1>1, <1>2, QuietRow, JobUnchanged DEF ClaimExisting, ReleaseLease, Leased, Released,
                                            RunRows, Quiet
<1>3. CASE ReconcilePoll(c, terminal) \/ BeginCancelStage(c)
  BY <1>1, <1>3, QuietRow, JobUnchanged DEF ReconcilePoll, BeginCancelStage, RunRows, Quiet
<1>4. CASE ReconcileTerminal(c) \/ RecordExhaustedPollAfterLocalCancel(c)
  BY <1>1, <1>4, QuietRow, JobUnchanged DEF ReconcileTerminal, Released, RunRows, Quiet,
                                            RecordExhaustedPollAfterLocalCancel
<1>5. CASE MarkRetryConsumed(c)
  BY <1>1, <1>5, QuietRow, JobUnchanged DEF MarkRetryConsumed, Released, RunRows, Quiet
<1>6. CASE MarkReconciliation(c, states, stage)
  BY <1>1, <1>6, QuietRow, StageQuiet DEF MarkReconciliation, Released, RunRows, Quiet
<1>7. CASE QuarantineQueued(c)
  BY <1>1, <1>7, QuietRow, StageQuiet DEF QuarantineQueued, RunRows, Quiet
<1>8. CASE QuarantineRunning(c)
  <2>1. job \in [Jobs -> JobRows]
    BY DEF StoreTypeOK
  <2>2. job' = job \/ job' = [job EXCEPT ![c.job].stage = "reconciliation_required"]
    BY <1>8 DEF QuarantineRunning
  <2>3. JobsSame
    BY <2>1, <2>2 DEF JobsSame, SameJob, JobRows
  <2>4. QED
    BY <1>1, <1>8, <2>3, QuietRow DEF QuarantineRunning, Released, RunRows, Quiet
<1>9. QED
  BY <1>2, <1>3, <1>4, <1>5, <1>6, <1>7, <1>8

LEMMA MarkStaleQuiet ==
  ASSUME Worked, NEW r \in Runners, MarkStale(cand[r])
  PROVE  Quiet
<1> DEFINE c == cand[r]
<1>1. StoreTypeOK /\ Keyed(c) /\ Row(c) \in RunRows
  BY CandidateKeyed DEF Worked, IInv
<1>2. JobsSame /\ budget' = budget
  BY <1>1, StageQuiet DEF MarkStale
<1>3. CASE Row(c).row
  BY <1>1, <1>2, <1>3, QuietRow DEF MarkStale, Quiet
<1>4. CASE ~Row(c).row
  <2> DEFINE new == [NoRow EXCEPT !.row = TRUE, !.stage = "reconciliation_required"]
  <2>1. SetRow(c, new)
    BY <1>4 DEF MarkStale
  <2>2. Row(c).status = "NULL"
    BY <1>4, NoRowNoStatus DEF Worked
  <2>3. Row(c).ext = FALSE
    BY <1>1, <2>2 DEF Worked, OneInv, TablesKept, StatusHasId, Row, Keyed, RunRows
  <2>4. new.status = Row(c).status /\ new.ext = Row(c).ext
    BY <2>2, <2>3 DEF NoRow
  <2> HIDE DEF new
  <2>5. QED
    BY <1>1, <1>2, <2>1, <2>4, QuietRow DEF Quiet
<1>5. QED
  BY <1>3, <1>4

-----------------------------------------------------------------------------
(* How a step of the only runner keeps OneInv, and what it does to a job.  *)

\* The points about which OneInv says something.
Noted == {"recover", "submit", "submit_claim", "poll_claim", "terminal_claim",
          "terminal_queued", "retry_claim", "retry_apply",
          "submit_retry", "cancel_retry", "poll_retry"} \cup Intended \cup Working

\* A job leaves the queue, or gets the recorded status of its current run, or is
\* queued again for the next attempt.
JobMoves(c) ==
  /\ job[c.job].attempt = c.att
  /\ \A j \in Jobs \ {c.job} : SameJob(j)
  /\ \/ /\ job[c.job].state = "QUEUED" /\ job'[c.job].state = "RUNNING"
        /\ job'[c.job].attempt = c.att
     \/ /\ job[c.job].state = "RUNNING" /\ job'[c.job].state \in TerminalStatuses
        /\ job'[c.job].state = Row(c).status
        /\ job'[c.job].attempt = c.att
     \/ /\ job[c.job].state = "FAILED_RETRYABLE" /\ job'[c.job].state = "QUEUED"
        /\ job'[c.job].attempt = c.att + 1

StatesSame ==
  \A j \in Jobs : job'[j].state = job[j].state /\ job'[j].attempt = job[j].attempt

\* The provider does not take up again what has ended.
EndedStays ==
  \A j \in Jobs, a \in Attempts :
    provider[j][a] \in TerminalStatuses => provider'[j][a] \in TerminalStatuses

Regular(r) == OneInv' /\ (StatesSame \/ JobMoves(cand[r]))

LEMMA WorkedTypes ==
  ASSUME Worked
  PROVE  /\ TypeOK /\ StoreTypeOK
         /\ \A j \in Jobs : job[j] \in JobRows /\ job[j].attempt \in Attempts
         /\ \A j \in Jobs, a \in Attempts : run[j][a] \in RunRows
         /\ \A r \in Runners : cand[r] \in Candidates /\ Keyed(cand[r])
<1>1. TypeOK /\ StoreTypeOK
  BY DEF Worked, IInv, TypeOK
<1>2. \A r \in Runners : cand[r] \in Candidates /\ Keyed(cand[r])
  BY <1>1, CandidateKeyed
<1>3. QED
  BY <1>1, <1>2 DEF StoreTypeOK, JobRows

LEMMA PlainPoint ==
  ASSUME NEW point, point \notin Noted, NEW c
  PROVE  /\ Follows(point, c) /\ Reads(point, c) /\ Spends(point, c)
         /\ Follows(point, c)' /\ Reads(point, c)' /\ Spends(point, c)'
BY DEF Noted, Intended, Working, Follows, Reads, Spends

LEMMA Arrives ==
  ASSUME Worked, NEW r \in Runners, NEW point \in Points, NEW c \in Candidates,
         GotoWith(r, point, c), TablesKept',
         Follows(point, c)', Reads(point, c)', Spends(point, c)'
  PROVE  OneInv'
<1>1. at'[r] = point /\ cand'[r] = c
  BY Lands, WorkedTypes
<1>2. \A q \in Runners : q = r
  BY DEF Worked, SingleWorker
<1>3. /\ Follows(at[r], cand[r])' /\ Reads(at[r], cand[r])' /\ Spends(at[r], cand[r])'
  BY <1>1 DEF Follows, Reads, Spends, Row, RetryAllowed
<1>4. ASSUME NEW q \in Runners
      PROVE  Follows(at[q], cand[q])' /\ Reads(at[q], cand[q])' /\ Spends(at[q], cand[q])'
  BY <1>2, <1>3
<1>5. QED
  BY <1>4 DEF OneInv

LEMMA GoesPlain ==
  ASSUME Worked, NEW r \in Runners, NEW point \in Points \ Noted, Goto(r, point), TablesKept'
  PROVE  OneInv'
<1>1. PICK c \in Candidates : GotoWith(r, point, c)
  BY GotoIsGotoWith, WorkedTypes
<1>2. QED
  BY <1>1, PlainPoint, Arrives

LEMMA QuietKeeps ==
  ASSUME Worked, Quiet, EndedStays
  PROVE  /\ TablesKept' /\ StatesSame
         /\ \A c \in Candidates : \A point :
              /\ Follows(point, c) => Follows(point, c)'
              /\ Reads(point, c) => Reads(point, c)'
              /\ Spends(point, c) => Spends(point, c)'
<1> USE WorkedTypes
<1>1. StatesSame /\ \A j \in Jobs : CurrentRun(j)'.status = CurrentRun(j).status
  BY DEF Quiet, JobsSame, SameJob, RowsSame, SameRow, CurrentRun, StatesSame
<1>2. StatusHasId'
  BY DEF Quiet, RowsSame, SameRow, StatusHasId, Worked, OneInv, TablesKept
<1>3. PastIsOver'
  BY <1>1 DEF StatesSame, PastIsOver, EndedStays, Worked, OneInv, TablesKept
<1>4. ResultsAgree'
  BY <1>1 DEF Quiet, JobsSame, SameJob, ResultsAgree, Worked, OneInv, TablesKept
<1>5. BudgetsKept'
  BY <1>1 DEF Quiet, BudgetsKept, RetryBudgetBounded, Worked, OneInv, TablesKept
<1>6. ASSUME NEW point, NEW c \in Candidates
      PROVE  /\ Follows(point, c) => Follows(point, c)'
             /\ Reads(point, c) => Reads(point, c)'
             /\ Spends(point, c) => Spends(point, c)'
  <2>1. c.job \in Jobs /\ c.att \in Attempts
    BY DEF Candidates
  <2>2. /\ job'[c.job].state = job[c.job].state /\ job'[c.job].attempt = job[c.job].attempt
        /\ Row(c)'.status = Row(c).status /\ budget' = budget
    BY <2>1 DEF Quiet, JobsSame, SameJob, RowsSame, SameRow, Row
  <2>3. QED
    BY <2>2 DEF Follows, Reads, Spends, RetryAllowed
<1>7. QED
  BY <1>1, <1>2, <1>3, <1>4, <1>5, <1>6 DEF TablesKept

LEMMA QuietArrives ==
  ASSUME Worked, NEW r \in Runners, Quiet, EndedStays,
         NEW point \in Points, NEW c \in Candidates, GotoWith(r, point, c),
         Follows(point, c), Reads(point, c), Spends(point, c)
  PROVE  Regular(r)
<1>1. /\ TablesKept' /\ StatesSame
      /\ Follows(point, c)' /\ Reads(point, c)' /\ Spends(point, c)'
  BY QuietKeeps
<1>2. OneInv'
  BY <1>1, Arrives
<1>3. QED
  BY <1>1, <1>2 DEF Regular

LEMMA QuietGoes ==
  ASSUME Worked, NEW r \in Runners, Quiet, EndedStays,
         NEW point \in Points, Goto(r, point),
         point \in Noted => /\ Follows(point, cand[r]) /\ Reads(point, cand[r])
                           /\ Spends(point, cand[r])
  PROVE  Regular(r)
<1>1. PICK c \in Candidates : /\ GotoWith(r, point, c)
                              /\ point \notin Stopped \cup {"idle"} => c = cand[r]
  BY GotoIsGotoWith, WorkedTypes
<1>2. CASE point \in Noted
  <2>1. point \notin Stopped \cup {"idle"}
    BY <1>2 DEF Noted, Intended, Working, Stopped
  <2>2. QED
    BY <1>1, <1>2, <2>1, QuietArrives
<1>3. CASE point \notin Noted
  BY <1>1, <1>3, PlainPoint, QuietArrives
<1>4. QED
  BY <1>2, <1>3

LEMMA DecideQuiet ==
  ASSUME Worked, NEW r \in Runners, EndedStays,
         NEW point \in Points, Decide(r, point),
         point \in Noted => /\ Follows(point, cand[r]) /\ Reads(point, cand[r])
                           /\ Spends(point, cand[r])
  PROVE  Regular(r)
BY QuietGoes, NothingQuiet DEF Decide

LEMMA RaiseQuiet ==
  ASSUME Worked, NEW r \in Runners, EndedStays, Raise(r)
  PROVE  Regular(r)
BY QuietGoes, NothingQuiet DEF Raise, Points, Stopped, Noted, Intended, Working

LEMMA MarkQuiet ==
  ASSUME Worked, NEW r \in Runners, EndedStays,
         NEW matches, NEW states, NEW stage, Mark(r, matches, states, stage)
  PROVE  Regular(r)
<1>1. {"idle", "raised"} \subseteq Points \ Noted
  BY DEF Points, Stopped, Noted, Intended, Working
<1>2. CASE Raise(r)
  BY <1>2, RaiseQuiet
<1>3. CASE MarkReconciliation(cand[r], states, stage)
           /\ \E point \in {"idle", "raised"} : Goto(r, point)
  <2>1. Quiet
    BY <1>3, QuietStatements, WorkedTypes
  <2>2. QED
    BY <1>1, <1>3, <2>1, QuietGoes
<1>4. QED
  BY <1>2, <1>3 DEF Mark

-----------------------------------------------------------------------------
(* The writes that OneInv is about.                                        *)

\* A status is recorded over one that was not final.
LEMMA RecordedKeeps ==
  ASSUME Worked, EndedStays, NEW c \in Candidates, NEW s, s # "NULL",
         Recorded(c, s), Row(c).status \notin TerminalStatuses
  PROVE  StatusHasId' /\ PastIsOver' /\ ResultsAgree' /\ StatesSame
<1> USE WorkedTypes
<1>1. c.job \in Jobs /\ c.att \in Attempts
  BY DEF Candidates
<1>2. StatesSame
  BY DEF Recorded, JobsSame, SameJob, StatesSame
<1>3. StatusHasId'
  <2> SUFFICES ASSUME NEW j \in Jobs, NEW a \in Attempts
               PROVE  run'[j][a].ext <=> run'[j][a].status # "NULL"
    BY DEF StatusHasId
  <2>1. CASE j = c.job /\ a = c.att
    BY <2>1 DEF Recorded
  <2>2. CASE j # c.job \/ a # c.att
    BY <2>2 DEF Recorded, SameRow, StatusHasId, Worked, OneInv, TablesKept
  <2>3. QED
    BY <2>1, <2>2
<1>4. PastIsOver'
  BY <1>2 DEF StatesSame, PastIsOver, EndedStays, Worked, OneInv, TablesKept
<1>5. ASSUME NEW j \in Jobs, CurrentRun(j)'.status # CurrentRun(j).status
      PROVE  CurrentRun(j).status \notin TerminalStatuses
  BY <1>1, <1>2, <1>5 DEF Recorded, SameRow, StatesSame, CurrentRun, Row
<1>6. ASSUME NEW j \in Jobs
      PROVE  /\ job'[j].state \in FailedStatuses => CurrentRun(j)'.status = job'[j].state
             /\ job'[j].state = "SUCCEEDED" => \/ PlanExecutor[j] = Supervised
                                               \/ CurrentRun(j)'.status = "SUCCEEDED"
             /\ job'[j].manifest => job'[j].state = "SUCCEEDED"
  <2>1. /\ job[j].state \in FailedStatuses => CurrentRun(j).status = job[j].state
        /\ job[j].state = "SUCCEEDED" => \/ PlanExecutor[j] = Supervised
                                         \/ CurrentRun(j).status = "SUCCEEDED"
        /\ job[j].manifest => job[j].state = "SUCCEEDED"
    BY DEF Worked, OneInv, TablesKept, ResultsAgree
  <2>2. SameJob(j)
    BY DEF Recorded, JobsSame
  <2>3. QED
    BY <2>1, <2>2, <1>5 DEF SameJob, TerminalStatuses, FailedStatuses
<1>7. ResultsAgree'
  BY <1>6 DEF ResultsAgree
<1>8. QED
  BY <1>2, <1>3, <1>4, <1>7

\* The recorded status of a job whose poll budget is spent stays FAILED_FINAL.
LEMMA RecordedBudgets ==
  ASSUME Worked, NEW c \in Candidates, NEW s, budget' = budget,
         Recorded(c, s), Row(c).status \notin TerminalStatuses
  PROVE  BudgetsKept'
<1> USE WorkedTypes
<1>1. c.job \in Jobs /\ c.att \in Attempts
  BY DEF Candidates
<1>2. ASSUME NEW j \in Jobs, CurrentRun(j).status = "FAILED_FINAL"
      PROVE  CurrentRun(j)'.status = "FAILED_FINAL"
  <2>1. job'[j].attempt = job[j].attempt
    BY DEF Recorded, JobsSame, SameJob
  <2>2. j # c.job \/ job[j].attempt # c.att
    BY <1>2 DEF CurrentRun, Row, TerminalStatuses, FailedStatuses
  <2>3. QED
    BY <1>2, <2>1, <2>2 DEF Recorded, SameRow, CurrentRun
<1>3. QED
  BY <1>2 DEF BudgetsKept, RetryBudgetBounded, Worked, OneInv, TablesKept

LEMMA RecordedGoes ==
  ASSUME Worked, EndedStays, NEW r \in Runners, NEW s, s # "NULL",
         Recorded(cand[r], s), Row(cand[r]).status \notin TerminalStatuses, budget' = budget,
         NEW point \in Points \ Noted, Goto(r, point)
  PROVE  Regular(r)
<1>1. cand[r] \in Candidates
  BY WorkedTypes
<1>2. TablesKept' /\ StatesSame
  BY <1>1, RecordedKeeps, RecordedBudgets DEF TablesKept
<1>3. QED
  BY <1>2, GoesPlain DEF Regular

\* A failure is counted that the budget still allows.
LEMMA CountedGoes ==
  ASSUME Worked, EndedStays, NEW r \in Runners, NEW stage \in Budgets,
         JobsSame, RowsSame, ConsumeRetry(cand[r], stage), RetryAllowed(cand[r], stage),
         NEW point \in Points \ Noted, Goto(r, point)
  PROVE  Regular(r)
<1> USE WorkedTypes
<1> DEFINE c == cand[r]
<1>1. c.job \in Jobs
  BY DEF Keyed
<1>2. /\ StatesSame
      /\ \A j \in Jobs : CurrentRun(j)'.status = CurrentRun(j).status
  BY DEF JobsSame, SameJob, RowsSame, SameRow, CurrentRun, StatesSame
<1>3. StatusHasId'
  BY DEF RowsSame, SameRow, StatusHasId, Worked, OneInv, TablesKept
<1>4. PastIsOver'
  BY <1>2 DEF StatesSame, PastIsOver, EndedStays, Worked, OneInv, TablesKept
<1>5. ResultsAgree'
  BY <1>2 DEF JobsSame, SameJob, ResultsAgree, Worked, OneInv, TablesKept
<1>6. budget \in [Jobs -> [Budgets -> Nat]] /\ MaxRetries \in Nat
  BY BoundsAssumption DEF StoreTypeOK
<1>7. \A j \in Jobs, b \in Budgets :
        budget'[j][b] = IF j = c.job /\ b = stage THEN budget[j][b] + 1 ELSE budget[j][b]
  BY <1>1, <1>6 DEF ConsumeRetry
<1>8. budget[c.job][stage] + 1 <= MaxRetries
  BY DEF RetryAllowed
<1>9. BudgetsKept'
  <2>1. {"submission", "poll", "cancel"} = Budgets
    BY DEF Budgets
  <2>2. BudgetsKept
    BY DEF Worked, OneInv, TablesKept
  <2>3. QED
    BY <1>2, <1>6, <1>7, <1>8, <2>1, <2>2 DEF BudgetsKept, RetryBudgetBounded
<1>10. TablesKept'
  BY <1>3, <1>4, <1>5, <1>9 DEF TablesKept
<1>11. QED
  BY <1>2, <1>10, GoesPlain DEF Regular

\* A running job follows the recorded status of its current run.
LEMMA ResultGoes ==
  ASSUME Worked, EndedStays, NEW r \in Runners, NEW to \in TerminalStatuses,
         Moved(cand[r], to), job[cand[r].job].state = "RUNNING",
         job[cand[r].job].attempt = cand[r].att, Row(cand[r]).status = to,
         NEW point \in Points \ Noted, Goto(r, point)
  PROVE  Regular(r)
<1> USE WorkedTypes
<1> DEFINE c == cand[r]
<1>1. c.job \in Jobs /\ c.att \in Attempts /\ ~job[c.job].manifest
  BY DEF Keyed, Worked, OneInv, TablesKept, ResultsAgree
<1>2. \A j \in Jobs : job'[j].attempt = job[j].attempt
  BY DEF Moved, SameJob
<1>3. \A j \in Jobs : CurrentRun(j)'.status = CurrentRun(j).status
  BY <1>2 DEF CurrentRun, Moved, RowsSame, SameRow
<1>4. StatusHasId'
  BY DEF Moved, RowsSame, SameRow, StatusHasId, Worked, OneInv, TablesKept
<1>5. PastIsOver'
  BY <1>2 DEF PastIsOver, EndedStays, Worked, OneInv, TablesKept
<1>6. CurrentRun(c.job).status = to
  BY DEF CurrentRun, Row
<1>7. ResultsAgree'
  <2> SUFFICES ASSUME NEW j \in Jobs
      PROVE  /\ job'[j].state \in FailedStatuses => CurrentRun(j)'.status = job'[j].state
             /\ job'[j].state = "SUCCEEDED" => \/ PlanExecutor[j] = Supervised
                                               \/ CurrentRun(j)'.status = "SUCCEEDED"
             /\ job'[j].manifest => job'[j].state = "SUCCEEDED"
    BY DEF ResultsAgree
  <2>1. CASE j = c.job
    BY <1>1, <1>3, <1>6, <2>1 DEF Moved
  <2>2. CASE j # c.job
    BY <1>3, <2>2 DEF Moved, SameJob, ResultsAgree, Worked, OneInv, TablesKept
  <2>3. QED
    BY <2>1, <2>2
<1>8. BudgetsKept'
  BY <1>3 DEF Moved, BudgetsKept, RetryBudgetBounded, Worked, OneInv, TablesKept
<1>9. JobMoves(c)
  BY DEF Moved, JobMoves
<1>10. QED
  BY <1>4, <1>5, <1>7, <1>8, <1>9, GoesPlain DEF Regular, TablesKept

\* A retryable failure is queued for its next attempt, by the runner or a user: the
\* run it leaves behind has ended and its poll budget was not overdrawn.
LEMMA RetryKeeps ==
  ASSUME Worked, EndedStays, NEW j \in Jobs, RetryJob(j)
  PROVE  /\ TablesKept' /\ run' = run /\ budget' = budget
         /\ job[j].state = "FAILED_RETRYABLE" /\ job'[j].state = "QUEUED"
         /\ job'[j].attempt = job[j].attempt + 1
         /\ \A k \in Jobs \ {j} : SameJob(k)
<1> USE WorkedTypes
<1>1. job \in [Jobs -> JobRows]
  BY DEF StoreTypeOK
<1>2. /\ job[j].state = "FAILED_RETRYABLE" /\ run' = run /\ budget' = budget
      /\ job' = [job EXCEPT ![j].state = "QUEUED", ![j].attempt = job[j].attempt + 1]
  BY DEF RetryJob, CanRetry, CanTransition, Transition, DuplicateCancel, NextAttempt
<1>3. /\ job'[j].state = "QUEUED" /\ job'[j].attempt = job[j].attempt + 1
      /\ job'[j].manifest = job[j].manifest
      /\ \A k \in Jobs \ {j} : job'[k] = job[k]
  BY <1>1, <1>2 DEF JobRows
<1>4. CurrentRun(j).status = "FAILED_RETRYABLE" /\ ~job[j].manifest
  BY <1>2 DEF Worked, OneInv, TablesKept, ResultsAgree, FailedStatuses
<1>5. provider[j][job[j].attempt] \in TerminalStatuses
  <2>1. Backs(provider[j][job[j].attempt], CurrentRun(j).status)
    BY DEF Worked, IInv, StatusBacked, CurrentRun
  <2>2. QED
    BY <1>4, <2>1 DEF Backs, TerminalStatuses, FailedStatuses
<1>6. StatusHasId'
  BY <1>2 DEF StatusHasId, Worked, OneInv, TablesKept
<1>7. PastIsOver'
  <2> SUFFICES ASSUME NEW k \in Jobs, NEW a \in Attempts, a < job'[k].attempt
               PROVE  provider[k][a] \in TerminalStatuses
    BY DEF PastIsOver, EndedStays
  <2>1. CASE k = j /\ a = job[j].attempt
    BY <1>5, <2>1
  <2>2. CASE k # j \/ a # job[j].attempt
    <3>1. a < job[k].attempt
      BY <1>3, <2>2, BoundsAssumption DEF Attempts
    <3>2. QED
      BY <3>1 DEF PastIsOver, EndedStays, Worked, OneInv, TablesKept
  <2>3. QED
    BY <2>1, <2>2
<1>8. \A k \in Jobs \ {j} : CurrentRun(k)' = CurrentRun(k)
  BY <1>2, <1>3 DEF CurrentRun
<1>9. ResultsAgree'
  <2> SUFFICES ASSUME NEW k \in Jobs
      PROVE  /\ job'[k].state \in FailedStatuses => CurrentRun(k)'.status = job'[k].state
             /\ job'[k].state = "SUCCEEDED" => \/ PlanExecutor[k] = Supervised
                                               \/ CurrentRun(k)'.status = "SUCCEEDED"
             /\ job'[k].manifest => job'[k].state = "SUCCEEDED"
    BY DEF ResultsAgree
  <2>1. CASE k = j
    BY <1>3, <1>4, <2>1 DEF FailedStatuses
  <2>2. CASE k # j
    BY <1>3, <1>8, <2>2 DEF ResultsAgree, Worked, OneInv, TablesKept
  <2>3. QED
    BY <2>1, <2>2
<1>10. BudgetsKept'
  <2>1. ~(budget[j]["poll"] > MaxRetries)
    BY <1>4 DEF BudgetsKept, Worked, OneInv, TablesKept
  <2>2. QED
    BY <1>2, <1>8, <2>1 DEF BudgetsKept, RetryBudgetBounded, Worked, OneInv, TablesKept
<1>11. QED
  BY <1>2, <1>3, <1>6, <1>7, <1>9, <1>10 DEF TablesKept, SameJob

\* A job without a result gets a state that is none either.
LEMMA UnfinishedKeeps ==
  ASSUME Worked, EndedStays, NEW j \in Jobs, RowsSame, budget' = budget,
         \A k \in Jobs \ {j} : SameJob(k),
         job'[j].attempt = job[j].attempt, job'[j].manifest = job[j].manifest,
         job[j].state # "SUCCEEDED",
         \/ job'[j].state \notin FailedStatuses \cup {"SUCCEEDED"}
         \/ job'[j].state = "SUCCEEDED" /\ PlanExecutor[j] = Supervised
  PROVE  TablesKept'
<1> USE WorkedTypes
<1>1. \A k \in Jobs : job'[k].attempt = job[k].attempt
  BY DEF SameJob
<1>2. \A k \in Jobs : CurrentRun(k)'.status = CurrentRun(k).status
  BY <1>1 DEF CurrentRun, RowsSame, SameRow
<1>3. ~job[j].manifest
  BY DEF Worked, OneInv, TablesKept, ResultsAgree
<1>4. StatusHasId'
  BY DEF RowsSame, SameRow, StatusHasId, Worked, OneInv, TablesKept
<1>5. PastIsOver'
  BY <1>1 DEF PastIsOver, EndedStays, Worked, OneInv, TablesKept
<1>6. ResultsAgree'
  <2> SUFFICES ASSUME NEW k \in Jobs
      PROVE  /\ job'[k].state \in FailedStatuses => CurrentRun(k)'.status = job'[k].state
             /\ job'[k].state = "SUCCEEDED" => \/ PlanExecutor[k] = Supervised
                                               \/ CurrentRun(k)'.status = "SUCCEEDED"
             /\ job'[k].manifest => job'[k].state = "SUCCEEDED"
    BY DEF ResultsAgree
  <2>1. CASE k = j
    BY <1>3, <2>1 DEF FailedStatuses
  <2>2. CASE k # j
    BY <1>2, <2>2 DEF SameJob, ResultsAgree, Worked, OneInv, TablesKept
  <2>3. QED
    BY <2>1, <2>2
<1>7. BudgetsKept'
  BY <1>2 DEF BudgetsKept, RetryBudgetBounded, Worked, OneInv, TablesKept
<1>8. QED
  BY <1>4, <1>5, <1>6, <1>7 DEF TablesKept

\* The manifest of a succeeded job is bound.
LEMMA BindKeeps ==
  ASSUME Worked, EndedStays, NEW j \in Jobs, job[j].state = "SUCCEEDED",
         BindArtifactManifest(j), UNCHANGED <<run, budget>>
  PROVE  TablesKept' /\ StatesSame
<1> USE WorkedTypes
<1>1. job \in [Jobs -> JobRows]
  BY DEF StoreTypeOK
<1>2. /\ \A k \in Jobs : job'[k].state = job[k].state /\ job'[k].attempt = job[k].attempt
      /\ \A k \in Jobs \ {j} : job'[k].manifest = job[k].manifest
  BY <1>1 DEF BindArtifactManifest, JobRows
<1>3. \A k \in Jobs : CurrentRun(k)' = CurrentRun(k)
  BY <1>2 DEF CurrentRun
<1>4. ResultsAgree'
  <2> SUFFICES ASSUME NEW k \in Jobs
      PROVE  /\ job'[k].state \in FailedStatuses => CurrentRun(k)'.status = job'[k].state
             /\ job'[k].state = "SUCCEEDED" => \/ PlanExecutor[k] = Supervised
                                               \/ CurrentRun(k)'.status = "SUCCEEDED"
             /\ job'[k].manifest => job'[k].state = "SUCCEEDED"
    BY DEF ResultsAgree
  <2>1. QED
    BY <1>2, <1>3 DEF ResultsAgree, Worked, OneInv, TablesKept
<1>5. StatusHasId' /\ PastIsOver' /\ BudgetsKept'
  BY <1>2, <1>3 DEF StatusHasId, PastIsOver, EndedStays, BudgetsKept, RetryBudgetBounded,
                    Worked, OneInv, TablesKept
<1>6. QED
  BY <1>2, <1>4, <1>5 DEF TablesKept, StatesSame

LEMMA BindGoes ==
  ASSUME Worked, EndedStays, NEW r \in Runners,
         job[cand[r].job].state = "SUCCEEDED",
         BindArtifactManifest(cand[r].job), UNCHANGED <<run, budget>>,
         NEW point \in Points \ Noted, Goto(r, point)
  PROVE  Regular(r)
<1>1. cand[r].job \in Jobs
  BY WorkedTypes DEF Keyed
<1>2. TablesKept' /\ StatesSame
  BY <1>1, BindKeeps
<1>3. QED
  BY <1>2, GoesPlain DEF Regular

\* The intent to submit: a queued job starts running.
LEMMA ClaimKeeps ==
  ASSUME Worked, EndedStays, NEW r \in Runners,
         CanClaimSubmission(cand[r]), ClaimSubmission(r, cand[r])
  PROVE  /\ TablesKept' /\ (StatesSame \/ JobMoves(cand[r]))
         /\ job[cand[r].job].attempt = cand[r].att
         /\ job'[cand[r].job].attempt = cand[r].att
         /\ job'[cand[r].job].state = IF cand[r].st = "QUEUED" THEN "RUNNING" ELSE cand[r].st
<1> USE WorkedTypes
<1> DEFINE c == cand[r]
<1>1. /\ job \in [Jobs -> JobRows] /\ Keyed(c) /\ Row(c) \in RunRows /\ c.job \in Jobs
      /\ job[c.job].attempt = c.att /\ job[c.job].state = c.st
  BY CandidateKeyed DEF StoreTypeOK, Keyed, CanClaimSubmission, StageIn
<1>2. RowsSame /\ budget' = budget
  BY <1>1, QuietRow DEF ClaimSubmission, Leased, RunRows
<1>3. CASE c.st # "QUEUED"
  <2>1. job' = job
    BY <1>3 DEF ClaimSubmission
  <2>2. Quiet
    BY <1>2, <2>1, JobUnchanged DEF Quiet
  <2>3. QED
    BY <1>1, <1>3, <2>1, <2>2, QuietKeeps
<1>4. CASE c.st = "QUEUED"
  <2>1. job' = [job EXCEPT ![c.job].state = "RUNNING", ![c.job].stage = "dispatching"]
    BY <1>4 DEF ClaimSubmission
  <2>2. /\ job'[c.job].state = "RUNNING" /\ job'[c.job].attempt = job[c.job].attempt
        /\ job'[c.job].manifest = job[c.job].manifest
        /\ \A k \in Jobs \ {c.job} : SameJob(k)
    BY <1>1, <2>1 DEF SameJob, JobRows
  <2>3. TablesKept'
    BY <1>1, <1>2, <1>4, <2>2, UnfinishedKeeps DEF FailedStatuses
  <2>4. JobMoves(c)
    BY <1>1, <1>4, <2>2 DEF JobMoves
  <2>5. QED
    BY <1>1, <1>4, <2>2, <2>3, <2>4
<1>5. QED
  BY <1>3, <1>4

-----------------------------------------------------------------------------
(* tick and _cancel                                                        *)

LEMMA SelectQuiet ==
  ASSUME Worked, EndedStays, NEW r \in Runners, NEW S \in SUBSET Jobs,
         NEW point \in Points, Select(r, S, point),
         \A j \in S, c \in Candidates :
           c.st = job[j].state =>
             Follows(point, c) /\ Reads(point, c) /\ Spends(point, c)
  PROVE  Regular(r)
<1>1. PICK j \in S : GotoWith(r, point, [job |-> j, att |-> job[j].attempt,
                        st |-> job[j].state, seen |-> "NULL", spend |-> FALSE])
  BY DEF Select
<1> DEFINE c == [job |-> j, att |-> job[j].attempt, st |-> job[j].state,
                 seen |-> "NULL", spend |-> FALSE]
<1>2. c \in Candidates /\ c.st = job[j].state
  BY WorkedTypes DEF JobRows, Candidates, RunStatuses
<1>3. Quiet
  BY NothingQuiet DEF Select
<1> HIDE DEF c
<1>4. Follows(point, c) /\ Reads(point, c) /\ Spends(point, c)
  BY <1>2
<1>5. QED
  BY <1>1, <1>2, <1>3, <1>4, QuietArrives DEF c

\* A status belongs to a run with an external id, so a queued job never has one
\* that would make it a candidate for _finalize_terminal.
LEMMA TickRegular ==
  ASSUME Worked, EndedStays, NEW r \in Runners, Tick(r)
  PROVE  Regular(r)
<1> USE WorkedTypes
<1>1. /\ {"cancel", "terminal_claim", "poll_claim", "retry_claim", "recover"} \subseteq Points
      /\ "cancel" \notin Noted
  BY DEF Points, Noted, Intended, Working
<1>2. CASE SelectCancel(r)
  <2>1. Cancels \in SUBSET Jobs
    BY DEF Cancels
  <2>2. QED
    BY <1>1, <1>2, <2>1, PlainPoint, SelectQuiet DEF SelectCancel
<1>3. CASE SelectTerminal(r)
  <2>1. ASSUME NEW j \in Terminals
        PROVE  job[j].state \in {"RUNNING", "SUCCEEDED"}
    BY DEF Terminals, TerminalCandidate, CurrentRun, FailedStatuses, StatusHasId,
           Worked, OneInv, TablesKept
  <2>2. Terminals \in SUBSET Jobs
    BY DEF Terminals
  <2>3. QED
    BY <1>1, <1>3, <2>1, <2>2, SelectQuiet
       DEF SelectTerminal, Follows, Reads, Spends, Intended, Working
<1>4. CASE SelectPoll(r)
  <2>1. \A j \in Polls : job[j].state = "RUNNING"
    BY DEF Polls, PollCandidate
  <2>2. Polls \in SUBSET Jobs
    BY DEF Polls
  <2>3. QED
    BY <1>1, <1>4, <2>1, <2>2, SelectQuiet
       DEF SelectPoll, Follows, Reads, Spends, Intended, Working
<1>5. CASE SelectRetry(r)
  <2>1. \A j \in Retries : job[j].state = "FAILED_RETRYABLE"
    BY DEF Retries, RetryCandidate
  <2>2. Retries \in SUBSET Jobs
    BY DEF Retries
  <2>3. QED
    BY <1>1, <1>5, <2>1, <2>2, SelectQuiet
       DEF SelectRetry, Follows, Reads, Spends, Intended, Working
<1>6. CASE SelectRecovery(r)
  <2>1. \A j \in Dispatch : job[j].state \in {"QUEUED", "RUNNING"}
    BY DEF Dispatch, Queued, QueuedCandidate, InterruptedCandidate
  <2>2. Dispatch \in SUBSET Jobs
    BY DEF Dispatch, Queued
  <2>3. QED
    BY <1>1, <1>6, <2>1, <2>2, SelectQuiet
       DEF SelectRecovery, Follows, Reads, Spends, Intended, Working
<1>7. CASE SelectNothing(r)
  <2>1. Quiet
    BY <1>7, NothingQuiet DEF SelectNothing
  <2>2. TablesKept' /\ StatesSame
    BY <2>1, QuietKeeps
  <2>3. ASSUME NEW q \in Runners
        PROVE  Follows(at[q], cand[q])' /\ Reads(at[q], cand[q])' /\ Spends(at[q], cand[q])'
    BY <1>7 DEF SelectNothing, store, program, Follows, Reads, Spends, Row, RetryAllowed,
                Worked, OneInv
  <2>4. QED
    BY <2>2, <2>3 DEF OneInv, Regular
<1>8. QED
  BY <1>2, <1>3, <1>4, <1>5, <1>6, <1>7 DEF Tick

LEMMA StatusNull ==
  ASSUME Worked, NEW r \in Runners, ~Row(cand[r]).ext
  PROVE  Row(cand[r]).status = "NULL"
BY WorkedTypes DEF Worked, OneInv, TablesKept, StatusHasId, Row, Keyed

LEMMA AcceptanceRegular ==
  ASSUME Worked, EndedStays, NEW r \in Runners, ~Row(cand[r]).ext,
         RecordAcceptance(cand[r]), NEW point \in Points \ Noted, Goto(r, point)
  PROVE  Regular(r)
<1> DEFINE new == [Released(Row(cand[r])) EXCEPT !.ext = TRUE, !.status = "ACCEPTED",
                                                 !.next = "null"]
<1>1. /\ StoreTypeOK /\ Keyed(cand[r]) /\ Row(cand[r]) \in RunRows
  BY WorkedTypes, CandidateKeyed
<1>2. SetRow(cand[r], new) /\ JobsSame /\ budget' = budget
  BY JobUnchanged DEF RecordAcceptance
<1>3. new.status = "ACCEPTED" /\ new.ext
  BY <1>1 DEF Released, RunRows
<1> HIDE DEF new
<1>4. Recorded(cand[r], "ACCEPTED")
  BY <1>1, <1>2, <1>3, RecordedRow
<1>5. Row(cand[r]).status \notin TerminalStatuses
  BY StatusNull DEF TerminalStatuses, FailedStatuses
<1>6. QED
  BY <1>2, <1>4, <1>5, RecordedGoes

LEMMA CancelRegular ==
  ASSUME Worked, EndedStays, NEW r \in Runners, Cancel(r)
  PROVE  Regular(r)
<1> DEFINE c == cand[r]
<1> USE WorkedTypes
<1>0. {"idle", "cancel_claim_lookup", "cancel_lookup", "cancel_lookup_found",
       "cancel_lookup_failed", "cancel_terminal", "cancel_claim", "cancel_begin",
       "cancel_call", "cancel_unconfirmed"} \subseteq Points \ Noted
  BY DEF Points, Stopped, Noted, Intended, Working
<1>1. CASE CancelRead(r)
  <2>1. \E point \in {"cancel_claim_lookup", "cancel_terminal", "cancel_claim"} : Decide(r, point)
    BY <1>1 DEF CancelRead
  <2>2. QED
    BY <1>0, <2>1, DecideQuiet
<1>2. CASE CancelClaimLookup(r)
  <2>1. CASE Decide(r, "idle")
    BY <1>0, <2>1, DecideQuiet
  <2>2. CASE ClaimExisting(r, c) /\ Goto(r, "cancel_lookup")
    BY <1>0, <2>2, QuietStatements, QuietGoes
  <2>3. QED
    BY <1>2, <2>1, <2>2 DEF Decide, CancelClaimLookup, OrGiveUp
<1>3. CASE CancelLookup(r)
  <2>1. \E point \in {"cancel_lookup_found", "cancel_lookup_failed"} : Decide(r, point)
    BY <1>3 DEF CancelLookup, TooLittleLease
  <2>2. QED
    BY <1>0, <2>1, DecideQuiet
<1>4. CASE CancelLookupFound(r)
  <2>1. CASE Decide(r, "cancel_lookup_failed")
    BY <1>0, <2>1, DecideQuiet
  <2>2. CASE ~Row(c).ext /\ RecordAcceptance(c) /\ Goto(r, "idle")
    BY <1>0, <2>2, AcceptanceRegular
  <2>3. QED
    BY <1>4, <2>1, <2>2 DEF CancelLookupFound, CanRecordLookupForCanceled
<1>5. CASE CancelLookupFailed(r) \/ CancelUnconfirmed(r)
  BY <1>5, MarkQuiet DEF CancelLookupFailed, CancelUnconfirmed
<1>6. CASE CancelTerminal(r)
  <2>1. CASE Raise(r)
    BY <2>1, RaiseQuiet
  <2>2. CASE ReconcileTerminal(c) /\ Goto(r, "idle")
    BY <1>0, <2>2, QuietStatements, QuietGoes
  <2>3. QED
    BY <1>6, <2>1, <2>2 DEF CancelTerminal, OrRaise
<1>7. CASE CancelClaim(r)
  <2>1. CASE Decide(r, "idle")
    BY <1>0, <2>1, DecideQuiet
  <2>2. CASE ClaimExisting(r, c) /\ Goto(r, "cancel_begin")
    BY <1>0, <2>2, QuietStatements, QuietGoes
  <2>3. QED
    BY <1>7, <2>1, <2>2 DEF Decide, CancelClaim, OrGiveUp
<1>8. CASE CancelBegin(r)
  <2>1. CASE Raise(r)
    BY <2>1, RaiseQuiet
  <2>2. CASE BeginCancelStage(c) /\ \E point \in {"cancel_call", "cancel_unconfirmed"} : Goto(r, point)
    BY <1>0, <2>2, QuietStatements, QuietGoes
  <2>3. QED
    BY <1>8, <2>1, <2>2 DEF CancelBegin, OrRaise
<1>9. CASE CancelRetry(r)
  <2>1. CASE Raise(r)
    BY <2>1, RaiseQuiet
  <2>2. CASE RecordCancelTransportFailure(c) /\ Goto(r, "idle")
    <3>1. RowsSame /\ JobsSame /\ ConsumeRetry(c, "cancel")
      BY <2>2, CandidateKeyed, QuietRow, JobUnchanged
         DEF RecordCancelTransportFailure, Released, RunRows
    <3>2. RetryAllowed(c, "cancel") /\ "cancel" \in Budgets
      BY <1>9 DEF CancelRetry, Worked, OneInv, Spends, Budgets
    <3>3. QED
      BY <1>0, <2>2, <3>1, <3>2, CountedGoes
  <2>3. QED
    BY <1>9, <2>1, <2>2 DEF CancelRetry, OrRaise
<1>10. CASE CancelConfirmed(r)
  <2>1. CASE Raise(r)
    BY <2>1, RaiseQuiet
  <2>2. CASE Owns(r, c) /\ Row(c).ext /\ RecordRemoteCanceled(c) /\ Goto(r, "idle")
    <3> DEFINE new == [Released(Row(c)) EXCEPT !.status = "CANCELED", !.next = "null"]
    <3>1. SetRow(c, new) /\ JobsSame /\ budget' = budget
      BY <2>2, JobUnchanged DEF RecordRemoteCanceled
    <3>2. new.status = "CANCELED" /\ new.ext
      BY <2>2, CandidateKeyed DEF Released, RunRows
    <3> HIDE DEF new
    <3>3. Recorded(c, "CANCELED")
      BY <3>1, <3>2, RecordedRow
    <3>4. Row(c).status \notin TerminalStatuses
      BY <1>10, <2>2 DEF CancelConfirmed, Worked, Holding, Holds, LiveStatuses,
                         TerminalStatuses, FailedStatuses
    <3>5. QED
      BY <1>0, <2>2, <3>1, <3>3, <3>4, RecordedGoes
  <2>3. QED
    BY <1>10, <2>1, <2>2 DEF CancelConfirmed, OrRaise, CanRecordRemoteCanceled
<1>11. QED
  BY <1>1, <1>2, <1>3, <1>4, <1>5, <1>6, <1>7, <1>8, <1>9, <1>10 DEF Cancel

-----------------------------------------------------------------------------
(* _finalize_terminal and _poll                                            *)

\* A result the job is made to follow: allowed only out of RUNNING, or nothing to
\* do when the job was canceled and so was its run.
LEMMA TransitionRegular ==
  ASSUME Worked, EndedStays, NEW r \in Runners, NEW to \in TerminalStatuses,
         job[cand[r].job].attempt = cand[r].att, Row(cand[r]).status = to,
         TransitionOK(cand[r].job, "RUNNING", to), Transition(cand[r].job, "RUNNING", to),
         UNCHANGED <<run, budget>>, NEW point \in Points \ Noted, Goto(r, point)
  PROVE  Regular(r)
<1> USE WorkedTypes
<1> DEFINE c == cand[r]
<1>1. CASE DuplicateCancel(c.job, to)
  <2>1. UNCHANGED store
    BY <1>1 DEF Transition, store
  <2>2. QED
    BY <2>1, DecideQuiet DEF Decide
<1>2. CASE ~DuplicateCancel(c.job, to)
  <2>1. /\ job \in [Jobs -> JobRows] /\ c.job \in Jobs /\ job[c.job].state = "RUNNING"
    BY <1>2 DEF StoreTypeOK, Keyed, TransitionOK, CanTransition
  <2>2. job' = [job EXCEPT ![c.job].state = to, ![c.job].attempt = job[c.job].attempt]
    BY <1>2 DEF Transition, NextAttempt
  <2>3. Moved(c, to)
    BY <2>1, <2>2 DEF Moved, SameJob, RowsSame, SameRow, JobRows
  <2>4. QED
    BY <2>1, <2>3, ResultGoes
<1>3. QED
  BY <1>1, <1>2

LEMMA TerminalRegular ==
  ASSUME Worked, EndedStays, NEW r \in Runners, Terminal(r)
  PROVE  Regular(r)
<1> DEFINE c == cand[r]
<1> USE WorkedTypes
<1>0. /\ {"idle", "raised", "terminal_bind", "terminal_conflict", "terminal_reconcile",
          "terminal_release", "terminal_abandon", "claimed_reconcile"} \subseteq Points \ Noted
      /\ {"terminal_check", "terminal_apply"} \subseteq Points
  BY DEF Points, Stopped, Noted, Intended, Working
<1>k. Follows(at[r], c) /\ Reads(at[r], c)
  BY DEF Worked, OneInv
<1>1. CASE TerminalClaim(r)
  <2>1. CASE Decide(r, "idle")
    BY <1>0, <2>1, DecideQuiet
  <2>2. CASE /\ CanClaimExisting(c, TerminalStatuses) /\ ClaimExisting(r, c)
             /\ GotoWith(r, "terminal_check", [c EXCEPT !.seen = Row(c).status])
    <3> DEFINE d == [c EXCEPT !.seen = Row(c).status]
    <3>1. /\ d \in Candidates /\ d.seen = Row(c).status /\ Row(d) = Row(c)
          /\ d.job = c.job /\ d.att = c.att
      BY CandidateKeyed DEF Candidates, RunRows, Row
    <3>2. /\ Row(c).status \in TerminalStatuses /\ job[c.job].attempt = c.att
          /\ job[c.job].state \in {"RUNNING", "SUCCEEDED"}
      BY <1>1, <2>2, <1>k DEF TerminalClaim, CanClaimExisting, StageIn, Follows
    <3>3. Quiet
      BY <2>2, QuietStatements
    <3>4. GotoWith(r, "terminal_check", d)
      BY <2>2
    <3> HIDE DEF d
    <3>5. Follows("terminal_check", d) /\ Reads("terminal_check", d)
          /\ Spends("terminal_check", d)
      BY <3>1, <3>2 DEF Follows, Reads, Spends, Intended, Working
    <3>6. QED
      BY <1>0, <3>1, <3>3, <3>4, <3>5, QuietArrives
  <2>3. QED
    BY <1>1, <2>1, <2>2 DEF TerminalClaim
<1>2. CASE TerminalCheck(r)
  <2>1. /\ job[c.job].state # "QUEUED" /\ job[c.job].attempt = c.att
        /\ job[c.job].state \in {"RUNNING", "CANCELED", "SUCCEEDED"}
        /\ c.seen \in TerminalStatuses /\ Row(c).status = c.seen
    BY <1>2, <1>k DEF TerminalCheck, Follows, Reads, Working
  <2>2. PICK point \in {"claimed_reconcile", "terminal_apply", "terminal_bind",
                        "terminal_conflict"} : Decide(r, point)
    BY <1>2, <2>1 DEF TerminalCheck
  <2>3. Follows("terminal_apply", c) /\ Reads("terminal_apply", c) /\ Spends("terminal_apply", c)
    BY <2>1 DEF Follows, Reads, Spends, Intended, Working
  <2>4. QED
    BY <1>0, <2>2, <2>3, DecideQuiet
<1>3. CASE TerminalApply(r)
  <2>1. /\ job[c.job].attempt = c.att
        /\ c.seen \in TerminalStatuses /\ Row(c).status = c.seen
    BY <1>3, <1>k DEF TerminalApply, Follows, Reads, Working
  <2>2. CASE TransitionOK(c.job, "RUNNING", c.seen)
    BY <1>0, <1>3, <2>1, <2>2, TransitionRegular DEF TerminalApply
  <2>3. CASE ~TransitionOK(c.job, "RUNNING", c.seen)
    BY <1>0, <1>3, <2>3, DecideQuiet DEF TerminalApply, Decide, store
  <2>4. QED
    BY <2>2, <2>3
<1>4. CASE TerminalQueued(r)
  BY <1>4, <1>k DEF TerminalQueued, Follows
<1>5. CASE TerminalBind(r)
  <2>1. CASE job[c.job].state = "SUCCEEDED"
    BY <1>0, <1>5, <2>1, BindGoes DEF TerminalBind
  <2>2. CASE job[c.job].state # "SUCCEEDED"
    BY <1>0, <1>5, <2>2, DecideQuiet DEF TerminalBind, Decide, store
  <2>3. QED
    BY <2>1, <2>2
<1>6. CASE TerminalConflict(r)
  <2>1. \E point \in {"raised", "terminal_reconcile", "terminal_abandon"} : Decide(r, point)
    BY <1>6 DEF TerminalConflict
  <2>2. QED
    BY <1>0, <2>1, DecideQuiet
<1>7. CASE TerminalReconcile(r)
  <2>1. CASE Raise(r)
    BY <2>1, RaiseQuiet
  <2>2. CASE ReconcileTerminal(c) /\ Goto(r, "idle")
    BY <1>0, <2>2, QuietStatements, QuietGoes
  <2>3. QED
    BY <1>7, <2>1, <2>2 DEF TerminalReconcile, OrRaise
<1>8. CASE TerminalRelease(r)
  <2>1. CASE Raise(r)
    BY <2>1, RaiseQuiet
  <2>2. CASE ReleaseLease(c) /\ Goto(r, "idle")
    BY <1>0, <2>2, QuietStatements, QuietGoes
  <2>3. QED
    BY <1>8, <2>1, <2>2 DEF TerminalRelease, OrRaise
<1>9. CASE TerminalAbandon(r)
  <2>1. Quiet /\ Goto(r, "raised")
    BY <1>9, QuietStatements, NothingQuiet DEF TerminalAbandon
  <2>2. QED
    BY <1>0, <2>1, QuietGoes
<1>10. QED
  BY <1>1, <1>2, <1>3, <1>4, <1>5, <1>6, <1>7, <1>8, <1>9 DEF Terminal

\* A live run has an external id.
LEMMA LiveHasId ==
  ASSUME Worked, NEW r \in Runners, OwnsLive(r, cand[r])
  PROVE  Row(cand[r]).ext /\ Row(cand[r]).status \notin TerminalStatuses
BY WorkedTypes DEF OwnsLive, LiveStatuses, TerminalStatuses, FailedStatuses, Worked, OneInv,
                   TablesKept, StatusHasId, Row, Keyed

LEMMA PollRowRecorded ==
  ASSUME Worked, NEW r \in Runners, OwnsLive(r, cand[r]), NEW s, NEW spend, JobsSame,
         RecordPollStatus(cand[r], s, spend)
  PROVE  Recorded(cand[r], s)
<1> DEFINE c == cand[r]  new == PollStatusRow(c, s)
<1>1. StoreTypeOK /\ Keyed(c) /\ Row(c) \in RunRows /\ Row(c).ext
  BY WorkedTypes, CandidateKeyed, LiveHasId
<1>2. new.status = s /\ new.ext
  BY <1>1 DEF PollStatusRow, Released, RunRows
<1>3. SetRow(c, new)
  BY DEF RecordPollStatus
<1> HIDE DEF new
<1>4. QED
  BY <1>1, <1>2, <1>3, RecordedRow

\* A counted failure that spends the last of the budget, or finds it spent and ends
\* the run.
LEMMA SpentBudgets ==
  ASSUME Worked, NEW c \in Candidates, Row(c).status \notin TerminalStatuses, NEW s,
         Recorded(c, s), ConsumeRetry(c, "poll"), job[c.job].attempt = c.att,
         s = "FAILED_FINAL" \/ RetryAllowed(c, "poll")
  PROVE  BudgetsKept'
<1> USE WorkedTypes
<1>1. /\ c.job \in Jobs /\ c.att \in Attempts /\ MaxRetries \in Nat
      /\ budget \in [Jobs -> [Budgets -> Nat]] /\ "poll" \in Budgets
      /\ "submission" \in Budgets /\ "cancel" \in Budgets
  BY BoundsAssumption DEF Candidates, StoreTypeOK, Budgets
<1>2. \A j \in Jobs, b \in Budgets :
        budget'[j][b] = IF j = c.job /\ b = "poll" THEN budget[j][b] + 1 ELSE budget[j][b]
  BY <1>1 DEF ConsumeRetry
<1>3. \A j \in Jobs : job'[j].attempt = job[j].attempt
  BY DEF Recorded, JobsSame, SameJob
<1>4. CurrentRun(c.job)'.status = s
  BY <1>1, <1>3 DEF Recorded, CurrentRun
<1>5. \A j \in Jobs \ {c.job} : CurrentRun(j)'.status = CurrentRun(j).status
  BY <1>3 DEF Recorded, SameRow, CurrentRun
<1>6. CurrentRun(c.job).status # "FAILED_FINAL"
  BY DEF CurrentRun, Row, TerminalStatuses, FailedStatuses
<1>7. budget[c.job]["poll"] <= MaxRetries
  BY <1>1, <1>6 DEF BudgetsKept, Worked, OneInv, TablesKept
<1>8. \A j \in Jobs : /\ budget[j]["submission"] <= MaxRetries
                      /\ budget[j]["cancel"] <= MaxRetries
                      /\ budget[j]["poll"] <= MaxRetries + 1
                      /\ budget[j]["poll"] > MaxRetries => CurrentRun(j).status = "FAILED_FINAL"
  BY DEF BudgetsKept, RetryBudgetBounded, Worked, OneInv, TablesKept
<1>9. ASSUME NEW j \in Jobs
      PROVE  /\ budget'[j]["submission"] <= MaxRetries
             /\ budget'[j]["cancel"] <= MaxRetries
             /\ budget'[j]["poll"] <= MaxRetries + 1
             /\ budget'[j]["poll"] > MaxRetries => CurrentRun(j)'.status = "FAILED_FINAL"
  <2>1. CASE j = c.job
    <3>1. /\ budget'[j]["poll"] = budget[j]["poll"] + 1
          /\ budget'[j]["submission"] = budget[j]["submission"]
          /\ budget'[j]["cancel"] = budget[j]["cancel"]
      BY <1>1, <1>2, <2>1
    <3>2. /\ budget[j]["poll"] \in Nat /\ budget[j]["poll"] <= MaxRetries
          /\ budget[j]["poll"] + 1 > MaxRetries => s = "FAILED_FINAL"
      BY <1>1, <1>7, <2>1 DEF RetryAllowed
    <3>3. QED
      BY <1>1, <1>4, <1>8, <2>1, <3>1, <3>2
  <2>2. CASE j # c.job
    BY <1>1, <1>2, <1>5, <1>8, <2>2
  <2>3. QED
    BY <2>1, <2>2
<1>10. QED
  BY <1>9 DEF BudgetsKept, RetryBudgetBounded

LEMMA PollRecordRegular ==
  ASSUME Worked, EndedStays, NEW r \in Runners, PollRecord(r)
  PROVE  Regular(r)
<1> USE WorkedTypes
<1>c. PICK c \in Candidates : c = cand[r]
  OBVIOUS
<1>0. "raised" \in Points \ Noted /\ "poll_local" \in Points
  BY DEF Points, Stopped, Noted, Intended, Working
<1>k. /\ Follows(at[r], c) /\ Spends(at[r], c) /\ at[r] = "poll_record" /\ c.seen # "NULL"
  BY <1>c DEF Worked, OneInv, Holding, Holds, PollRecord
<1>1. CASE Raise(r)
  BY <1>1, RaiseQuiet
<1>2. CASE ~Raise(r)
  <2>1. JobsSame
    <3>1. SetJobStage(c, {"RUNNING"}, "plain") \/ job' = job
      BY <1>2, <1>c DEF PollRecord
    <3>2. QED
      BY <3>1, <1>c, StageQuiet, JobUnchanged
  <2>2. CASE ~OwnsLive(r, c)
    <3>1. UNCHANGED <<run, budget>> /\ Goto(r, "raised")
      BY <1>c, <1>2, <2>2 DEF PollRecord
    <3>2. Quiet
      BY <2>1, <3>1 DEF Quiet, RowsSame, SameRow
    <3>3. QED
      BY <1>0, <3>1, <3>2, QuietGoes
  <2>3. CASE OwnsLive(r, c)
    <3>1. RecordPollStatus(c, c.seen, c.spend) /\ Goto(r, "poll_local")
      BY <1>c, <1>2, <2>3 DEF PollRecord
    <3>2. Recorded(c, c.seen)
      BY <1>c, <2>1, <2>3, <3>1, PollRowRecorded
    <3>3. /\ job[c.job].attempt = c.att
          /\ job[c.job].state \in {"RUNNING", "CANCELED", "SUCCEEDED"}
          /\ c.spend => c.seen = "FAILED_FINAL" \/ RetryAllowed(c, "poll")
      BY <1>k DEF Follows, Spends, Working
    <3>4. StatusHasId' /\ PastIsOver' /\ ResultsAgree' /\ StatesSame
      BY <1>c, <1>k, <2>3, <3>2, LiveHasId, RecordedKeeps
    <3>5. BudgetsKept'
      <4>1. CASE c.spend
        <5>1. ConsumeRetry(c, "poll")
          BY <3>1, <4>1 DEF RecordPollStatus
        <5>2. QED
          BY <1>c, <2>3, <3>2, <3>3, <4>1, <5>1, LiveHasId, SpentBudgets
      <4>2. CASE ~c.spend
        <5>1. budget' = budget
          BY <3>1, <4>2 DEF RecordPollStatus
        <5>2. QED
          BY <1>c, <2>3, <3>2, <5>1, LiveHasId, RecordedBudgets
      <4>3. QED
        BY <4>1, <4>2
    <3>6. GotoWith(r, "poll_local", c)
      BY <1>c, <3>1 DEF Goto, GotoWith, Stopped, TypeOK
    <3>7. /\ job'[c.job].attempt = c.att
          /\ job'[c.job].state \in {"RUNNING", "CANCELED", "SUCCEEDED"}
          /\ Row(c)'.status = c.seen
      BY <3>2, <3>3, <3>4 DEF StatesSame, Candidates, Recorded, Row
    <3>8. Follows("poll_local", c)' /\ Reads("poll_local", c)' /\ Spends("poll_local", c)'
      BY <1>k, <3>7 DEF Follows, Reads, Spends, Intended, Working
    <3>9. QED
      BY <1>c, <1>0, <3>4, <3>5, <3>6, <3>8, Arrives DEF Regular, TablesKept
  <2>4. QED
    BY <2>2, <2>3
<1>3. QED
  BY <1>1, <1>2

LEMMA PollRegular ==
  ASSUME Worked, EndedStays, NEW r \in Runners, Poll(r)
  PROVE  Regular(r)
<1> USE WorkedTypes
<1>c. PICK c \in Candidates : c = cand[r] /\ Keyed(c) /\ Row(c) \in RunRows
  BY CandidateKeyed
<1>0. /\ {"idle", "raised", "claimed_reconcile", "poll_exhausted", "poll_reconcile",
          "poll_bind", "poll_conflict", "poll_retry_local", "poll_exhausted_canceled",
          "poll_exhausted_running"} \subseteq Points \ Noted
      /\ {"poll_call", "poll_record", "poll_apply", "poll_retry", "poll_fatal",
          "poll_fatal_local", "poll_fatal_apply"} \subseteq Points
  BY DEF Points, Stopped, Noted, Intended, Working
<1>k. Follows(at[r], c) /\ Reads(at[r], c) /\ Spends(at[r], c)
  BY <1>c DEF Worked, OneInv
\* Whoever is at work follows the job; the points differ in what they have read.
<1>w. ASSUME NEW point \in Working, NEW d, job[d.job].attempt = d.att,
             job[d.job].state \in {"RUNNING", "CANCELED", "SUCCEEDED"}
      PROVE  Follows(point, d)
  BY <1>w DEF Follows, Intended, Working
<1>1. CASE PollClaim(r)
  <2>1. CASE Decide(r, "idle")
    BY <1>0, <2>1, DecideQuiet
  <2>2. CASE /\ CanClaimExisting(c, LiveStatuses) /\ ClaimExisting(r, c)
             /\ \E point \in {"poll_call", "claimed_reconcile"} : Goto(r, point)
    <3>1. job[c.job].attempt = c.att /\ job[c.job].state = "RUNNING"
      BY <1>1, <2>2, <1>k DEF PollClaim, CanClaimExisting, StageIn, Follows
    <3>2. Follows("poll_call", c) /\ Reads("poll_call", c) /\ Spends("poll_call", c)
      BY <3>1, <1>w DEF Reads, Spends, Working
    <3>3. Quiet
      BY <2>2, <1>c, QuietStatements
    <3>4. QED
      BY <1>c, <1>0, <2>2, <3>2, <3>3, QuietGoes
  <2>3. QED
    BY <1>c, <1>1, <2>1, <2>2 DEF Decide, PollClaim, OrGiveUp
<1>2. CASE PollCall(r)
  <2>1. /\ job[c.job].attempt = c.att
        /\ job[c.job].state \in {"RUNNING", "CANCELED", "SUCCEEDED"}
    BY <1>2, <1>k DEF PollCall, Follows, Working
  <2>2. CASE Raise(r)
    BY <2>2, RaiseQuiet
  <2>3. CASE GotoWith(r, "poll_record", Decided(c, Remote(c))) /\ UNCHANGED store
    <3> DEFINE d == Decided(c, Remote(c))
    <3>1. /\ d.job = c.job /\ d.att = c.att
          /\ d.spend => d.seen = "FAILED_FINAL" \/ RetryAllowed(c, "poll")
      BY DEF Decided, Candidates
    <3>2. d \in Candidates
      <4>1. Remote(c) # "absent" /\ Remote(c) \in ProviderStates
        BY <1>c, <1>2, CandidateKeyed DEF PollCall, Worked, IInv, Knows, Found
      <4>2. Remote(c) \in RunStatuses /\ "FAILED_FINAL" \in RunStatuses
        BY <4>1 DEF ProviderStates, RunStatuses, TerminalStatuses, FailedStatuses
      <4>3. QED
        BY <4>2 DEF Decided, Candidates
    <3>3. Quiet /\ GotoWith(r, "poll_record", d)
      BY <2>3, NothingQuiet
    <3> HIDE DEF d
    <3>4. Follows("poll_record", d) /\ Reads("poll_record", d) /\ Spends("poll_record", d)
      BY <2>1, <3>1, <1>w DEF Reads, Spends, Working, RetryAllowed
    <3>5. QED
      BY <1>0, <3>2, <3>3, <3>4, QuietArrives
  <2>4. CASE RetryAllowed(c, "poll") /\ Decide(r, "poll_retry")
    <3>1. Follows("poll_retry", c) /\ Reads("poll_retry", c) /\ Spends("poll_retry", c)
      BY <2>4 DEF Follows, Reads, Spends, Intended, Working
    <3>2. QED
      BY <1>c, <1>0, <2>4, <3>1, DecideQuiet
  <2>5. CASE \E point \in {"poll_exhausted", "claimed_reconcile"} : Decide(r, point)
    BY <1>0, <2>5, DecideQuiet
  <2>6. CASE GotoWith(r, "poll_fatal", [c EXCEPT !.seen = "FAILED_FINAL"]) /\ UNCHANGED store
    <3> DEFINE d == [c EXCEPT !.seen = "FAILED_FINAL"]
    <3>1. d.job = c.job /\ d.att = c.att /\ d \in Candidates
      BY DEF Candidates, RunStatuses, TerminalStatuses, FailedStatuses
    <3>2. Quiet /\ GotoWith(r, "poll_fatal", d)
      BY <2>6, NothingQuiet
    <3> HIDE DEF d
    <3>3. Follows("poll_fatal", d) /\ Reads("poll_fatal", d) /\ Spends("poll_fatal", d)
      BY <2>1, <3>1, <1>w DEF Reads, Spends, Working
    <3>4. QED
      BY <1>0, <3>1, <3>2, <3>3, QuietArrives
  <2>7. QED
    BY <1>c, <1>2, <2>2, <2>3, <2>4, <2>5, <2>6 DEF PollCall, TooLittleLease
<1>3. CASE PollRecord(r)
  BY <1>3, PollRecordRegular
<1>4. CASE PollLocal(r)
  <2>1. /\ job[c.job].attempt = c.att
        /\ job[c.job].state \in {"RUNNING", "CANCELED", "SUCCEEDED"}
        /\ c.seen # "NULL" /\ Row(c).status = c.seen
    BY <1>4, <1>k DEF PollLocal, Follows, Reads, Working
  <2>2. CASE \E point \in {"poll_reconcile", "idle"} : Decide(r, point)
    BY <1>0, <2>2, DecideQuiet
  <2>3. CASE c.seen \notin LiveStatuses /\ Decide(r, "poll_apply")
    <3>1. c.seen \in TerminalStatuses
      BY <2>1, <2>3 DEF Candidates, RunStatuses
    <3>2. Follows("poll_apply", c) /\ Reads("poll_apply", c) /\ Spends("poll_apply", c)
      BY <2>1, <3>1, <1>w DEF Reads, Spends, Working
    <3>3. QED
      BY <1>c, <1>0, <2>3, <3>2, DecideQuiet
  <2>4. QED
    BY <1>c, <1>4, <2>2, <2>3 DEF PollLocal
<1>5. CASE PollReconcile(r)
  <2>1. CASE Raise(r)
    BY <2>1, RaiseQuiet
  <2>2. CASE ReconcilePoll(c, c.seen \in TerminalStatuses) /\ Goto(r, "idle")
    BY <1>c, <1>0, <2>2, QuietStatements, QuietGoes
  <2>3. QED
    BY <1>c, <1>5, <2>1, <2>2 DEF PollReconcile, OrRaise
<1>6. CASE PollApply(r)
  <2>1. /\ job[c.job].attempt = c.att
        /\ c.seen \in TerminalStatuses /\ Row(c).status = c.seen
    BY <1>6, <1>k DEF PollApply, Follows, Reads, Working
  <2>2. CASE TransitionOK(c.job, "RUNNING", c.seen)
    BY <1>c, <1>0, <1>6, <2>1, <2>2, TransitionRegular DEF PollApply
  <2>3. CASE ~TransitionOK(c.job, "RUNNING", c.seen)
    BY <1>c, <1>0, <1>6, <2>3, DecideQuiet DEF PollApply, Decide, store
  <2>4. QED
    BY <2>2, <2>3
<1>7. CASE PollConflict(r) \/ PollRetryLocal(r) \/ PollExhausted(r)
  <2>1. \E point \in {"poll_reconcile", "raised", "idle", "poll_exhausted_canceled",
                      "poll_exhausted_running"} : Decide(r, point)
    BY <1>7 DEF PollConflict, PollRetryLocal, PollExhausted
  <2>2. QED
    BY <1>0, <2>1, DecideQuiet
<1>8. CASE PollBind(r)
  <2>1. CASE Raise(r)
    BY <2>1, RaiseQuiet
  <2>2. CASE /\ job[c.job].state = "SUCCEEDED" /\ BindArtifactManifest(c.job)
             /\ UNCHANGED <<run, budget>> /\ Goto(r, "idle")
    BY <1>c, <1>0, <2>2, BindGoes
  <2>3. QED
    BY <1>c, <1>8, <2>1, <2>2 DEF PollBind, OrRaise
<1>9. CASE PollRetry(r)
  <2>1. CASE Raise(r)
    BY <2>1, RaiseQuiet
  <2>2. CASE RecordPollTransportFailure(c) /\ Goto(r, "poll_retry_local")
    <3>1. RowsSame /\ JobsSame /\ ConsumeRetry(c, "poll")
      BY <1>c, <2>2, QuietRow, JobUnchanged DEF RecordPollTransportFailure, Released, RunRows
    <3>2. RetryAllowed(c, "poll") /\ "poll" \in Budgets
      BY <1>9, <1>k DEF PollRetry, Spends, Budgets
    <3>3. QED
      BY <1>c, <1>0, <2>2, <3>1, <3>2, CountedGoes
  <2>3. QED
    BY <1>c, <1>9, <2>1, <2>2 DEF PollRetry, OrRaise
<1>10. CASE PollExhaustedCanceled(r)
  <2>1. CASE Raise(r)
    BY <2>1, RaiseQuiet
  <2>2. CASE RecordExhaustedPollAfterLocalCancel(c) /\ Goto(r, "idle")
    BY <1>c, <1>0, <2>2, QuietStatements, QuietGoes
  <2>3. QED
    BY <1>c, <1>10, <2>1, <2>2 DEF PollExhaustedCanceled, OrRaise
<1>11. CASE PollExhaustedRunning(r)
  BY <1>11, MarkQuiet DEF PollExhaustedRunning
<1>12. CASE PollFatal(r)
  <2>1. CASE Raise(r)
    BY <2>1, RaiseQuiet
  <2>2. CASE /\ OwnsLive(r, c) /\ RecordPollStatus(c, "FAILED_FINAL", FALSE) /\ job' = job
             /\ Goto(r, "poll_fatal_local")
    <3>1. /\ job[c.job].attempt = c.att
          /\ job[c.job].state \in {"RUNNING", "CANCELED", "SUCCEEDED"}
      BY <1>12, <1>k DEF PollFatal, Follows, Working
    <3>2. Recorded(c, "FAILED_FINAL") /\ budget' = budget
      BY <1>c, <2>2, PollRowRecorded, JobUnchanged DEF RecordPollStatus
    <3>3. TablesKept' /\ StatesSame
      BY <1>c, <2>2, <3>2, LiveHasId, RecordedKeeps, RecordedBudgets DEF TablesKept
    <3>4. GotoWith(r, "poll_fatal_local", c)
      BY <1>c, <2>2 DEF Goto, GotoWith, Stopped, TypeOK
    <3>5. Row(c)'.status = "FAILED_FINAL"
      BY <3>2 DEF Recorded, Row
    <3>6. Follows("poll_fatal_local", c)' /\ Reads("poll_fatal_local", c)'
          /\ Spends("poll_fatal_local", c)'
      BY <2>2, <3>1, <3>5 DEF Follows, Reads, Spends, Intended, Working
    <3>7. QED
      BY <1>c, <1>0, <3>3, <3>4, <3>6, Arrives DEF Regular
  <2>3. QED
    BY <1>c, <1>12, <2>1, <2>2 DEF PollFatal, OrRaise
<1>13. CASE PollFatalLocal(r)
  <2>1. CASE \E point \in {"raised", "poll_reconcile"} : Decide(r, point)
    BY <1>0, <2>1, DecideQuiet
  <2>2. CASE Decide(r, "poll_fatal_apply")
    <3>1. /\ job[c.job].attempt = c.att /\ Row(c).status = "FAILED_FINAL"
          /\ job[c.job].state \in {"RUNNING", "CANCELED", "SUCCEEDED"}
      BY <1>13, <1>k DEF PollFatalLocal, Follows, Reads, Working
    <3>2. Follows("poll_fatal_apply", c) /\ Reads("poll_fatal_apply", c)
          /\ Spends("poll_fatal_apply", c)
      BY <3>1, <1>w DEF Reads, Spends, Working
    <3>3. QED
      BY <1>c, <1>0, <2>2, <3>2, DecideQuiet
  <2>3. QED
    BY <1>13, <2>1, <2>2 DEF PollFatalLocal
<1>14. CASE PollFatalApply(r)
  <2>1. CASE Raise(r)
    BY <2>1, RaiseQuiet
  <2>2. CASE /\ TransitionOK(c.job, "RUNNING", "FAILED_FINAL")
             /\ Transition(c.job, "RUNNING", "FAILED_FINAL")
             /\ UNCHANGED <<run, budget>> /\ Goto(r, "idle")
    <3>1. /\ job[c.job].attempt = c.att /\ Row(c).status = "FAILED_FINAL"
          /\ "FAILED_FINAL" \in TerminalStatuses
      BY <1>14, <1>k DEF PollFatalApply, Follows, Reads, Working, TerminalStatuses,
                         FailedStatuses
    <3>2. QED
      BY <1>c, <1>0, <2>2, <3>1, TransitionRegular
  <2>3. QED
    BY <1>c, <1>14, <2>1, <2>2 DEF PollFatalApply, OrRaise
<1>15. QED
  BY <1>1, <1>2, <1>3, <1>4, <1>5, <1>6, <1>7, <1>8, <1>9, <1>10, <1>11, <1>12, <1>13,
     <1>14 DEF Poll

-----------------------------------------------------------------------------
(* _requeue                                                                *)

LEMMA RequeueRegular ==
  ASSUME Worked, EndedStays, NEW r \in Runners, Requeue(r)
  PROVE  Regular(r)
<1> USE WorkedTypes
<1>c. PICK c \in Candidates : c = cand[r] /\ Keyed(c) /\ c.job \in Jobs
  BY DEF Candidates
<1>0. {"idle", "retry_consume"} \subseteq Points \ Noted /\ "retry_apply" \in Points
  BY DEF Points, Stopped, Noted, Intended, Working
<1>k. Follows(at[r], c)
  BY <1>c DEF Worked, OneInv
<1>1. CASE RetryClaim(r)
  <2>1. CASE Decide(r, "idle")
    BY <1>0, <2>1, DecideQuiet
  <2>2. CASE /\ CanClaimExisting(c, {"FAILED_RETRYABLE"}) /\ ClaimExisting(r, c)
             /\ Goto(r, "retry_apply")
    <3>1. job[c.job].attempt = c.att
      BY <2>2 DEF CanClaimExisting, StageIn
    <3>2. Follows("retry_apply", c) /\ Reads("retry_apply", c) /\ Spends("retry_apply", c)
      BY <3>1 DEF Follows, Reads, Spends, Intended, Working
    <3>3. QED
      BY <1>c, <1>0, <2>2, <3>2, QuietStatements, QuietGoes
  <2>3. QED
    BY <1>c, <1>1, <2>1, <2>2 DEF Decide, RetryClaim, OrGiveUp
<1>2. CASE RetryApply(r)
  <2>1. CASE Raise(r)
    BY <2>1, RaiseQuiet
  <2>2. CASE RetryJob(c.job) /\ Goto(r, "retry_consume")
    <3>1. /\ TablesKept' /\ job[c.job].state = "FAILED_RETRYABLE"
          /\ job'[c.job].state = "QUEUED" /\ job'[c.job].attempt = job[c.job].attempt + 1
          /\ \A k \in Jobs \ {c.job} : SameJob(k)
      BY <1>c, <2>2, RetryKeeps
    <3>2. job[c.job].attempt = c.att
      BY <1>2, <1>k, <3>1 DEF RetryApply, Follows
    <3>3. JobMoves(c)
      BY <3>1, <3>2 DEF JobMoves
    <3>4. QED
      BY <1>c, <1>0, <2>2, <3>1, <3>3, GoesPlain DEF Regular
  <2>3. QED
    BY <1>c, <1>2, <2>1, <2>2 DEF RetryApply, OrRaise
<1>3. CASE RetryConsume(r)
  <2>1. CASE Raise(r)
    BY <2>1, RaiseQuiet
  <2>2. CASE MarkRetryConsumed(c) /\ Goto(r, "idle")
    BY <1>c, <1>0, <2>2, QuietStatements, QuietGoes
  <2>3. QED
    BY <1>c, <1>3, <2>1, <2>2 DEF RetryConsume, OrRaise
<1>4. QED
  BY <1>1, <1>2, <1>3 DEF Requeue

-----------------------------------------------------------------------------
(* The recovery candidate: _mark_stale, _submit and the lookup.            *)

LEMMA ReleaseRegular ==
  ASSUME Worked, EndedStays, NEW r \in Runners, NEW st \in JobStates,
         NEW point \in Points \ Noted, ReleaseAndContinue(r, st, point)
  PROVE  Regular(r)
<1> USE WorkedTypes
<1> DEFINE d == [cand[r] EXCEPT !.st = st]
<1>1. CASE Raise(r)
  BY <1>1, RaiseQuiet
<1>2. CASE ReleaseLease(cand[r]) /\ GotoWith(r, point, d)
  <2>1. d \in Candidates
    BY DEF Candidates
  <2>2. Quiet
    BY <1>2, QuietStatements
  <2> HIDE DEF d
  <2>3. QED
    BY <1>2, <2>1, <2>2, PlainPoint, QuietArrives
<1>3. QED
  BY <1>1, <1>2 DEF ReleaseAndContinue

LEMMA RecoveryRegular ==
  ASSUME Worked, EndedStays, NEW r \in Runners, Recovery(r)
  PROVE  Regular(r)
<1> USE WorkedTypes
<1>c. PICK c \in Candidates : c = cand[r] /\ Keyed(c) /\ Row(c) \in RunRows
  BY CandidateKeyed
<1>0. /\ {"idle", "raised", "mark_stale", "quarantine_queued", "quarantine_running",
          "lookup_prepare", "submit_release", "submit_release_cancel",
          "submit_release_lapsed", "submit_stage", "submit_accept", "lookup_claim",
          "lookup_call", "lookup_record", "claimed_reconcile", "cancel"} \subseteq Points \ Noted
      /\ {"submit", "submit_claim", "submit_check", "submit_resume", "submit_call"}
           \subseteq Points
  BY DEF Points, Stopped, Noted, Intended, Working
<1>k. Follows(at[r], c) /\ Spends(at[r], c)
  BY <1>c DEF Worked, OneInv
<1>i. ASSUME NEW point \in Intended, NEW d, job[d.job].attempt = d.att,
             job[d.job].state \in {"RUNNING", "CANCELED"}
      PROVE  Follows(point, d) /\ Reads(point, d) /\ Spends(point, d)
  BY <1>i DEF Follows, Reads, Spends, Intended, Working
<1>s. ASSUME NEW point \in {"submit", "submit_claim"}, NEW d, d.st \in {"QUEUED", "RUNNING"}
      PROVE  Follows(point, d) /\ Reads(point, d) /\ Spends(point, d)
  BY <1>s DEF Follows, Reads, Spends, Intended, Working
<1>1. CASE Recover(r)
  <2>1. c.st \in {"QUEUED", "RUNNING"}
    BY <1>1, <1>k DEF Recover, Follows
  <2>2. PICK point \in {"mark_stale", "submit"} : Decide(r, point)
    BY <1>1 DEF Recover
  <2>3. QED
    BY <1>c, <1>0, <1>s, <2>1, <2>2, DecideQuiet
<1>2. CASE Submit(r)
  <2>1. c.st \in {"QUEUED", "RUNNING"}
    BY <1>2, <1>k DEF Submit, Follows
  <2>2. PICK point \in {"idle", "quarantine_queued", "quarantine_running",
                        "lookup_prepare", "raised", "submit_claim"} : Decide(r, point)
    BY <1>2 DEF Submit
  <2>3. QED
    BY <1>c, <1>0, <1>s, <2>1, <2>2, DecideQuiet
<1>3. CASE MarkStaleJob(r)
  <2>1. CASE Raise(r)
    BY <2>1, RaiseQuiet
  <2>2. CASE MarkStale(cand[r]) /\ Goto(r, "idle")
    BY <1>0, <2>2, MarkStaleQuiet, QuietGoes
  <2>3. QED
    BY <1>3, <2>1, <2>2 DEF MarkStaleJob, OrRaise
<1>4. CASE QuarantineQueuedJob(r) \/ QuarantineRunningDispatch(r)
  <2>1. CASE Decide(r, "idle")
    BY <1>0, <2>1, DecideQuiet
  <2>2. CASE (QuarantineQueued(c) \/ QuarantineRunning(c)) /\ Goto(r, "idle")
    BY <1>c, <1>0, <2>2, QuietStatements, QuietGoes
  <2>3. QED
    BY <1>c, <1>4, <2>1, <2>2
       DEF Decide, QuarantineQueuedJob, QuarantineRunningDispatch, OrGiveUp
<1>5. CASE SubmitClaim(r) \/ LookupClaim(r)
  <2>1. CASE Decide(r, "idle")
    BY <1>0, <2>1, DecideQuiet
  <2>2. CASE CanClaimSubmission(c) /\ ClaimSubmission(r, c)
    <3>1. /\ TablesKept' /\ (StatesSame \/ JobMoves(c)) /\ job'[c.job].attempt = c.att
          /\ job'[c.job].state = IF c.st = "QUEUED" THEN "RUNNING" ELSE c.st
      BY <1>c, <2>2, ClaimKeeps
    <3>2. CASE SubmitClaim(r)
      <4>1. Goto(r, "submit_check") \/ Goto(r, "idle")
        BY <3>2 DEF SubmitClaim, OrGiveUp
      <4>2. CASE Goto(r, "idle")
        BY <1>c, <1>0, <3>1, <4>2, GoesPlain DEF Regular
      <4>3. CASE Goto(r, "submit_check")
        <5>1. job'[c.job].state = "RUNNING"
          BY <1>k, <3>1, <3>2 DEF SubmitClaim, Follows
        <5>2. Follows("submit_check", c)' /\ Reads("submit_check", c)'
              /\ Spends("submit_check", c)'
          BY <3>1, <5>1 DEF Follows, Reads, Spends, Intended, Working
        <5>3. GotoWith(r, "submit_check", c)
          BY <1>c, <4>3 DEF Goto, GotoWith, Stopped, TypeOK
        <5>4. QED
          BY <1>c, <1>0, <3>1, <5>2, <5>3, Arrives DEF Regular
      <4>4. QED
        BY <4>1, <4>2, <4>3
    <3>3. CASE LookupClaim(r)
      <4>1. PICK point \in {"lookup_call", "idle"} : Goto(r, point)
        BY <3>3 DEF LookupClaim, OrGiveUp
      <4>2. QED
        BY <1>c, <1>0, <3>1, <4>1, GoesPlain DEF Regular
    <3>4. QED
      BY <1>5, <3>2, <3>3
  <2>3. QED
    BY <1>c, <1>5, <2>1, <2>2 DEF Decide, SubmitClaim, LookupClaim, OrGiveUp
<1>6. CASE SubmitCheck(r)
  <2>1. job[c.job].attempt = c.att /\ job[c.job].state \in {"RUNNING", "CANCELED"}
    BY <1>6, <1>k DEF SubmitCheck, Follows, Intended
  <2>2. PICK point \in {"submit_release_cancel", "submit_resume"} : Decide(r, point)
    BY <1>6 DEF SubmitCheck
  <2>3. QED
    BY <1>c, <1>0, <1>i, <2>1, <2>2, DecideQuiet DEF Intended
<1>7. CASE SubmitResume(r)
  <2>1. job[c.job].attempt = c.att /\ job[c.job].state \in {"RUNNING", "CANCELED"}
    BY <1>7, <1>k DEF SubmitResume, Follows, Intended
  <2>2. PICK point \in {"submit_release", "submit_release_lapsed", "submit_call"} :
          Decide(r, point)
    BY <1>7 DEF SubmitResume
  <2>3. QED
    BY <1>c, <1>0, <1>i, <2>1, <2>2, DecideQuiet DEF Intended
<1>8. CASE SubmitRelease(r)
  <2>1. CASE Decide(r, "idle")
    BY <1>0, <2>1, DecideQuiet
  <2>2. CASE ReleaseLease(c) /\ Goto(r, "idle")
    BY <1>c, <1>0, <2>2, QuietStatements, QuietGoes
  <2>3. QED
    BY <1>c, <1>8, <2>1, <2>2 DEF Decide, SubmitRelease, OrGiveUp
<1>9. CASE SubmitReleaseCancel(r) \/ SubmitReleaseLapsed(r)
  <2>1. {"CANCELED", "RUNNING"} \subseteq JobStates
    BY DEF JobStates
  <2>2. QED
    BY <1>0, <1>9, <2>1, ReleaseRegular DEF SubmitReleaseCancel, SubmitReleaseLapsed
<1>10. CASE SubmitRecord(r) \/ LookupRecord(r)
  <2>1. CASE Decide(r, "claimed_reconcile")
    BY <1>0, <2>1, DecideQuiet
  <2>2. CASE /\ ~Row(c).ext /\ RecordAcceptance(c)
             /\ \E point \in {"submit_stage", "submit_accept"} : Goto(r, point)
    BY <1>c, <1>0, <2>2, AcceptanceRegular
  <2>3. QED
    BY <1>c, <1>10, <2>1, <2>2 DEF SubmitRecord, LookupRecord
<1>11. CASE SubmitStage(r)
  <2>1. \E point \in {"submit_accept", "idle", "raised"} : Decide(r, point)
    BY <1>11 DEF SubmitStage
  <2>2. QED
    BY <1>0, <2>1, DecideQuiet
<1>12. CASE SubmitAccept(r)
  <2>1. CASE Raise(r)
    BY <2>1, RaiseQuiet
  <2>2. CASE /\ SetJobStage(c, {"RUNNING"}, "plain") /\ UNCHANGED <<run, budget>>
             /\ Goto(r, "idle")
    <3>1. Quiet
      BY <1>c, <2>2, StageQuiet DEF Quiet, RowsSame, SameRow
    <3>2. QED
      BY <1>0, <2>2, <3>1, QuietGoes
  <2>3. QED
    BY <1>c, <1>12, <2>1, <2>2 DEF SubmitAccept, OrRaise
<1>13. CASE SubmitRetry(r)
  <2>1. CASE Raise(r)
    BY <2>1, RaiseQuiet
  <2>2. CASE RecordSubmitTransportFailure(c) /\ Goto(r, "idle")
    <3>1. RowsSame /\ JobsSame /\ ConsumeRetry(c, "submission")
      BY <1>c, <2>2, QuietRow, JobUnchanged
         DEF RecordSubmitTransportFailure, Released, RunRows
    <3>2. RetryAllowed(c, "submission") /\ "submission" \in Budgets
      BY <1>13, <1>k DEF SubmitRetry, Spends, Budgets
    <3>3. QED
      BY <1>c, <1>0, <2>2, <3>1, <3>2, CountedGoes
  <2>3. QED
    BY <1>c, <1>13, <2>1, <2>2 DEF SubmitRetry, OrRaise
<1>14. CASE LookupPrepare(r) \/ LookupCall(r)
  <2>1. \E point \in {"idle", "raised", "lookup_claim", "quarantine_running",
                      "lookup_record", "claimed_reconcile"} : Decide(r, point)
    BY <1>14 DEF LookupPrepare, LookupCall, TooLittleLease
  <2>2. QED
    BY <1>0, <2>1, DecideQuiet
<1>15. CASE ClaimedReconcile(r)
  BY <1>15, MarkQuiet DEF ClaimedReconcile
<1>16. QED
  BY <1>1, <1>2, <1>3, <1>4, <1>5, <1>6, <1>7, <1>8, <1>9, <1>10, <1>11, <1>12, <1>13,
     <1>14, <1>15 DEF Recovery

-----------------------------------------------------------------------------
(* The two calls that reach the provider, and everybody else.              *)

LEMMA RemoteEnds ==
  ASSUME Worked, NEW r \in Runners, NEW s, SetRemote(cand[r], s),
         s \in {Remote(cand[r]), Accepted(cand[r]), "CANCELED"}
  PROVE  EndedStays
<1>1. /\ provider \in [Jobs -> [Attempts -> ProviderStates]] /\ Keyed(cand[r])
  BY WorkedTypes DEF TypeOK
<1>2. \A j \in Jobs, a \in Attempts :
        provider'[j][a] = IF j = cand[r].job /\ a = cand[r].att THEN s ELSE provider[j][a]
  BY <1>1 DEF SetRemote, Keyed
<1>3. Remote(cand[r]) \in TerminalStatuses => s \in TerminalStatuses
  BY DEF Accepted, TerminalStatuses, FailedStatuses
<1>4. QED
  BY <1>2, <1>3 DEF EndedStays, Remote

LEMMA ProviderUnchanged ==
  ASSUME UNCHANGED provider
  PROVE  EndedStays
BY DEF EndedStays

LEMMA RemoteRegular ==
  ASSUME Worked, NEW r \in Runners, CancelCall(r) \/ SubmitCall(r)
  PROVE  Regular(r)
<1> USE WorkedTypes
<1>c. PICK c \in Candidates : c = cand[r]
  OBVIOUS
<1>0. /\ {"cancel_confirmed", "cancel_unconfirmed", "submit_record", "submit_release_lapsed",
          "claimed_reconcile"} \subseteq Points \ Noted
      /\ {"cancel_retry", "submit_retry"} \subseteq Points
  BY DEF Points, Noted, Intended, Working
<1>1. EndedStays
  BY RemoteEnds, ProviderUnchanged DEF CancelCall, SubmitCall
<1>2. CASE CancelCall(r)
  <2>1. CASE \E point \in {"cancel_confirmed", "cancel_unconfirmed"} : Decide(r, point)
    BY <1>0, <1>1, <2>1, DecideQuiet
  <2>2. CASE RetryAllowed(c, "cancel") /\ Decide(r, "cancel_retry")
    <3>1. Follows("cancel_retry", c) /\ Reads("cancel_retry", c) /\ Spends("cancel_retry", c)
      BY <2>2 DEF Follows, Reads, Spends, Intended, Working
    <3>2. QED
      BY <1>c, <1>0, <1>1, <2>2, <3>1, DecideQuiet
  <2>3. QED
    BY <1>c, <1>2, <2>1, <2>2 DEF CancelCall, TooLittleLease
<1>3. CASE SubmitCall(r)
  <2>1. CASE \E point \in {"submit_record", "submit_release_lapsed", "claimed_reconcile"} :
               Decide(r, point)
    BY <1>0, <1>1, <2>1, DecideQuiet
  <2>2. CASE RetryAllowed(c, "submission") /\ Decide(r, "submit_retry")
    <3>1. Follows("submit_retry", c) /\ Reads("submit_retry", c) /\ Spends("submit_retry", c)
      BY <2>2 DEF Follows, Reads, Spends, Intended, Working
    <3>2. QED
      BY <1>c, <1>0, <1>1, <2>2, <3>1, DecideQuiet
  <2>3. QED
    BY <1>c, <1>3, <2>1, <2>2 DEF SubmitCall, TooLittleLease
<1>4. QED
  BY <1>2, <1>3

\* Every step of the runner, whatever it had seen and however late it comes.
LEMMA RunnerRegular ==
  ASSUME Worked, NEW r \in Runners, RunnerStep(r)
  PROVE  Regular(r)
<1>1. CASE LocalStep(r)
  <2>1. EndedStays
    BY <1>1, ProviderUnchanged DEF LocalStep
  <2>2. QED
    BY <1>1, <2>1, TickRegular, CancelRegular, TerminalRegular, PollRegular, RequeueRegular,
       RecoveryRegular DEF LocalStep
<1>2. CASE RemoteStep(r)
  BY <1>2, RemoteRegular DEF RemoteStep
<1>3. QED
  BY <1>1, <1>2 DEF RunnerStep

LEMMA StopRegular ==
  ASSUME Worked, NEW r \in Runners, Crash(r) \/ Restart(r)
  PROVE  OneInv'
<1>1. {"down", "idle"} \subseteq Points \ Noted
  BY DEF Points, Stopped, Noted, Intended, Working
<1>2. PICK point \in {"down", "idle"} : Goto(r, point)
  BY DEF Crash, Restart
<1>3. Quiet /\ EndedStays
  BY NothingQuiet, ProviderUnchanged DEF Crash, Restart
<1>4. QED
  BY <1>1, <1>2, <1>3, QuietGoes DEF Regular

\* A step of somebody else, under which the runner stays where it is.
LEMMA OthersQuiet ==
  ASSUME Worked, Quiet, EndedStays, UNCHANGED program
  PROVE  OneInv'
<1> USE WorkedTypes
<1>1. ASSUME NEW r \in Runners
      PROVE  Follows(at[r], cand[r])' /\ Reads(at[r], cand[r])' /\ Spends(at[r], cand[r])'
  <2>1. PICK c \in Candidates : c = cand[r]
    OBVIOUS
  <2>2. PICK point : point = at[r]
    OBVIOUS
  <2>3. Follows(point, c) /\ Reads(point, c) /\ Spends(point, c)
    BY <2>1, <2>2 DEF Worked, OneInv
  <2>4. Follows(point, c)' /\ Reads(point, c)' /\ Spends(point, c)'
    BY <2>3, QuietKeeps
  <2>5. at'[r] = point /\ cand'[r] = c
    BY <2>1, <2>2 DEF program
  <2>6. QED
    BY <2>4, <2>5 DEF Follows, Reads, Spends, Row, RetryAllowed
<1>2. QED
  BY <1>1, QuietKeeps DEF OneInv

\* A user or the operator moves one job, on which the runner is not at work unless
\* the move is a cancellation or a result the operator brings.
LEMMA OthersMoveJob ==
  ASSUME Worked, TablesKept', UNCHANGED <<program, run, budget>>, NEW j \in Jobs,
         \A k \in Jobs \ {j} : SameJob(k),
         job'[j].state # "FAILED_RETRYABLE",
         \/ job[j].state \in {"AWAITING_PAID_APPROVAL", "QUEUED", "FAILED_RETRYABLE"}
         \/ job'[j].attempt = job[j].attempt /\ job'[j].state \in {"CANCELED", job[j].state}
         \/ /\ PlanExecutor[j] = Supervised
            /\ job'[j].attempt = job[j].attempt /\ job'[j].state = "SUCCEEDED"
  PROVE  OneInv'
<1> USE WorkedTypes
<1>1. ASSUME NEW r \in Runners
      PROVE  Follows(at[r], cand[r])' /\ Reads(at[r], cand[r])' /\ Spends(at[r], cand[r])'
  <2>1. PICK c \in Candidates : c = cand[r]
    OBVIOUS
  <2>2. PICK point : point = at[r]
    OBVIOUS
  <2>3. c.job \in Jobs /\ Follows(point, c) /\ Reads(point, c) /\ Spends(point, c)
    BY <2>1, <2>2 DEF Worked, OneInv, Candidates
  <2>4. at'[r] = point /\ cand'[r] = c
    BY <2>1, <2>2 DEF program
  <2>5. Reads(point, c)' /\ Spends(point, c)'
    BY <2>3 DEF Reads, Spends, Row, RetryAllowed
  <2>6. point \in Intended => PlanExecutor[c.job] # Supervised
    <3>1. point \in Intended => Matches(r)
      BY <2>2 DEF Worked, NoOperatedWork, Intended, Submitting
    <3>2. QED
      BY <2>1, <3>1, ExecutorAssumption DEF Matches, TypeOK
  <2>7. Follows(point, c)'
    <3>1. CASE c.job # j
      BY <2>3, <3>1 DEF SameJob, Follows
    <3>2. CASE c.job = j
      BY <2>3, <2>6, <3>2 DEF Follows
    <3>3. QED
      BY <3>1, <3>2
  <2>8. QED
    BY <2>4, <2>5, <2>7 DEF Follows, Reads, Spends, Row, RetryAllowed
<1>2. QED
  BY <1>1 DEF OneInv

LEMMA ApiRegular ==
  ASSUME Worked, NEW j \in Jobs, ApiRequest(j)
  PROVE  OneInv'
<1> USE WorkedTypes
<1>1. job \in [Jobs -> JobRows] /\ EndedStays /\ UNCHANGED program
  BY ProviderUnchanged DEF StoreTypeOK, ApiRequest
<1>2. CASE Approve(j) \/ CancelJob(j)
  <2>1. /\ UNCHANGED <<run, budget>> /\ RowsSame
    BY <1>2 DEF Approve, CancelJob, RowsSame, SameRow
  <2>2. /\ job'[j].attempt = job[j].attempt /\ job'[j].manifest = job[j].manifest
        /\ \A k \in Jobs \ {j} : SameJob(k)
        /\ \/ job[j].state = "AWAITING_PAID_APPROVAL" /\ job'[j].state = "QUEUED"
           \/ job[j].state \in {"QUEUED", "RUNNING"} /\ job'[j].state = "CANCELED"
    <3>1. CASE Approve(j)
      BY <1>1, <3>1 DEF Approve, SameJob, JobRows
    <3>2. CASE CancelJob(j)
      <4>1. PICK from \in {"QUEUED", "RUNNING"} :
              CanTransition(j, from, "CANCELED") /\ Transition(j, from, "CANCELED")
        BY <3>2 DEF CancelJob
      <4>2. /\ job[j].state = from
            /\ job' = [job EXCEPT ![j].state = "CANCELED", ![j].attempt = job[j].attempt]
        BY <4>1 DEF CanTransition, Transition, DuplicateCancel, NextAttempt
      <4>3. QED
        BY <1>1, <4>1, <4>2 DEF SameJob, JobRows
    <3>3. QED
      BY <1>2, <3>1, <3>2
  <2>3. TablesKept'
    BY <1>1, <2>1, <2>2, UnfinishedKeeps DEF FailedStatuses
  <2>4. QED
    BY <1>1, <2>1, <2>2, <2>3, OthersMoveJob
<1>3. CASE RetryJob(j)
  BY <1>1, <1>3, RetryKeeps, OthersMoveJob
<1>4. QED
  BY <1>2, <1>3 DEF ApiRequest

LEMMA OperatorRegular ==
  ASSUME Worked, NEW j \in Jobs, Operator(j)
  PROVE  OneInv'
<1> USE WorkedTypes
<1>1. /\ job \in [Jobs -> JobRows] /\ EndedStays /\ UNCHANGED <<program, run, budget>>
      /\ RowsSame /\ PlanExecutor[j] = Supervised
  BY ProviderUnchanged DEF StoreTypeOK, Operator, RowsSame, SameRow
<1>2. CASE SupervisedPrepare(j) \/ SupervisedFinish(j)
  <2>1. /\ job'[j].attempt = job[j].attempt /\ job'[j].manifest = job[j].manifest
        /\ \A k \in Jobs \ {j} : SameJob(k)
        /\ \/ job[j].state = "QUEUED" /\ job'[j].state = "RUNNING"
           \/ job[j].state = "RUNNING" /\ job'[j].state = "SUCCEEDED"
    BY <1>1, <1>2 DEF SupervisedPrepare, SupervisedFinish, CanTransition, SameJob, JobRows
  <2>2. TablesKept'
    BY <1>1, <2>1, UnfinishedKeeps DEF FailedStatuses
  <2>3. QED
    BY <1>1, <2>1, <2>2, OthersMoveJob
<1>3. CASE SupervisedBind(j)
  <2>1. TablesKept' /\ StatesSame /\ job[j].state = "SUCCEEDED"
    BY <1>1, <1>3, BindKeeps DEF SupervisedBind
  <2>2. \A k \in Jobs \ {j} : SameJob(k)
    BY <1>1, <1>3 DEF SupervisedBind, BindArtifactManifest, SameJob, JobRows
  <2>3. QED
    BY <1>1, <2>1, <2>2, OthersMoveJob DEF StatesSame
<1>4. QED
  BY <1>2, <1>3 DEF Operator

LEMMA ProviderRegular ==
  ASSUME Worked, NEW j \in Jobs, NEW a \in Attempts, ProviderStep(j, a)
  PROVE  OneInv'
<1>1. EndedStays
  <2>1. provider \in [Jobs -> [Attempts -> ProviderStates]]
    BY WorkedTypes DEF TypeOK
  <2>2. PICK s : provider' = [provider EXCEPT ![j][a] = s]
    BY DEF ProviderStep
  <2>3. provider[j][a] \notin TerminalStatuses
    BY DEF ProviderStep, TerminalStatuses, FailedStatuses
  <2>4. \A k \in Jobs, b \in Attempts : k # j \/ b # a => provider'[k][b] = provider[k][b]
    BY <2>1, <2>2
  <2>5. QED
    BY <2>3, <2>4 DEF EndedStays
<1>2. Quiet /\ UNCHANGED program
  BY NothingQuiet DEF ProviderStep
<1>3. QED
  BY <1>1, <1>2, OthersQuiet

LEMMA ClockRegular ==
  ASSUME Worked, NEW j \in Jobs, NEW a \in Attempts,
         LeaseRunsOut(j, a) \/ ActionComesDue(j, a) \/ ApprovalLapses(j)
  PROVE  OneInv'
<1>1. EndedStays /\ UNCHANGED program /\ budget' = budget
  BY ProviderUnchanged DEF LeaseRunsOut, ActionComesDue, ApprovalLapses
<1>2. JobsSame
  <2>1. job \in [Jobs -> JobRows]
    BY WorkedTypes DEF StoreTypeOK
  <2>2. job' = job \/ job' = [job EXCEPT ![j].window = "lapsed"]
    BY DEF LeaseRunsOut, ActionComesDue, ApprovalLapses
  <2>3. QED
    BY <2>1, <2>2 DEF JobsSame, SameJob, JobRows
<1>3. RowsSame
  <2>1. run \in [Jobs -> [Attempts -> RunRows]]
    BY WorkedTypes DEF StoreTypeOK
  <2>2. \/ run' = run
        \/ run' = [run EXCEPT ![j][a].over = TRUE]
        \/ run' = [run EXCEPT ![j][a].next = "due"]
    BY DEF LeaseRunsOut, ActionComesDue, ApprovalLapses
  <2>3. \A k \in Jobs, b \in Attempts : k # j \/ b # a => run'[k][b] = run[k][b]
    BY <2>1, <2>2
  <2>4. run'[j][a].status = run[j][a].status /\ run'[j][a].ext = run[j][a].ext
    <3>1. run[j][a] \in RunRows
      BY <2>1
    <3>2. run'[j][a] \in {run[j][a], [run[j][a] EXCEPT !.over = TRUE],
                          [run[j][a] EXCEPT !.next = "due"]}
      BY <2>1, <2>2
    <3>3. QED
      BY <3>1, <3>2 DEF RunRows
  <2>5. QED
    BY <2>3, <2>4 DEF RowsSame, SameRow
<1>4. QED
  BY <1>1, <1>2, <1>3, OthersQuiet DEF Quiet

LEMMA InitOneInv == Init => OneInv
<1> SUFFICES ASSUME Init
             PROVE  OneInv
  OBVIOUS
<1>1. \A j \in Jobs : /\ job[j].state = "AWAITING_PAID_APPROVAL" /\ job[j].attempt = 1
                      /\ ~job[j].manifest
                      /\ \A s \in Budgets : budget[j][s] = 0
                      /\ \A a \in Attempts : run[j][a] = NoRow
  BY DEF Init, StoreInit
<1>2. StatusHasId /\ ResultsAgree
  BY <1>1 DEF StatusHasId, ResultsAgree, NoRow, FailedStatuses
<1>3. PastIsOver
  BY <1>1, BoundsAssumption DEF PastIsOver, Attempts
<1>4. BudgetsKept
  BY <1>1, BoundsAssumption DEF BudgetsKept, RetryBudgetBounded, Budgets
<1>5. \A r \in Runners : at[r] = "idle"
  BY DEF Init
<1>6. "idle" \notin Noted
  BY DEF Noted, Intended, Working
<1>7. \A r \in Runners : /\ Follows(at[r], cand[r]) /\ Reads(at[r], cand[r])
                         /\ Spends(at[r], cand[r])
  BY <1>5, <1>6 DEF Follows, Reads, Spends, Noted, Intended, Working
<1>8. QED
  BY <1>2, <1>3, <1>4, <1>7 DEF OneInv, TablesKept

LEMMA OneInvKept == Worked /\ [Next]_vars => OneInv'
<1> SUFFICES ASSUME Worked, [Next]_vars
             PROVE  OneInv'
  OBVIOUS
<1>1. ASSUME NEW r \in Runners, RunnerStep(r) \/ Crash(r) \/ Restart(r)
      PROVE  OneInv'
  BY <1>1, RunnerRegular, StopRegular DEF Regular
<1>2. ASSUME NEW j \in Jobs, ApiRequest(j) \/ Operator(j)
      PROVE  OneInv'
  BY <1>2, ApiRegular, OperatorRegular
<1>3. ASSUME NEW j \in Jobs, ApprovalLapses(j)
      PROVE  OneInv'
  <2>1. 1 \in Attempts
    BY BoundsAssumption DEF Attempts
  <2>2. QED
    BY <1>3, <2>1, ClockRegular
<1>4. ASSUME NEW j \in Jobs, NEW a \in Attempts,
             ProviderStep(j, a) \/ LeaseRunsOut(j, a) \/ ActionComesDue(j, a)
      PROVE  OneInv'
  BY <1>4, ProviderRegular, ClockRegular
<1>5. CASE UNCHANGED vars
  <2>1. Quiet /\ EndedStays /\ UNCHANGED program
    BY <1>5, NothingQuiet, ProviderUnchanged DEF vars
  <2>2. QED
    BY <2>1, OthersQuiet
<1>6. QED
  BY <1>1, <1>2, <1>3, <1>4, <1>5 DEF Next

LEMMA WorkedAlways == SingleWorker /\ Spec => []Worked
<1>1. SingleWorker /\ Init => Worked
  <2>1. Init => NoOperatedWork
    BY DEF Init, NoOperatedWork, OperatedStartsNoWork, Submitting
  <2>2. Init => Holding
    BY DEF Init, Holding, Holds
  <2>3. QED
    BY <2>1, <2>2, InitIInv, InitOneInv DEF Worked
<1>2. Worked /\ [Next]_vars => Worked'
  BY NextIInv, NoOperatedWorkKept, HoldingKept, OneInvKept DEF Worked, SingleWorker
<1>3. QED
  BY <1>1, <1>2, PTL DEF Spec

-----------------------------------------------------------------------------
(* What one worker keeps.                                                  *)

\* With one worker, whatever the provider does, however often the worker crashes
\* and whenever a user cancels or retries: a failed job has failed as its current
\* run did, a succeeded one has the result its current run reported, and a manifest
\* is bound to a success only.
THEOREM ResultsAreOfTheRun == SingleWorker /\ Spec => []ResultMatchesRun
<1>1. Worked => ResultMatchesRun
  BY DEF Worked, OneInv, TablesKept, ResultsAgree, ResultMatchesRun
<1>2. QED
  BY <1>1, WorkedAlways, PTL

\* With one worker, a new attempt starts only when the run of the last one is over
\* at the provider: a job never has two paid runs in progress.
THEOREM PaidRunsFollowEachOther == SingleWorker /\ Spec => []OnePaidRun
<1>1. Worked => OnePaidRun
  BY DEF Worked, OneInv, TablesKept, PastIsOver, OnePaidRun, LiveStatuses,
         TerminalStatuses, FailedStatuses
<1>2. QED
  BY <1>1, WorkedAlways, PTL

\* With one worker, the failures counted over all attempts of a job keep to the
\* plan's budget although the allowance is read before the call and counted after
\* it; only the failure that ends a run for good may exceed it, by one.
THEOREM RetriesAreBounded == SingleWorker /\ Spec => []RetryBudgetBounded
<1>1. Worked => RetryBudgetBounded
  BY DEF Worked, OneInv, TablesKept, BudgetsKept
<1>2. QED
  BY <1>1, WorkedAlways, PTL

\* A worker that resumes with the candidate of a past attempt never moves the job,
\* although JobService.transition compares only the state.
THEOREM StaleCallersConflict == SingleWorker /\ Spec => StaleCallerConflicts
<1>1. ASSUME Worked, [Next]_vars, NEW r \in Runners, Busy[r],
             cand[r].att < job[cand[r].job].attempt, at'[r] # at[r]
      PROVE  job'[cand[r].job].state = job[cand[r].job].state
  <2> USE WorkedTypes
  <2>1. cand[r].job \in Jobs /\ cand[r].att \in Attempts
    BY <1>1 DEF Keyed
  <2>2. CASE RunnerStep(r)
    <3>1. StatesSame \/ JobMoves(cand[r])
      BY <1>1, <2>2, RunnerRegular DEF Regular
    <3>2. job[cand[r].job].attempt # cand[r].att
      BY <1>1, <2>1 DEF Attempts
    <3>3. QED
      BY <2>1, <3>1, <3>2 DEF StatesSame, JobMoves
  <2>3. CASE Crash(r) \/ Restart(r)
    BY <2>3 DEF Crash, Restart, store
  <2>4. RunnerStep(r) \/ Crash(r) \/ Restart(r)
    <3>1. \A q \in Runners : q = r
      BY <1>1 DEF Worked, SingleWorker
    <3>2. UNCHANGED program \/ \E q \in Runners : RunnerStep(q) \/ Crash(q) \/ Restart(q)
      BY <1>1 DEF Next, vars, ApiRequest, Operator, ApprovalLapses, ProviderStep,
                  LeaseRunsOut, ActionComesDue
    <3>3. QED
      BY <1>1, <3>1, <3>2 DEF program
  <2>5. QED
    BY <2>2, <2>3, <2>4
<1>2. Worked /\ [Next]_vars =>
        [\A r \in Runners :
           Busy[r] /\ cand[r].att < job[cand[r].job].attempt /\ at'[r] # at[r] =>
             job'[cand[r].job].state = job[cand[r].job].state]_vars
  BY <1>1
<1>3. QED
  BY <1>2, WorkedAlways, PTL DEF Spec, StaleCallerConflicts

-----------------------------------------------------------------------------
(* One worker implements JobLifecycle: every step is a step of the         *)
(* lifecycle or leaves it as it is.                                        *)

\* The mapped variables, as functions of the state.
States   == [j \in Jobs |-> job[j].state]
Numbers  == [j \in Jobs |-> job[j].attempt]
Begun    == [j \in Jobs |-> {a \in Attempts : provider[j][a] # "absent"}]
Operated == {j \in Jobs : PlanExecutor[j] = Supervised}

\* The provider forgets nothing and begins nothing.
LEMMA BegunSame ==
  ASSUME \A j \in Jobs, a \in Attempts : provider[j][a] = "absent" <=> provider'[j][a] = "absent"
  PROVE  Begun' = Begun
BY DEF Begun

LEMMA StatesStay ==
  ASSUME StatesSame
  PROVE  States' = States /\ Numbers' = Numbers
BY DEF StatesSame, States, Numbers

\* One job moves.
LEMMA OneJobMoves ==
  ASSUME NEW j \in Jobs, \A k \in Jobs \ {j} : SameJob(k)
  PROVE  /\ States' = [States EXCEPT ![j] = job'[j].state]
         /\ Numbers' = [Numbers EXCEPT ![j] = job'[j].attempt]
         /\ job'[j].attempt = job[j].attempt => Numbers' = Numbers
BY DEF SameJob, States, Numbers

\* The step a runner makes a job take.
LEMMA JobMovesLifecycle ==
  ASSUME Worked, NEW r \in Runners, JobMoves(cand[r]), Begun' = Begun
  PROVE  Lifecycle!Next
<1> USE WorkedTypes
<1>c. PICK c \in Candidates : c = cand[r] /\ c.job \in Jobs /\ c.att \in Attempts
  BY DEF Candidates
<1>1. /\ job[c.job].attempt = c.att
      /\ \A j \in Jobs \ {c.job} : SameJob(j)
  BY <1>c DEF JobMoves
<1>2. /\ States' = [States EXCEPT ![c.job] = job'[c.job].state]
      /\ Numbers' = [Numbers EXCEPT ![c.job] = job'[c.job].attempt]
      /\ job'[c.job].attempt = c.att => Numbers' = Numbers
  BY <1>c, <1>1, OneJobMoves
<1>3. States[c.job] = job[c.job].state /\ Numbers[c.job] = c.att
  BY <1>c, <1>1 DEF States, Numbers
<1>4. CASE job[c.job].state = "QUEUED" /\ job'[c.job].state = "RUNNING"
           /\ job'[c.job].attempt = c.att
  <2>1. Lifecycle!Run(c.job)
    BY <1>2, <1>3, <1>4 DEF Lifecycle!Run, Lifecycle!Move, States, Numbers, Begun
  <2>2. QED
    BY <1>c, <2>1 DEF Lifecycle!Next
<1>5. CASE /\ job[c.job].state = "RUNNING" /\ job'[c.job].state \in TerminalStatuses
           /\ job'[c.job].state = Row(c).status /\ job'[c.job].attempt = c.att
  <2>1. CASE job'[c.job].state = "CANCELED"
    <3>1. Lifecycle!Cancel(c.job)
      BY <1>2, <1>3, <1>5, <2>1 DEF Lifecycle!Cancel, Lifecycle!Move, States, Numbers, Begun
    <3>2. QED
      BY <1>c, <3>1 DEF Lifecycle!Next
  <2>2. CASE job'[c.job].state # "CANCELED"
    <3>1. provider[c.job][c.att] # "absent"
      BY <1>c, <1>5, LiveIsFound
         DEF Worked, Remote, TerminalStatuses, FailedStatuses
    <3>2. c.att \in Begun[c.job]
      BY <1>c, <3>1 DEF Begun
    <3>3. Lifecycle!Finish(c.job)
      BY <1>2, <1>3, <1>5, <2>2, <3>2 DEF Lifecycle!Finish, Lifecycle!Move, States, Numbers,
         Begun, TerminalStatuses, FailedStatuses
    <3>4. QED
      BY <1>c, <3>3 DEF Lifecycle!Next
  <2>3. QED
    BY <2>1, <2>2
<1>6. CASE /\ job[c.job].state = "FAILED_RETRYABLE" /\ job'[c.job].state = "QUEUED"
           /\ job'[c.job].attempt = c.att + 1
  <2>1. Lifecycle!Retry(c.job)
    BY <1>2, <1>3, <1>6 DEF Lifecycle!Retry, Lifecycle!Move, States, Numbers, Begun
  <2>2. QED
    BY <1>c, <2>1 DEF Lifecycle!Next
<1>7. QED
  BY <1>c, <1>4, <1>5, <1>6 DEF JobMoves

\* A provider call concerns one run, of the current attempt when it is a submission.
LEMMA CallLifecycle ==
  ASSUME Worked, NEW r \in Runners, CancelCall(r) \/ SubmitCall(r)
  PROVE  [Lifecycle!Next]_(Lifecycle!lifecycle)
<1> USE WorkedTypes
<1>c. PICK c \in Candidates : c = cand[r] /\ c.job \in Jobs /\ c.att \in Attempts
  BY DEF Candidates
<1>1. StatesSame /\ States' = States /\ Numbers' = Numbers
  <2>1. UNCHANGED store
    BY DEF CancelCall, TooLittleLease, SubmitCall, Decide
  <2>2. QED
    BY <2>1, StatesStay DEF StatesSame, store
<1>2. provider \in [Jobs -> [Attempts -> ProviderStates]]
  BY DEF TypeOK
<1>3. PICK s \in {Remote(c), Accepted(c), "CANCELED"} :
        /\ provider' = provider \/ provider' = [provider EXCEPT ![c.job][c.att] = s]
        /\ CancelCall(r) => Remote(c) # "absent"
  <2>1. CASE CancelCall(r)
    <3>1. Remote(c) # "absent"
      BY <1>c, <2>1 DEF CancelCall, Worked, IInv, Knows, Found
    <3>2. \/ provider' = provider
          \/ \E s \in {Remote(c), "CANCELED"} : provider' = [provider EXCEPT ![c.job][c.att] = s]
      BY <1>c, <2>1 DEF CancelCall, SetRemote
    <3>3. QED
      BY <3>1, <3>2
  <2>2. CASE SubmitCall(r)
    <3>1. ~CancelCall(r)
      BY <2>2 DEF CancelCall, SubmitCall
    <3>2. \/ provider' = provider
          \/ \E s \in {Remote(c), Accepted(c)} : provider' = [provider EXCEPT ![c.job][c.att] = s]
      BY <1>c, <2>2 DEF SubmitCall, SetRemote
    <3>3. QED
      BY <3>1, <3>2
  <2>3. QED
    BY <2>1, <2>2
<1>4. CASE provider' = provider \/ Remote(c) # "absent" \/ s = "absent"
  <2>1. ASSUME NEW j \in Jobs, NEW a \in Attempts
        PROVE  provider[j][a] = "absent" <=> provider'[j][a] = "absent"
    <3>1. s = "absent" => Remote(c) = "absent"
      BY <1>3 DEF Accepted
    <3>2. provider'[j][a] = IF provider' # provider /\ j = c.job /\ a = c.att
                              THEN s ELSE provider[j][a]
      BY <1>c, <1>2, <1>3
    <3>3. QED
      BY <1>4, <3>1, <3>2 DEF Remote
  <2>2. Begun' = Begun
    BY <2>1, BegunSame
  <2>3. QED
    BY <1>1, <2>2 DEF Lifecycle!lifecycle, States, Numbers, Begun
<1>5. CASE provider' # provider /\ Remote(c) = "absent" /\ s # "absent"
  <2>1. SubmitCall(r) /\ job[c.job].attempt = c.att
        /\ job[c.job].state \in {"RUNNING", "CANCELED"}
    BY <1>c, <1>3, <1>5 DEF SubmitCall, Worked, OneInv, Follows, Intended
  <2>2. Begun' = [Begun EXCEPT ![c.job] = @ \cup {c.att}]
    <3>1. \A j \in Jobs, a \in Attempts :
            provider'[j][a] = IF j = c.job /\ a = c.att THEN s ELSE provider[j][a]
      BY <1>2, <1>3, <1>5
    <3>2. \A j \in Jobs : {a \in Attempts : provider'[j][a] # "absent"}
                            = IF j = c.job THEN Begun[c.job] \cup {c.att} ELSE Begun[j]
      BY <1>c, <1>5, <3>1 DEF Begun
    <3>3. QED
      BY <1>c, <3>2 DEF Begun
  <2>3. Lifecycle!Start(c.job)
    BY <1>c, <1>1, <2>1, <2>2 DEF Lifecycle!Start, States, Numbers, Begun
  <2>4. QED
    BY <1>c, <2>3 DEF Lifecycle!Next
<1>6. QED
  BY <1>4, <1>5

LEMMA RunnerLifecycle ==
  ASSUME Worked, NEW r \in Runners, RunnerStep(r)
  PROVE  [Lifecycle!Next]_(Lifecycle!lifecycle)
<1>1. CASE LocalStep(r)
  <2>1. StatesSame \/ JobMoves(cand[r])
    BY <1>1, RunnerRegular DEF RunnerStep, Regular
  <2>2. Begun' = Begun
    BY <1>1, BegunSame DEF LocalStep
  <2>3. CASE StatesSame
    BY <2>2, <2>3, StatesStay DEF Lifecycle!lifecycle, States, Numbers, Begun
  <2>4. CASE JobMoves(cand[r])
    BY <2>2, <2>4, JobMovesLifecycle
  <2>5. QED
    BY <2>1, <2>3, <2>4
<1>2. CASE RemoteStep(r)
  BY <1>2, CallLifecycle DEF RemoteStep
<1>3. QED
  BY <1>1, <1>2 DEF RunnerStep

\* The users' requests and the operator's steps are moves of the lifecycle.
LEMMA PeopleLifecycle ==
  ASSUME Worked, NEW j \in Jobs, ApiRequest(j) \/ Operator(j)
  PROVE  [Lifecycle!Next]_(Lifecycle!lifecycle)
<1> USE WorkedTypes
<1>1. job \in [Jobs -> JobRows] /\ Begun' = Begun
  BY BegunSame DEF StoreTypeOK, ApiRequest, Operator
<1>2. States[j] = job[j].state /\ Numbers[j] = job[j].attempt
  BY DEF States, Numbers
<1>3. CASE Approve(j)
  <2>1. /\ \A k \in Jobs \ {j} : SameJob(k)
        /\ job[j].state = "AWAITING_PAID_APPROVAL" /\ job'[j].state = "QUEUED"
        /\ job'[j].attempt = job[j].attempt
    BY <1>1, <1>3 DEF Approve, SameJob, JobRows
  <2>2. States' = [States EXCEPT ![j] = "QUEUED"] /\ Numbers' = Numbers
    BY <2>1, OneJobMoves
  <2>3. Lifecycle!Queue(j)
    BY <1>1, <1>2, <2>1, <2>2 DEF Lifecycle!Queue, Lifecycle!Move, States, Numbers, Begun
  <2>4. QED
    BY <2>3 DEF Lifecycle!Next
<1>4. CASE CancelJob(j)
  <2>1. PICK from \in {"QUEUED", "RUNNING"} :
          CanTransition(j, from, "CANCELED") /\ Transition(j, from, "CANCELED")
    BY <1>4 DEF CancelJob
  <2>2. /\ job[j].state = from
        /\ job' = [job EXCEPT ![j].state = "CANCELED", ![j].attempt = job[j].attempt]
    BY <2>1 DEF CanTransition, Transition, DuplicateCancel, NextAttempt
  <2>3. /\ \A k \in Jobs \ {j} : SameJob(k)
        /\ job'[j].state = "CANCELED" /\ job'[j].attempt = job[j].attempt
    BY <1>1, <2>2 DEF SameJob, JobRows
  <2>4. States' = [States EXCEPT ![j] = "CANCELED"] /\ Numbers' = Numbers
    BY <2>3, OneJobMoves
  <2>5. Lifecycle!Cancel(j)
    BY <1>1, <1>2, <2>1, <2>2, <2>4 DEF Lifecycle!Cancel, Lifecycle!Move, States, Numbers, Begun
  <2>6. QED
    BY <2>5 DEF Lifecycle!Next
<1>5. CASE RetryJob(j) /\ UNCHANGED provider
  <2>1. /\ job[j].state = "FAILED_RETRYABLE" /\ job'[j].state = "QUEUED"
        /\ job'[j].attempt = job[j].attempt + 1
        /\ \A k \in Jobs \ {j} : SameJob(k)
    BY <1>5, RetryKeeps, ProviderUnchanged
  <2>2. /\ States' = [States EXCEPT ![j] = "QUEUED"]
        /\ Numbers' = [Numbers EXCEPT ![j] = job[j].attempt + 1]
    BY <2>1, OneJobMoves
  <2>3. Lifecycle!Retry(j)
    BY <1>1, <1>2, <2>1, <2>2 DEF Lifecycle!Retry, Lifecycle!Move, States, Numbers, Begun
  <2>4. QED
    BY <2>3 DEF Lifecycle!Next
<1>6. CASE Operator(j)
  <2>0. PlanExecutor[j] = Supervised
    BY <1>6 DEF Operator
  <2>1. CASE SupervisedPrepare(j)
    <3>1. /\ \A k \in Jobs \ {j} : SameJob(k)
          /\ job[j].state = "QUEUED" /\ job'[j].state = "RUNNING"
          /\ job'[j].attempt = job[j].attempt
      BY <1>1, <2>1 DEF SupervisedPrepare, CanTransition, SameJob, JobRows
    <3>2. States' = [States EXCEPT ![j] = "RUNNING"] /\ Numbers' = Numbers
      BY <3>1, OneJobMoves
    <3>3. Lifecycle!Run(j)
      BY <1>1, <1>2, <3>1, <3>2 DEF Lifecycle!Run, Lifecycle!Move, States, Numbers, Begun
    <3>4. QED
      BY <3>3 DEF Lifecycle!Next
  <2>2. CASE SupervisedFinish(j)
    <3>1. /\ \A k \in Jobs \ {j} : SameJob(k)
          /\ job[j].state = "RUNNING" /\ job'[j].state = "SUCCEEDED"
          /\ job'[j].attempt = job[j].attempt
      BY <1>1, <2>2 DEF SupervisedFinish, CanTransition, SameJob, JobRows
    <3>2. States' = [States EXCEPT ![j] = "SUCCEEDED"] /\ Numbers' = Numbers
      BY <3>1, OneJobMoves
    <3>3. Lifecycle!Finish(j)
      BY <1>1, <1>2, <2>0, <3>1, <3>2
         DEF Lifecycle!Finish, Lifecycle!Move, States, Numbers, Begun
    <3>4. QED
      BY <3>3 DEF Lifecycle!Next
  <2>3. CASE SupervisedBind(j)
    <3>1. StatesSame
      BY <1>1, <2>3 DEF SupervisedBind, BindArtifactManifest, StatesSame, JobRows
    <3>2. QED
      BY <1>1, <3>1, StatesStay DEF Lifecycle!lifecycle, States, Numbers, Begun
  <2>4. QED
    BY <1>6, <2>1, <2>2, <2>3 DEF Operator
<1>7. QED
  BY <1>3, <1>4, <1>5, <1>6 DEF ApiRequest

LEMMA RestLifecycle ==
  ASSUME Worked,
         \/ \E r \in Runners : Crash(r) \/ Restart(r)
         \/ \E j \in Jobs : ApprovalLapses(j)
         \/ \E j \in Jobs, a \in Attempts :
              ProviderStep(j, a) \/ LeaseRunsOut(j, a) \/ ActionComesDue(j, a)
         \/ UNCHANGED vars
  PROVE  [Lifecycle!Next]_(Lifecycle!lifecycle)
<1> USE WorkedTypes
<1>1. StatesSame
  <2>1. job' = job \/ \E j \in Jobs : job' = [job EXCEPT ![j].window = "lapsed"]
    BY DEF Crash, Restart, ApprovalLapses, ProviderStep, LeaseRunsOut, ActionComesDue,
           vars, store
  <2>2. QED
    BY <2>1 DEF StatesSame, StoreTypeOK, JobRows
<1>2. ASSUME NEW k \in Jobs, NEW b \in Attempts
      PROVE  provider[k][b] = "absent" <=> provider'[k][b] = "absent"
  <2>1. CASE provider' = provider
    BY <2>1
  <2>2. CASE \E j \in Jobs, a \in Attempts : ProviderStep(j, a)
    <3>1. PICK j \in Jobs, a \in Attempts : ProviderStep(j, a)
      BY <2>2
    <3>2. provider[j][a] # "absent"
      BY <3>1 DEF ProviderStep
    <3>3. PICK s \in {"RUNNING"} \cup Outcomes : provider' = [provider EXCEPT ![j][a] = s]
      BY <3>1 DEF ProviderStep
    <3>4. s # "absent"
      BY OutcomesAssumption DEF TerminalStatuses, FailedStatuses
    <3>5. provider'[k][b] = IF k = j /\ b = a THEN s ELSE provider[k][b]
      BY <3>3 DEF TypeOK
    <3>6. QED
      BY <3>2, <3>4, <3>5
  <2>3. QED
    BY <2>1, <2>2 DEF Crash, Restart, ApprovalLapses, LeaseRunsOut, ActionComesDue, vars
<1>3. QED
  BY <1>1, <1>2, BegunSame, StatesStay DEF Lifecycle!lifecycle, States, Numbers, Begun

\* The runner, its tables, the provider, the users, the operator and the clock
\* together implement the lifecycle the job core promises: results come from work
\* started in this attempt, work starts only for a job that left the queue, and
\* only a retry makes a new attempt.
THEOREM OneWorkerImplementsLifecycle == SingleWorker /\ Spec => LifecycleSpec
<1>1. Init => Lifecycle!Init
  BY DEF Init, StoreInit, Lifecycle!Init
<1>2. Worked /\ [Next]_vars => [Lifecycle!Next]_(Lifecycle!lifecycle)
  BY RunnerLifecycle, PeopleLifecycle, RestLifecycle DEF Next
<1>3. QED
  BY <1>1, <1>2, WorkedAlways, PTL DEF Spec, LifecycleSpec, Lifecycle!Spec

-----------------------------------------------------------------------------
(* No running job is lost between the queries of a tick.                   *)

Waiting == {"AWAITING_PAID_APPROVAL", "QUEUED"}

\* Points of a dispatch that has not claimed its job yet.
Patient == {"recover", "submit", "submit_claim", "quarantine_queued"}
Resting == Stopped \cup {"idle"}

\* Points from which the runner goes on to take the job out of 'dispatching' or
\* out of a failed poll, and those at which the run is known to be accepted.
Dispatching == {"submit_check", "submit_resume", "submit_call", "submit_record",
                "lookup_call", "lookup_record"}
Accepting == {"poll_claim", "poll_call", "poll_record", "submit_stage", "submit_accept"}

\* The rows of attempts to come are empty.
FutureIsBlank ==
  \A j \in Jobs, a \in Attempts : a > job[j].attempt =>
    ~run[j][a].row /\ ~run[j][a].ext /\ run[j][a].stage = "plain"

\* A job's row J and the row R of its current run: nothing was accepted while it
\* waits, a run put before an operator means a job put before an operator, and a
\* running job is dispatching until its run is accepted.
InReach(j, J, R) ==
  /\ J.state \in Waiting =>
       /\ ~R.ext
       /\ R.stage = "reconciliation_required" => J.stage = "reconciliation_required"
  /\ PlanExecutor[j] # Supervised /\ J.state = "RUNNING" =>
       \/ J.stage = "reconciliation_required"
       \/ /\ R.stage # "reconciliation_required"
          /\ J.stage = "dispatching" \/ R.ext \/ ~R.row

\* Only a runner about to claim a waiting job is at work on it, and no runner that
\* is about to change a running job's stage finds its run before an operator.
Placed(point, c, J, R) ==
  /\ J.state \in Waiting =>
       \/ point \in Resting
       \/ /\ point \in Patient /\ c.st = "QUEUED"
          /\ point # "quarantine_queued" => J.stage # "reconciliation_required"
  /\ PlanExecutor[c.job] # Supervised /\ J.state = "RUNNING" =>
       /\ point \in Dispatching \cup Accepting => R.stage # "reconciliation_required"
       /\ point \in Accepting => R.ext

TendInv ==
  /\ FutureIsBlank
  /\ \A j \in Jobs : InReach(j, job[j], CurrentRun(j))
  /\ \A r \in Runners :
       /\ cand[r].att <= job[cand[r].job].attempt
       /\ cand[r].att = job[cand[r].job].attempt =>
            Placed(at[r], cand[r], job[cand[r].job], Row(cand[r]))

Tended == Worked /\ TendInv

\* A step writes no rows but those of the job and the run of c.
Local(c) ==
  /\ \A j \in Jobs \ {c.job} : job'[j] = job[j]
  /\ \A j \in Jobs, a \in Attempts : j # c.job \/ a # c.att => run'[j][a] = run[j][a]
  /\ job'[c.job].attempt = job[c.job].attempt
  /\ job[c.job].attempt # c.att => /\ job'[c.job].state = job[c.job].state
                                   /\ job'[c.job].stage = job[c.job].stage

\* It changes nothing TendInv looks at, except that it may clear a mark of the run.
Calm(c) ==
  /\ Local(c)
  /\ job'[c.job].state = job[c.job].state /\ job'[c.job].stage = job[c.job].stage
  /\ run'[c.job][c.att].ext = Row(c).ext /\ run'[c.job][c.att].row = Row(c).row
  /\ run'[c.job][c.att].stage \in {Row(c).stage} \cup (RunStages \ {"reconciliation_required"})

\* It leaves the job where the next tick finds it, if it leaves it running.
Tends(c) ==
  /\ Local(c)
  /\ job[c.job].attempt = c.att =>
       /\ job'[c.job].state \notin Waiting
       /\ InReach(c.job, job'[c.job], run'[c.job][c.att])

\* What a step of the runner with candidate c has to do for the tables.
LEMMA TablesTended ==
  ASSUME Tended, NEW c \in Candidates, c.att <= job[c.job].attempt, Local(c),
         job[c.job].attempt = c.att => InReach(c.job, job'[c.job], run'[c.job][c.att])
  PROVE  /\ FutureIsBlank'
         /\ \A j \in Jobs : InReach(j, job[j], CurrentRun(j))'
<1> USE WorkedTypes DEF Tended
<1>0. c.job \in Jobs /\ c.att \in Attempts /\ job[c.job].attempt \in Attempts
  BY DEF Candidates
<1>1. \A j \in Jobs : job'[j].attempt = job[j].attempt
  BY DEF Local
<1>2. FutureIsBlank'
  <2> SUFFICES ASSUME NEW j \in Jobs, NEW a \in Attempts, a > job'[j].attempt
               PROVE  ~run'[j][a].row /\ ~run'[j][a].ext /\ run'[j][a].stage = "plain"
    BY DEF FutureIsBlank
  <2>1. a > job[j].attempt /\ (j = c.job => a # c.att)
    BY <1>0, <1>1 DEF Attempts
  <2>2. run'[j][a] = run[j][a]
    BY <2>1 DEF Local
  <2>3. QED
    BY <2>1, <2>2 DEF FutureIsBlank, TendInv
<1>3. ASSUME NEW j \in Jobs
      PROVE  InReach(j, job'[j], run'[j][job'[j].attempt])
  <2>0. InReach(j, job[j], run[j][job[j].attempt]) /\ job[j].attempt \in Attempts
    BY DEF TendInv, CurrentRun
  <2>1. CASE j # c.job
    BY <1>1, <2>0, <2>1 DEF Local
  <2>2. CASE j = c.job /\ job[j].attempt # c.att
    <3>1. run'[j][job'[j].attempt] = run[j][job[j].attempt]
      BY <1>1, <2>0, <2>2 DEF Local
    <3>2. job'[j].state = job[j].state /\ job'[j].stage = job[j].stage
      BY <2>2 DEF Local
    <3>3. QED
      BY <2>0, <3>1, <3>2 DEF InReach
  <2>3. CASE j = c.job /\ job[j].attempt = c.att
    BY <1>1, <2>3
  <2>4. QED
    BY <2>1, <2>2, <2>3
<1>4. QED
  BY <1>2, <1>3 DEF CurrentRun

LEMMA TendArrives ==
  ASSUME Tended, NEW r \in Runners, NEW c \in Candidates, c = cand[r], Local(c),
         NEW point \in Points, NEW d \in Candidates, d.job = c.job, d.att = c.att,
         GotoWith(r, point, d),
         job[c.job].attempt = c.att =>
           /\ InReach(c.job, job'[c.job], run'[c.job][c.att])
           /\ Placed(point, d, job'[c.job], run'[c.job][c.att])
  PROVE  TendInv'
<1> USE WorkedTypes DEF Tended
<1>1. c.att <= job[c.job].attempt
  BY DEF TendInv
<1>2. /\ FutureIsBlank'
      /\ \A j \in Jobs : InReach(j, job[j], CurrentRun(j))'
  BY <1>1, TablesTended
<1>3. at'[r] = point /\ cand'[r] = d
  BY Lands
<1>4. \A q \in Runners : q = r
  BY DEF Worked, SingleWorker
<1>5. job'[c.job].attempt = job[c.job].attempt
  BY DEF Local
<1>6. ASSUME NEW q \in Runners
      PROVE  /\ cand'[q].att <= job'[cand'[q].job].attempt
             /\ cand'[q].att = job'[cand'[q].job].attempt =>
                  Placed(at'[q], cand'[q], job'[cand'[q].job], run'[cand'[q].job][cand'[q].att])
  BY <1>1, <1>3, <1>4, <1>5
<1>7. QED
  BY <1>2, <1>6 DEF TendInv, Row

\* A handler that ends: the runner holds no candidate any more.
LEMMA TendRests ==
  ASSUME Tended, NEW r \in Runners, NEW c \in Candidates, c = cand[r], Local(c),
         NEW point \in Resting, Goto(r, point),
         job[c.job].attempt = c.att => InReach(c.job, job'[c.job], run'[c.job][c.att])
  PROVE  TendInv'
<1> USE WorkedTypes DEF Tended
<1>1. c.att <= job[c.job].attempt /\ c.job \in Jobs
  BY DEF TendInv, Candidates
<1>2. /\ FutureIsBlank'
      /\ \A j \in Jobs : InReach(j, job[j], CurrentRun(j))'
  BY <1>1, TablesTended
<1>3. at'[r] = point /\ cand'[r] = Blank
  BY DEF Goto, Resting, TypeOK
<1>4. \A q \in Runners : q = r
  BY DEF Worked, SingleWorker
<1>5. Blank.att = 1 /\ Blank.job \in Jobs
  BY BlankType DEF Blank, Candidates
<1>6. job'[Blank.job].attempt = job[Blank.job].attempt /\ job[Blank.job].attempt \in Attempts
  BY <1>5 DEF Local
<1>7. Blank.att <= job'[Blank.job].attempt
  BY <1>5, <1>6 DEF Attempts
<1>8. Placed(point, Blank, job'[Blank.job], run'[Blank.job][Blank.att])
  BY DEF Placed, Resting, Stopped, Dispatching, Accepting
<1>9. ASSUME NEW q \in Runners
      PROVE  /\ cand'[q].att <= job'[cand'[q].job].attempt
             /\ cand'[q].att = job'[cand'[q].job].attempt =>
                  Placed(at'[q], cand'[q], job'[cand'[q].job], run'[cand'[q].job][cand'[q].att])
  BY <1>3, <1>4, <1>7, <1>8
<1>10. QED
  BY <1>2, <1>9 DEF TendInv, Row

\* A handler that is past its claim goes on, or ends.
LEMMA TendGoes ==
  ASSUME Tended, NEW r \in Runners, NEW c \in Candidates, c = cand[r], Tends(c),
         NEW point \in Points, Goto(r, point),
         /\ job[c.job].attempt = c.att /\ job'[c.job].state = "RUNNING"
         /\ PlanExecutor[c.job] # Supervised
         => /\ point \in Dispatching \cup Accepting =>
                 run'[c.job][c.att].stage # "reconciliation_required"
            /\ point \in Accepting => run'[c.job][c.att].ext
  PROVE  TendInv'
<1> USE WorkedTypes DEF Tended
<1>1. CASE point \in Resting
  BY <1>1, TendRests DEF Tends
<1>2. CASE point \notin Resting
  <2>1. GotoWith(r, point, c)
    BY <1>2 DEF Goto, GotoWith, Resting, TypeOK
  <2>2. job[c.job].attempt = c.att => Placed(point, c, job'[c.job], run'[c.job][c.att])
    BY DEF Tends, Placed
  <2>3. QED
    BY <2>1, <2>2, TendArrives DEF Tends
<1>3. QED
  BY <1>1, <1>2

\* A statement that makes J the row of the job and R the row of the run of c.
Writes(c, J, R) ==
  /\ StoreTypeOK /\ Keyed(c)
  /\ job' = [job EXCEPT ![c.job] = J] /\ run' = [run EXCEPT ![c.job][c.att] = R]
  /\ J.attempt = job[c.job].attempt
  /\ job[c.job].attempt # c.att => J.state = job[c.job].state /\ J.stage = job[c.job].stage

LEMMA LocalWrites ==
  ASSUME NEW c, NEW J, NEW R, Writes(c, J, R)
  PROVE  Local(c) /\ job'[c.job] = J /\ run'[c.job][c.att] = R
<1> USE DEF Writes
<1>1. /\ job \in [Jobs -> JobRows] /\ run \in [Jobs -> [Attempts -> RunRows]]
      /\ c.job \in Jobs /\ c.att \in Attempts
  BY DEF StoreTypeOK, Keyed
<1>2. job'[c.job] = J /\ \A j \in Jobs \ {c.job} : job'[j] = job[j]
  BY <1>1
<1>3. \A j \in Jobs, a \in Attempts :
        run'[j][a] = IF j = c.job /\ a = c.att THEN R ELSE run[j][a]
  BY <1>1
<1>4. QED
  BY <1>1, <1>2, <1>3 DEF Local

\* The statement writes the run row only.
LEMMA LocalRow ==
  ASSUME StoreTypeOK, NEW c, Keyed(c), NEW R, SetRow(c, R), job' = job
  PROVE  Local(c) /\ job'[c.job] = job[c.job] /\ run'[c.job][c.att] = R
<1>1. job' = [job EXCEPT ![c.job] = job[c.job]]
  BY DEF StoreTypeOK, Keyed
<1>2. run' = [run EXCEPT ![c.job][c.att] = R]
  BY DEF SetRow
<1>3. Writes(c, job[c.job], R)
  BY <1>1, <1>2 DEF Writes
<1>4. QED
  BY <1>3, LocalWrites

\* The statements that change no stage of the job and put no run before an operator.
LEMMA CalmStatements ==
  ASSUME StoreTypeOK, NEW r \in Runners, NEW c, Keyed(c), NEW terminal, NEW status, NEW spend,
         \/ ClaimExisting(r, c) \/ ReleaseLease(c) \/ RecordSubmitTransportFailure(c)
         \/ RecordPollTransportFailure(c) \/ RecordExhaustedPollAfterLocalCancel(c)
         \/ MarkRetryConsumed(c) \/ RecordRemoteCanceled(c) \/ ReconcilePoll(c, terminal)
         \/ ReconcileTerminal(c) \/ BeginCancelStage(c) \/ RecordCancelTransportFailure(c)
         \/ RecordPollStatus(c, status, spend) /\ UNCHANGED job
  PROVE  Calm(c)
<1>1. Row(c) \in RunRows /\ job' = job
  BY RowTypes DEF ClaimExisting, ReleaseLease, RecordSubmitTransportFailure,
                  RecordPollTransportFailure, RecordExhaustedPollAfterLocalCancel,
                  MarkRetryConsumed, RecordRemoteCanceled, ReconcilePoll, ReconcileTerminal,
                  BeginCancelStage, RecordCancelTransportFailure
<1>2. ASSUME NEW R, SetRow(c, R), R.ext = Row(c).ext, R.row = Row(c).row,
             R.stage \in {Row(c).stage} \cup (RunStages \ {"reconciliation_required"})
      PROVE  Calm(c)
  BY <1>1, <1>2, LocalRow DEF Calm
<1>3. CASE ClaimExisting(r, c) \/ ReleaseLease(c)
  BY <1>1, <1>2, <1>3 DEF ClaimExisting, ReleaseLease, Leased, Released, RunRows
<1>4. CASE RecordSubmitTransportFailure(c) \/ RecordPollTransportFailure(c)
  BY <1>1, <1>2, <1>4 DEF RecordSubmitTransportFailure, RecordPollTransportFailure,
                          Released, RunRows
<1>5. CASE RecordExhaustedPollAfterLocalCancel(c) \/ MarkRetryConsumed(c)
  BY <1>1, <1>2, <1>5 DEF RecordExhaustedPollAfterLocalCancel, MarkRetryConsumed,
                          Released, RunRows
<1>6. CASE RecordRemoteCanceled(c) \/ ReconcilePoll(c, terminal)
  BY <1>1, <1>2, <1>6 DEF RecordRemoteCanceled, ReconcilePoll, Released, RunRows, RunStages
<1>7. CASE ReconcileTerminal(c) \/ BeginCancelStage(c)
  BY <1>1, <1>2, <1>7 DEF ReconcileTerminal, BeginCancelStage, Released, RunRows, RunStages
<1>8. CASE RecordCancelTransportFailure(c)
  BY <1>1, <1>2, <1>8 DEF RecordCancelTransportFailure, Released, RunRows, RunStages
<1>9. CASE RecordPollStatus(c, status, spend)
  <2> DEFINE R == PollStatusRow(c, status)
  <2>1. SetRow(c, R)
    BY <1>9 DEF RecordPollStatus
  <2>2. R.ext = Row(c).ext /\ R.row = Row(c).row /\ R.stage = "plain"
    BY <1>1 DEF PollStatusRow, Released, RunRows
  <2> HIDE DEF R
  <2>3. QED
    BY <1>2, <2>1, <2>2 DEF RunStages
<1>10. QED
  BY <1>3, <1>4, <1>5, <1>6, <1>7, <1>8, <1>9

LEMMA StillCalm ==
  ASSUME NEW c \in Candidates, UNCHANGED store
  PROVE  Calm(c)
BY DEF store, Calm, Local, Row

LEMMA CalmTends ==
  ASSUME Tended, NEW c \in Candidates, Calm(c),
         job[c.job].attempt = c.att => job[c.job].state \notin Waiting
  PROVE  Tends(c)
<1>1. c.job \in Jobs
  BY DEF Candidates
<1>2. job[c.job].attempt = c.att => InReach(c.job, job[c.job], Row(c))
  BY <1>1 DEF Tended, TendInv, CurrentRun, Row
<1>3. QED
  BY <1>2 DEF Calm, Tends, InReach

\* Past its claim a runner with the candidate of the current attempt works on a job
\* that is not waiting.
LEMMA PastClaim ==
  ASSUME Tended, NEW r \in Runners, NEW c \in Candidates, c = cand[r],
         at[r] \notin Patient \cup Resting
  PROVE  job[c.job].attempt = c.att =>
           /\ job[c.job].state \notin Waiting
           /\ InReach(c.job, job[c.job], Row(c)) /\ Placed(at[r], c, job[c.job], Row(c))
<1>1. c.job \in Jobs
  BY DEF Candidates
<1>2. job[c.job].attempt = c.att => Placed(at[r], c, job[c.job], Row(c))
  BY DEF Tended, TendInv
<1>3. job[c.job].attempt = c.att => InReach(c.job, job[c.job], Row(c))
  BY <1>1 DEF Tended, TendInv, CurrentRun, Row
<1>4. QED
  BY <1>2, <1>3 DEF Placed

LEMMA CalmGoes ==
  ASSUME Tended, NEW r \in Runners, at[r] \notin Patient \cup Resting, Calm(cand[r]),
         NEW point \in Points, Goto(r, point),
         \/ point \notin Dispatching \cup Accepting
         \/ point \in Dispatching /\ at[r] \in Dispatching \cup Accepting
         \/ at[r] \in Accepting
  PROVE  TendInv'
<1>c. PICK c \in Candidates : c = cand[r]
  BY WorkedTypes DEF Tended
<1>1. job[c.job].attempt = c.att => /\ job[c.job].state \notin Waiting
                                    /\ Placed(at[r], c, job[c.job], Row(c))
  BY <1>c, PastClaim
<1>2. Tends(c) /\ Calm(c)
  BY <1>c, <1>1, CalmTends
<1>3. Dispatching \cap Accepting = {}
  BY DEF Dispatching, Accepting
<1>4. ASSUME job[c.job].attempt = c.att, job'[c.job].state = "RUNNING",
             PlanExecutor[c.job] # Supervised
      PROVE  /\ point \in Dispatching \cup Accepting =>
                  run'[c.job][c.att].stage # "reconciliation_required"
             /\ point \in Accepting => run'[c.job][c.att].ext
  <2>1. /\ at[r] \in Dispatching \cup Accepting => Row(c).stage # "reconciliation_required"
        /\ at[r] \in Accepting => Row(c).ext
    BY <1>1, <1>2, <1>4 DEF Calm, Placed
  <2>2. /\ run'[c.job][c.att].ext = Row(c).ext
        /\ Row(c).stage # "reconciliation_required" =>
             run'[c.job][c.att].stage # "reconciliation_required"
    BY <1>2 DEF Calm
  <2>3. QED
    BY <1>3, <2>1, <2>2
<1>5. QED
  BY <1>c, <1>2, <1>4, TendGoes

LEMMA DecideTended ==
  ASSUME Tended, NEW r \in Runners, at[r] \notin Patient \cup Resting,
         NEW point \in Points, Decide(r, point),
         \/ point \notin Dispatching \cup Accepting
         \/ point \in Dispatching /\ at[r] \in Dispatching \cup Accepting
         \/ at[r] \in Accepting
  PROVE  TendInv'
<1>1. Calm(cand[r])
  BY StillCalm, WorkedTypes DEF Decide, Tended
<1>2. QED
  BY <1>1, CalmGoes DEF Decide

LEMMA RaiseTended ==
  ASSUME Tended, NEW r \in Runners, NEW point \in Resting, Decide(r, point)
  PROVE  TendInv'
<1>c. PICK c \in Candidates : c = cand[r]
  BY WorkedTypes DEF Tended
<1>1. Local(c) /\ job' = job /\ run' = run
  BY StillCalm DEF Decide, Calm, store
<1>2. c.job \in Jobs
  BY DEF Candidates
<1>3. job[c.job].attempt = c.att => InReach(c.job, job'[c.job], run'[c.job][c.att])
  BY <1>1, <1>2 DEF Tended, TendInv, CurrentRun
<1>4. QED
  BY <1>c, <1>1, <1>3, TendRests DEF Decide

\* The two-row marks: an operator finds the job wherever the run is marked.
LEMMA MarkTended ==
  ASSUME Tended, NEW r \in Runners, at[r] \notin Patient \cup Resting,
         NEW matches, NEW states, NEW stage, Mark(r, matches, states, stage),
         \/ stage = "reconciliation_required" /\ "RUNNING" \in states
         \/ stage = "cancel_reconciliation_required" /\ states = {"CANCELED"}
  PROVE  TendInv'
<1>c. PICK c \in Candidates : c = cand[r] /\ Keyed(c) /\ Row(c) \in RunRows
  BY WorkedTypes, CandidateKeyed DEF Tended
<1>t. StoreTypeOK /\ job[c.job] \in JobRows
  BY <1>c, WorkedTypes, RowTypes DEF Tended
<1>1. CASE Raise(r)
  BY <1>1, RaiseTended DEF Raise, Decide, Resting, Stopped
<1>2. CASE /\ MarkReconciliation(c, states, stage)
           /\ \E point \in {"idle", "raised"} : Goto(r, point)
  <2>p. PICK R : R = [Released(Row(c)) EXCEPT !.stage = stage, !.next = "null"]
    OBVIOUS
  <2>q. PICK J : J = IF StageIn(c, states) THEN [job[c.job] EXCEPT !.stage = stage]
                                           ELSE job[c.job]
    OBVIOUS
  <2>1. SetRow(c, R) /\ SetJobStage(c, states, stage)
    BY <1>2, <2>p DEF MarkReconciliation
  <2>2. /\ J.state = job[c.job].state /\ J.attempt = job[c.job].attempt
        /\ J.stage = IF StageIn(c, states) THEN stage ELSE job[c.job].stage
        /\ R.ext = Row(c).ext /\ R.row = Row(c).row /\ R.stage = stage
    BY <1>c, <1>t, <2>p, <2>q DEF JobRows, RunRows, Released
  <2>3. /\ job' = [job EXCEPT ![c.job] = J] /\ run' = [run EXCEPT ![c.job][c.att] = R]
    BY <1>c, <1>t, <2>1, <2>q DEF SetRow, SetJobStage, StoreTypeOK, Keyed
  <2>a. job[c.job].attempt # c.att => J.state = job[c.job].state /\ J.stage = job[c.job].stage
    BY <2>2 DEF StageIn
  <2>4. Local(c) /\ job'[c.job] = J /\ run'[c.job][c.att] = R
    <3>1. Writes(c, J, R)
      BY <1>c, <1>t, <2>2, <2>3, <2>a DEF Writes
    <3>2. QED
      BY <3>1, LocalWrites
  <2>5. job[c.job].attempt = c.att => /\ job[c.job].state \notin Waiting
                                      /\ InReach(c.job, job[c.job], Row(c))
    BY <1>c, PastClaim
  <2>6. job[c.job].attempt = c.att => InReach(c.job, J, R)
    BY <2>2, <2>5 DEF InReach, StageIn
  <2>7. QED
    BY <1>c, <1>2, <2>4, <2>6, TendRests DEF Resting, Stopped
<1>3. QED
  BY <1>c, <1>1, <1>2 DEF Mark

-----------------------------------------------------------------------------
(* Handler by handler.                                                     *)

\* Points at which nothing is asked of the run row.
Elsewhere == Points \ (Dispatching \cup Accepting)
Past == Points \ (Patient \cup Resting)

LEMMA DecideElsewhere ==
  ASSUME Tended, NEW r \in Runners, at[r] \in Past, NEW point \in Elsewhere, Decide(r, point)
  PROVE  TendInv'
BY DecideTended DEF Elsewhere, Past

LEMMA CalmElsewhere ==
  ASSUME Tended, NEW r \in Runners, at[r] \in Past, NEW point \in Elsewhere,
         Decide(r, point) \/ (Calm(cand[r]) /\ Goto(r, point))
  PROVE  TendInv'
BY CalmGoes, DecideElsewhere DEF Elsewhere, Past

\* An accepted submission of a job that does not wait.
LEMMA AcceptanceTends ==
  ASSUME Tended, NEW r \in Runners, at[r] \in Past, NEW c \in Candidates, c = cand[r],
         RecordAcceptance(c)
  PROVE  /\ Tends(c) /\ job' = job /\ run'[c.job][c.att].ext
         /\ run'[c.job][c.att].stage = Row(c).stage
<1>1. StoreTypeOK /\ Keyed(c) /\ Row(c) \in RunRows
  BY WorkedTypes, CandidateKeyed DEF Tended
<1>2. PICK R : R = [Released(Row(c)) EXCEPT !.ext = TRUE, !.status = "ACCEPTED", !.next = "null"]
  OBVIOUS
<1>3. R.ext /\ R.stage = Row(c).stage
  BY <1>1, <1>2 DEF RunRows, Released
<1>4. SetRow(c, R) /\ job' = job
  BY <1>2 DEF RecordAcceptance
<1>5. Local(c) /\ run'[c.job][c.att] = R
  BY <1>1, <1>4, LocalRow
<1>6. job[c.job].attempt = c.att => /\ job[c.job].state \notin Waiting
                                    /\ InReach(c.job, job[c.job], Row(c))
  BY PastClaim DEF Past
<1>7. job[c.job].attempt = c.att => InReach(c.job, job[c.job], R)
  BY <1>3, <1>6 DEF InReach
<1>8. QED
  BY <1>3, <1>4, <1>5, <1>6, <1>7 DEF Tends

LEMMA CancelTended ==
  ASSUME Tended, NEW r \in Runners, Cancel(r)
  PROVE  TendInv'
<1>c. PICK c \in Candidates : c = cand[r] /\ StoreTypeOK /\ Keyed(c)
  BY WorkedTypes DEF Tended
<1>0. /\ {"idle", "raised", "cancel_claim_lookup", "cancel_terminal", "cancel_claim",
          "cancel_lookup", "cancel_lookup_found", "cancel_lookup_failed", "cancel_begin",
          "cancel_call", "cancel_unconfirmed"} \subseteq Elsewhere
      /\ {"cancel", "cancel_claim_lookup", "cancel_lookup", "cancel_lookup_found",
          "cancel_lookup_failed", "cancel_terminal", "cancel_claim", "cancel_begin",
          "cancel_retry", "cancel_unconfirmed", "cancel_confirmed"} \subseteq Past
      /\ {"idle", "raised"} \subseteq Resting
  BY DEF Elsewhere, Past, Points, Stopped, Resting, Dispatching, Accepting, Patient
<1>p. at[r] \in Past
  BY <1>0 DEF Cancel, CancelRead, CancelClaimLookup, CancelLookup, TooLittleLease, CancelLookupFound,
              CancelLookupFailed, CancelTerminal, CancelClaim, CancelBegin, CancelRetry,
              CancelUnconfirmed, CancelConfirmed
<1>r. ASSUME Raise(r) PROVE TendInv'
  BY <1>0, <1>r, RaiseTended DEF Raise, Decide
<1>1. CASE CancelRead(r) \/ CancelLookup(r)
  <2>1. \E point \in Elsewhere : Decide(r, point)
    BY <1>0, <1>1 DEF CancelRead, CancelLookup, TooLittleLease
  <2>2. QED
    BY <1>p, <2>1, DecideElsewhere
<1>2. CASE CancelClaimLookup(r) \/ CancelClaim(r)
  <2>1. \E point \in Elsewhere :
          Decide(r, point) \/ (ClaimExisting(r, c) /\ Goto(r, point))
    BY <1>c, <1>0, <1>2 DEF CancelClaimLookup, CancelClaim, OrGiveUp, Decide
  <2>2. QED
    BY <1>c, <1>p, <2>1, CalmStatements, CalmElsewhere
<1>3. CASE CancelLookupFound(r)
  <2>1. CASE Decide(r, "cancel_lookup_failed")
    BY <1>0, <1>p, <2>1, DecideElsewhere
  <2>2. CASE RecordAcceptance(c) /\ Goto(r, "idle")
    BY <1>c, <1>0, <1>p, <2>2, AcceptanceTends, TendRests DEF Tends
  <2>3. QED
    BY <1>c, <1>3, <2>1, <2>2 DEF CancelLookupFound
<1>4. CASE CancelLookupFailed(r) \/ CancelUnconfirmed(r)
  BY <1>4, <1>p, MarkTended DEF CancelLookupFailed, CancelUnconfirmed, Past
<1>5. CASE CancelTerminal(r) \/ CancelBegin(r)
  <2>1. Raise(r) \/ \E point \in Elsewhere :
                      (ReconcileTerminal(c) \/ BeginCancelStage(c)) /\ Goto(r, point)
    BY <1>c, <1>0, <1>5 DEF CancelTerminal, CancelBegin, OrRaise
  <2>2. QED
    BY <1>c, <1>p, <1>r, <2>1, CalmStatements, CalmElsewhere
<1>6. CASE CancelRetry(r) \/ CancelConfirmed(r)
  <2>1. Raise(r) \/ \E point \in Elsewhere :
                      /\ RecordCancelTransportFailure(c) \/ RecordRemoteCanceled(c)
                      /\ Goto(r, point)
    BY <1>c, <1>0, <1>6 DEF CancelRetry, CancelConfirmed, OrRaise
  <2>2. QED
    BY <1>c, <1>p, <1>r, <2>1, CalmStatements, CalmElsewhere
<1>7. QED
  BY <1>1, <1>2, <1>3, <1>4, <1>5, <1>6 DEF Cancel

\* The job follows its run, or is stamped with a manifest.
LEMMA ResultTends ==
  ASSUME Tended, NEW r \in Runners, at[r] \in Past, NEW c \in Candidates, c = cand[r],
         job[c.job].state \notin Waiting, NEW to \in TerminalStatuses,
         UNCHANGED run,
         \/ TransitionOK(c.job, "RUNNING", to) /\ Transition(c.job, "RUNNING", to)
            /\ job[c.job].attempt = c.att
         \/ BindArtifactManifest(c.job)
  PROVE  Tends(c) /\ (job'[c.job].state = "RUNNING" => job[c.job].state = "RUNNING")
<1>1. /\ job \in [Jobs -> JobRows] /\ c.job \in Jobs /\ StoreTypeOK /\ Keyed(c)
      /\ run \in [Jobs -> [Attempts -> RunRows]]
  BY WorkedTypes DEF Tended, StoreTypeOK, Candidates, Keyed
<1>2. PICK J : /\ job' = [job EXCEPT ![c.job] = J] /\ J.attempt = job[c.job].attempt
               /\ J.stage = job[c.job].stage
               /\ \/ J.state = job[c.job].state
                  \/ J.state \in TerminalStatuses /\ job[c.job].attempt = c.att
  <2>1. CASE BindArtifactManifest(c.job)
    <3>1. PICK J : J = [job[c.job] EXCEPT !.manifest = TRUE]
      OBVIOUS
    <3>2. job' = [job EXCEPT ![c.job] = J]
      BY <1>1, <2>1, <3>1 DEF BindArtifactManifest
    <3>3. /\ J.attempt = job[c.job].attempt /\ J.stage = job[c.job].stage
          /\ J.state = job[c.job].state
      BY <1>1, <3>1 DEF JobRows
    <3>4. QED
      BY <3>2, <3>3
  <2>2. CASE job' = job
    <3>1. job' = [job EXCEPT ![c.job] = job[c.job]]
      BY <1>1, <2>2
    <3>2. QED
      BY <3>1
  <2>3. CASE /\ job' = [job EXCEPT ![c.job].state = to, ![c.job].attempt = job[c.job].attempt]
             /\ job[c.job].attempt = c.att
    <3>1. PICK J : J = [job[c.job] EXCEPT !.state = to, !.attempt = job[c.job].attempt]
      OBVIOUS
    <3>2. job' = [job EXCEPT ![c.job] = J]
      BY <1>1, <2>3, <3>1
    <3>3. /\ J.attempt = job[c.job].attempt /\ J.stage = job[c.job].stage
          /\ J.state = to
      BY <1>1, <3>1 DEF JobRows
    <3>4. QED
      BY <2>3, <3>2, <3>3
  <2>4. QED
    BY <2>1, <2>2, <2>3 DEF Transition, NextAttempt
<1>3. run' = run /\ run'[c.job][c.att] = Row(c)
  BY DEF Row
<1>4. Local(c) /\ job'[c.job] = J
  <2>1. job[c.job].attempt # c.att => J.state = job[c.job].state /\ J.stage = job[c.job].stage
    BY <1>2
  <2>2. job'[c.job] = J /\ \A j \in Jobs \ {c.job} : job'[j] = job[j]
    BY <1>1, <1>2
  <2>3. QED
    BY <1>2, <1>3, <2>1, <2>2 DEF Local
<1>5. job[c.job].attempt = c.att => InReach(c.job, job[c.job], Row(c))
  BY PastClaim DEF Past
<1>6. J.state \notin Waiting /\ (J.state = "RUNNING" => job[c.job].state = "RUNNING")
  BY <1>2 DEF Waiting, TerminalStatuses, FailedStatuses
<1>7. job[c.job].attempt = c.att => InReach(c.job, J, Row(c))
  BY <1>2, <1>3, <1>5, <1>6 DEF InReach
<1>8. QED
  BY <1>3, <1>4, <1>6, <1>7 DEF Tends

\* The transition or the binding, and on to a point where nothing is asked.
LEMMA ResultGoesOn ==
  ASSUME Tended, NEW r \in Runners, at[r] \in Past, NEW c \in Candidates, c = cand[r],
         NEW to \in TerminalStatuses, UNCHANGED run, NEW point \in Elsewhere, Goto(r, point),
         \/ TransitionOK(c.job, "RUNNING", to) /\ Transition(c.job, "RUNNING", to)
            /\ job[c.job].attempt = c.att
         \/ BindArtifactManifest(c.job) /\ job[c.job].state = "SUCCEEDED"
  PROVE  TendInv'
<1>1. job[c.job].state \notin Waiting
  BY DEF TransitionOK, DuplicateCancel, CanTransition, Waiting
<1>2. Tends(c)
  BY <1>1, ResultTends
<1>3. QED
  BY <1>2, TendGoes DEF Elsewhere

LEMMA TerminalTended ==
  ASSUME Tended, NEW r \in Runners, Terminal(r)
  PROVE  TendInv'
<1>c. PICK c \in Candidates : c = cand[r] /\ StoreTypeOK /\ Keyed(c)
  BY WorkedTypes DEF Tended
<1>0. /\ {"idle", "raised", "claimed_reconcile", "terminal_check", "terminal_apply",
          "terminal_bind", "terminal_queued", "terminal_conflict", "terminal_release",
          "terminal_reconcile", "terminal_abandon"} \subseteq Elsewhere
      /\ {"terminal_claim", "terminal_check", "terminal_apply", "terminal_bind",
          "terminal_queued", "terminal_conflict", "terminal_release", "terminal_reconcile",
          "terminal_abandon"} \subseteq Past
      /\ {"idle", "raised"} \subseteq Resting
  BY DEF Elsewhere, Past, Points, Stopped, Resting, Dispatching, Accepting, Patient
<1>p. at[r] \in Past
  BY <1>0 DEF Terminal, TerminalClaim, TerminalCheck, TerminalApply, TerminalQueued,
              TerminalBind, TerminalConflict, TerminalReconcile, TerminalRelease,
              TerminalAbandon
<1>k. Follows(at[r], c) /\ Reads(at[r], c)
  BY <1>c DEF Tended, Worked, OneInv
<1>r. ASSUME Raise(r) PROVE TendInv'
  BY <1>0, <1>r, RaiseTended DEF Raise, Decide
<1>1. CASE TerminalClaim(r)
  <2>1. CASE Decide(r, "idle")
    BY <1>0, <1>p, <2>1, DecideElsewhere
  <2>2. CASE /\ ClaimExisting(r, c)
             /\ GotoWith(r, "terminal_check", [c EXCEPT !.seen = Row(c).status])
    <3>1. PICK d : d = [c EXCEPT !.seen = Row(c).status]
      OBVIOUS
    <3>2. d \in Candidates /\ d.job = c.job /\ d.att = c.att
      BY <1>c, <3>1, RowTypes DEF Candidates, RunRows
    <3>3. Calm(c)
      BY <1>c, <2>2, CalmStatements
    <3>4. job[c.job].attempt = c.att => job[c.job].state \notin Waiting
      BY <1>c, <1>p, PastClaim DEF Past
    <3>5. Tends(c)
      BY <3>3, <3>4, CalmTends
    <3>6. job[c.job].attempt = c.att =>
            Placed("terminal_check", d, job'[c.job], run'[c.job][c.att])
      BY <3>5 DEF Tends, Placed, Dispatching, Accepting
    <3>7. GotoWith(r, "terminal_check", d) /\ "terminal_check" \in Points
      BY <1>0, <2>2, <3>1 DEF Elsewhere
    <3>8. QED
      BY <1>c, <3>2, <3>5, <3>6, <3>7, TendArrives DEF Tends
  <2>3. QED
    BY <1>c, <1>1, <2>1, <2>2 DEF TerminalClaim
<1>2. CASE TerminalCheck(r) \/ TerminalConflict(r)
  <2>1. \E point \in Elsewhere : Decide(r, point)
    BY <1>0, <1>2 DEF TerminalCheck, TerminalConflict
  <2>2. QED
    BY <1>p, <2>1, DecideElsewhere
<1>3. CASE TerminalApply(r)
  <2>1. job[c.job].attempt = c.att /\ c.seen \in TerminalStatuses
    BY <1>3, <1>k DEF TerminalApply, Follows, Reads, Working
  <2>2. CASE TransitionOK(c.job, "RUNNING", c.seen)
    <3>1. /\ UNCHANGED run /\ Transition(c.job, "RUNNING", c.seen)
          /\ \E point \in Elsewhere : Goto(r, point)
      BY <1>c, <1>0, <1>3, <2>2 DEF TerminalApply
    <3>2. QED
      BY <1>c, <1>p, <2>1, <2>2, <3>1, ResultGoesOn
  <2>3. CASE ~TransitionOK(c.job, "RUNNING", c.seen)
    <3>1. Decide(r, "terminal_conflict")
      BY <1>c, <1>3, <2>3 DEF TerminalApply, Decide, store
    <3>2. QED
      BY <1>0, <1>p, <3>1, DecideElsewhere
  <2>4. QED
    BY <2>2, <2>3
<1>4. CASE TerminalQueued(r)
  BY <1>4, <1>k DEF TerminalQueued, Follows
<1>5. CASE TerminalBind(r)
  <2>1. CASE job[c.job].state = "SUCCEEDED"
    <3>1. UNCHANGED run /\ BindArtifactManifest(c.job) /\ Goto(r, "terminal_release")
      BY <1>c, <1>5, <2>1 DEF TerminalBind
    <3>2. "SUCCEEDED" \in TerminalStatuses
      BY DEF TerminalStatuses
    <3>3. QED
      BY <1>c, <1>0, <1>p, <2>1, <3>1, <3>2, ResultGoesOn
  <2>2. CASE job[c.job].state # "SUCCEEDED"
    <3>1. Decide(r, "terminal_conflict")
      BY <1>c, <1>5, <2>2 DEF TerminalBind, Decide, store
    <3>2. QED
      BY <1>0, <1>p, <3>1, DecideElsewhere
  <2>3. QED
    BY <2>1, <2>2
<1>6. CASE TerminalReconcile(r) \/ TerminalRelease(r)
  <2>1. CASE Raise(r)
    BY <1>r, <2>1
  <2>2. CASE (ReconcileTerminal(c) \/ ReleaseLease(c)) /\ Goto(r, "idle")
    BY <1>c, <1>0, <1>p, <2>2, CalmStatements, CalmElsewhere
  <2>3. QED
    BY <1>c, <1>6, <2>1, <2>2 DEF TerminalReconcile, TerminalRelease, OrRaise
<1>7. CASE TerminalAbandon(r)
  <2>1. Decide(r, "raised") \/ (ReleaseLease(c) /\ Goto(r, "raised"))
    BY <1>c, <1>7 DEF TerminalAbandon, Decide
  <2>2. QED
    BY <1>c, <1>0, <1>p, <2>1, CalmStatements, CalmElsewhere
<1>8. QED
  BY <1>1, <1>2, <1>3, <1>4, <1>5, <1>6, <1>7 DEF Terminal

\* A poll answer: the run row loses a mark, a running job its dispatch.
LEMMA PollRecordTended ==
  ASSUME Tended, NEW r \in Runners, PollRecord(r)
  PROVE  TendInv'
<1>c. PICK c \in Candidates : c = cand[r] /\ StoreTypeOK /\ Keyed(c) /\ Row(c) \in RunRows
  BY WorkedTypes, CandidateKeyed DEF Tended
<1>t. /\ job \in [Jobs -> JobRows] /\ c.job \in Jobs /\ job[c.job] \in JobRows
      /\ run \in [Jobs -> [Attempts -> RunRows]] /\ c.att \in Attempts
  BY <1>c DEF StoreTypeOK, Keyed
<1>0. {"poll_local", "raised"} \subseteq Elsewhere /\ "raised" \in Resting
  BY DEF Elsewhere, Points, Stopped, Resting, Dispatching, Accepting
<1>p. at[r] \in Past /\ at[r] \in Accepting
  BY DEF PollRecord, Past, Points, Stopped, Resting, Accepting, Patient
<1>1. CASE Raise(r)
  BY <1>0, <1>1, RaiseTended DEF Raise, Decide
<1>2. CASE ~Raise(r)
  <2>1. PICK J : /\ job' = [job EXCEPT ![c.job] = J]
                 /\ J.attempt = job[c.job].attempt /\ J.state = job[c.job].state
                 /\ \/ J.stage = job[c.job].stage
                    \/ job[c.job].attempt = c.att
    <3>1. CASE job' = job
      BY <1>t, <3>1
    <3>2. CASE /\ job' = [job EXCEPT ![c.job].stage = "plain"]
               /\ job[c.job].attempt = c.att
      <4>1. PICK J : J = [job[c.job] EXCEPT !.stage = "plain"]
        OBVIOUS
      <4>2. job' = [job EXCEPT ![c.job] = J]
        BY <1>t, <3>2, <4>1
      <4>3. J.attempt = job[c.job].attempt /\ J.state = job[c.job].state
        BY <1>t, <4>1 DEF JobRows
      <4>4. QED
        BY <3>2, <4>2, <4>3
    <3>3. QED
      BY <1>2, <1>c, <3>1, <3>2 DEF PollRecord, SetJobStage, StageIn
  <2>2. PICK R : /\ run' = [run EXCEPT ![c.job][c.att] = R]
                 /\ R.ext = Row(c).ext /\ R.stage \in {Row(c).stage, "plain"}
    <3>1. CASE run' = run
      <4>1. run' = [run EXCEPT ![c.job][c.att] = Row(c)]
        BY <1>t, <3>1 DEF Row
      <4>2. QED
        BY <4>1
    <3>2. CASE RecordPollStatus(c, c.seen, c.spend)
      <4>1. PICK R : R = PollStatusRow(c, c.seen)
        OBVIOUS
      <4>2. run' = [run EXCEPT ![c.job][c.att] = R]
        BY <3>2, <4>1 DEF RecordPollStatus, SetRow
      <4>3. R.ext = Row(c).ext /\ R.stage = "plain"
        BY <1>c, <4>1 DEF PollStatusRow, Released, RunRows
      <4>4. QED
        BY <4>2, <4>3
    <3>3. QED
      BY <1>2, <1>c, <3>1, <3>2 DEF PollRecord
  <2>3. Local(c) /\ job'[c.job] = J /\ run'[c.job][c.att] = R
    <3>1. Writes(c, J, R)
      BY <1>c, <2>1, <2>2 DEF Writes
    <3>2. QED
      BY <3>1, LocalWrites
  <2>4. job[c.job].attempt = c.att => /\ job[c.job].state \notin Waiting
                                      /\ InReach(c.job, job[c.job], Row(c))
                                      /\ Placed(at[r], c, job[c.job], Row(c))
    BY <1>c, <1>p, PastClaim DEF Past
  <2>5. job[c.job].attempt = c.att => J.state \notin Waiting /\ InReach(c.job, J, R)
    BY <1>p, <2>1, <2>2, <2>4 DEF InReach, Placed
  <2>6. Tends(c)
    BY <2>3, <2>5 DEF Tends
  <2>7. PICK point \in {"poll_local", "raised"} : Goto(r, point)
    BY <1>2, <1>c DEF PollRecord
  <2>8. QED
    BY <1>c, <1>0, <2>6, <2>7, TendGoes DEF Elsewhere
<1>3. QED
  BY <1>1, <1>2

LEMMA PollTended ==
  ASSUME Tended, NEW r \in Runners, Poll(r)
  PROVE  TendInv'
<1>c. PICK c \in Candidates : c = cand[r] /\ StoreTypeOK /\ Keyed(c)
  BY WorkedTypes DEF Tended
<1>0. /\ {"idle", "raised", "claimed_reconcile", "poll_local", "poll_reconcile", "poll_apply",
          "poll_conflict", "poll_bind", "poll_retry", "poll_retry_local", "poll_exhausted",
          "poll_exhausted_canceled", "poll_exhausted_running", "poll_fatal",
          "poll_fatal_local", "poll_fatal_apply"} \subseteq Elsewhere
      /\ {"poll_claim", "poll_call", "poll_record", "poll_local", "poll_reconcile", "poll_apply",
          "poll_conflict", "poll_bind", "poll_retry", "poll_retry_local", "poll_exhausted",
          "poll_exhausted_canceled", "poll_exhausted_running", "poll_fatal",
          "poll_fatal_local", "poll_fatal_apply"} \subseteq Past
      /\ {"poll_claim", "poll_call", "poll_record"} \subseteq Accepting \cap Points
      /\ {"idle", "raised"} \subseteq Resting
  BY DEF Elsewhere, Past, Points, Stopped, Resting, Dispatching, Accepting, Patient
<1>p. at[r] \in Past
  BY <1>0 DEF Poll, PollClaim, PollCall, PollRecord, PollLocal, PollReconcile, PollApply,
              PollConflict, PollBind, PollRetry, PollRetryLocal, PollExhausted,
              PollExhaustedCanceled, PollExhaustedRunning, PollFatal, PollFatalLocal,
              PollFatalApply
<1>k. Follows(at[r], c) /\ Reads(at[r], c)
  BY <1>c DEF Tended, Worked, OneInv
<1>r. ASSUME Raise(r) PROVE TendInv'
  BY <1>0, <1>r, RaiseTended DEF Raise, Decide
\* An answer is kept in the candidate, which goes on with the same run.
<1>s. ASSUME NEW d \in Candidates, d.job = c.job, d.att = c.att, NEW point \in Points,
             at[r] \in Accepting, UNCHANGED store, GotoWith(r, point, d)
      PROVE  TendInv'
  <2>1. Calm(c) /\ run'[c.job][c.att].stage = Row(c).stage
    BY <1>s, StillCalm DEF store, Row
  <2>2. job[c.job].attempt = c.att => /\ job[c.job].state \notin Waiting
                                      /\ Placed(at[r], c, job[c.job], Row(c))
    BY <1>c, <1>p, PastClaim DEF Past
  <2>3. Tends(c)
    BY <2>1, <2>2, CalmTends
  <2>4. job[c.job].attempt = c.att => Placed(point, d, job'[c.job], run'[c.job][c.att])
    BY <1>s, <2>1, <2>2, <2>3 DEF Calm, Tends, Placed
  <2>5. QED
    BY <1>c, <1>s, <2>3, <2>4, TendArrives DEF Tends
<1>1. CASE PollClaim(r)
  <2>1. CASE Decide(r, "idle")
    BY <1>0, <1>p, <2>1, DecideElsewhere
  <2>2. CASE /\ ClaimExisting(r, c)
             /\ \E point \in {"poll_call", "claimed_reconcile"} : Goto(r, point)
    <3>1. Calm(cand[r])
      BY <1>c, <2>2, CalmStatements
    <3>2. /\ at[r] \in Accepting /\ at[r] \notin Patient \cup Resting
          /\ "poll_call" \in Points /\ "claimed_reconcile" \in Points
      BY <1>0, <1>1, <1>p DEF PollClaim, Past, Elsewhere
    <3>3. QED
      BY <2>2, <3>1, <3>2, CalmGoes
  <2>3. QED
    BY <1>c, <1>1, <2>1, <2>2 DEF Decide, PollClaim, OrGiveUp
<1>2. CASE PollCall(r)
  <2>0. at[r] \in Accepting
    BY <1>0, <1>2 DEF PollCall, TooLittleLease
  <2>1. CASE Raise(r)
    BY <1>r, <2>1
  <2>2. CASE GotoWith(r, "poll_record", Decided(c, Remote(c))) /\ UNCHANGED store
    <3>1. PICK d : d = Decided(c, Remote(c))
      OBVIOUS
    <3>2. d.job = c.job /\ d.att = c.att
      BY <3>1 DEF Decided, Candidates
    <3>3. d \in Candidates
      <4>1. Remote(c) # "absent" /\ Remote(c) \in ProviderStates
        BY <1>c, <1>2, CandidateKeyed, WorkedTypes
           DEF PollCall, Tended, Worked, IInv, Knows, Found
      <4>2. Remote(c) \in RunStatuses /\ "FAILED_FINAL" \in RunStatuses
        BY <4>1 DEF ProviderStates, RunStatuses, TerminalStatuses, FailedStatuses
      <4>3. QED
        BY <3>1, <4>2 DEF Decided, Candidates
    <3>4. UNCHANGED store /\ GotoWith(r, "poll_record", d)
      BY <2>2, <3>1
    <3>5. QED
      BY <1>0, <1>s, <2>0, <3>2, <3>3, <3>4
  <2>3. CASE \E point \in {"poll_retry", "poll_exhausted", "claimed_reconcile"} : Decide(r, point)
    BY <1>0, <1>p, <2>3, DecideElsewhere
  <2>4. CASE GotoWith(r, "poll_fatal", [c EXCEPT !.seen = "FAILED_FINAL"]) /\ UNCHANGED store
    <3>1. PICK d : d = [c EXCEPT !.seen = "FAILED_FINAL"]
      OBVIOUS
    <3>2. d.job = c.job /\ d.att = c.att /\ d \in Candidates
      BY <3>1 DEF Candidates, RunStatuses, TerminalStatuses, FailedStatuses
    <3>3. UNCHANGED store /\ GotoWith(r, "poll_fatal", d) /\ "poll_fatal" \in Points
      BY <1>0, <2>4, <3>1 DEF Elsewhere
    <3>4. QED
      BY <1>s, <2>0, <3>2, <3>3
  <2>5. QED
    BY <1>c, <1>2, <2>1, <2>2, <2>3, <2>4 DEF PollCall, TooLittleLease
<1>3. CASE PollRecord(r)
  BY <1>3, PollRecordTended
<1>4. CASE PollLocal(r) \/ PollConflict(r) \/ PollRetryLocal(r) \/ PollExhausted(r)
           \/ PollFatalLocal(r)
  <2>1. \E point \in Elsewhere : Decide(r, point)
    BY <1>0, <1>4 DEF PollLocal, PollConflict, PollRetryLocal, PollExhausted, PollFatalLocal
  <2>2. QED
    BY <1>p, <2>1, DecideElsewhere
<1>5. CASE PollReconcile(r)
  <2>1. \/ Raise(r)
        \/ ReconcilePoll(cand[r], cand[r].seen \in TerminalStatuses) /\ Goto(r, "idle")
    BY <1>5 DEF PollReconcile, OrRaise
  <2>2. QED
    BY <1>c, <1>0, <1>p, <1>r, <2>1, CalmStatements, CalmElsewhere
<1>6. CASE PollApply(r)
  <2>1. job[c.job].attempt = c.att /\ c.seen \in TerminalStatuses
    BY <1>6, <1>k DEF PollApply, Follows, Reads, Working
  <2>2. CASE TransitionOK(c.job, "RUNNING", c.seen)
    <3>1. /\ UNCHANGED run /\ Transition(c.job, "RUNNING", c.seen)
          /\ \E point \in Elsewhere : Goto(r, point)
      BY <1>c, <1>0, <1>6, <2>2 DEF PollApply
    <3>2. QED
      BY <1>c, <1>p, <2>1, <2>2, <3>1, ResultGoesOn
  <2>3. CASE ~TransitionOK(c.job, "RUNNING", c.seen)
    <3>1. \E point \in Elsewhere : Decide(r, point)
      BY <1>c, <1>0, <1>6, <2>3 DEF PollApply, Decide, store
    <3>2. QED
      BY <1>p, <3>1, DecideElsewhere
  <2>4. QED
    BY <2>2, <2>3
<1>7. CASE PollBind(r)
  <2>1. CASE Raise(r)
    BY <1>r, <2>1
  <2>2. CASE /\ job[c.job].state = "SUCCEEDED" /\ BindArtifactManifest(c.job)
             /\ UNCHANGED run /\ Goto(r, "idle")
    <3>1. "SUCCEEDED" \in TerminalStatuses
      BY DEF TerminalStatuses
    <3>2. QED
      BY <1>c, <1>0, <1>p, <2>2, <3>1, ResultGoesOn
  <2>3. QED
    BY <1>c, <1>7, <2>1, <2>2 DEF PollBind, OrRaise
<1>8. CASE PollRetry(r) \/ PollExhaustedCanceled(r)
  <2>1. CASE Raise(r)
    BY <1>r, <2>1
  <2>2. CASE RecordPollTransportFailure(c) /\ Goto(r, "poll_retry_local")
    BY <1>c, <1>0, <1>p, <2>2, CalmStatements, CalmElsewhere
  <2>3. CASE RecordExhaustedPollAfterLocalCancel(c) /\ Goto(r, "idle")
    BY <1>c, <1>0, <1>p, <2>3, CalmStatements, CalmElsewhere
  <2>4. QED
    BY <1>c, <1>8, <2>1, <2>2, <2>3 DEF PollRetry, PollExhaustedCanceled, OrRaise
<1>9. CASE PollExhaustedRunning(r)
  BY <1>9, <1>p, MarkTended DEF PollExhaustedRunning, Past
<1>10. CASE PollFatal(r)
  <2>1. Raise(r) \/ /\ RecordPollStatus(c, "FAILED_FINAL", FALSE) /\ UNCHANGED job
                    /\ Goto(r, "poll_fatal_local")
    BY <1>c, <1>10 DEF PollFatal, OrRaise
  <2>2. RecordPollStatus(c, "FAILED_FINAL", FALSE) /\ UNCHANGED job => Calm(c)
    BY <1>c, CalmStatements
  <2>3. QED
    BY <1>c, <1>0, <1>p, <1>r, <2>1, <2>2, CalmElsewhere
<1>11. CASE PollFatalApply(r)
  <2>1. job[c.job].attempt = c.att /\ "FAILED_FINAL" \in TerminalStatuses
    BY <1>11, <1>k DEF PollFatalApply, Follows, Working, TerminalStatuses, FailedStatuses
  <2>2. Raise(r) \/ /\ TransitionOK(c.job, "RUNNING", "FAILED_FINAL")
                    /\ Transition(c.job, "RUNNING", "FAILED_FINAL")
                    /\ UNCHANGED run /\ Goto(r, "idle")
    BY <1>c, <1>11 DEF PollFatalApply, OrRaise
  <2>3. QED
    BY <1>c, <1>0, <1>p, <1>r, <2>1, <2>2, ResultGoesOn
<1>12. QED
  BY <1>1, <1>2, <1>3, <1>4, <1>5, <1>6, <1>7, <1>8, <1>9, <1>10, <1>11 DEF Poll

\* A job that is queued again has an empty row for its new attempt, and nobody is at
\* work on that attempt.
LEMMA RetryTables ==
  ASSUME Tended, NEW j \in Jobs, RetryJob(j)
  PROVE  /\ FutureIsBlank'
         /\ \A k \in Jobs : InReach(k, job[k], CurrentRun(k))'
         /\ run' = run /\ job'[j].attempt = job[j].attempt + 1
         /\ \A k \in Jobs \ {j} : job'[k] = job[k]
<1> USE WorkedTypes DEF Tended
<1>1. job \in [Jobs -> JobRows] /\ run' = run
  BY DEF StoreTypeOK, RetryJob
<1>2. job' = [job EXCEPT ![j].state = "QUEUED", ![j].attempt = job[j].attempt + 1]
  BY DEF RetryJob, CanRetry, CanTransition, Transition, DuplicateCancel, NextAttempt
<1>3. /\ job'[j].state = "QUEUED" /\ job'[j].attempt = job[j].attempt + 1
      /\ \A k \in Jobs \ {j} : job'[k] = job[k]
  BY <1>1, <1>2 DEF JobRows
<1>4. job[j].attempt \in Attempts /\ job[j].attempt + 1 \in Attempts
  BY BoundsAssumption DEF RetryJob, CanRetry, Attempts
<1>5. FutureIsBlank'
  <2> SUFFICES ASSUME NEW k \in Jobs, NEW a \in Attempts, a > job'[k].attempt
               PROVE  ~run[k][a].row /\ ~run[k][a].ext /\ run[k][a].stage = "plain"
    BY <1>1 DEF FutureIsBlank
  <2>1. a > job[k].attempt
    BY <1>3, <1>4 DEF Attempts
  <2>2. QED
    BY <2>1 DEF FutureIsBlank, TendInv
<1>6. ASSUME NEW k \in Jobs
      PROVE  InReach(k, job'[k], run[k][job'[k].attempt])
  <2>1. CASE k = j
    <3>1. job[j].attempt + 1 > job[j].attempt
      BY <1>4 DEF Attempts
    <3>2. ~run[j][job'[j].attempt].ext /\ run[j][job'[j].attempt].stage = "plain"
      BY <1>3, <1>4, <3>1 DEF FutureIsBlank, TendInv
    <3>3. QED
      BY <1>3, <2>1, <3>2 DEF InReach
  <2>2. CASE k # j
    BY <1>3, <2>2 DEF TendInv, CurrentRun
  <2>3. QED
    BY <2>1, <2>2
<1>7. QED
  BY <1>1, <1>3, <1>5, <1>6 DEF CurrentRun

LEMMA RequeueTended ==
  ASSUME Tended, NEW r \in Runners, Requeue(r)
  PROVE  TendInv'
<1>c. PICK c \in Candidates : c = cand[r] /\ StoreTypeOK /\ Keyed(c) /\ c.job \in Jobs
  BY WorkedTypes DEF Tended, Candidates
<1>0. /\ {"idle", "raised", "retry_apply", "retry_consume"} \subseteq Elsewhere
      /\ {"retry_claim", "retry_apply", "retry_consume"} \subseteq Past
      /\ {"idle", "raised"} \subseteq Resting
  BY DEF Elsewhere, Past, Points, Stopped, Resting, Dispatching, Accepting, Patient
<1>p. at[r] \in Past
  BY <1>0 DEF Requeue, RetryClaim, RetryApply, RetryConsume
<1>r. ASSUME Raise(r) PROVE TendInv'
  BY <1>0, <1>r, RaiseTended DEF Raise, Decide
<1>1. CASE RetryClaim(r)
  <2>1. \E point \in Elsewhere :
          Decide(r, point) \/ (ClaimExisting(r, c) /\ Goto(r, point))
    BY <1>c, <1>0, <1>1 DEF RetryClaim, OrGiveUp, Decide
  <2>2. QED
    BY <1>c, <1>p, <2>1, CalmStatements, CalmElsewhere
<1>2. CASE RetryApply(r)
  <2>1. CASE Raise(r)
    BY <1>r, <2>1
  <2>2. CASE RetryJob(c.job) /\ Goto(r, "retry_consume")
    <3>1. /\ FutureIsBlank'
          /\ \A k \in Jobs : InReach(k, job[k], CurrentRun(k))'
          /\ job'[c.job].attempt = job[c.job].attempt + 1
      BY <1>c, <2>2, RetryTables
    <3>2. cand' = cand
      BY <2>2 DEF Goto, Stopped
    <3>3. c.att <= job[c.job].attempt /\ c.att \in Nat /\ job[c.job].attempt \in Nat
      BY <1>c, WorkedTypes DEF Tended, TendInv, Candidates, Attempts
    <3>4. c.att < job'[c.job].attempt
      BY <3>1, <3>3
    <3>5. \A q \in Runners : cand'[q] = c
      BY <1>c, <3>2 DEF Tended, Worked, SingleWorker
    <3>6. \A q \in Runners : /\ cand'[q].att <= job'[cand'[q].job].attempt
                             /\ cand'[q].att # job'[cand'[q].job].attempt
      BY <3>1, <3>3, <3>4, <3>5
    <3>7. QED
      BY <3>1, <3>6 DEF TendInv
  <2>3. QED
    BY <1>c, <1>2, <2>1, <2>2 DEF RetryApply, OrRaise
<1>3. CASE RetryConsume(r)
  <2>1. CASE Raise(r)
    BY <1>r, <2>1
  <2>2. CASE MarkRetryConsumed(c) /\ Goto(r, "idle")
    BY <1>c, <1>0, <1>p, <2>2, CalmStatements, CalmElsewhere
  <2>3. QED
    BY <1>c, <1>3, <2>1, <2>2 DEF RetryConsume, OrRaise
<1>4. QED
  BY <1>1, <1>2, <1>3 DEF Requeue

\* A decision before the claim leaves a waiting job to a runner about to claim it.
LEMMA PatientGoes ==
  ASSUME Tended, NEW r \in Runners, at[r] \in {"recover", "submit"},
         NEW point \in Elsewhere, Decide(r, point),
         cand[r].st = "QUEUED" => point \in Patient \cup Resting
  PROVE  TendInv'
<1>c. PICK c \in Candidates : c = cand[r] /\ c.job \in Jobs
  BY WorkedTypes DEF Tended, Candidates
<1>1. CASE point \in Resting
  BY <1>1, RaiseTended
<1>2. CASE point \notin Resting
  <2>1. GotoWith(r, point, c)
    BY <1>c, <1>2, WorkedTypes DEF Decide, Goto, GotoWith, Resting, TypeOK, Tended
  <2>2. Local(c) /\ job' = job /\ run' = run
    BY StillCalm DEF Decide, Calm, store
  <2>3. job[c.job].attempt = c.att => /\ InReach(c.job, job[c.job], Row(c))
                                      /\ Placed(at[r], c, job[c.job], Row(c))
    BY <1>c DEF Tended, TendInv, CurrentRun, Row
  <2>4. at[r] \notin Resting /\ at[r] # "quarantine_queued"
    BY DEF Resting, Stopped
  <2>5. job[c.job].attempt = c.att => Placed(point, c, job[c.job], Row(c))
    BY <1>c, <1>2, <2>3, <2>4 DEF Placed, Elsewhere
  <2>6. run'[c.job][c.att] = Row(c) /\ point \in Points
    BY <2>2 DEF Row, Elsewhere
  <2>7. QED
    BY <1>c, <2>1, <2>2, <2>3, <2>5, <2>6, TendArrives
<1>3. QED
  BY <1>1, <1>2

\* A statement that makes stage the stage of the job, which is at the attempt of c,
\* and R the row of its run.
WritesStage(c, stage, R) ==
  /\ StoreTypeOK /\ Keyed(c) /\ job[c.job].attempt = c.att
  /\ job' = [job EXCEPT ![c.job].stage = stage] /\ SetRow(c, R)

LEMMA StageWritten ==
  ASSUME NEW c, NEW stage, NEW R, WritesStage(c, stage, R)
  PROVE  /\ Local(c) /\ run'[c.job][c.att] = R
         /\ job'[c.job].state = job[c.job].state /\ job'[c.job].stage = stage
<1> USE DEF WritesStage
<1>1. c.job \in Jobs /\ job[c.job] \in JobRows /\ job \in [Jobs -> JobRows]
  BY DEF StoreTypeOK, Keyed
<1>2. run \in [Jobs -> [Attempts -> RunRows]] /\ c.att \in Attempts
  BY DEF StoreTypeOK, Keyed
<1>3. /\ job'[c.job].state = job[c.job].state /\ job'[c.job].attempt = job[c.job].attempt
      /\ job'[c.job].stage = stage /\ \A j \in Jobs \ {c.job} : job'[j] = job[j]
  BY <1>1 DEF JobRows
<1>4. \A j \in Jobs, a \in Attempts :
        run'[j][a] = IF j = c.job /\ a = c.att THEN R ELSE run[j][a]
  BY <1>1, <1>2 DEF SetRow
<1>5. QED
  BY <1>1, <1>2, <1>3, <1>4 DEF Local

\* What is put before an operator before anything was accepted.
LEMMA QuarantineTended ==
  ASSUME Tended, NEW r \in Runners,
         MarkStaleJob(r) \/ QuarantineQueuedJob(r) \/ QuarantineRunningDispatch(r)
  PROVE  TendInv'
<1>c. PICK c \in Candidates : c = cand[r] /\ StoreTypeOK /\ Keyed(c) /\ c.job \in Jobs /\ Row(c) \in RunRows
  BY WorkedTypes, CandidateKeyed DEF Tended, Candidates
<1>0. {"idle", "raised"} \subseteq Resting
  BY DEF Resting, Stopped
<1>1. CASE \E point \in {"idle", "raised"} : Decide(r, point)
  BY <1>0, <1>1, RaiseTended
<1>k. job[c.job].attempt = c.att => InReach(c.job, job[c.job], Row(c))
  BY <1>c DEF Tended, TendInv, CurrentRun, Row
<1>2. CASE MarkStaleJob(r) /\ StageIn(c, {"RUNNING"}) /\ MarkStale(c) /\ Goto(r, "idle")
  <2>1. PICK R : SetRow(c, R)
    BY <1>2 DEF MarkStale
  <2>2. job' = [job EXCEPT ![c.job].stage = "reconciliation_required"]
    BY <1>2 DEF MarkStale, SetJobStage
  <2>3. job[c.job].attempt = c.att /\ job[c.job].state = "RUNNING"
    BY <1>2 DEF StageIn
  <2>4. /\ Local(c) /\ job'[c.job].state = "RUNNING"
        /\ job'[c.job].stage = "reconciliation_required"
    <3>1. WritesStage(c, "reconciliation_required", R)
      BY <1>c, <2>1, <2>2, <2>3 DEF WritesStage
    <3>2. QED
      BY <2>3, <3>1, StageWritten
  <2>5. InReach(c.job, job'[c.job], run'[c.job][c.att])
    BY <2>4 DEF InReach, Waiting
  <2>6. QED
    BY <1>c, <1>0, <1>2, <2>4, <2>5, TendRests
<1>3. CASE QuarantineQueuedJob(r) /\ CanQuarantineQueued(c) /\ QuarantineQueued(c)
           /\ Goto(r, "idle")
  <2>p. PICK R : R = [Row(c) EXCEPT !.row = TRUE, !.stage = "reconciliation_required"]
    OBVIOUS
  <2>1. SetRow(c, R) /\ ~R.ext
    BY <1>c, <1>3, <2>p DEF QuarantineQueued, CanQuarantineQueued, RunRows
  <2>2. job' = [job EXCEPT ![c.job].stage = "reconciliation_required"]
    BY <1>3 DEF QuarantineQueued, SetJobStage, CanQuarantineQueued
  <2>3. job[c.job].attempt = c.att /\ job[c.job].state = "QUEUED"
    BY <1>3 DEF CanQuarantineQueued, StageIn
  <2>4. /\ Local(c) /\ job'[c.job].state = "QUEUED" /\ run'[c.job][c.att] = R
        /\ job'[c.job].stage = "reconciliation_required"
    <3>1. WritesStage(c, "reconciliation_required", R)
      BY <1>c, <2>1, <2>2, <2>3 DEF WritesStage
    <3>2. QED
      BY <2>3, <3>1, StageWritten
  <2>5. InReach(c.job, job'[c.job], run'[c.job][c.att])
    BY <2>1, <2>4 DEF InReach
  <2>6. QED
    BY <1>c, <1>0, <1>3, <2>4, <2>5, TendRests
<1>4. CASE QuarantineRunningDispatch(r) /\ CanQuarantineRunning(c) /\ QuarantineRunning(c)
           /\ Goto(r, "idle")
  <2>p. PICK R : R = [Released(Row(c)) EXCEPT !.stage = "reconciliation_required",
                                              !.next = "null"]
    OBVIOUS
  <2>1. SetRow(c, R) /\ ~R.ext
    BY <1>c, <1>4, <2>p DEF QuarantineRunning, CanQuarantineRunning, RunRows, Released
  <2>2. /\ Local(c) /\ run'[c.job][c.att] = R /\ job'[c.job].state = job[c.job].state
        /\ job'[c.job].stage = IF StageIn(c, {"RUNNING"}) /\ job[c.job].stage = "dispatching"
                                 THEN "reconciliation_required" ELSE job[c.job].stage
    <3>1. CASE StageIn(c, {"RUNNING"}) /\ job[c.job].stage = "dispatching"
      <4>1. WritesStage(c, "reconciliation_required", R)
        BY <1>c, <1>4, <2>1, <3>1 DEF QuarantineRunning, StageIn, WritesStage
      <4>2. QED
        BY <3>1, <4>1, StageWritten
    <3>2. CASE ~(StageIn(c, {"RUNNING"}) /\ job[c.job].stage = "dispatching")
      <4>1. job' = job
        BY <1>4, <3>2 DEF QuarantineRunning
      <4>2. QED
        BY <1>c, <2>1, <3>2, <4>1, LocalRow
    <3>3. QED
      BY <3>1, <3>2
  <2>4. at[r] \notin Patient \cup Resting
    BY <1>4 DEF QuarantineRunningDispatch, Patient, Resting, Stopped
  <2>5. job[c.job].attempt = c.att => job[c.job].state \notin Waiting
    BY <1>c, <2>4, PastClaim
  <2>6. job[c.job].attempt = c.att => InReach(c.job, job'[c.job], run'[c.job][c.att])
    BY <1>k, <1>4, <2>2, <2>5 DEF InReach, StageIn, CanQuarantineRunning
  <2>7. QED
    BY <1>c, <1>0, <1>4, <2>2, <2>6, TendRests
<1>5. QED
  BY <1>c, <1>1, <1>2, <1>3, <1>4
     DEF MarkStaleJob, QuarantineQueuedJob, QuarantineRunningDispatch, OrRaise, OrGiveUp,
         Raise, Decide

\* The claim of a submission: a job nothing was accepted for starts dispatching, or a
\* dispatch goes on that no operator was called to.
LEMMA ClaimTended ==
  ASSUME Tended, NEW r \in Runners, at[r] \in {"submit_claim", "lookup_claim"},
         CanClaimSubmission(cand[r]), ClaimSubmission(r, cand[r]),
         NEW point \in Dispatching, Goto(r, point)
  PROVE  TendInv'
<1>c. PICK c \in Candidates : c = cand[r] /\ StoreTypeOK /\ Keyed(c) /\ c.job \in Jobs
                              /\ Row(c) \in RunRows /\ job[c.job] \in JobRows
  BY WorkedTypes, CandidateKeyed DEF Tended, Candidates
<1>0. point \in Points /\ Dispatching \cap Accepting = {}
  BY DEF Dispatching, Accepting, Points
<1>1. /\ job[c.job].attempt = c.att /\ job[c.job].state = c.st
      /\ c.st = "RUNNING" => job[c.job].stage = "dispatching"
  BY <1>c DEF CanClaimSubmission, StageIn
<1>2. /\ InReach(c.job, job[c.job], Row(c)) /\ Placed(at[r], c, job[c.job], Row(c))
  BY <1>c, <1>1 DEF Tended, TendInv, CurrentRun, Row
<1>p. PICK R : R = Leased([Row(c) EXCEPT !.row = TRUE], r)
  OBVIOUS
<1>3. SetRow(c, R) /\ R.ext = Row(c).ext /\ R.stage = Row(c).stage
  BY <1>c, <1>p DEF ClaimSubmission, Leased, RunRows
<1>4. at[r] \notin Resting /\ at[r] # "quarantine_queued"
  BY DEF Resting, Stopped
<1>5. CASE c.st = "QUEUED"
  <2>1. Row(c).stage # "reconciliation_required"
    BY <1>1, <1>2, <1>4, <1>5 DEF InReach, Placed, Waiting
  <2>p. PICK J : J = [job[c.job] EXCEPT !.state = "RUNNING", !.stage = "dispatching"]
    OBVIOUS
  <2>2. J.attempt = job[c.job].attempt /\ J.state = "RUNNING" /\ J.stage = "dispatching"
    BY <1>c, <2>p DEF JobRows
  <2>3. /\ StoreTypeOK /\ Keyed(c) /\ J.attempt = job[c.job].attempt
        /\ job' = [job EXCEPT ![c.job] = J] /\ run' = [run EXCEPT ![c.job][c.att] = R]
    BY <1>c, <1>3, <1>5, <2>2, <2>p DEF ClaimSubmission, SetRow, StoreTypeOK
  <2>4. Local(c) /\ job'[c.job] = J /\ run'[c.job][c.att] = R
    <3>1. job \in [Jobs -> JobRows] /\ run \in [Jobs -> [Attempts -> RunRows]]
          /\ c.att \in Attempts
      BY <2>3 DEF StoreTypeOK, Keyed
    <3>2. job'[c.job] = J /\ \A j \in Jobs \ {c.job} : job'[j] = job[j]
      BY <1>c, <2>3, <3>1
    <3>3. \A j \in Jobs, a \in Attempts :
            run'[j][a] = IF j = c.job /\ a = c.att THEN R ELSE run[j][a]
      BY <1>c, <2>3, <3>1
    <3>4. QED
      BY <1>1, <1>c, <2>2, <3>1, <3>2, <3>3 DEF Local
  <2>5. J.state \notin Waiting /\ InReach(c.job, J, R)
    BY <1>3, <2>1, <2>2 DEF InReach, Waiting
  <2>6. Tends(c)
    BY <2>4, <2>5 DEF Tends
  <2>7. QED
    BY <1>c, <1>0, <1>3, <2>1, <2>4, <2>6, TendGoes
<1>6. CASE c.st # "QUEUED"
  <2>1. Local(c) /\ job'[c.job] = job[c.job] /\ run'[c.job][c.att] = R
    <3>1. job' = job
      BY <1>c, <1>6 DEF ClaimSubmission
    <3>2. QED
      BY <1>c, <1>3, <3>1, LocalRow
  <2>2. job[c.job].state \notin Waiting
    BY <1>1, <1>2, <1>4, <1>6 DEF Placed
  <2>3. InReach(c.job, job[c.job], R)
    BY <1>1, <1>2, <1>3, <2>2 DEF InReach
  <2>4. Tends(c)
    BY <2>1, <2>2, <2>3 DEF Tends
  <2>5. PlanExecutor[c.job] # Supervised /\ job[c.job].state = "RUNNING" =>
          R.stage # "reconciliation_required"
    BY <1>1, <1>2, <1>3 DEF InReach
  <2>6. QED
    BY <1>c, <1>0, <2>1, <2>4, <2>5, TendGoes
<1>7. QED
  BY <1>5, <1>6

\* The recorded acceptance, after which the runner takes the job out of dispatching.
LEMMA AcceptedGoes ==
  ASSUME Tended, NEW r \in Runners, at[r] \in {"submit_record", "lookup_record"},
         RecordAcceptance(cand[r]), NEW point \in Accepting, Goto(r, point)
  PROVE  TendInv'
<1>c. PICK c \in Candidates : c = cand[r]
  BY WorkedTypes DEF Tended
<1>1. point \in Points /\ at[r] \in Past /\ at[r] \in Dispatching
  BY DEF Accepting, Points, Past, Patient, Resting, Stopped, Dispatching
<1>2. /\ Tends(c) /\ job' = job /\ run'[c.job][c.att].ext
      /\ run'[c.job][c.att].stage = Row(c).stage
  BY <1>c, <1>1, AcceptanceTends
<1>3. job[c.job].attempt = c.att => Placed(at[r], c, job[c.job], Row(c))
  BY <1>c, <1>1, PastClaim DEF Past
<1>4. /\ job[c.job].attempt = c.att /\ job'[c.job].state = "RUNNING"
      /\ PlanExecutor[c.job] # Supervised
      => run'[c.job][c.att].stage # "reconciliation_required"
  BY <1>1, <1>2, <1>3 DEF Placed
<1>5. QED
  BY <1>c, <1>1, <1>2, <1>4, TendGoes

\* The accepted job is no longer dispatching, and its run is known.
LEMMA AcceptTended ==
  ASSUME Tended, NEW r \in Runners, SubmitAccept(r)
  PROVE  TendInv'
<1>c. PICK c \in Candidates : c = cand[r] /\ StoreTypeOK /\ Keyed(c) /\ c.job \in Jobs
  BY WorkedTypes DEF Tended, Candidates
<1>0. "raised" \in Resting /\ "idle" \in Resting
  BY DEF Resting, Stopped
<1>1. CASE Raise(r)
  BY <1>0, <1>1, RaiseTended DEF Raise, Decide
<1>2. CASE /\ StageIn(c, {"RUNNING"}) /\ SetJobStage(c, {"RUNNING"}, "plain")
           /\ run' = run /\ Goto(r, "idle")
  <2>1. WritesStage(c, "plain", Row(c))
    <3>1. run' = [run EXCEPT ![c.job][c.att] = Row(c)]
      BY <1>c, <1>2 DEF Row, StoreTypeOK, Keyed
    <3>2. QED
      BY <1>c, <1>2, <3>1 DEF SetJobStage, StageIn, SetRow, WritesStage
  <2>2. /\ Local(c) /\ run'[c.job][c.att] = Row(c)
        /\ job'[c.job].state = job[c.job].state /\ job'[c.job].stage = "plain"
    BY <2>1, StageWritten
  <2>3. at[r] \in Accepting /\ at[r] \notin Patient \cup Resting
    BY DEF SubmitAccept, Accepting, Patient, Resting, Stopped
  <2>4. job[c.job].attempt = c.att => /\ job[c.job].state \notin Waiting
                                      /\ Placed(at[r], c, job[c.job], Row(c))
    BY <1>c, <2>3, PastClaim
  <2>5. job[c.job].attempt = c.att => InReach(c.job, job'[c.job], run'[c.job][c.att])
    BY <2>2, <2>3, <2>4 DEF InReach, Placed
  <2>6. QED
    BY <1>c, <1>0, <1>2, <2>2, <2>5, TendRests
<1>3. QED
  BY <1>c, <1>1, <1>2 DEF SubmitAccept, OrRaise

\* The lease is given back and the handler goes on as another one.
LEMMA ReleaseTended ==
  ASSUME Tended, NEW r \in Runners, at[r] \in Past, NEW st \in JobStates,
         NEW point \in Elsewhere, point \notin Resting, ReleaseAndContinue(r, st, point)
  PROVE  TendInv'
<1>c. PICK c \in Candidates : c = cand[r] /\ StoreTypeOK /\ Keyed(c)
  BY WorkedTypes DEF Tended
<1>1. CASE Raise(r)
  BY <1>1, RaiseTended DEF Raise, Decide, Resting, Stopped
<1>2. CASE ReleaseLease(c) /\ GotoWith(r, point, [c EXCEPT !.st = st])
  <2>1. PICK d : d = [c EXCEPT !.st = st]
    OBVIOUS
  <2>2. d \in Candidates /\ d.job = c.job /\ d.att = c.att
    BY <2>1 DEF Candidates
  <2>3. Calm(c)
    BY <1>c, <1>2, CalmStatements
  <2>4. job[c.job].attempt = c.att => job[c.job].state \notin Waiting
    BY <1>c, PastClaim DEF Past
  <2>5. Tends(c)
    BY <2>3, <2>4, CalmTends
  <2>6. job[c.job].attempt = c.att => Placed(point, d, job'[c.job], run'[c.job][c.att])
    BY <2>5 DEF Tends, Placed, Elsewhere
  <2>7. GotoWith(r, point, d) /\ point \in Points
    BY <1>2, <2>1 DEF Elsewhere
  <2>8. QED
    BY <1>c, <2>2, <2>5, <2>6, <2>7, TendArrives DEF Tends
<1>3. QED
  BY <1>c, <1>1, <1>2 DEF ReleaseAndContinue

LEMMA RecoveryTended ==
  ASSUME Tended, NEW r \in Runners, Recovery(r)
  PROVE  TendInv'
<1>c. PICK c \in Candidates : c = cand[r] /\ StoreTypeOK /\ Keyed(c)
  BY WorkedTypes DEF Tended
<1>0. /\ {"idle", "raised", "mark_stale", "submit", "quarantine_queued", "quarantine_running",
          "lookup_prepare", "lookup_claim", "submit_claim", "submit_release_cancel",
          "submit_release", "submit_release_lapsed", "claimed_reconcile", "cancel"}
           \subseteq Elsewhere
      /\ {"submit_check", "submit_resume", "submit_release", "submit_release_cancel",
          "submit_release_lapsed", "submit_record", "submit_stage", "submit_accept",
          "submit_retry", "lookup_prepare", "lookup_claim", "lookup_call", "lookup_record",
          "claimed_reconcile"} \subseteq Past
      /\ {"submit_check", "submit_resume", "submit_call", "submit_record", "lookup_call",
          "lookup_record"} \subseteq Dispatching
      /\ {"submit_stage", "submit_accept"} \subseteq Accepting
      /\ {"idle", "raised"} \subseteq Resting
      /\ {"submit", "submit_claim", "quarantine_queued"} \subseteq Patient
      /\ Dispatching \cup Accepting \subseteq Points
  BY DEF Elsewhere, Past, Points, Stopped, Resting, Dispatching, Accepting, Patient
<1>r. ASSUME NEW point \in {"idle", "raised"}, Decide(r, point) PROVE TendInv'
  BY <1>0, <1>r, RaiseTended
<1>1. CASE Recover(r) \/ Submit(r)
  <2>1. PICK point : /\ Decide(r, point) /\ point \in Elsewhere
                     /\ cand[r].st = "QUEUED" => point \in Patient \cup Resting
    BY <1>0, <1>1 DEF Recover, Submit
  <2>2. at[r] \in {"recover", "submit"}
    BY <1>1 DEF Recover, Submit
  <2>3. QED
    BY <2>1, <2>2, PatientGoes
<1>2. CASE MarkStaleJob(r) \/ QuarantineQueuedJob(r) \/ QuarantineRunningDispatch(r)
  BY <1>2, QuarantineTended
<1>3. CASE SubmitClaim(r) \/ LookupClaim(r)
  <2>1. CASE Decide(r, "idle")
    BY <1>r, <2>1
  <2>2. CASE /\ CanClaimSubmission(cand[r]) /\ ClaimSubmission(r, cand[r])
             /\ \E point \in {"submit_check", "lookup_call"} : Goto(r, point)
    <3>1. at[r] \in {"submit_claim", "lookup_claim"}
      BY <1>3 DEF SubmitClaim, LookupClaim
    <3>2. QED
      BY <1>0, <2>2, <3>1, ClaimTended
  <2>3. QED
    BY <1>3, <2>1, <2>2 DEF SubmitClaim, LookupClaim, OrGiveUp, Decide
<1>4. CASE SubmitCheck(r) \/ SubmitResume(r) \/ LookupCall(r)
  <2>1. PICK point : /\ Decide(r, point) /\ point \in Points
                     /\ point \in Dispatching \cup Elsewhere
    BY <1>0, <1>4 DEF SubmitCheck, SubmitResume, LookupCall, TooLittleLease, Elsewhere
  <2>2. at[r] \in Dispatching /\ at[r] \in Past
    BY <1>0, <1>4 DEF SubmitCheck, SubmitResume, LookupCall, TooLittleLease
  <2>3. QED
    BY <2>1, <2>2, DecideTended DEF Elsewhere, Past
<1>5. CASE SubmitRelease(r)
  <2>1. \E point \in Elsewhere :
          Decide(r, point) \/ (ReleaseLease(c) /\ Goto(r, point))
    BY <1>c, <1>0, <1>5 DEF SubmitRelease, OrGiveUp, Decide
  <2>2. at[r] \in Past
    BY <1>0, <1>5 DEF SubmitRelease
  <2>3. QED
    BY <1>c, <2>1, <2>2, CalmStatements, CalmElsewhere
<1>6. CASE SubmitReleaseCancel(r) \/ SubmitReleaseLapsed(r)
  <2>1. /\ \E st \in JobStates, point \in {"cancel", "lookup_prepare"} :
             ReleaseAndContinue(r, st, point)
        /\ at[r] \in Past
    BY <1>0, <1>6 DEF SubmitReleaseCancel, SubmitReleaseLapsed, JobStates
  <2>2. /\ {"cancel", "lookup_prepare"} \cap Resting = {}
        /\ {"cancel", "lookup_prepare"} \subseteq Elsewhere
    BY <1>0 DEF Resting, Stopped
  <2>3. QED
    BY <2>1, <2>2, ReleaseTended
<1>7. CASE SubmitRecord(r) \/ LookupRecord(r)
  <2>1. CASE Decide(r, "claimed_reconcile")
    <3>1. at[r] \in Past
      BY <1>0, <1>7 DEF SubmitRecord, LookupRecord
    <3>2. QED
      BY <1>0, <2>1, <3>1, DecideElsewhere
  <2>2. CASE /\ RecordAcceptance(cand[r])
             /\ \E point \in {"submit_stage", "submit_accept"} : Goto(r, point)
    <3>1. at[r] \in {"submit_record", "lookup_record"}
      BY <1>7 DEF SubmitRecord, LookupRecord
    <3>2. QED
      BY <1>0, <2>2, <3>1, AcceptedGoes
  <2>3. QED
    BY <1>7, <2>1, <2>2 DEF SubmitRecord, LookupRecord
<1>8. CASE SubmitStage(r)
  <2>1. PICK point : Decide(r, point) /\ point \in Points
    BY <1>0, <1>8 DEF SubmitStage, Elsewhere
  <2>2. at[r] \in Accepting /\ at[r] \in Past
    BY <1>0, <1>8 DEF SubmitStage
  <2>3. QED
    BY <2>1, <2>2, DecideTended DEF Past
<1>9. CASE SubmitAccept(r)
  BY <1>9, AcceptTended
<1>10. CASE SubmitRetry(r)
  <2>1. \E point \in Elsewhere :
          Decide(r, point) \/ (RecordSubmitTransportFailure(c) /\ Goto(r, point))
    BY <1>c, <1>0, <1>10 DEF SubmitRetry, OrRaise, Raise, Decide
  <2>2. at[r] \in Past
    BY <1>0, <1>10 DEF SubmitRetry
  <2>3. QED
    BY <1>c, <2>1, <2>2, CalmStatements, CalmElsewhere
<1>11. CASE LookupPrepare(r)
  <2>1. \E point \in Elsewhere : Decide(r, point)
    BY <1>0, <1>11 DEF LookupPrepare
  <2>2. at[r] \in Past
    BY <1>0, <1>11 DEF LookupPrepare
  <2>3. QED
    BY <2>1, <2>2, DecideElsewhere
<1>12. CASE ClaimedReconcile(r)
  <2>1. "RUNNING" \in JobStates \ {"AWAITING_PAID_APPROVAL"} /\ at[r] \in Past
    BY <1>0, <1>12 DEF ClaimedReconcile, JobStates
  <2>2. Mark(r, Owns(r, cand[r]), JobStates \ {"AWAITING_PAID_APPROVAL"},
             "reconciliation_required")
    BY <1>12 DEF ClaimedReconcile
  <2>3. QED
    BY <2>1, <2>2, MarkTended DEF Past
<1>13. QED
  BY <1>1, <1>2, <1>3, <1>4, <1>5, <1>6, <1>7, <1>8, <1>9, <1>10, <1>11, <1>12 DEF Recovery

\* The two steps that reach the provider change nothing else.
LEMMA RemoteTended ==
  ASSUME Tended, NEW r \in Runners, CancelCall(r) \/ SubmitCall(r)
  PROVE  TendInv'
<1>0. /\ {"cancel_confirmed", "cancel_retry", "cancel_unconfirmed", "submit_release_lapsed",
          "claimed_reconcile", "submit_retry"} \subseteq Elsewhere
      /\ {"cancel_call", "submit_call"} \subseteq Past
      /\ {"submit_call", "submit_record"} \subseteq Dispatching \cap Points
  BY DEF Elsewhere, Past, Points, Stopped, Resting, Dispatching, Accepting, Patient
<1>1. at[r] \in Past
  BY <1>0 DEF CancelCall, SubmitCall
<1>2. CASE Decide(r, "submit_record") /\ at[r] = "submit_call"
  BY <1>0, <1>1, <1>2, DecideTended DEF Past
<1>3. CASE \E point \in Elsewhere : Decide(r, point)
  BY <1>1, <1>3, DecideElsewhere
<1>4. QED
  BY <1>0, <1>2, <1>3 DEF CancelCall, TooLittleLease, SubmitCall

LEMMA StopTended ==
  ASSUME Tended, NEW r \in Runners, Crash(r) \/ Restart(r)
  PROVE  TendInv'
<1>1. \E point \in {"down", "idle"} : Decide(r, point)
  BY DEF Crash, Restart, Decide
<1>2. {"down", "idle"} \subseteq Resting
  BY DEF Resting, Stopped
<1>3. QED
  BY <1>1, <1>2, RaiseTended

-----------------------------------------------------------------------------
(* What the queries of a tick find, and everybody else.                    *)

\* A candidate of the current attempt, for a handler that may work on it.
LEMMA SelectTended ==
  ASSUME Tended, NEW r \in Runners, NEW S, S \subseteq Jobs, NEW point \in Points,
         point \notin Dispatching, Select(r, S, point),
         \A j \in S :
           /\ job[j].state \in Waiting => /\ job[j].state = "QUEUED" /\ point \in Patient
                                         /\ job[j].stage # "reconciliation_required"
           /\ point \in Accepting => /\ CurrentRun(j).stage # "reconciliation_required"
                                     /\ CurrentRun(j).ext
  PROVE  TendInv'
<1> USE WorkedTypes DEF Tended
<1>1. PICK j \in S : GotoWith(r, point, [job |-> j, att |-> job[j].attempt,
                        st |-> job[j].state, seen |-> "NULL", spend |-> FALSE])
  BY DEF Select
<1>2. PICK c : c = [job |-> j, att |-> job[j].attempt, st |-> job[j].state,
                    seen |-> "NULL", spend |-> FALSE]
  OBVIOUS
<1>3. c.job = j /\ c.att = job[j].attempt /\ c.st = job[j].state
  BY <1>2
<1>4. c \in Candidates /\ GotoWith(r, point, c)
  BY <1>1, <1>2 DEF JobRows, Candidates, RunStatuses
<1>5. at'[r] = point /\ cand'[r] = c
  BY <1>4, Lands
<1>6. \A q \in Runners : at'[q] = point /\ cand'[q] = c
  BY <1>5 DEF Worked, SingleWorker
<1>7. job' = job /\ run' = run
  BY DEF Select, store
<1>8. c.att <= job[c.job].attempt
  BY <1>3 DEF Attempts
<1>9. Placed(point, c, job[j], CurrentRun(j))
  BY <1>3 DEF Placed
<1>10. FutureIsBlank' /\ \A k \in Jobs : InReach(k, job[k], CurrentRun(k))'
  BY <1>7 DEF TendInv, FutureIsBlank, CurrentRun
<1>11. \A q \in Runners :
         /\ cand'[q].att <= job'[cand'[q].job].attempt
         /\ Placed(at'[q], cand'[q], job'[cand'[q].job], run'[cand'[q].job][cand'[q].att])
  BY <1>3, <1>6, <1>7, <1>8, <1>9 DEF CurrentRun
<1>12. QED
  BY <1>10, <1>11 DEF TendInv, Row

LEMMA TickTended ==
  ASSUME Tended, NEW r \in Runners, Tick(r)
  PROVE  TendInv'
<1> USE WorkedTypes DEF Tended
<1>0. /\ {"cancel", "terminal_claim", "poll_claim", "retry_claim", "recover"} \subseteq Points
      /\ {"cancel", "terminal_claim", "poll_claim", "retry_claim", "recover"} \cap Dispatching = {}
      /\ {"cancel", "terminal_claim", "retry_claim", "recover"} \cap Accepting = {}
      /\ "recover" \in Patient
  BY DEF Points, Dispatching, Accepting, Patient
<1>1. CASE SelectCancel(r)
  <2>1. Cancels \subseteq Jobs /\ \A j \in Cancels : job[j].state \notin Waiting
    BY DEF Cancels, CancelCandidate, Waiting
  <2>2. QED
    BY <1>0, <1>1, <2>1, SelectTended DEF SelectCancel
<1>2. CASE SelectTerminal(r)
  <2>1. ASSUME NEW j \in Terminals
        PROVE  job[j].state \in {"RUNNING", "SUCCEEDED"}
    BY DEF Terminals, TerminalCandidate, CurrentRun, FailedStatuses, StatusHasId,
           Worked, OneInv, TablesKept
  <2>2. Terminals \subseteq Jobs /\ \A j \in Terminals : job[j].state \notin Waiting
    BY <2>1 DEF Terminals, Waiting
  <2>3. QED
    BY <1>0, <1>2, <2>2, SelectTended DEF SelectTerminal
<1>3. CASE SelectPoll(r)
  <2>1. /\ Polls \subseteq Jobs
        /\ \A j \in Polls : /\ job[j].state \notin Waiting
                            /\ CurrentRun(j).stage # "reconciliation_required"
                            /\ CurrentRun(j).ext
    BY DEF Polls, PollCandidate, Waiting
  <2>2. QED
    BY <1>0, <1>3, <2>1, SelectTended DEF SelectPoll
<1>4. CASE SelectRetry(r)
  <2>1. Retries \subseteq Jobs /\ \A j \in Retries : job[j].state \notin Waiting
    BY DEF Retries, RetryCandidate, Waiting
  <2>2. QED
    BY <1>0, <1>4, <2>1, SelectTended DEF SelectRetry
<1>5. CASE SelectRecovery(r)
  <2>1. /\ Dispatch \subseteq Jobs
        /\ \A j \in Dispatch : job[j].state \in Waiting =>
             job[j].state = "QUEUED" /\ job[j].stage # "reconciliation_required"
    BY DEF Dispatch, Queued, QueuedCandidate, InterruptedCandidate, Waiting
  <2>2. QED
    BY <1>0, <1>5, <2>1, SelectTended DEF SelectRecovery
<1>6. CASE SelectNothing(r)
  BY <1>6 DEF SelectNothing, store, program, TendInv, FutureIsBlank, CurrentRun, Row
<1>7. QED
  BY <1>1, <1>2, <1>3, <1>4, <1>5, <1>6 DEF Tick

LEMMA RunnerTended ==
  ASSUME Tended, NEW r \in Runners, RunnerStep(r) \/ Crash(r) \/ Restart(r)
  PROVE  TendInv'
BY TickTended, CancelTended, TerminalTended, PollTended, RequeueTended, RecoveryTended,
   RemoteTended, StopTended DEF RunnerStep, LocalStep, RemoteStep

\* Somebody else's step, under which the runner stays where it is: it leaves what
\* TendInv looks at, approves a waiting job, or takes a job out of the runner's reach.
LEMMA OthersTend ==
  ASSUME Tended, UNCHANGED program,
         \A j \in Jobs :
           /\ job'[j].attempt = job[j].attempt
           /\ \/ /\ job'[j].stage = job[j].stage
                 /\ \/ job'[j].state = job[j].state
                    \/ job[j].state \in Waiting /\ job'[j].state \in Waiting
              \/ /\ job'[j].state \notin Waiting
                 /\ job'[j].state = "RUNNING" => PlanExecutor[j] = Supervised,
         \A j \in Jobs, a \in Attempts :
           /\ run'[j][a].row = run[j][a].row /\ run'[j][a].ext = run[j][a].ext
           /\ run'[j][a].stage = run[j][a].stage
  PROVE  TendInv'
<1> USE WorkedTypes DEF Tended
<1>0. \A w \in Waiting : w # "RUNNING"
  BY DEF Waiting
<1>1. FutureIsBlank'
  BY DEF TendInv, FutureIsBlank
<1>2. ASSUME NEW j \in Jobs, NEW a \in Attempts, InReach(j, job[j], run[j][a])
      PROVE  InReach(j, job'[j], run'[j][a])
  BY <1>0, <1>2 DEF InReach
<1>3. ASSUME NEW j \in Jobs
      PROVE  InReach(j, job'[j], run'[j][job'[j].attempt])
  BY <1>2 DEF TendInv, CurrentRun
<1>4. ASSUME NEW r \in Runners
      PROVE  /\ cand'[r].att <= job'[cand'[r].job].attempt
             /\ cand'[r].att = job'[cand'[r].job].attempt =>
                  Placed(at'[r], cand'[r], job'[cand'[r].job], run'[cand'[r].job][cand'[r].att])
  <2>1. PICK c \in Candidates : c = cand[r] /\ c.job \in Jobs /\ c.att \in Attempts
    BY DEF Candidates
  <2>2. cand'[r] = c /\ at'[r] = at[r]
    BY <2>1 DEF program
  <2>3. /\ c.att <= job[c.job].attempt
        /\ c.att = job[c.job].attempt => Placed(at[r], c, job[c.job], run[c.job][c.att])
    BY <2>1 DEF TendInv, Row
  <2>4. job'[c.job].attempt = job[c.job].attempt
    BY <2>1
  <2>5. Placed(at[r], c, job[c.job], run[c.job][c.att]) =>
          Placed(at[r], c, job'[c.job], run'[c.job][c.att])
    BY <1>0, <2>1 DEF Placed
  <2>6. QED
    BY <2>2, <2>3, <2>4, <2>5
<1>5. QED
  BY <1>1, <1>3, <1>4 DEF TendInv, CurrentRun, Row

LEMMA ApiTended ==
  ASSUME Tended, NEW j \in Jobs, ApiRequest(j)
  PROVE  TendInv'
<1> USE WorkedTypes DEF Tended
<1>1. job \in [Jobs -> JobRows] /\ UNCHANGED program
  BY DEF StoreTypeOK, ApiRequest
<1>2. CASE Approve(j)
  <2>1. /\ job[j].state \in Waiting /\ run' = run
        /\ job' = [job EXCEPT ![j].state = "QUEUED", ![j].window = "open"]
    BY <1>2 DEF Approve, Waiting
  <2>2. /\ job'[j].attempt = job[j].attempt /\ job'[j].stage = job[j].stage
        /\ job'[j].state \in Waiting /\ \A k \in Jobs \ {j} : job'[k] = job[k]
    BY <1>1, <2>1 DEF JobRows, Waiting
  <2>3. QED
    BY <1>1, <2>1, <2>2, OthersTend
<1>3. CASE CancelJob(j)
  <2>1. PICK from \in {"QUEUED", "RUNNING"} :
          CanTransition(j, from, "CANCELED") /\ Transition(j, from, "CANCELED")
    BY <1>3 DEF CancelJob
  <2>2. /\ job[j].state = from /\ run' = run
        /\ job' = [job EXCEPT ![j].state = "CANCELED", ![j].attempt = job[j].attempt]
    BY <1>3, <2>1 DEF CancelJob, CanTransition, Transition, DuplicateCancel, NextAttempt
  <2>3. /\ job'[j].attempt = job[j].attempt /\ job'[j].state = "CANCELED"
        /\ \A k \in Jobs \ {j} : job'[k] = job[k]
    BY <1>1, <2>2 DEF JobRows
  <2>4. QED
    BY <1>1, <2>2, <2>3, OthersTend DEF Waiting
<1>4. CASE RetryJob(j)
  <2>1. /\ FutureIsBlank'
        /\ \A k \in Jobs : InReach(k, job[k], CurrentRun(k))'
        /\ run' = run /\ job'[j].attempt = job[j].attempt + 1
        /\ \A k \in Jobs \ {j} : job'[k] = job[k]
    BY <1>4, RetryTables
  <2>2. ASSUME NEW r \in Runners
        PROVE  /\ cand'[r].att <= job'[cand'[r].job].attempt
               /\ cand'[r].att = job'[cand'[r].job].attempt =>
                    Placed(at'[r], cand'[r], job'[cand'[r].job],
                           run'[cand'[r].job][cand'[r].att])
    <3>1. PICK c \in Candidates : c = cand[r] /\ c.job \in Jobs /\ c.att \in Attempts
      BY DEF Candidates
    <3>2. cand'[r] = c /\ at'[r] = at[r]
      BY <1>1, <3>1 DEF program
    <3>3. /\ c.att <= job[c.job].attempt
          /\ c.att = job[c.job].attempt => Placed(at[r], c, job[c.job], run[c.job][c.att])
      BY <3>1 DEF TendInv, Row
    <3>4. job[c.job].attempt \in Nat /\ c.att \in Nat
      BY <3>1 DEF Attempts
    <3>5. CASE c.job = j
      BY <2>1, <3>2, <3>3, <3>4, <3>5
    <3>6. CASE c.job # j
      BY <2>1, <3>1, <3>2, <3>3, <3>6
    <3>7. QED
      BY <3>5, <3>6
  <2>3. QED
    BY <2>1, <2>2 DEF TendInv, Row
<1>5. QED
  BY <1>2, <1>3, <1>4 DEF ApiRequest

\* The runner starts no job of an operator, so whatever he does is out of its reach.
LEMMA OperatorTended ==
  ASSUME Tended, NEW j \in Jobs, Operator(j)
  PROVE  TendInv'
<1> USE WorkedTypes DEF Tended
<1>1. /\ job \in [Jobs -> JobRows] /\ UNCHANGED program /\ run' = run
      /\ PlanExecutor[j] = Supervised
  BY DEF StoreTypeOK, Operator
<1>2. /\ job'[j].attempt = job[j].attempt
      /\ \A k \in Jobs \ {j} : job'[k] = job[k]
      /\ \/ job'[j].state \in {"RUNNING", "SUCCEEDED"}
         \/ job'[j].state = job[j].state /\ job'[j].stage = job[j].stage
  <2>1. CASE SupervisedPrepare(j) \/ SupervisedFinish(j)
    BY <1>1, <2>1 DEF SupervisedPrepare, SupervisedFinish, JobRows
  <2>2. CASE SupervisedBind(j)
    BY <1>1, <2>2 DEF SupervisedBind, BindArtifactManifest, JobRows
  <2>3. QED
    BY <2>1, <2>2 DEF Operator
<1>3. QED
  BY <1>1, <1>2, OthersTend DEF Waiting

LEMMA ClockTended ==
  ASSUME Tended, NEW j \in Jobs, NEW a \in Attempts,
         \/ LeaseRunsOut(j, a) \/ ActionComesDue(j, a) \/ ApprovalLapses(j)
         \/ ProviderStep(j, a) \/ UNCHANGED vars
  PROVE  TendInv'
<1> USE WorkedTypes DEF Tended
<1>1. UNCHANGED program
  BY DEF LeaseRunsOut, ActionComesDue, ApprovalLapses, ProviderStep, vars
<1>2. \A k \in Jobs : /\ job'[k].attempt = job[k].attempt
                      /\ job'[k].stage = job[k].stage /\ job'[k].state = job[k].state
  <2>1. job \in [Jobs -> JobRows]
    BY DEF StoreTypeOK
  <2>2. job' = job \/ job' = [job EXCEPT ![j].window = "lapsed"]
    BY DEF LeaseRunsOut, ActionComesDue, ApprovalLapses, ProviderStep, vars, store
  <2>3. QED
    BY <2>1, <2>2 DEF JobRows
<1>3. \A k \in Jobs, b \in Attempts :
        /\ run'[k][b].row = run[k][b].row /\ run'[k][b].ext = run[k][b].ext
        /\ run'[k][b].stage = run[k][b].stage
  <2>1. run \in [Jobs -> [Attempts -> RunRows]]
    BY DEF StoreTypeOK
  <2>2. \/ run' = run
        \/ run' = [run EXCEPT ![j][a].over = TRUE]
        \/ run' = [run EXCEPT ![j][a].next = "due"]
    BY DEF LeaseRunsOut, ActionComesDue, ApprovalLapses, ProviderStep, vars, store
  <2>3. \A k \in Jobs, b \in Attempts : k # j \/ b # a => run'[k][b] = run[k][b]
    BY <2>1, <2>2
  <2>4. run'[j][a] \in {run[j][a], [run[j][a] EXCEPT !.over = TRUE],
                        [run[j][a] EXCEPT !.next = "due"]}
    BY <2>1, <2>2
  <2>5. /\ run'[j][a].row = run[j][a].row /\ run'[j][a].ext = run[j][a].ext
        /\ run'[j][a].stage = run[j][a].stage
    BY <2>1, <2>4 DEF RunRows
  <2>6. QED
    BY <2>3, <2>5
<1>4. QED
  BY <1>1, <1>2, <1>3, OthersTend

LEMMA InitTendInv == Init => TendInv
<1> SUFFICES ASSUME Init
             PROVE  TendInv
  OBVIOUS
<1>1. \A j \in Jobs : /\ job[j].state = "AWAITING_PAID_APPROVAL" /\ job[j].attempt = 1
                      /\ \A a \in Attempts : run[j][a] = NoRow
  BY DEF Init, StoreInit
<1>2. FutureIsBlank
  BY <1>1 DEF FutureIsBlank, NoRow
<1>3. 1 \in Attempts /\ \A j \in Jobs : CurrentRun(j) = NoRow
  BY <1>1, BoundsAssumption DEF CurrentRun, Attempts
<1>4. \A j \in Jobs : InReach(j, job[j], CurrentRun(j))
  <2>1. ~NoRow.ext /\ NoRow.stage = "plain"
    BY DEF NoRow
  <2>2. QED
    BY <1>1, <1>3, <2>1 DEF InReach
<1>5. \A r \in Runners : at[r] = "idle" /\ cand[r] = Blank
  BY DEF Init
<1>6. Blank.att = 1 /\ Blank.job \in Jobs
  BY BlankType DEF Blank, Candidates
<1>7. \A r \in Runners : cand[r].att <= job[cand[r].job].attempt
  BY <1>1, <1>5, <1>6
<1>8. \A r \in Runners : Placed(at[r], cand[r], job[cand[r].job], Row(cand[r]))
  BY <1>1, <1>5, <1>6 DEF Placed, Resting
<1>9. QED
  BY <1>2, <1>4, <1>7, <1>8 DEF TendInv

LEMMA TendInvKept == Tended /\ [Next]_vars => TendInv'
<1> SUFFICES ASSUME Tended, [Next]_vars
             PROVE  TendInv'
  OBVIOUS
<1>0. 1 \in Attempts /\ Jobs # {}
  BY BoundsAssumption, JobsAssumption DEF Attempts
<1>1. ASSUME NEW r \in Runners, RunnerStep(r) \/ Crash(r) \/ Restart(r)
      PROVE  TendInv'
  BY <1>1, RunnerTended
<1>2. ASSUME NEW j \in Jobs, ApiRequest(j) \/ Operator(j)
      PROVE  TendInv'
  BY <1>2, ApiTended, OperatorTended
<1>3. ASSUME NEW j \in Jobs, ApprovalLapses(j)
      PROVE  TendInv'
  BY <1>0, <1>3, ClockTended
<1>4. ASSUME NEW j \in Jobs, NEW a \in Attempts,
             ProviderStep(j, a) \/ LeaseRunsOut(j, a) \/ ActionComesDue(j, a)
      PROVE  TendInv'
  BY <1>4, ClockTended
<1>5. CASE UNCHANGED vars
  BY <1>0, <1>5, ClockTended
<1>6. QED
  BY <1>1, <1>2, <1>3, <1>4, <1>5 DEF Next

LEMMA TendedAlways == SingleWorker /\ Spec => []Tended
<1>1. Init => TendInv
  BY InitTendInv
<1>2. Worked /\ TendInv /\ [Next]_vars => TendInv'
  BY TendInvKept DEF Tended
<1>3. Worked /\ TendInv => Tended
  BY DEF Tended
<1>4. QED
  BY <1>1, <1>2, <1>3, WorkedAlways, PTL DEF Spec

\* With one worker, whatever the provider answers, whenever the worker crashes and
\* whatever the users do: a running job that no lease and no deadline holds back is
\* before an operator or in a query of the next tick, so no interleaving leaves it
\* running with nobody to look at it.
THEOREM RunningJobsAreTended == SingleWorker /\ Spec => []RunningJobIsTended
<1>1. ASSUME Tended, NEW j \in Jobs,
             PlanExecutor[j] # Supervised, job[j].state = "RUNNING",
             Unleased(CurrentRun(j)), CurrentRun(j).next # "later",
             job[j].stage # "reconciliation_required"
      PROVE  TerminalCandidate(j) \/ PollCandidate(j) \/ InterruptedCandidate(j)
  <2>1. PICK R \in RunRows : R = CurrentRun(j)
    BY <1>1, WorkedTypes DEF Tended, CurrentRun
  <2>2. /\ R.stage # "reconciliation_required"
        /\ job[j].stage = "dispatching" \/ R.ext \/ ~R.row
    BY <1>1, <2>1 DEF Tended, TendInv, InReach
  <2>3. R.ext <=> R.status # "NULL"
    BY <1>1, <2>1, WorkedTypes
       DEF Tended, Worked, OneInv, TablesKept, StatusHasId, CurrentRun
  <2>4. CASE ~R.row
    BY <1>1, <2>1, <2>4 DEF InterruptedCandidate
  <2>5. CASE R.row /\ R.ext
    <3>1. R.status \in LiveStatuses \cup TerminalStatuses
      BY <2>1, <2>3, <2>5 DEF RunRows, RunStatuses
    <3>2. QED
      BY <1>1, <2>1, <2>2, <2>5, <3>1 DEF PollCandidate, TerminalCandidate
  <2>6. CASE R.row /\ ~R.ext
    BY <1>1, <2>1, <2>2, <2>3, <2>6 DEF InterruptedCandidate
  <2>7. QED
    BY <2>4, <2>5, <2>6
<1>2. Tended => RunningJobIsTended
  BY <1>1 DEF RunningJobIsTended
<1>3. QED
  BY <1>2, TendedAlways, PTL

=============================================================================
