----------------------------- MODULE JobRunner -----------------------------
(***************************************************************************)
(* The runner (src/seo_orchestrator/runner.py) as a program over JobStore: *)
(* worker processes that each repeat tick(limit = 1), the Worker API, the  *)
(* supervised operator, the execution provider and the clock.              *)
(*                                                                         *)
(* A runner's program is a control point at[r] and the candidate cand[r]   *)
(* it works on with what it has observed so far.  One step is one database *)
(* transaction, one read outside a transaction, or one provider call: these*)
(* are the points between which other processes run, a lease runs out or   *)
(* the process dies.  A runner that raises out of tick is a dead process   *)
(* (cli.run_worker catches nothing), as is one that crashes; both leave    *)
(* their lease behind and start again from the tables alone.               *)
(***************************************************************************)
EXTENDS JobStore

CONSTANTS
  Executors,      \* executor names a worker process may be started with
  Supervised,     \* executor name of plans an operator executes
  Outcomes,       \* how the provider may end a run
  Faults,         \* <<call, kind>>: how provider calls may go wrong
  Validates,      \* does the executor validate results against the job?
  ApprovalsLapse, \* may a paid approval leave its window?
  ApiActions,     \* which requests the API receives
  MaxCrashes      \* bound of the model: process crashes

FaultKinds == {"transient", "fatal", "ambiguous"}
\* A lookup that fails has one effect whatever the reason, and may always fail
\* (TooLittleLease), so it is not listed.
Calls == {"submit", "poll", "cancel"}

ASSUME FaultsAssumption   == Faults \subseteq Calls \X FaultKinds
ASSUME OutcomesAssumption == Outcomes \subseteq TerminalStatuses
ASSUME SwitchAssumption   == Validates \in BOOLEAN /\ ApprovalsLapse \in BOOLEAN
ASSUME CrashAssumption    == MaxCrashes \in Nat
ASSUME ExecutorAssumption == Supervised \notin Executors

VARIABLES
  provider,   \* the provider's own record of the run of a job's attempt
  at,         \* control point of each runner
  cand,       \* candidate and observations of each runner
  executor,   \* executor each worker process was started with
  crashes     \* crashes so far

program == <<at, cand>>
vars == <<store, provider, program, executor, crashes>>

-----------------------------------------------------------------------------
ProviderStates == {"absent"} \cup LiveStatuses \cup TerminalStatuses

Stopped == {"raised", "down"}
Points == Stopped \cup
  { "idle",
    "cancel", "cancel_claim_lookup", "cancel_lookup", "cancel_lookup_found",
    "cancel_lookup_failed", "cancel_terminal", "cancel_claim", "cancel_begin",
    "cancel_call", "cancel_retry", "cancel_unconfirmed", "cancel_confirmed",
    "terminal_claim", "terminal_check", "terminal_apply", "terminal_queued",
    "terminal_bind", "terminal_conflict", "terminal_reconcile",
    "terminal_release", "terminal_abandon",
    "poll_claim", "poll_call", "poll_record", "poll_local", "poll_reconcile",
    "poll_apply", "poll_conflict", "poll_bind", "poll_retry",
    "poll_retry_local", "poll_exhausted", "poll_exhausted_canceled",
    "poll_exhausted_running", "poll_fatal", "poll_fatal_local",
    "poll_fatal_apply",
    "retry_claim", "retry_apply", "retry_consume",
    "recover", "mark_stale", "submit", "quarantine_queued",
    "quarantine_running", "submit_claim", "submit_check", "submit_resume",
    "submit_release", "submit_release_cancel", "submit_release_lapsed",
    "submit_call", "submit_record", "submit_stage", "submit_accept",
    "submit_retry", "lookup_prepare", "lookup_claim", "lookup_call",
    "lookup_record", "claimed_reconcile" }

\* seen is the status the runner decided to record, spend whether it counts
\* against the retry budget.
Candidates == [job : Jobs, att : Attempts, st : JobStates, seen : RunStatuses,
               spend : BOOLEAN]
Blank == [job |-> CHOOSE j \in Jobs : TRUE, att |-> 1, st |-> "CANCELED",
          seen |-> "NULL", spend |-> FALSE]

TypeOK ==
  /\ StoreTypeOK
  /\ provider \in [Jobs -> [Attempts -> ProviderStates]]
  /\ at \in [Runners -> Points]
  /\ cand \in [Runners -> Candidates]
  /\ executor \in [Runners -> Executors]
  /\ crashes \in 0 .. MaxCrashes

Init ==
  /\ StoreInit
  /\ provider = [j \in Jobs |-> [a \in Attempts |-> "absent"]]
  /\ at = [r \in Runners |-> "idle"]
  /\ cand = [r \in Runners |-> Blank]
  /\ executor \in [Runners -> Executors]
  /\ crashes = 0

-----------------------------------------------------------------------------
(* Control flow.                                                           *)

Goto(r, point) ==
  /\ at' = [at EXCEPT ![r] = point]
  /\ cand' = IF point \in Stopped \cup {"idle"}
               THEN [cand EXCEPT ![r] = Blank] ELSE cand

\* Continue at a point with changed observations.
GotoWith(r, point, c) ==
  /\ at' = [at EXCEPT ![r] = point]
  /\ cand' = [cand EXCEPT ![r] = c]

Raise(r) == Goto(r, "raised") /\ UNCHANGED store

\* A transaction whose UPDATE must match: StateConflict otherwise.
OrRaise(r, matches, effect, point) ==
  IF matches THEN effect /\ Goto(r, point) ELSE Raise(r)

\* A transaction whose UPDATE may find nothing: the handler returns False.
OrGiveUp(r, matches, effect, point) ==
  IF matches THEN effect /\ Goto(r, point) ELSE Goto(r, "idle") /\ UNCHANGED store

\* A decision taken on what was just read, nothing written.
Decide(r, point) == Goto(r, point) /\ UNCHANGED store

\* Two-row marks raise when only the run row matched; that half is committed.
Mark(r, matches, states, stage) ==
  LET c == cand[r] IN
  IF matches
    THEN /\ MarkReconciliation(c, states, stage)
         /\ Goto(r, IF StageIn(c, states) THEN "idle" ELSE "raised")
    ELSE Raise(r)

Matches_Unchecked(r) == executor[r] \in Executors

\* The executor this process runs is the one the immutable plan names.
Matches(r) == executor[r] = PlanExecutor[cand[r].job]

Remote(c) == provider[c.job][c.att]
SetRemote(c, s) == provider' = [provider EXCEPT ![c.job][c.att] = s]

CanFail(call, kind) == <<call, kind>> \in Faults

\* _lease_call_timeout, before each of the five provider calls: when less than
\* the safety margin is left of the lease, no call is made.  Any time may have
\* passed since the claim, so this may always happen.
TooLittleLease(r, point) == Decide(r, point)

-----------------------------------------------------------------------------
(* tick: the first of five queries that finds a candidate decides.         *)

Cancels   == {j \in Jobs : CancelCandidate(j)}
Terminals == {j \in Jobs : TerminalCandidate(j)}
Polls     == {j \in Jobs : PollCandidate(j)}
Retries   == {j \in Jobs : RetryCandidate(j) /\ job[j].attempt < MaxAttempts}
Queued    == {j \in Jobs : QueuedCandidate(j)}
Dispatch  == IF Queued # {} THEN Queued ELSE {j \in Jobs : InterruptedCandidate(j)}

Select(r, S, point) ==
  /\ at[r] = "idle"
  /\ \E j \in S : GotoWith(r, point, [job |-> j, att |-> job[j].attempt,
                                      st |-> job[j].state, seen |-> "NULL",
                                      spend |-> FALSE])
  /\ UNCHANGED store

SelectCancel(r)   == Select(r, Cancels, "cancel")
SelectTerminal(r) == Cancels = {} /\ Select(r, Terminals, "terminal_claim")
SelectPoll(r)     == Cancels \cup Terminals = {} /\ Select(r, Polls, "poll_claim")
SelectRetry(r)    == /\ Cancels \cup Terminals \cup Polls = {}
                     /\ Select(r, Retries, "retry_claim")
SelectRecovery(r) == /\ Cancels \cup Terminals \cup Polls \cup Retries = {}
                     /\ Select(r, Dispatch, "recover")

\* A tick that finds nothing only beats the heart.
SelectNothing(r) ==
  /\ at[r] = "idle"
  /\ Cancels \cup Terminals \cup Polls \cup Retries \cup Dispatch = {}
  /\ UNCHANGED <<store, program>>

Tick(r) == \/ SelectCancel(r) \/ SelectTerminal(r) \/ SelectPoll(r)
           \/ SelectRetry(r) \/ SelectRecovery(r) \/ SelectNothing(r)

-----------------------------------------------------------------------------
(* _cancel                                                                 *)

CancelRead(r) ==
  LET row == Row(cand[r]) IN
  /\ at[r] = "cancel"
  /\ Decide(r, IF ~row.ext THEN "cancel_claim_lookup"
               ELSE IF row.status \in TerminalStatuses \ {"CANCELED"}
                 THEN "cancel_terminal" ELSE "cancel_claim")

CancelClaimLookup(r) ==
  /\ at[r] = "cancel_claim_lookup"
  /\ OrGiveUp(r, CanClaimCanceledLookup(cand[r]), ClaimExisting(r, cand[r]),
              "cancel_lookup")

\* The lookup creates no work.  A miss, a mismatch or any error is final, and a
\* lease too short for the call is among the errors.
CancelLookup(r) ==
  /\ at[r] = "cancel_lookup"
  /\ \/ /\ Remote(cand[r]) # "absent" /\ Matches(r)
        /\ Decide(r, "cancel_lookup_found")
     \/ TooLittleLease(r, "cancel_lookup_failed")

CancelLookupFound(r) ==
  /\ at[r] = "cancel_lookup_found"
  /\ IF CanRecordLookupForCanceled(r, cand[r])
       THEN RecordAcceptance(cand[r]) /\ Goto(r, "idle")
       ELSE Decide(r, "cancel_lookup_failed")

CancelLookupFailed(r) ==
  /\ at[r] = "cancel_lookup_failed"
  /\ Mark(r, OwnsUnsubmitted(r, cand[r]), {"CANCELED"},
          "cancel_reconciliation_required")

CancelTerminal(r) ==
  /\ at[r] = "cancel_terminal"
  /\ OrRaise(r, CanReconcileTerminal(cand[r]), ReconcileTerminal(cand[r]), "idle")

CancelClaim(r) ==
  /\ at[r] = "cancel_claim"
  /\ OrGiveUp(r, CanClaimExisting(cand[r], LiveStatuses),
              ClaimExisting(r, cand[r]), "cancel_begin")

\* Plan, snapshot and acceptance are immutable, so the authority checks that
\* follow come down to the executor.
CancelBegin(r) ==
  /\ at[r] = "cancel_begin"
  /\ OrRaise(r, OwnsLive(r, cand[r]), BeginCancelStage(cand[r]),
             IF Matches(r) THEN "cancel_call" ELSE "cancel_unconfirmed")

CancelRetry(r) ==
  /\ at[r] = "cancel_retry"
  /\ OrRaise(r, Owns(r, cand[r]) /\ Row(cand[r]).ext /\ Row(cand[r]).status # "CANCELED",
             RecordCancelTransportFailure(cand[r]), "idle")

CancelUnconfirmed(r) ==
  /\ at[r] = "cancel_unconfirmed"
  /\ Mark(r, Owns(r, cand[r]) /\ Row(cand[r]).ext /\ Row(cand[r]).status # "CANCELED",
          {"CANCELED"}, "cancel_reconciliation_required")

CancelConfirmed(r) ==
  /\ at[r] = "cancel_confirmed"
  /\ OrRaise(r, CanRecordRemoteCanceled(r, cand[r]), RecordRemoteCanceled(cand[r]),
             "idle")

\* The adapter confirms CANCELED whatever the run had come to.  A failed call
\* may have had its effect.
CancelCall(r) ==
  LET c == cand[r] IN
  /\ at[r] = "cancel_call"
  /\ \/ SetRemote(c, "CANCELED") /\ Decide(r, "cancel_confirmed")
     \/ UNCHANGED provider /\ TooLittleLease(r, "cancel_unconfirmed")
     \/ \E k \in FaultKinds :
          /\ CanFail("cancel", k)
          /\ \E s \in {Remote(c), "CANCELED"} : SetRemote(c, s)
          /\ Decide(r, IF k = "transient" /\ RetryAllowed(c, "cancel")
                         THEN "cancel_retry" ELSE "cancel_unconfirmed")

Cancel(r) == \/ CancelRead(r) \/ CancelClaimLookup(r) \/ CancelLookup(r)
             \/ CancelLookupFound(r) \/ CancelLookupFailed(r)
             \/ CancelTerminal(r) \/ CancelClaim(r) \/ CancelBegin(r)
             \/ CancelRetry(r) \/ CancelUnconfirmed(r) \/ CancelConfirmed(r)

-----------------------------------------------------------------------------
(* _finalize_terminal: a terminal status is recorded, the job did not      *)
(* follow it yet.                                                          *)

TerminalClaim(r) ==
  LET c == cand[r] IN
  /\ at[r] = "terminal_claim"
  /\ IF CanClaimExisting(c, TerminalStatuses)
       THEN /\ ClaimExisting(r, c)
            /\ GotoWith(r, "terminal_check", [c EXCEPT !.seen = Row(c).status])
       ELSE Decide(r, "idle")

\* get_job does not look at the attempt.
TerminalCheck(r) ==
  LET c == cand[r] s == job[c.job].state IN
  /\ at[r] = "terminal_check"
  /\ Decide(r, CASE ~Matches(r) -> "claimed_reconcile"
                 [] Matches(r) /\ s = "RUNNING" -> "terminal_apply"
                 [] Matches(r) /\ s = "SUCCEEDED" /\ c.seen = "SUCCEEDED" -> "terminal_bind"
                 [] Matches(r) /\ s = "QUEUED" /\ c.seen \in FailedStatuses -> "terminal_queued"
                 [] OTHER -> "terminal_conflict")

TerminalApply(r) ==
  LET c == cand[r] IN
  /\ at[r] = "terminal_apply"
  /\ UNCHANGED <<run, budget>>
  /\ IF TransitionOK(c.job, "RUNNING", c.seen)
       THEN /\ Transition(c.job, "RUNNING", c.seen)
            /\ Goto(r, IF c.seen = "SUCCEEDED" THEN "terminal_bind" ELSE "terminal_release")
       ELSE UNCHANGED job /\ Goto(r, "terminal_conflict")

\* A final failure takes a queued job through RUNNING first.
TerminalQueued(r) ==
  LET c  == cand[r]
      to == IF c.seen = "FAILED_RETRYABLE" THEN c.seen ELSE "RUNNING" IN
  /\ at[r] = "terminal_queued"
  /\ UNCHANGED <<run, budget>>
  /\ IF CanTransition(c.job, "QUEUED", to)
       THEN /\ Transition(c.job, "QUEUED", to)
            /\ Goto(r, IF to = "RUNNING" THEN "terminal_apply" ELSE "terminal_release")
       ELSE /\ UNCHANGED job
            /\ Goto(r, IF job[c.job].state = "QUEUED" THEN "terminal_abandon"
                                                      ELSE "terminal_conflict")

\* write_bundle is idempotent, so only the binding shows in the tables.
TerminalBind(r) ==
  LET c == cand[r] IN
  /\ at[r] = "terminal_bind"
  /\ UNCHANGED <<run, budget>>
  /\ IF job[c.job].state = "SUCCEEDED"
       THEN BindArtifactManifest(c.job) /\ Goto(r, "terminal_release")
       ELSE UNCHANGED job /\ Goto(r, "terminal_conflict")

\* job_state does look at the attempt, and raises NotFound in the handler.
TerminalConflict(r) ==
  LET c == cand[r] IN
  /\ at[r] = "terminal_conflict"
  /\ Decide(r, CASE job[c.job].attempt # c.att -> "raised"
                 [] StageIn(c, {"CANCELED"}) -> "terminal_reconcile"
                 [] OTHER -> "terminal_abandon")

TerminalReconcile(r) ==
  /\ at[r] = "terminal_reconcile"
  /\ OrRaise(r, CanReconcileClaimedTerminal(r, cand[r]), ReconcileTerminal(cand[r]),
             "idle")

TerminalRelease(r) ==
  /\ at[r] = "terminal_release"
  /\ OrRaise(r, Owns(r, cand[r]), ReleaseLease(cand[r]), "idle")

TerminalAbandon(r) ==
  /\ at[r] = "terminal_abandon"
  /\ IF Owns(r, cand[r]) THEN ReleaseLease(cand[r]) ELSE UNCHANGED store
  /\ Goto(r, "raised")

Terminal(r) == \/ TerminalClaim(r) \/ TerminalCheck(r) \/ TerminalApply(r)
               \/ TerminalQueued(r) \/ TerminalBind(r) \/ TerminalConflict(r)
               \/ TerminalReconcile(r) \/ TerminalRelease(r) \/ TerminalAbandon(r)

-----------------------------------------------------------------------------
(* _poll                                                                   *)

PollClaim(r) ==
  /\ at[r] = "poll_claim"
  /\ OrGiveUp(r, CanClaimExisting(cand[r], LiveStatuses), ClaimExisting(r, cand[r]),
              IF Matches(r) THEN "poll_call" ELSE "claimed_reconcile")

\* What an answer of the provider makes the runner record: a retryable failure
\* is final once the budget is spent, and counts either way.
Decided(c, s) ==
  [c EXCEPT !.seen  = IF s = "FAILED_RETRYABLE" /\ ~RetryAllowed(c, "poll")
                        THEN "FAILED_FINAL" ELSE s,
            !.spend = (s = "FAILED_RETRYABLE")]

\* running_execution_identity raises StateConflict, which nothing here catches,
\* when the job of a successful result is no longer running.  A time-out, and a
\* lease too short for the call, are the NETWORK_ERROR of a transient failure.
PollCall(r) ==
  LET c == cand[r] IN
  /\ at[r] = "poll_call"
  /\ \/ IF Validates /\ Remote(c) = "SUCCEEDED" /\ job[c.job].state # "RUNNING"
          THEN Raise(r)
          ELSE GotoWith(r, "poll_record", Decided(c, Remote(c))) /\ UNCHANGED store
     \/ TooLittleLease(r, IF RetryAllowed(c, "poll") THEN "poll_retry" ELSE "poll_exhausted")
     \/ /\ CanFail("poll", "fatal")
        /\ GotoWith(r, "poll_fatal", [c EXCEPT !.seen = "FAILED_FINAL"])
        /\ UNCHANGED store
     \/ CanFail("poll", "ambiguous") /\ Decide(r, "claimed_reconcile")

\* The status and, for progress, the job's stage.  A job that is neither
\* running nor canceled rolls the transaction back; a lost lease is noticed
\* only after it has committed.
PollRecord(r) ==
  LET c == cand[r]  progress == c.seen \in LiveStatuses IN
  /\ at[r] = "poll_record"
  /\ IF \/ progress /\ ~StageIn(c, {"RUNNING", "CANCELED"})
        \/ OwnsLive(r, c) /\ ~StatusMayBecome(Row(c).status, c.seen)
       THEN Raise(r)
       ELSE /\ IF progress THEN SetJobStage(c, {"RUNNING"}, "plain") ELSE UNCHANGED job
            /\ IF OwnsLive(r, c)
                 THEN RecordPollStatus(c, c.seen, c.spend) /\ Goto(r, "poll_local")
                 ELSE UNCHANGED <<run, budget>> /\ Goto(r, "raised")

PollLocal(r) ==
  LET c == cand[r] IN
  /\ at[r] = "poll_local"
  /\ Decide(r, CASE job[c.job].state = "CANCELED" -> "poll_reconcile"
                 [] c.seen \in LiveStatuses -> "idle"
                 [] OTHER -> "poll_apply")

\* A local cancel won the race: progress asks for the cancel at once, a result
\* asks for an operator.
PollReconcile(r) ==
  LET c == cand[r]  terminal == c.seen \in TerminalStatuses IN
  /\ at[r] = "poll_reconcile"
  /\ OrRaise(r, CanReconcilePoll(c, PollReconcilable(terminal)),
             ReconcilePoll(c, terminal), "idle")

PollApply(r) ==
  LET c == cand[r] IN
  /\ at[r] = "poll_apply"
  /\ UNCHANGED <<run, budget>>
  /\ IF TransitionOK(c.job, "RUNNING", c.seen)
       THEN /\ Transition(c.job, "RUNNING", c.seen)
            /\ Goto(r, IF c.seen = "SUCCEEDED" THEN "poll_bind" ELSE "idle")
       ELSE /\ UNCHANGED job
            /\ Goto(r, IF c.seen = "CANCELED" THEN "raised" ELSE "poll_conflict")

PollConflict(r) ==
  /\ at[r] = "poll_conflict"
  /\ Decide(r, IF StageIn(cand[r], {"CANCELED"}) THEN "poll_reconcile" ELSE "raised")

PollBind(r) ==
  LET c == cand[r] IN
  /\ at[r] = "poll_bind"
  /\ OrRaise(r, job[c.job].state = "SUCCEEDED",
             BindArtifactManifest(c.job) /\ UNCHANGED <<run, budget>>, "idle")

PollRetry(r) ==
  /\ at[r] = "poll_retry"
  /\ OrRaise(r, OwnsLive(r, cand[r]), RecordPollTransportFailure(cand[r]),
             "poll_retry_local")

PollRetryLocal(r) ==
  LET c == cand[r] IN
  /\ at[r] = "poll_retry_local"
  /\ Decide(r, CASE job[c.job].attempt # c.att -> "raised"
                 [] StageIn(c, {"CANCELED"}) -> "poll_reconcile"
                 [] OTHER -> "idle")

\* The job's state is read outside the transaction that depends on it.
PollExhausted(r) ==
  LET c == cand[r] IN
  /\ at[r] = "poll_exhausted"
  /\ Decide(r, CASE job[c.job].attempt # c.att -> "raised"
                 [] StageIn(c, {"CANCELED"}) -> "poll_exhausted_canceled"
                 [] OTHER -> "poll_exhausted_running")

PollExhaustedCanceled(r) ==
  /\ at[r] = "poll_exhausted_canceled"
  /\ OrRaise(r, OwnsLive(r, cand[r]) /\ StageIn(cand[r], {"CANCELED"}),
             RecordExhaustedPollAfterLocalCancel(cand[r]), "idle")

PollExhaustedRunning(r) ==
  /\ at[r] = "poll_exhausted_running"
  /\ Mark(r, OwnsLive(r, cand[r]), {"RUNNING"}, "reconciliation_required")

PollFatal(r) ==
  /\ at[r] = "poll_fatal"
  /\ OrRaise(r, OwnsLive(r, cand[r]),
             RecordPollStatus(cand[r], "FAILED_FINAL", FALSE) /\ UNCHANGED job,
             "poll_fatal_local")

PollFatalLocal(r) ==
  LET c == cand[r] IN
  /\ at[r] = "poll_fatal_local"
  /\ Decide(r, CASE job[c.job].attempt # c.att -> "raised"
                 [] StageIn(c, {"CANCELED"}) -> "poll_reconcile"
                 [] OTHER -> "poll_fatal_apply")

\* No handler for the StateConflict of this transition.
PollFatalApply(r) ==
  LET c == cand[r] IN
  /\ at[r] = "poll_fatal_apply"
  /\ OrRaise(r, TransitionOK(c.job, "RUNNING", "FAILED_FINAL"),
             Transition(c.job, "RUNNING", "FAILED_FINAL") /\ UNCHANGED <<run, budget>>,
             "idle")

Poll(r) == \/ PollClaim(r) \/ PollCall(r) \/ PollRecord(r) \/ PollLocal(r)
           \/ PollReconcile(r) \/ PollApply(r) \/ PollConflict(r) \/ PollBind(r)
           \/ PollRetry(r) \/ PollRetryLocal(r) \/ PollExhausted(r)
           \/ PollExhaustedCanceled(r) \/ PollExhaustedRunning(r)
           \/ PollFatal(r) \/ PollFatalLocal(r) \/ PollFatalApply(r)

-----------------------------------------------------------------------------
(* _requeue                                                                *)

RetryClaim(r) ==
  /\ at[r] = "retry_claim"
  /\ OrGiveUp(r, CanClaimExisting(cand[r], {"FAILED_RETRYABLE"}),
              ClaimExisting(r, cand[r]), "retry_apply")

RetryApply(r) ==
  /\ at[r] = "retry_apply"
  /\ OrRaise(r, CanRetry(cand[r].job), RetryJob(cand[r].job), "retry_consume")

RetryConsume(r) ==
  /\ at[r] = "retry_consume"
  /\ OrRaise(r, Owns(r, cand[r]) /\ Row(cand[r]).status = "FAILED_RETRYABLE",
             MarkRetryConsumed(cand[r]), "idle")

Requeue(r) == RetryClaim(r) \/ RetryApply(r) \/ RetryConsume(r)

-----------------------------------------------------------------------------
(* The recovery candidate: _mark_stale, _submit and                        *)
(* _recover_dispatch_without_submit.                                       *)

\* tick reads the job again; a running job that is not dispatching any more
\* goes to reconciliation, whatever made it a candidate.
Recover(r) ==
  LET c == cand[r] IN
  /\ at[r] = "recover"
  /\ Decide(r, IF c.st = "RUNNING" /\ job[c.job].stage # "dispatching"
                 THEN "mark_stale" ELSE "submit")

MarkStaleJob(r) ==
  /\ at[r] = "mark_stale"
  /\ OrRaise(r, StageIn(cand[r], {"RUNNING"}), MarkStale(cand[r]), "idle")

\* What prepare_execution, resume_dispatch and recover_dispatch_identity ask of
\* the job: its state and, once running, that it is dispatching still.
ReadyAs(c, st) ==
  /\ job[c.job].state = st
  /\ st = "RUNNING" => job[c.job].stage = "dispatching"

Submit(r) ==
  LET c == cand[r]
      quarantine == IF c.st = "QUEUED" THEN "quarantine_queued" ELSE "quarantine_running" IN
  /\ at[r] = "submit"
  /\ Decide(r, CASE ~ReadyAs(c, c.st) -> "idle"
                 [] ReadyAs(c, c.st) /\ job[c.job].window # "open" ->
                      IF c.st = "QUEUED" THEN "quarantine_queued" ELSE "lookup_prepare"
                 [] OTHER -> IF job[c.job].attempt # c.att THEN "raised"
                             ELSE IF Matches(r) THEN "submit_claim" ELSE quarantine)

QuarantineQueuedJob(r) ==
  /\ at[r] = "quarantine_queued"
  /\ OrGiveUp(r, CanQuarantineQueued(cand[r]), QuarantineQueued(cand[r]), "idle")

QuarantineRunningDispatch(r) ==
  /\ at[r] = "quarantine_running"
  /\ OrGiveUp(r, CanQuarantineRunning(cand[r]), QuarantineRunning(cand[r]), "idle")

SubmitClaim(r) ==
  /\ at[r] = "submit_claim"
  /\ OrGiveUp(r, CanClaimSubmission(cand[r]), ClaimSubmission(r, cand[r]),
              "submit_check")

\* The job is read again under the lease, twice.
SubmitCheck(r) ==
  /\ at[r] = "submit_check"
  /\ Decide(r, IF job[cand[r].job].state = "CANCELED"
                 THEN "submit_release_cancel" ELSE "submit_resume")

SubmitResume(r) ==
  LET c == cand[r] IN
  /\ at[r] = "submit_resume"
  /\ Decide(r, CASE ~ReadyAs(c, "RUNNING") -> "submit_release"
                 [] ReadyAs(c, "RUNNING") /\ job[c.job].window # "open" -> "submit_release_lapsed"
                 [] OTHER -> "submit_call")

SubmitRelease(r) ==
  /\ at[r] = "submit_release"
  /\ OrGiveUp(r, Owns(r, cand[r]), ReleaseLease(cand[r]), "idle")

\* Release the lease and go on as another handler with another candidate.
ReleaseAndContinue(r, st, point) ==
  IF Owns(r, cand[r])
    THEN ReleaseLease(cand[r]) /\ GotoWith(r, point, [cand[r] EXCEPT !.st = st])
    ELSE Raise(r)

SubmitReleaseCancel(r) ==
  at[r] = "submit_release_cancel" /\ ReleaseAndContinue(r, "CANCELED", "cancel")

SubmitReleaseLapsed(r) ==
  at[r] = "submit_release_lapsed" /\ ReleaseAndContinue(r, "RUNNING", "lookup_prepare")

\* submit_authorized is idempotent in the key of the attempt, and the executor
\* enforces the approval's deadline where the effect happens.
Accepted(c) == IF Remote(c) = "absent" THEN "ACCEPTED" ELSE Remote(c)

SubmitCall(r) ==
  LET c == cand[r]  authorized == job[c.job].window = "open" IN
  /\ at[r] = "submit_call"
  /\ \/ UNCHANGED provider /\ TooLittleLease(r, "claimed_reconcile")
     \/ /\ authorized /\ SetRemote(c, Accepted(c))
        /\ Decide(r, "submit_record")
     \/ /\ ~authorized /\ UNCHANGED provider
        /\ \E point \in {"submit_release_lapsed", "claimed_reconcile"} : Decide(r, point)
     \/ \E k \in FaultKinds :
          /\ authorized /\ CanFail("submit", k)
          /\ \E s \in {Remote(c), Accepted(c)} : SetRemote(c, s)
          /\ Decide(r, IF k = "transient" /\ RetryAllowed(c, "submission")
                         THEN "submit_retry" ELSE "claimed_reconcile")

SubmitRecord(r) ==
  /\ at[r] = "submit_record"
  /\ IF Owns(r, cand[r]) /\ ~Row(cand[r]).ext
       THEN RecordAcceptance(cand[r]) /\ Goto(r, "submit_stage")
       ELSE Decide(r, "claimed_reconcile")

SubmitStage(r) ==
  LET s == job[cand[r].job].state IN
  /\ at[r] = "submit_stage"
  /\ Decide(r, CASE s = "RUNNING" -> "submit_accept"
                 [] s = "CANCELED" -> "idle"
                 [] OTHER -> "raised")

SubmitAccept(r) ==
  LET c == cand[r] IN
  /\ at[r] = "submit_accept"
  /\ OrRaise(r, StageIn(c, {"RUNNING"}),
             SetJobStage(c, {"RUNNING"}, "plain") /\ UNCHANGED <<run, budget>>, "idle")

SubmitRetry(r) ==
  /\ at[r] = "submit_retry"
  /\ OrRaise(r, OwnsUnsubmitted(r, cand[r]), RecordSubmitTransportFailure(cand[r]),
             "idle")

LookupPrepare(r) ==
  LET c == cand[r] IN
  /\ at[r] = "lookup_prepare"
  /\ Decide(r, CASE ~ReadyAs(c, "RUNNING") -> "idle"
                 [] ReadyAs(c, "RUNNING") /\ job[c.job].attempt # c.att -> "raised"
                 [] OTHER -> IF Matches(r) THEN "lookup_claim" ELSE "quarantine_running")

LookupClaim(r) ==
  /\ at[r] = "lookup_claim"
  /\ OrGiveUp(r, CanClaimSubmission(cand[r]), ClaimSubmission(r, cand[r]),
              "lookup_call")

LookupCall(r) ==
  /\ at[r] = "lookup_call"
  /\ \/ Remote(cand[r]) # "absent" /\ Decide(r, "lookup_record")
     \/ TooLittleLease(r, "claimed_reconcile")

LookupRecord(r) ==
  /\ at[r] = "lookup_record"
  /\ IF Owns(r, cand[r]) /\ ~Row(cand[r]).ext
       THEN RecordAcceptance(cand[r]) /\ Goto(r, "submit_accept")
       ELSE Decide(r, "claimed_reconcile")

\* _mark_claimed_reconciliation, the last step of many failures.
ClaimedReconcile(r) ==
  /\ at[r] = "claimed_reconcile"
  /\ Mark(r, Owns(r, cand[r]), JobStates \ {"AWAITING_PAID_APPROVAL"},
          "reconciliation_required")

Recovery(r) ==
  \/ Recover(r) \/ MarkStaleJob(r) \/ Submit(r) \/ QuarantineQueuedJob(r)
  \/ QuarantineRunningDispatch(r) \/ SubmitClaim(r) \/ SubmitCheck(r)
  \/ SubmitResume(r) \/ SubmitRelease(r) \/ SubmitReleaseCancel(r)
  \/ SubmitReleaseLapsed(r) \/ SubmitRecord(r) \/ SubmitStage(r)
  \/ SubmitAccept(r) \/ SubmitRetry(r) \/ LookupPrepare(r) \/ LookupClaim(r)
  \/ LookupCall(r) \/ LookupRecord(r) \/ ClaimedReconcile(r)

\* One step of a runner's program.  Only two of them change the provider.
LocalStep(r) ==
  /\ Tick(r) \/ Cancel(r) \/ Terminal(r) \/ Poll(r) \/ Requeue(r) \/ Recovery(r)
  /\ UNCHANGED <<provider, executor, crashes>>

RemoteStep(r) ==
  /\ CancelCall(r) \/ SubmitCall(r)
  /\ UNCHANGED <<executor, crashes>>

RunnerStep(r) == LocalStep(r) \/ RemoteStep(r)

-----------------------------------------------------------------------------
(* Everybody else.                                                         *)

Crash(r) ==
  /\ at[r] \notin Stopped /\ crashes < MaxCrashes
  /\ crashes' = crashes + 1
  /\ Goto(r, "down")
  /\ UNCHANGED <<store, provider, executor>>

\* A worker process starts again, perhaps with another executor.
Restart(r) ==
  /\ at[r] \in Stopped
  /\ Goto(r, "idle")
  /\ \E e \in Executors : executor' = [executor EXCEPT ![r] = e]
  /\ UNCHANGED <<store, provider, crashes>>

\* Requests of the Worker API.
ApiRequest(j) ==
  /\ \/ "approve" \in ApiActions /\ Approve(j)
     \/ "cancel" \in ApiActions /\ CancelJob(j)
     \/ "retry" \in ApiActions /\ RetryJob(j)
  /\ UNCHANGED <<provider, program, executor, crashes>>

\* prepare_supervised_packet and SupervisedSubscriptionFinalizer, as far as the
\* jobs table goes: the operator's job runs without a run row.
SupervisedPrepare(j) ==
  /\ ReadyAs([job |-> j], "QUEUED")
  /\ CanTransition(j, "QUEUED", "RUNNING")
  /\ job' = [job EXCEPT ![j].state = "RUNNING", ![j].stage = "plain"]

SupervisedFinish(j) ==
  /\ CanTransition(j, "RUNNING", "SUCCEEDED")
  /\ job' = [job EXCEPT ![j].state = "SUCCEEDED", ![j].stage = "plain"]

SupervisedBind(j) ==
  /\ job[j].state = "SUCCEEDED" /\ ~job[j].manifest
  /\ BindArtifactManifest(j)

Operator(j) ==
  /\ PlanExecutor[j] = Supervised
  /\ SupervisedPrepare(j) \/ SupervisedFinish(j) \/ SupervisedBind(j)
  /\ UNCHANGED <<run, budget, provider, program, executor, crashes>>

\* The provider works on what it accepted.
ProviderStep(j, a) ==
  /\ \/ provider[j][a] = "ACCEPTED" /\ provider' = [provider EXCEPT ![j][a] = "RUNNING"]
     \/ /\ provider[j][a] = "RUNNING"
        /\ \E s \in Outcomes : provider' = [provider EXCEPT ![j][a] = s]
  /\ UNCHANGED <<store, program, executor, crashes>>

\* Time passes: a lease runs out, a deadline comes, an approval lapses.
LeaseRunsOut(j, a) ==
  /\ run[j][a].lease # Nobody /\ ~run[j][a].over
  /\ run' = [run EXCEPT ![j][a].over = TRUE]
  /\ UNCHANGED <<job, budget, provider, program, executor, crashes>>

ActionComesDue(j, a) ==
  /\ run[j][a].next = "later"
  /\ run' = [run EXCEPT ![j][a].next = "due"]
  /\ UNCHANGED <<job, budget, provider, program, executor, crashes>>

ApprovalLapses(j) ==
  /\ ApprovalsLapse /\ job[j].window = "open"
  /\ job' = [job EXCEPT ![j].window = "lapsed"]
  /\ UNCHANGED <<run, budget, provider, program, executor, crashes>>

Next ==
  \/ \E r \in Runners : RunnerStep(r) \/ Crash(r) \/ Restart(r)
  \/ \E j \in Jobs : ApiRequest(j) \/ Operator(j) \/ ApprovalLapses(j)
  \/ \E j \in Jobs, a \in Attempts :
       ProviderStep(j, a) \/ LeaseRunsOut(j, a) \/ ActionComesDue(j, a)

Spec == Init /\ [][Next]_vars

\* A worker process keeps ticking and is started again when it stopped, time
\* passes and the provider finishes its runs.  Nobody has to call the API.
Fairness ==
  /\ \A r \in Runners : WF_vars(RunnerStep(r)) /\ WF_vars(Restart(r))
  /\ \A j \in Jobs, a \in Attempts :
       /\ WF_vars(ProviderStep(j, a))
       /\ WF_vars(LeaseRunsOut(j, a))
       /\ WF_vars(ActionComesDue(j, a))

FairSpec == Spec /\ Fairness

-----------------------------------------------------------------------------
(* Properties.                                                             *)

\* A job's result is a result its current external run reported, and an artifact
\* manifest is bound to a succeeded job only (services/jobs.py:405, :559).
ResultMatchesRun ==
  \A j \in Jobs : PlanExecutor[j] # Supervised =>
    /\ job[j].state = "SUCCEEDED" => CurrentRun(j).status = "SUCCEEDED"
    /\ job[j].state \in FailedStatuses => CurrentRun(j).status = job[j].state
    /\ job[j].manifest => job[j].state = "SUCCEEDED"

\* At most one paid run of a job is in progress: when a new attempt exists, the
\* runs of the earlier ones are over (retry_job, _requeue).
OnePaidRun ==
  \A j \in Jobs, a \in Attempts :
    a < job[j].attempt => provider[j][a] \notin LiveStatuses

\* Work that costs money has a durable trace written before it started, so that a
\* restarted worker can find it (claim_submission before submit_authorized).
IntentPrecedesWork ==
  \A j \in Jobs, a \in Attempts :
    provider[j][a] # "absent" => run[j][a].row /\ job[j].window # "none"

\* What is recorded of a run is what the provider did with it, whoever recorded
\* it and however late (record_poll_status, record_remote_canceled).
RecordedTruth ==
  \A j \in Jobs, a \in Attempts :
    /\ run[j][a].status \in {"SUCCEEDED", "FAILED_RETRYABLE"} =>
         provider[j][a] \in {run[j][a].status, "CANCELED"}
    /\ run[j][a].status = "CANCELED" => provider[j][a] = "CANCELED"

\* The retry budget bounds the failures counted against each stage of a job over
\* all its attempts; the retryable failure that finds the poll budget spent is
\* still counted (record_submit/poll/cancel_transport_failure, record_poll_status).
RetryBudgetBounded ==
  \A j \in Jobs :
    /\ budget[j]["submission"] <= MaxRetries
    /\ budget[j]["cancel"] <= MaxRetries
    /\ budget[j]["poll"] <= MaxRetries + 1

\* The lease alone keeps two runners from making an external status regress: the
\* trigger job_execution_runs_external_status_monotonic never has to refuse.
LeaseProtectsStatus ==
  \A r \in Runners :
    /\ at[r] = "poll_record" /\ OwnsLive(r, cand[r]) =>
         StatusMayBecome(Row(cand[r]).status, cand[r].seen)
    /\ at[r] = "cancel_confirmed" /\ Owns(r, cand[r]) =>
         StatusMayBecome(Row(cand[r]).status, "CANCELED")

\* A plan that an operator executes never makes a worker start external work,
\* whatever executor the worker was started with (the executor identity checks of
\* _submit, runner.py:591 and :681).
OperatedStartsNoWork ==
  \A j \in Jobs, a \in Attempts :
    PlanExecutor[j] = Supervised => provider[j][a] = "absent"

\* A runner that works for an attempt of the past never moves the job: its
\* transition is refused as stale (the plan's "A stale caller receives
\* STATE_CONFLICT").
Busy == [r \in Runners |-> at[r] \notin Stopped \cup {"idle"}]
StaleCallerConflicts ==
  [][\A r \in Runners :
       Busy[r] /\ cand[r].att < job[cand[r].job].attempt /\ at'[r] # at[r] =>
         job'[cand[r].job].state = job[cand[r].job].state]_vars

\* A worker process ends only when it is told to or crashes, not because of a
\* request that arrived at the same time (cli.run_worker: "Run bounded ticks
\* until SIGTERM, finishing the active tick before exit").
WorkerKeepsTicking == \A r \in Runners : at[r] # "raised"

\* The core implements the lifecycle it promises.
Lifecycle == INSTANCE JobLifecycle WITH
  Operated <- {j \in Jobs : PlanExecutor[j] = Supervised},
  state    <- [j \in Jobs |-> job[j].state],
  attempt  <- [j \in Jobs |-> job[j].attempt],
  started  <- [j \in Jobs |-> {a \in Attempts : provider[j][a] # "absent"}]
LifecycleSpec == Lifecycle!Spec

\* No silent hang: a running job ends or is put before an operator.
RunningJobSettles ==
  \A j \in Jobs :
    job[j].state = "RUNNING" ~>
      job[j].state # "RUNNING" \/ job[j].stage = "reconciliation_required"

\* A running job that nobody holds and that waits for no deadline is before an
\* operator or in one of the queries of the next tick, so that it is never lost
\* between them (runner.tick).
RunningJobIsTended ==
  \A j \in Jobs :
    /\ PlanExecutor[j] # Supervised /\ job[j].state = "RUNNING"
    /\ Unleased(CurrentRun(j)) /\ CurrentRun(j).next # "later"
    => \/ job[j].stage = "reconciliation_required"
       \/ TerminalCandidate(j) \/ PollCandidate(j) \/ InterruptedCandidate(j)

\* The run of a canceled job is confirmed canceled by its provider or put before
\* an operator; it is not left to finish by itself ("cancellation is cooperative
\* and idempotent", the design document, line 432).
CanceledRunSettles ==
  \A j \in Jobs, a \in Attempts :
    job[j].state = "CANCELED" /\ job[j].attempt = a /\ run[j][a].row ~>
      \/ run[j][a].status = "CANCELED"
      \/ run[j][a].stage \in {"reconciliation_required", "cancel_reconciliation_required"}

\* A queued job is dispatched or put before an operator, whatever has become of
\* the other jobs ("Worker restart resumes or safely fails a job").
QueuedJobServed ==
  \A j \in Jobs :
    job[j].state = "QUEUED" /\ job[j].stage # "reconciliation_required" ~>
      job[j].state # "QUEUED" \/ job[j].stage = "reconciliation_required"

\* A canceled job that tick selects and the cancel handler cannot claim: its run
\* has no external id, and the job does not say "dispatching" any more.
Blocked(k) ==
  CancelCandidate(k) /\ ~CurrentRun(k).ext /\ job[k].stage # "dispatching"

\* Such a job is the only thing that can keep a queued one from being served: no
\* fault, crash, lapse or cancel elsewhere starves it (runner.tick).
ServedUnlessBlocked == (\A k \in Jobs : []<>~Blocked(k)) => QueuedJobServed

=============================================================================
