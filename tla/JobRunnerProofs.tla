-------------------------- MODULE JobRunnerProofs --------------------------
(***************************************************************************)
(* Proofs about the runner, for any number of jobs, workers, attempts and  *)
(* retries and whatever the provider's calls do: the types, that work that *)
(* costs money has a durable trace (IntentPrecedesWork), that what is      *)
(* recorded of it is true (RecordedTruth), that a plan an operator         *)
(* executes costs nothing (OperatedStartsNoWork), and that the lease keeps *)
(* statuses from regressing (LeaseProtectsStatus).                         *)
(***************************************************************************)
EXTENDS JobRunner, JobStoreProofs

-----------------------------------------------------------------------------
(* The inductive invariant: besides the two properties, what a runner at a *)
(* control point knows of the run it works on, whoever else has been at    *)
(* work since it looked.                                                   *)

\* A provider state that justifies recording status s.  Canceling may come
\* after any of them, and no run goes back to being merely accepted.
Backs(p, s) ==
  /\ s # "NULL" => p # "absent"
  /\ s = "RUNNING" => p # "ACCEPTED"
  /\ s \in {"SUCCEEDED", "FAILED_RETRYABLE"} => p \in {s, "CANCELED"}
  /\ s = "CANCELED" => p = "CANCELED"

\* The intent to submit is recorded.
Intended == {"submit_check", "submit_resume", "submit_call"}

\* The provider has accepted the run.
Found == {"poll_call", "cancel_call", "submit_record", "lookup_record",
          "cancel_lookup_found"}

Knowing == Intended \cup Found \cup {"poll_record", "cancel_confirmed"}

Knows(point, c) ==
  /\ point \in Intended => Row(c).row
  /\ point \in Found => Remote(c) # "absent"
  /\ point = "poll_record" => Backs(Remote(c), c.seen)
  /\ point = "cancel_confirmed" => Remote(c) = "CANCELED"

StatusBacked == \A j \in Jobs, a \in Attempts : Backs(provider[j][a], run[j][a].status)

IInv ==
  /\ TypeOK
  /\ IntentPrecedesWork
  /\ StatusBacked
  /\ \A r \in Runners : Knows(at[r], cand[r])

-----------------------------------------------------------------------------
(* Facts about one state.                                                  *)

LEMMA CandidateKeyed ==
  ASSUME TypeOK, NEW r \in Runners
  PROVE  /\ cand[r] \in Candidates /\ Keyed(cand[r]) /\ Row(cand[r]) \in RunRows
         /\ Remote(cand[r]) \in ProviderStates
         /\ StoreTypeOK /\ Runners # {}
<1>1. cand[r] \in Candidates /\ StoreTypeOK /\ Keyed(cand[r])
  BY DEF TypeOK, Candidates, Keyed
<1>2. Row(cand[r]) \in RunRows
  BY <1>1, RowTypes
<1>3. Remote(cand[r]) \in ProviderStates
  BY <1>1 DEF TypeOK, Remote, Keyed
<1>4. QED
  BY <1>1, <1>2, <1>3

LEMMA BlankType == Blank \in Candidates
BY JobsAssumption, BoundsAssumption
   DEF Blank, Candidates, Attempts, JobStates, RunStatuses

\* What the recorded status of a run says of the provider.
LEMMA LiveIsFound ==
  ASSUME IInv, NEW r \in Runners, Row(cand[r]).status # "NULL"
  PROVE  Remote(cand[r]) # "absent"
<1>1. Keyed(cand[r])
  BY CandidateKeyed DEF IInv
<1>2. Backs(Remote(cand[r]), Row(cand[r]).status)
  BY <1>1 DEF IInv, StatusBacked, Keyed, Remote, Row
<1>3. QED
  BY <1>2 DEF Backs

LEMMA NoRowNoStatus ==
  ASSUME IInv, NEW r \in Runners
  PROVE  ~Row(cand[r]).row => Row(cand[r]).status = "NULL"
<1>1. Keyed(cand[r])
  BY CandidateKeyed DEF IInv
<1>2. Remote(cand[r]) # "absent" => Row(cand[r]).row
  BY <1>1 DEF IInv, IntentPrecedesWork, Keyed, Remote, Row
<1>3. QED
  BY <1>2, LiveIsFound

-----------------------------------------------------------------------------
(* Facts about control.                                                    *)

LEMMA Lands ==
  ASSUME TypeOK, NEW r \in Runners, NEW point \in Points, NEW c \in Candidates,
         GotoWith(r, point, c)
  PROVE  /\ at' \in [Runners -> Points] /\ cand' \in [Runners -> Candidates]
         /\ at'[r] = point /\ cand'[r] = c
         /\ \A q \in Runners \ {r} : at'[q] = at[q] /\ cand'[q] = cand[q]
<1>1. at \in [Runners -> Points] /\ cand \in [Runners -> Candidates]
  BY DEF TypeOK
<1>2. at' = [at EXCEPT ![r] = point] /\ cand' = [cand EXCEPT ![r] = c]
  BY DEF GotoWith
<1>3. QED
  BY <1>1, <1>2

LEMMA GotoIsGotoWith ==
  ASSUME TypeOK, NEW r \in Runners, NEW point \in Points, Goto(r, point)
  PROVE  \E c \in Candidates :
           /\ GotoWith(r, point, c)
           /\ point \notin Stopped \cup {"idle"} => c = cand[r]
<1>1. cand \in [Runners -> Candidates]
  BY DEF TypeOK
<1>2. CASE point \in Stopped \cup {"idle"}
  BY <1>2, BlankType DEF Goto, GotoWith
<1>3. CASE point \notin Stopped \cup {"idle"}
  BY <1>1, <1>3 DEF Goto, GotoWith
<1>4. QED
  BY <1>2, <1>3

\* What a step of runner r writes: no status, or one its run backs.
Truthful(r) ==
  \/ Harmless
  \/ \E s \in RunStatuses : Records(cand[r], s) /\ Backs(Remote(cand[r]), s)

LEMMA TruthfulKeeps ==
  ASSUME IInv, NEW r \in Runners, Truthful(r), provider' = provider
  PROVE  StoreTypeOK' /\ Kept /\ IntentPrecedesWork' /\ StatusBacked'
<1>1. Keyed(cand[r])
  BY CandidateKeyed DEF IInv
<1>2. StoreTypeOK' /\ Kept
  BY DEF Truthful, Harmless, Records
<1>3. IntentPrecedesWork'
  BY <1>2 DEF IInv, IntentPrecedesWork, Kept
<1>4. CASE Harmless
  BY <1>2, <1>3, <1>4 DEF Harmless, StatusKept, IInv, StatusBacked
<1>5. ASSUME NEW s \in RunStatuses, Records(cand[r], s), Backs(Remote(cand[r]), s)
      PROVE  StatusBacked'
  <2>1. StatusOnly(cand[r], s)
    BY <1>5 DEF Records
  <2>2. SUFFICES ASSUME NEW j \in Jobs, NEW a \in Attempts
                 PROVE  Backs(provider[j][a], run'[j][a].status)
    BY DEF StatusBacked
  <2>3. CASE run'[j][a].status = run[j][a].status
    BY <2>3 DEF IInv, StatusBacked
  <2>4. CASE j = cand[r].job /\ a = cand[r].att /\ run'[j][a].status = s
    BY <1>5, <2>4 DEF Remote
  <2>5. QED
    BY <2>1, <2>3, <2>4 DEF StatusOnly
<1>6. QED
  BY <1>2, <1>3, <1>4, <1>5 DEF Truthful

\* A step of one runner that leaves the provider alone.
LEMMA RunnerMoves ==
  ASSUME IInv, NEW r \in Runners, NEW point \in Points, NEW c \in Candidates,
         Truthful(r), GotoWith(r, point, c), Knows(point, c)',
         UNCHANGED <<provider, executor, crashes>>
  PROVE  IInv'
<1>1. StoreTypeOK' /\ Kept /\ IntentPrecedesWork' /\ StatusBacked'
  BY TruthfulKeeps
<1>2. /\ at' \in [Runners -> Points] /\ cand' \in [Runners -> Candidates]
      /\ at'[r] = point /\ cand'[r] = c
      /\ \A q \in Runners \ {r} : at'[q] = at[q] /\ cand'[q] = cand[q]
  BY Lands DEF IInv
<1>3. TypeOK'
  BY <1>1, <1>2 DEF TypeOK, IInv
<1>4. ASSUME NEW q \in Runners \ {r}
      PROVE  Knows(at[q], cand[q])'
  <2>1. Knows(at[q], cand[q]) /\ Keyed(cand[q])
    BY CandidateKeyed DEF IInv
  <2>2. Row(cand[q]).row => run'[cand[q].job][cand[q].att].row
    BY <1>1, <2>1 DEF Kept, Row, Keyed
  <2>3. QED
    BY <1>2, <2>1, <2>2 DEF Knows, Row, Remote
<1>5. Knows(at[r], cand[r])'
  BY <1>2 DEF Knows, Row, Remote
<1>6. QED
  BY <1>1, <1>3, <1>4, <1>5 DEF IInv

\* Most steps need not know anything where they go.
Ordinary(r) ==
  /\ Truthful(r)
  /\ \E point \in Points \ Knowing, c \in Candidates : GotoWith(r, point, c)

LEMMA OrdinaryMoves ==
  ASSUME IInv, NEW r \in Runners, Ordinary(r), UNCHANGED <<provider, executor, crashes>>
  PROVE  IInv'
<1>1. PICK point \in Points \ Knowing, c \in Candidates : GotoWith(r, point, c)
  BY DEF Ordinary
<1>2. Knows(point, c)'
  BY DEF Knows, Knowing
<1>3. QED
  BY <1>1, <1>2, RunnerMoves DEF Ordinary

LEMMA GotoOrdinary ==
  ASSUME IInv, NEW r \in Runners, NEW point \in Points \ Knowing, Goto(r, point),
         Truthful(r)
  PROVE  Ordinary(r)
BY GotoIsGotoWith DEF IInv, Ordinary

LEMMA NothingIsTruthful ==
  ASSUME IInv, NEW r \in Runners, UNCHANGED store
  PROVE  Truthful(r)
BY NothingChanges DEF IInv, TypeOK, Truthful

LEMMA DecideOrdinary ==
  ASSUME IInv, NEW r \in Runners, NEW point \in Points \ Knowing, Decide(r, point)
  PROVE  Ordinary(r)
BY GotoOrdinary, NothingIsTruthful DEF Decide

LEMMA RaiseOrdinary ==
  ASSUME IInv, NEW r \in Runners, Raise(r)
  PROVE  Ordinary(r)
<1>1. "raised" \in Points \ Knowing
  BY DEF Points, Stopped, Knowing, Intended, Found
<1>2. QED
  BY <1>1, GotoOrdinary, NothingIsTruthful DEF Raise

LEMMA HarmlessMoves ==
  ASSUME IInv, NEW r \in Runners, NEW point \in Points \ Knowing, Goto(r, point),
         Harmless, UNCHANGED <<provider, executor, crashes>>
  PROVE  IInv'
BY GotoOrdinary, OrdinaryMoves DEF Truthful

LEMMA DecideMoves ==
  ASSUME IInv, NEW r \in Runners, NEW point \in Points \ Knowing, Decide(r, point),
         UNCHANGED <<provider, executor, crashes>>
  PROVE  IInv'
BY DecideOrdinary, OrdinaryMoves

LEMMA RaiseMoves ==
  ASSUME IInv, NEW r \in Runners, Raise(r), UNCHANGED <<provider, executor, crashes>>
  PROVE  IInv'
BY RaiseOrdinary, OrdinaryMoves

\* A decision that takes its runner where it has to know something.
LEMMA DecideKnowing ==
  ASSUME IInv, NEW r \in Runners, NEW point \in Knowing, Decide(r, point),
         Knows(point, cand[r]), UNCHANGED <<provider, executor, crashes>>
  PROVE  IInv'
<1>1. point \in Points /\ point \notin Stopped \cup {"idle"}
  BY DEF Points, Stopped, Knowing, Intended, Found
<1>2. Goto(r, point) /\ UNCHANGED store
  BY DEF Decide
<1>3. GotoWith(r, point, cand[r]) /\ cand[r] \in Candidates
  BY <1>1, <1>2, GotoIsGotoWith, CandidateKeyed DEF IInv
<1>4. PICK c \in Candidates : c = cand[r]
  BY <1>3
<1>5. Knows(point, c)'
  BY <1>2, <1>4 DEF Knows, Row, Remote, store
<1>6. QED
  BY <1>1, <1>2, <1>3, <1>4, <1>5, NothingIsTruthful, RunnerMoves

\* The two-row marks.
LEMMA MarkOrdinary ==
  ASSUME IInv, NEW r \in Runners, NEW matches, NEW states,
         NEW stage \in JobStages \cap RunStages, Mark(r, matches, states, stage)
  PROVE  Ordinary(r)
<1>1. CASE ~matches
  BY <1>1, RaiseOrdinary DEF Mark
<1>2. CASE matches
  <2>1. MarkReconciliation(cand[r], states, stage)
        /\ \E point \in {"idle", "raised"} : Goto(r, point)
    BY <1>2 DEF Mark
  <2>2. Truthful(r)
    BY <2>1, CandidateKeyed, MarkReconciliationSafe DEF IInv, Truthful
  <2>3. {"idle", "raised"} \subseteq Points \ Knowing
    BY DEF Points, Stopped, Knowing, Intended, Found
  <2>4. QED
    BY <2>1, <2>2, <2>3, GotoOrdinary
<1>3. QED
  BY <1>1, <1>2

\* An acceptance is recorded where the provider was seen to have accepted.
LEMMA AcceptanceMoves ==
  ASSUME IInv, NEW r \in Runners, at[r] \in Found, RecordAcceptance(cand[r]),
         NEW point \in Points \ Knowing, Goto(r, point),
         UNCHANGED <<provider, executor, crashes>>
  PROVE  IInv'
<1>1. Remote(cand[r]) # "absent"
  BY DEF IInv, Knows
<1>2. Records(cand[r], "ACCEPTED") /\ Backs(Remote(cand[r]), "ACCEPTED")
  BY <1>1, CandidateKeyed, RecordAcceptanceSafe DEF Backs, IInv
<1>3. Truthful(r)
  BY <1>2 DEF Truthful, RunStatuses, LiveStatuses
<1>4. QED
  BY <1>3, GotoOrdinary, OrdinaryMoves

\* A statement that records no status, and a step to where the runner has to
\* know something that the statement leaves as it is.
LEMMA HarmlessKnowing ==
  ASSUME IInv, NEW r \in Runners, NEW point \in Knowing \ Intended, Goto(r, point),
         Harmless, Knows(point, cand[r]), UNCHANGED <<provider, executor, crashes>>
  PROVE  IInv'
<1>1. point \in Points /\ point \notin Stopped \cup {"idle"}
  BY DEF Points, Stopped, Knowing, Intended, Found
<1>2. PICK c \in Candidates : c = cand[r] /\ GotoWith(r, point, c)
  BY <1>1, GotoIsGotoWith DEF IInv
<1>3. Knows(point, c)'
  BY <1>2 DEF Knows, Remote
<1>4. QED
  BY <1>1, <1>2, <1>3, RunnerMoves DEF Truthful

-----------------------------------------------------------------------------
(* tick                                                                    *)

LEMMA SelectOrdinary ==
  ASSUME IInv, NEW r \in Runners, NEW S \in SUBSET Jobs,
         NEW point \in Points \ Knowing, Select(r, S, point)
  PROVE  Ordinary(r)
<1>1. PICK j \in S : GotoWith(r, point, [job |-> j, att |-> job[j].attempt,
                        st |-> job[j].state, seen |-> "NULL", spend |-> FALSE])
  BY DEF Select
<1>2. job[j] \in JobRows
  BY DEF IInv, TypeOK, StoreTypeOK
<1>3. [job |-> j, att |-> job[j].attempt, st |-> job[j].state, seen |-> "NULL",
       spend |-> FALSE] \in Candidates
  BY <1>2 DEF JobRows, Candidates, RunStatuses
<1>4. Truthful(r)
  BY NothingIsTruthful DEF Select
<1>5. QED
  BY <1>1, <1>3, <1>4 DEF Ordinary

LEMMA TickMoves ==
  ASSUME IInv, NEW r \in Runners, Tick(r), UNCHANGED <<provider, executor, crashes>>
  PROVE  IInv'
<1>1. {"cancel", "terminal_claim", "poll_claim", "retry_claim", "recover"}
        \subseteq Points \ Knowing
  BY DEF Points, Knowing, Intended, Found
<1>2. /\ Cancels \subseteq Jobs /\ Terminals \subseteq Jobs /\ Polls \subseteq Jobs
      /\ Retries \subseteq Jobs /\ Dispatch \subseteq Jobs
  BY DEF Cancels, Terminals, Polls, Retries, Dispatch, Queued
<1>3. CASE SelectCancel(r) \/ SelectTerminal(r) \/ SelectPoll(r)
           \/ SelectRetry(r) \/ SelectRecovery(r)
  <2>1. Ordinary(r)
    BY <1>1, <1>2, <1>3, SelectOrdinary
       DEF SelectCancel, SelectTerminal, SelectPoll, SelectRetry, SelectRecovery
  <2>2. QED
    BY <2>1, OrdinaryMoves
<1>4. CASE SelectNothing(r)
  BY <1>4 DEF SelectNothing, IInv, TypeOK, StoreTypeOK, IntentPrecedesWork,
              StatusBacked, Knows, Row, Remote, store, program
<1>5. QED
  BY <1>3, <1>4 DEF Tick

-----------------------------------------------------------------------------
(* _cancel                                                                  *)

LEMMA CancelMoves ==
  ASSUME IInv, NEW r \in Runners, Cancel(r), UNCHANGED <<provider, executor, crashes>>
  PROVE  IInv'
<1> USE CandidateKeyed
<1> TypeOK
  BY DEF IInv
<1>0. {"idle", "cancel_claim_lookup", "cancel_lookup", "cancel_lookup_failed",
      "cancel_terminal", "cancel_claim", "cancel_begin", "cancel_unconfirmed"}
        \subseteq Points \ Knowing
  BY DEF Points, Stopped, Knowing, Intended, Found
<1>1. CASE CancelRead(r)
  <2>1. \E point \in {"cancel_claim_lookup", "cancel_terminal", "cancel_claim"} : Decide(r, point)
    BY <1>1 DEF CancelRead
  <2>2. QED
    BY <1>0, <2>1, DecideMoves
<1>2. CASE CancelClaimLookup(r)
  <2>1. CASE Decide(r, "idle")
    BY <2>1, <1>0, DecideMoves
  <2>2. CASE ClaimExisting(r, cand[r]) /\ Goto(r, "cancel_lookup")
    <3>1. Harmless
      BY <2>2, ClaimExistingSafe
    <3>2. QED
      BY <1>0, <2>2, <3>1, HarmlessMoves
  <2>3. QED
    BY <1>2, <2>1, <2>2 DEF Decide, CancelClaimLookup, OrGiveUp
<1>3. CASE CancelLookup(r)
  <2>1. CASE Decide(r, "cancel_lookup_failed")
    BY <1>0, <2>1, DecideMoves
  <2>2. CASE Remote(cand[r]) # "absent" /\ Decide(r, "cancel_lookup_found")
    BY <2>2, DecideKnowing DEF Knows, Knowing, Intended, Found
  <2>3. QED
    BY <1>3, <2>1, <2>2 DEF CancelLookup, TooLittleLease
<1>4. CASE CancelLookupFound(r)
  <2>1. CASE Decide(r, "cancel_lookup_failed")
    BY <1>0, <2>1, DecideMoves
  <2>2. CASE RecordAcceptance(cand[r]) /\ Goto(r, "idle")
    BY <1>0, <1>4, <2>2, AcceptanceMoves DEF CancelLookupFound, Found
  <2>3. QED
    BY <1>4, <2>1, <2>2 DEF CancelLookupFound
<1>5. CASE CancelLookupFailed(r)
  <2>1. "cancel_reconciliation_required" \in JobStages \cap RunStages
    BY DEF JobStages, RunStages
  <2>2. QED
    BY <1>5, <2>1, MarkOrdinary, OrdinaryMoves DEF CancelLookupFailed
<1>6. CASE CancelTerminal(r)
  <2>1. CASE Raise(r)
    BY <2>1, RaiseMoves
  <2>2. CASE ReconcileTerminal(cand[r]) /\ Goto(r, "idle")
    <3>1. Harmless
      BY <2>2, ReconcileTerminalSafe
    <3>2. QED
      BY <1>0, <2>2, <3>1, HarmlessMoves
  <2>3. QED
    BY <1>6, <2>1, <2>2 DEF CancelTerminal, OrRaise
<1>7. CASE CancelClaim(r)
  <2>1. CASE Decide(r, "idle")
    BY <2>1, <1>0, DecideMoves
  <2>2. CASE ClaimExisting(r, cand[r]) /\ Goto(r, "cancel_begin")
    <3>1. Harmless
      BY <2>2, ClaimExistingSafe
    <3>2. QED
      BY <1>0, <2>2, <3>1, HarmlessMoves
  <2>3. QED
    BY <1>7, <2>1, <2>2 DEF Decide, CancelClaim, OrGiveUp
<1>8. CASE CancelBegin(r)
  <2>1. CASE Raise(r)
    BY <2>1, RaiseMoves
  <2>2. CASE /\ OwnsLive(r, cand[r]) /\ BeginCancelStage(cand[r])
             /\ \E point \in {"cancel_call", "cancel_unconfirmed"} : Goto(r, point)
    <3>1. Harmless /\ Remote(cand[r]) # "absent"
      BY <2>2, BeginCancelStageSafe, LiveIsFound DEF OwnsLive, LiveStatuses
    <3>2. QED
      BY <1>0, <2>2, <3>1, HarmlessMoves, HarmlessKnowing
         DEF Knows, Knowing, Intended, Found
  <2>3. QED
    BY <1>8, <2>1, <2>2 DEF CancelBegin, OrRaise
<1>9. CASE CancelRetry(r)
  <2>1. CASE Raise(r)
    BY <2>1, RaiseMoves
  <2>2. CASE RecordCancelTransportFailure(cand[r]) /\ Goto(r, "idle")
    <3>1. Harmless
      BY <2>2, RecordCancelTransportFailureSafe
    <3>2. QED
      BY <1>0, <2>2, <3>1, HarmlessMoves
  <2>3. QED
    BY <1>9, <2>1, <2>2 DEF CancelRetry, OrRaise
<1>10. CASE CancelUnconfirmed(r)
  <2>1. "cancel_reconciliation_required" \in JobStages \cap RunStages
    BY DEF JobStages, RunStages
  <2>2. QED
    BY <1>10, <2>1, MarkOrdinary, OrdinaryMoves DEF CancelUnconfirmed
<1>11. CASE CancelConfirmed(r)
  <2>1. CASE Raise(r)
    BY <2>1, RaiseMoves
  <2>2. CASE RecordRemoteCanceled(cand[r]) /\ Goto(r, "idle")
    <3>1. Remote(cand[r]) = "CANCELED"
      BY <1>11 DEF CancelConfirmed, IInv, Knows
    <3>2. Records(cand[r], "CANCELED") /\ Backs(Remote(cand[r]), "CANCELED")
      BY <2>2, <3>1, RecordRemoteCanceledSafe DEF Backs
    <3>3. Truthful(r)
      BY <3>2 DEF Truthful, RunStatuses, TerminalStatuses
    <3>4. QED
      BY <1>0, <2>2, <3>3, GotoOrdinary, OrdinaryMoves
  <2>3. QED
    BY <1>11, <2>1, <2>2 DEF CancelConfirmed, OrRaise
<1>12. QED
  BY <1>1, <1>2, <1>3, <1>4, <1>5, <1>6, <1>7, <1>8, <1>9, <1>10, <1>11 DEF Cancel

-----------------------------------------------------------------------------
(* _finalize_terminal                                                       *)

\* The outcome of a run becomes the state of its job.
LEMMA ResultSafe ==
  ASSUME StoreTypeOK, NEW j \in Jobs, NEW to, TransitionOK(j, "RUNNING", to),
         Transition(j, "RUNNING", to), UNCHANGED <<run, budget>>
  PROVE  Harmless
<1>1. to \in JobStates
  BY DEF TransitionOK, DuplicateCancel, CanTransition, ALLOWED_TRANSITIONS, JobStates
<1>2. NextAttempt(j, "RUNNING", to) \in Attempts
  BY SameAttempt
<1>3. QED
  BY <1>1, <1>2, TransitionSafe DEF JobStates

LEMMA TerminalMoves ==
  ASSUME IInv, NEW r \in Runners, Terminal(r), UNCHANGED <<provider, executor, crashes>>
  PROVE  IInv'
<1> USE CandidateKeyed
<1> TypeOK
  BY DEF IInv
<1>0. {"idle", "raised", "terminal_check", "claimed_reconcile",
      "terminal_apply", "terminal_bind", "terminal_queued",
      "terminal_conflict", "terminal_release", "terminal_abandon",
      "terminal_reconcile"}
        \subseteq Points \ Knowing
  BY DEF Points, Stopped, Knowing, Intended, Found
<1>1. CASE TerminalClaim(r)
  <2>1. CASE Decide(r, "idle")
    BY <1>0, <2>1, DecideMoves
  <2>2. CASE /\ ClaimExisting(r, cand[r])
             /\ GotoWith(r, "terminal_check", [cand[r] EXCEPT !.seen = Row(cand[r]).status])
    <3>1. Truthful(r)
      BY <2>2, ClaimExistingSafe DEF Truthful
    <3>2. [cand[r] EXCEPT !.seen = Row(cand[r]).status] \in Candidates
      BY DEF Candidates, RunRows
    <3>3. QED
      BY <1>0, <2>2, <3>1, <3>2, OrdinaryMoves DEF Ordinary
  <2>3. QED
    BY <1>1, <2>1, <2>2 DEF TerminalClaim
<1>2. CASE TerminalCheck(r)
  <2>1. \E point \in {"claimed_reconcile", "terminal_apply", "terminal_bind",
                     "terminal_queued", "terminal_conflict"} : Decide(r, point)
    BY <1>2 DEF TerminalCheck
  <2>2. QED
    BY <1>0, <2>1, DecideMoves
<1>3. CASE TerminalApply(r)
  <2>1. \E point \in {"terminal_bind", "terminal_release", "terminal_conflict"} :
          Goto(r, point)
    BY <1>3 DEF TerminalApply
  <2>2. Harmless
    BY <1>3, ResultSafe, NothingChanges DEF TerminalApply, store, Keyed
  <2>3. QED
    BY <1>0, <2>1, <2>2, HarmlessMoves
<1>4. CASE TerminalQueued(r)
  <2>1. \E point \in {"terminal_apply", "terminal_release", "terminal_abandon",
                     "terminal_conflict"} : Goto(r, point)
    BY <1>4 DEF TerminalQueued
  <2>2. Harmless
    <3>1. CASE UNCHANGED store
      BY <3>1, NothingChanges
    <3>2. ASSUME NEW to \in {"FAILED_RETRYABLE", "RUNNING"},
                 Transition(cand[r].job, "QUEUED", to), UNCHANGED <<run, budget>>
          PROVE  Harmless
      <4>1. to \in JobStates /\ NextAttempt(cand[r].job, "QUEUED", to) \in Attempts
        BY SameAttempt DEF JobStates, Keyed
      <4>2. QED
        BY <3>2, <4>1, TransitionSafe DEF JobStates, Keyed
    <3>3. QED
      BY <1>4, <3>1, <3>2 DEF TerminalQueued, store
  <2>3. QED
    BY <1>0, <2>1, <2>2, HarmlessMoves
<1>5. CASE TerminalBind(r)
  <2>1. \E point \in {"terminal_release", "terminal_conflict"} : Goto(r, point)
    BY <1>5 DEF TerminalBind
  <2>2. Harmless
    BY <1>5, BindSafe, NothingChanges DEF TerminalBind, store, Keyed
  <2>3. QED
    BY <1>0, <2>1, <2>2, HarmlessMoves
<1>6. CASE TerminalConflict(r)
  <2>1. \E point \in {"raised", "terminal_reconcile", "terminal_abandon"} : Decide(r, point)
    BY <1>6 DEF TerminalConflict
  <2>2. QED
    BY <1>0, <2>1, DecideMoves
<1>7. CASE TerminalReconcile(r)
  <2>1. CASE Raise(r)
    BY <2>1, RaiseMoves
  <2>2. CASE ReconcileTerminal(cand[r]) /\ Goto(r, "idle")
    <3>1. Harmless
      BY <2>2, ReconcileTerminalSafe
    <3>2. QED
      BY <1>0, <2>2, <3>1, HarmlessMoves
  <2>3. QED
    BY <1>7, <2>1, <2>2 DEF TerminalReconcile, OrRaise
<1>8. CASE TerminalRelease(r)
  <2>1. CASE Raise(r)
    BY <2>1, RaiseMoves
  <2>2. CASE ReleaseLease(cand[r]) /\ Goto(r, "idle")
    <3>1. Harmless
      BY <2>2, ReleaseLeaseSafe
    <3>2. QED
      BY <1>0, <2>2, <3>1, HarmlessMoves
  <2>3. QED
    BY <1>8, <2>1, <2>2 DEF TerminalRelease, OrRaise
<1>9. CASE TerminalAbandon(r)
  <2>1. Harmless
    BY <1>9, ReleaseLeaseSafe, NothingChanges DEF TerminalAbandon
  <2>2. QED
    BY <1>0, <1>9, <2>1, HarmlessMoves DEF TerminalAbandon
<1>10. QED
  BY <1>1, <1>2, <1>3, <1>4, <1>5, <1>6, <1>7, <1>8, <1>9 DEF Terminal

-----------------------------------------------------------------------------
(* _poll                                                                    *)

LEMMA PollMoves ==
  ASSUME IInv, NEW r \in Runners, Poll(r), UNCHANGED <<provider, executor, crashes>>
  PROVE  IInv'
<1> USE CandidateKeyed
<1> TypeOK
  BY DEF IInv
<1>0. {"idle", "raised", "claimed_reconcile", "poll_local", "poll_reconcile",
      "poll_apply", "poll_conflict", "poll_bind", "poll_retry",
      "poll_retry_local", "poll_exhausted", "poll_exhausted_canceled",
      "poll_exhausted_running", "poll_fatal", "poll_fatal_local",
      "poll_fatal_apply"}
        \subseteq Points \ Knowing
  BY DEF Points, Stopped, Knowing, Intended, Found
<1>1. CASE PollClaim(r)
  <2>1. CASE Decide(r, "idle")
    BY <1>0, <2>1, DecideMoves
  <2>2. CASE /\ CanClaimExisting(cand[r], LiveStatuses) /\ ClaimExisting(r, cand[r])
             /\ \E point \in {"poll_call", "claimed_reconcile"} : Goto(r, point)
    <3>1. Harmless /\ Remote(cand[r]) # "absent"
      BY <2>2, ClaimExistingSafe, LiveIsFound DEF CanClaimExisting, LiveStatuses
    <3>2. QED
      BY <1>0, <2>2, <3>1, HarmlessMoves, HarmlessKnowing
         DEF Knows, Knowing, Intended, Found
  <2>3. QED
    BY <1>1, <2>1, <2>2 DEF Decide, PollClaim, OrGiveUp
<1>2. CASE PollCall(r)
  <2>1. CASE Raise(r)
    BY <2>1, RaiseMoves
  <2>2. CASE \E point \in {"poll_retry", "poll_exhausted", "claimed_reconcile"} :
               Decide(r, point)
    BY <1>0, <2>2, DecideMoves
  <2>3. CASE /\ GotoWith(r, "poll_record", Decided(cand[r], Remote(cand[r])))
             /\ UNCHANGED store
    <3>1. Remote(cand[r]) # "absent"
      BY <1>2 DEF PollCall, IInv, Knows, Found
    <3>2. PICK c \in Candidates : c = Decided(cand[r], Remote(cand[r]))
      BY <3>1 DEF Decided, Candidates, ProviderStates, RunStatuses, TerminalStatuses,
                  FailedStatuses, LiveStatuses
    <3>3. /\ c.job = cand[r].job /\ c.att = cand[r].att
          /\ c.seen = Remote(cand[r]) \/ c.seen = "FAILED_FINAL"
      BY <3>2 DEF Decided, Candidates
    <3>4. Knows("poll_record", c)'
      BY <3>1, <3>3 DEF Knows, Backs, Remote, Intended, Found
    <3>5. "poll_record" \in Points
      BY DEF Points
    <3>6. QED
      BY <2>3, <3>2, <3>4, <3>5, NothingIsTruthful, RunnerMoves
  <2>4. CASE /\ GotoWith(r, "poll_fatal", [cand[r] EXCEPT !.seen = "FAILED_FINAL"])
             /\ UNCHANGED store
    <3>1. [cand[r] EXCEPT !.seen = "FAILED_FINAL"] \in Candidates
      BY DEF Candidates, RunStatuses, TerminalStatuses, FailedStatuses
    <3>2. QED
      BY <1>0, <2>4, <3>1, NothingIsTruthful, OrdinaryMoves DEF Ordinary
  <2>5. QED
    BY <1>2, <2>1, <2>2, <2>3, <2>4 DEF PollCall, TooLittleLease
<1>3. CASE PollRecord(r)
  <2>1. CASE Raise(r)
    BY <2>1, RaiseMoves
  <2>2. CASE ~Raise(r)
    <3>1. /\ job' \in [Jobs -> JobRows]
          /\ \A k \in Jobs : job[k].window # "none" => job'[k].window # "none"
      BY <1>3, <2>2, StageSafe DEF PollRecord, JobStages, StoreTypeOK
    <3>2. CASE /\ RecordPollStatus(cand[r], cand[r].seen, cand[r].spend)
               /\ Goto(r, "poll_local")
      <4>1. cand[r].seen \in RunStatuses
        BY DEF Candidates
      <4>2. Records(cand[r], cand[r].seen)
        BY <3>1, <3>2, <4>1, RecordPollStatusSafe
      <4>3. Backs(Remote(cand[r]), cand[r].seen)
        BY <1>3 DEF PollRecord, IInv, Knows
      <4>4. Truthful(r)
        BY <4>1, <4>2, <4>3 DEF Truthful
      <4>5. QED
        BY <1>0, <3>2, <4>4, GotoOrdinary, OrdinaryMoves
    <3>3. CASE UNCHANGED <<run, budget>> /\ Goto(r, "raised")
      <4>1. Harmless
        BY <3>1, <3>3 DEF Harmless, StoreTypeOK, Kept, StatusKept
      <4>2. QED
        BY <1>0, <3>3, <4>1, HarmlessMoves
    <3>4. QED
      BY <1>3, <2>2, <3>2, <3>3 DEF PollRecord
  <2>3. QED
    BY <2>1, <2>2
<1>4. CASE PollLocal(r)
  <2>1. \E point \in {"poll_reconcile", "idle", "poll_apply"} : Decide(r, point)
    BY <1>4 DEF PollLocal
  <2>2. QED
    BY <1>0, <2>1, DecideMoves
<1>5. CASE PollReconcile(r)
  <2>1. CASE Raise(r)
    BY <2>1, RaiseMoves
  <2>2. CASE ReconcilePoll(cand[r], cand[r].seen \in TerminalStatuses) /\ Goto(r, "idle")
    <3>1. Harmless
      BY <2>2, ReconcilePollSafe
    <3>2. QED
      BY <1>0, <2>2, <3>1, HarmlessMoves
  <2>3. QED
    BY <1>5, <2>1, <2>2 DEF PollReconcile, OrRaise
<1>6. CASE PollApply(r)
  <2>1. \E point \in {"poll_bind", "idle", "raised", "poll_conflict"} : Goto(r, point)
    BY <1>6 DEF PollApply
  <2>2. Harmless
    BY <1>6, ResultSafe, NothingChanges DEF PollApply, store, Keyed
  <2>3. QED
    BY <1>0, <2>1, <2>2, HarmlessMoves
<1>7. CASE PollConflict(r)
  <2>1. \E point \in {"poll_reconcile", "raised"} : Decide(r, point)
    BY <1>7 DEF PollConflict
  <2>2. QED
    BY <1>0, <2>1, DecideMoves
<1>8. CASE PollBind(r)
  <2>1. CASE Raise(r)
    BY <2>1, RaiseMoves
  <2>2. CASE BindArtifactManifest(cand[r].job) /\ UNCHANGED <<run, budget>> /\ Goto(r, "idle")
    <3>1. Harmless
      BY <2>2, BindSafe DEF Keyed
    <3>2. QED
      BY <1>0, <2>2, <3>1, HarmlessMoves
  <2>3. QED
    BY <1>8, <2>1, <2>2 DEF PollBind, OrRaise
<1>9. CASE PollRetry(r)
  <2>1. CASE Raise(r)
    BY <2>1, RaiseMoves
  <2>2. CASE RecordPollTransportFailure(cand[r]) /\ Goto(r, "poll_retry_local")
    <3>1. Harmless
      BY <2>2, RecordPollTransportFailureSafe
    <3>2. QED
      BY <1>0, <2>2, <3>1, HarmlessMoves
  <2>3. QED
    BY <1>9, <2>1, <2>2 DEF PollRetry, OrRaise
<1>10. CASE PollRetryLocal(r)
  <2>1. \E point \in {"raised", "poll_reconcile", "idle"} : Decide(r, point)
    BY <1>10 DEF PollRetryLocal
  <2>2. QED
    BY <1>0, <2>1, DecideMoves
<1>11. CASE PollExhausted(r)
  <2>1. \E point \in {"raised", "poll_exhausted_canceled",
                     "poll_exhausted_running"} : Decide(r, point)
    BY <1>11 DEF PollExhausted
  <2>2. QED
    BY <1>0, <2>1, DecideMoves
<1>12. CASE PollExhaustedCanceled(r)
  <2>1. CASE Raise(r)
    BY <2>1, RaiseMoves
  <2>2. CASE RecordExhaustedPollAfterLocalCancel(cand[r]) /\ Goto(r, "idle")
    <3>1. Harmless
      BY <2>2, RecordExhaustedPollSafe
    <3>2. QED
      BY <1>0, <2>2, <3>1, HarmlessMoves
  <2>3. QED
    BY <1>12, <2>1, <2>2 DEF PollExhaustedCanceled, OrRaise
<1>13. CASE PollExhaustedRunning(r)
  <2>1. "reconciliation_required" \in JobStages \cap RunStages
    BY DEF JobStages, RunStages
  <2>2. QED
    BY <1>13, <2>1, MarkOrdinary, OrdinaryMoves DEF PollExhaustedRunning
<1>14. CASE PollFatal(r)
  <2>1. CASE Raise(r)
    BY <2>1, RaiseMoves
  <2>2. CASE /\ OwnsLive(r, cand[r]) /\ Goto(r, "poll_fatal_local")
             /\ RecordPollStatus(cand[r], "FAILED_FINAL", FALSE) /\ UNCHANGED job
    <3>1. "FAILED_FINAL" \in RunStatuses
      BY DEF RunStatuses, TerminalStatuses, FailedStatuses
    <3>2. Records(cand[r], "FAILED_FINAL")
      BY <2>2, <3>1, RecordPollStatusSafe DEF StoreTypeOK
    <3>3. Backs(Remote(cand[r]), "FAILED_FINAL")
      BY <2>2, LiveIsFound DEF OwnsLive, LiveStatuses, Backs
    <3>4. Truthful(r)
      BY <3>1, <3>2, <3>3 DEF Truthful
    <3>5. QED
      BY <1>0, <2>2, <3>4, GotoOrdinary, OrdinaryMoves
  <2>3. QED
    BY <1>14, <2>1, <2>2 DEF PollFatal, OrRaise
<1>15. CASE PollFatalLocal(r)
  <2>1. \E point \in {"raised", "poll_reconcile", "poll_fatal_apply"} : Decide(r, point)
    BY <1>15 DEF PollFatalLocal
  <2>2. QED
    BY <1>0, <2>1, DecideMoves
<1>16. CASE PollFatalApply(r)
  <2>1. CASE Raise(r)
    BY <2>1, RaiseMoves
  <2>2. CASE ~Raise(r)
    <3>1. Goto(r, "idle") /\ Harmless
      BY <1>16, <2>2, ResultSafe DEF PollFatalApply, OrRaise, Keyed
    <3>2. QED
      BY <1>0, <3>1, HarmlessMoves
  <2>3. QED
    BY <2>1, <2>2
<1>17. QED
  BY <1>1, <1>2, <1>3, <1>4, <1>5, <1>6, <1>7, <1>8, <1>9, <1>10, <1>11, <1>12, <1>13, <1>14, <1>15, <1>16 DEF Poll

-----------------------------------------------------------------------------
(* _requeue                                                                 *)

LEMMA RequeueMoves ==
  ASSUME IInv, NEW r \in Runners, Requeue(r), UNCHANGED <<provider, executor, crashes>>
  PROVE  IInv'
<1> USE CandidateKeyed
<1> TypeOK
  BY DEF IInv
<1>0. {"idle", "retry_apply", "retry_consume"}
        \subseteq Points \ Knowing
  BY DEF Points, Stopped, Knowing, Intended, Found
<1>1. CASE RetryClaim(r)
  <2>1. CASE Decide(r, "idle")
    BY <2>1, <1>0, DecideMoves
  <2>2. CASE ClaimExisting(r, cand[r]) /\ Goto(r, "retry_apply")
    <3>1. Harmless
      BY <2>2, ClaimExistingSafe
    <3>2. QED
      BY <1>0, <2>2, <3>1, HarmlessMoves
  <2>3. QED
    BY <1>1, <2>1, <2>2 DEF Decide, RetryClaim, OrGiveUp
<1>2. CASE RetryApply(r)
  <2>1. CASE Raise(r)
    BY <2>1, RaiseMoves
  <2>2. CASE RetryJob(cand[r].job) /\ Goto(r, "retry_consume")
    <3>1. Harmless
      BY <2>2, RetryJobSafe DEF Keyed
    <3>2. QED
      BY <1>0, <2>2, <3>1, HarmlessMoves
  <2>3. QED
    BY <1>2, <2>1, <2>2 DEF RetryApply, OrRaise
<1>3. CASE RetryConsume(r)
  <2>1. CASE Raise(r)
    BY <2>1, RaiseMoves
  <2>2. CASE MarkRetryConsumed(cand[r]) /\ Goto(r, "idle")
    <3>1. Harmless
      BY <2>2, MarkRetryConsumedSafe
    <3>2. QED
      BY <1>0, <2>2, <3>1, HarmlessMoves
  <2>3. QED
    BY <1>3, <2>1, <2>2 DEF RetryConsume, OrRaise
<1>4. QED
  BY <1>1, <1>2, <1>3 DEF Requeue

-----------------------------------------------------------------------------
(* The recovery candidate                                                   *)

\* A claim inserts the run row.
LEMMA ClaimedRow ==
  ASSUME IInv, NEW r \in Runners, ClaimSubmission(r, cand[r])
  PROVE  Harmless /\ run'[cand[r].job][cand[r].att].row
<1>1. PICK c : c = cand[r]
  OBVIOUS
<1>2. Keyed(c) /\ StoreTypeOK
  BY <1>1, CandidateKeyed DEF IInv
<1>3. Harmless /\ Row(c)'.row
  BY <1>1, <1>2, ClaimSubmissionSafe
<1>4. QED
  BY <1>1, <1>3 DEF Row

LEMMA ReleaseAndContinueMoves ==
  ASSUME IInv, NEW r \in Runners, NEW st \in JobStates, NEW point \in Points \ Knowing,
         ReleaseAndContinue(r, st, point), UNCHANGED <<provider, executor, crashes>>
  PROVE  IInv'
<1>1. CASE Raise(r)
  BY <1>1, RaiseMoves
<1>2. CASE /\ ReleaseLease(cand[r])
           /\ GotoWith(r, point, [cand[r] EXCEPT !.st = st])
  <2>1. Truthful(r)
    BY <1>2, CandidateKeyed, ReleaseLeaseSafe DEF Truthful, IInv
  <2>2. [cand[r] EXCEPT !.st = st] \in Candidates
    BY CandidateKeyed DEF Candidates, IInv
  <2>3. QED
    BY <1>2, <2>1, <2>2, OrdinaryMoves DEF Ordinary
<1>3. QED
  BY <1>1, <1>2 DEF ReleaseAndContinue

LEMMA RecoveryMoves ==
  ASSUME IInv, NEW r \in Runners, Recovery(r), UNCHANGED <<provider, executor, crashes>>
  PROVE  IInv'
<1> USE CandidateKeyed
<1> TypeOK
  BY DEF IInv
<1>0. {"idle", "raised", "mark_stale", "submit", "quarantine_queued",
      "quarantine_running", "lookup_prepare", "submit_claim", "submit_release",
      "submit_release_cancel", "submit_release_lapsed", "submit_stage",
      "submit_accept", "claimed_reconcile", "lookup_claim", "lookup_call",
      "cancel"}
        \subseteq Points \ Knowing
  BY DEF Points, Stopped, Knowing, Intended, Found
<1>1. CASE Recover(r)
  <2>1. \E point \in {"mark_stale", "submit"} : Decide(r, point)
    BY <1>1 DEF Recover
  <2>2. QED
    BY <1>0, <2>1, DecideMoves
<1>2. CASE MarkStaleJob(r)
  <2>1. CASE Raise(r)
    BY <2>1, RaiseMoves
  <2>2. CASE MarkStale(cand[r]) /\ Goto(r, "idle")
    <3>1. Harmless
      BY <2>2, MarkStaleSafe, NoRowNoStatus
    <3>2. QED
      BY <1>0, <2>2, <3>1, HarmlessMoves
  <2>3. QED
    BY <1>2, <2>1, <2>2 DEF MarkStaleJob, OrRaise
<1>3. CASE Submit(r)
  <2>1. \E point \in {"idle", "quarantine_queued", "quarantine_running",
                     "lookup_prepare", "raised", "submit_claim"} : Decide(r, point)
    BY <1>3 DEF Submit
  <2>2. QED
    BY <1>0, <2>1, DecideMoves
<1>4. CASE QuarantineQueuedJob(r)
  <2>1. CASE Decide(r, "idle")
    BY <2>1, <1>0, DecideMoves
  <2>2. CASE QuarantineQueued(cand[r]) /\ Goto(r, "idle")
    <3>1. Harmless
      BY <2>2, QuarantineQueuedSafe
    <3>2. QED
      BY <1>0, <2>2, <3>1, HarmlessMoves
  <2>3. QED
    BY <1>4, <2>1, <2>2 DEF Decide, QuarantineQueuedJob, OrGiveUp
<1>5. CASE QuarantineRunningDispatch(r)
  <2>1. CASE Decide(r, "idle")
    BY <2>1, <1>0, DecideMoves
  <2>2. CASE QuarantineRunning(cand[r]) /\ Goto(r, "idle")
    <3>1. Harmless
      BY <2>2, QuarantineRunningSafe
    <3>2. QED
      BY <1>0, <2>2, <3>1, HarmlessMoves
  <2>3. QED
    BY <1>5, <2>1, <2>2 DEF Decide, QuarantineRunningDispatch, OrGiveUp
<1>6. CASE SubmitClaim(r)
  <2>1. CASE Decide(r, "idle")
    BY <1>0, <2>1, DecideMoves
  <2>2. CASE ClaimSubmission(r, cand[r]) /\ Goto(r, "submit_check")
    <3>1. Harmless
      BY <2>2, ClaimedRow
    <3>2. PICK c \in Candidates : c = cand[r] /\ GotoWith(r, "submit_check", c)
      BY <2>2, GotoIsGotoWith DEF Points, Stopped
    <3>3. Knows("submit_check", c)'
      BY <2>2, <3>2, ClaimedRow DEF Knows, Found, Row
    <3>4. QED
      BY <3>1, <3>2, <3>3, RunnerMoves DEF Truthful, Points
  <2>3. QED
    BY <1>6, <2>1, <2>2 DEF Decide, SubmitClaim, OrGiveUp
<1>7. CASE SubmitCheck(r)
  <2>1. CASE Decide(r, "submit_release_cancel")
    BY <1>0, <2>1, DecideMoves
  <2>2. CASE Decide(r, "submit_resume")
    <3>1. Knows("submit_resume", cand[r])
      BY <1>7 DEF SubmitCheck, IInv, Knows, Intended, Found
    <3>2. QED
      BY <2>2, <3>1, DecideKnowing DEF Knowing, Intended
  <2>3. QED
    BY <1>7, <2>1, <2>2 DEF SubmitCheck
<1>8. CASE SubmitResume(r)
  <2>1. CASE \E point \in {"submit_release", "submit_release_lapsed"} : Decide(r, point)
    BY <1>0, <2>1, DecideMoves
  <2>2. CASE Decide(r, "submit_call")
    <3>1. Knows("submit_call", cand[r])
      BY <1>8 DEF SubmitResume, IInv, Knows, Intended, Found
    <3>2. QED
      BY <2>2, <3>1, DecideKnowing DEF Knowing, Intended
  <2>3. QED
    BY <1>8, <2>1, <2>2 DEF SubmitResume
<1>9. CASE SubmitRelease(r)
  <2>1. CASE Decide(r, "idle")
    BY <2>1, <1>0, DecideMoves
  <2>2. CASE ReleaseLease(cand[r]) /\ Goto(r, "idle")
    <3>1. Harmless
      BY <2>2, ReleaseLeaseSafe
    <3>2. QED
      BY <1>0, <2>2, <3>1, HarmlessMoves
  <2>3. QED
    BY <1>9, <2>1, <2>2 DEF Decide, SubmitRelease, OrGiveUp
<1>10. CASE SubmitReleaseCancel(r)
  BY <1>0, <1>10, ReleaseAndContinueMoves DEF SubmitReleaseCancel, JobStates
<1>11. CASE SubmitReleaseLapsed(r)
  BY <1>0, <1>11, ReleaseAndContinueMoves DEF SubmitReleaseLapsed, JobStates
<1>12. CASE SubmitRecord(r)
  <2>1. CASE Decide(r, "claimed_reconcile")
    BY <1>0, <2>1, DecideMoves
  <2>2. CASE RecordAcceptance(cand[r]) /\ Goto(r, "submit_stage")
    BY <1>0, <1>12, <2>2, AcceptanceMoves DEF SubmitRecord, Found
  <2>3. QED
    BY <1>12, <2>1, <2>2 DEF SubmitRecord
<1>13. CASE SubmitStage(r)
  <2>1. \E point \in {"submit_accept", "idle", "raised"} : Decide(r, point)
    BY <1>13 DEF SubmitStage
  <2>2. QED
    BY <1>0, <2>1, DecideMoves
<1>14. CASE SubmitAccept(r)
  <2>1. CASE Raise(r)
    BY <2>1, RaiseMoves
  <2>2. CASE /\ SetJobStage(cand[r], {"RUNNING"}, "plain") /\ UNCHANGED <<run, budget>>
             /\ Goto(r, "idle")
    <3>1. Harmless
      BY <2>2, StageSafe DEF JobStages, Harmless, StoreTypeOK, Kept, StatusKept
    <3>2. QED
      BY <1>0, <2>2, <3>1, HarmlessMoves
  <2>3. QED
    BY <1>14, <2>1, <2>2 DEF SubmitAccept, OrRaise
<1>15. CASE SubmitRetry(r)
  <2>1. CASE Raise(r)
    BY <2>1, RaiseMoves
  <2>2. CASE RecordSubmitTransportFailure(cand[r]) /\ Goto(r, "idle")
    <3>1. Harmless
      BY <2>2, RecordSubmitTransportFailureSafe
    <3>2. QED
      BY <1>0, <2>2, <3>1, HarmlessMoves
  <2>3. QED
    BY <1>15, <2>1, <2>2 DEF SubmitRetry, OrRaise
<1>16. CASE LookupPrepare(r)
  <2>1. \E point \in {"idle", "raised", "lookup_claim", "quarantine_running"} : Decide(r, point)
    BY <1>16 DEF LookupPrepare
  <2>2. QED
    BY <1>0, <2>1, DecideMoves
<1>17. CASE LookupClaim(r)
  <2>1. CASE Decide(r, "idle")
    BY <1>0, <2>1, DecideMoves
  <2>2. CASE ClaimSubmission(r, cand[r]) /\ Goto(r, "lookup_call")
    BY <1>0, <2>2, ClaimedRow, HarmlessMoves
  <2>3. QED
    BY <1>17, <2>1, <2>2 DEF Decide, LookupClaim, OrGiveUp
<1>18. CASE LookupCall(r)
  <2>1. CASE Decide(r, "claimed_reconcile")
    BY <1>0, <2>1, DecideMoves
  <2>2. CASE Remote(cand[r]) # "absent" /\ Decide(r, "lookup_record")
    BY <2>2, DecideKnowing DEF Knows, Knowing, Intended, Found
  <2>3. QED
    BY <1>18, <2>1, <2>2 DEF LookupCall, TooLittleLease
<1>19. CASE LookupRecord(r)
  <2>1. CASE Decide(r, "claimed_reconcile")
    BY <1>0, <2>1, DecideMoves
  <2>2. CASE RecordAcceptance(cand[r]) /\ Goto(r, "submit_accept")
    BY <1>0, <1>19, <2>2, AcceptanceMoves DEF LookupRecord, Found
  <2>3. QED
    BY <1>19, <2>1, <2>2 DEF LookupRecord
<1>20. CASE ClaimedReconcile(r)
  <2>1. "reconciliation_required" \in JobStages \cap RunStages
    BY DEF JobStages, RunStages
  <2>2. QED
    BY <1>20, <2>1, MarkOrdinary, OrdinaryMoves DEF ClaimedReconcile
<1>21. QED
  BY <1>1, <1>2, <1>3, <1>4, <1>5, <1>6, <1>7, <1>8, <1>9, <1>10, <1>11, <1>12, <1>13, <1>14, <1>15, <1>16, <1>17, <1>18, <1>19, <1>20 DEF Recovery

-----------------------------------------------------------------------------
(* Steps that move the provider.                                           *)

\* A provider forgets no run, and what justified a recorded status still does.
LEMMA ProviderMoves ==
  ASSUME IInv, StoreTypeOK', UNCHANGED <<job, run>>,
         NEW c, Keyed(c), NEW p \in ProviderStates \ {"absent"},
         SetRemote(c, p),
         Remote(c) = "absent" => p = "ACCEPTED" /\ Row(c).row /\ job[c.job].window # "none",
         Remote(c) # "absent" => \/ p \in {Remote(c), "CANCELED"}
                                 \/ Remote(c) \in LiveStatuses /\ p # "ACCEPTED"
  PROVE  /\ provider' \in [Jobs -> [Attempts -> ProviderStates]]
         /\ IntentPrecedesWork' /\ StatusBacked'
         /\ \A j \in Jobs, a \in Attempts : provider[j][a] # "absent" => provider'[j][a] # "absent"
         /\ \A j \in Jobs, a \in Attempts : provider[j][a] = "CANCELED" => provider'[j][a] = "CANCELED"
         /\ \A j \in Jobs, a \in Attempts, s \in RunStatuses :
              Backs(provider[j][a], s) => Backs(provider'[j][a], s)
<1>1. provider \in [Jobs -> [Attempts -> ProviderStates]] /\ c.job \in Jobs /\ c.att \in Attempts
  BY DEF IInv, TypeOK, Keyed
<1>2. provider' = [provider EXCEPT ![c.job][c.att] = p]
  BY DEF SetRemote
<1>3. /\ provider' \in [Jobs -> [Attempts -> ProviderStates]]
      /\ \A j \in Jobs, a \in Attempts :
           provider'[j][a] = IF j = c.job /\ a = c.att THEN p ELSE provider[j][a]
  BY <1>1, <1>2
<1>4. Remote(c) = provider[c.job][c.att]
  BY DEF Remote
<1>5. \A s \in RunStatuses : Backs(Remote(c), s) => Backs(p, s)
  BY DEF Backs, LiveStatuses, RunStatuses, TerminalStatuses, FailedStatuses
<1>6. \A j \in Jobs, a \in Attempts, s \in RunStatuses :
        Backs(provider[j][a], s) => Backs(provider'[j][a], s)
  BY <1>3, <1>4, <1>5
<1>7. \A j \in Jobs, a \in Attempts : run[j][a].status \in RunStatuses
  BY DEF IInv, TypeOK, StoreTypeOK, RunRows
<1>8. StatusBacked'
  BY <1>6, <1>7 DEF IInv, StatusBacked
<1>9. IntentPrecedesWork'
  BY <1>3, <1>4 DEF IInv, IntentPrecedesWork, Row
<1>10. Remote(c) = "CANCELED" => p = "CANCELED"
  BY DEF LiveStatuses
<1>11. QED
  BY <1>3, <1>4, <1>6, <1>8, <1>9, <1>10

\* A call that sets the provider's state and takes its runner on.
LEMMA RemoteMoves ==
  ASSUME IInv, NEW r \in Runners, NEW p \in ProviderStates \ {"absent"},
         SetRemote(cand[r], p), NEW point \in Points \ (Stopped \cup {"idle"}),
         Decide(r, point), UNCHANGED <<executor, crashes>>,
         Remote(cand[r]) = "absent" =>
           p = "ACCEPTED" /\ Row(cand[r]).row /\ job[cand[r].job].window # "none",
         Remote(cand[r]) # "absent" => \/ p \in {Remote(cand[r]), "CANCELED"}
                                       \/ Remote(cand[r]) \in LiveStatuses /\ p # "ACCEPTED",
         point \notin Intended \cup {"poll_record"},
         point = "cancel_confirmed" => p = "CANCELED"
  PROVE  IInv'
<1>1. PICK c \in Candidates : c = cand[r] /\ GotoWith(r, point, c)
  BY GotoIsGotoWith DEF Decide, IInv
<1>2. StoreTypeOK' /\ UNCHANGED <<job, run>> /\ Keyed(c)
  BY <1>1, CandidateKeyed DEF Decide, store, StoreTypeOK, IInv
<1>3. /\ provider' \in [Jobs -> [Attempts -> ProviderStates]]
      /\ IntentPrecedesWork' /\ StatusBacked'
      /\ \A j \in Jobs, a \in Attempts : provider[j][a] # "absent" => provider'[j][a] # "absent"
      /\ \A j \in Jobs, a \in Attempts : provider[j][a] = "CANCELED" => provider'[j][a] = "CANCELED"
      /\ \A j \in Jobs, a \in Attempts, s \in RunStatuses :
           Backs(provider[j][a], s) => Backs(provider'[j][a], s)
  BY <1>1, <1>2, ProviderMoves
<1>4. /\ at' \in [Runners -> Points] /\ cand' \in [Runners -> Candidates]
      /\ at'[r] = point /\ cand'[r] = c
      /\ \A q \in Runners \ {r} : at'[q] = at[q] /\ cand'[q] = cand[q]
  BY <1>1, Lands DEF IInv
<1>5. TypeOK'
  BY <1>2, <1>3, <1>4 DEF TypeOK, IInv
<1>6. ASSUME NEW q \in Runners \ {r}
      PROVE  Knows(at[q], cand[q])'
  <2>1. Knows(at[q], cand[q]) /\ Keyed(cand[q]) /\ cand[q].seen \in RunStatuses
    BY CandidateKeyed DEF IInv, Candidates
  <2>2. at'[q] = at[q] /\ cand'[q] = cand[q]
    BY <1>4
  <2>3. QED
    BY <1>2, <1>3, <2>1, <2>2 DEF Knows, Row, Remote, Keyed
<1>7. Knows(at[r], cand[r])'
  <2>1. provider'[c.job][c.att] = p
    <3>1. /\ provider \in [Jobs -> [Attempts -> ProviderStates]]
          /\ c.job \in Jobs /\ c.att \in Attempts
      BY <1>2 DEF IInv, TypeOK, Keyed
    <3>2. QED
      BY <1>1, <3>1 DEF SetRemote
  <2>2. QED
    BY <1>4, <2>1 DEF Knows, Remote
<1>8. QED
  BY <1>3, <1>5, <1>6, <1>7 DEF IInv

LEMMA RemoteStepMoves ==
  ASSUME IInv, NEW r \in Runners, RemoteStep(r)
  PROVE  IInv'
<1> USE CandidateKeyed
<1> TypeOK /\ UNCHANGED <<executor, crashes>>
  BY DEF IInv, RemoteStep
<1> DEFINE c == cand[r]
<1>0. /\ {"cancel_confirmed", "cancel_retry", "cancel_unconfirmed", "submit_record",
          "submit_release_lapsed", "claimed_reconcile", "submit_retry"}
           \subseteq Points \ (Stopped \cup {"idle"})
      /\ {"submit_release_lapsed", "claimed_reconcile", "submit_retry",
          "cancel_unconfirmed"} \subseteq Points \ Knowing
  BY DEF Points, Stopped, Knowing, Intended, Found
<1>1. CASE CancelCall(r)
  <2>1. Remote(c) # "absent" /\ Remote(c) \in ProviderStates \ {"absent"}
    BY <1>1 DEF CancelCall, IInv, Knows, Found
  <2>2. CASE provider' = provider /\ Decide(r, "cancel_unconfirmed")
    BY <1>0, <2>2, DecideMoves
  <2>3. ASSUME NEW s \in {Remote(c), "CANCELED"}, SetRemote(c, s),
               \/ s = "CANCELED" /\ Decide(r, "cancel_confirmed")
               \/ Decide(r, "cancel_retry")
               \/ Decide(r, "cancel_unconfirmed")
        PROVE  IInv'
    <3>1. s \in ProviderStates \ {"absent"}
      BY <2>1 DEF ProviderStates, TerminalStatuses
    <3>2. QED
      BY <1>0, <2>1, <2>3, <3>1, RemoteMoves DEF Intended
  <2>4. QED
    BY <1>1, <2>2, <2>3 DEF CancelCall, TooLittleLease
<1>2. CASE SubmitCall(r)
  <2>1. Row(c).row
    BY <1>2 DEF SubmitCall, IInv, Knows, Intended
  <2>2. CASE /\ provider' = provider
             /\ \E point \in {"submit_release_lapsed", "claimed_reconcile", "submit_retry"} :
                  Decide(r, point)
    BY <1>0, <2>2, DecideMoves
  <2>3. ASSUME job[c.job].window = "open", SetRemote(c, Accepted(c)),
               NEW point \in {"submit_record", "claimed_reconcile", "submit_retry"},
               Decide(r, point)
        PROVE  IInv'
    <3>1. Accepted(c) \in ProviderStates \ {"absent"}
      BY DEF Accepted, ProviderStates, LiveStatuses
    <3>2. /\ Remote(c) = "absent" => Accepted(c) = "ACCEPTED"
          /\ Remote(c) # "absent" => Accepted(c) = Remote(c)
      BY DEF Accepted
    <3>3. QED
      BY <1>0, <2>1, <2>3, <3>1, <3>2, RemoteMoves DEF Intended
  <2>4. SetRemote(c, Remote(c)) => provider' = provider
    <3>1. provider \in [Jobs -> [Attempts -> ProviderStates]] /\ c.job \in Jobs
      BY DEF TypeOK, Candidates
    <3>2. provider = [provider EXCEPT ![c.job][c.att] = provider[c.job][c.att]]
      BY <3>1
    <3>3. QED
      BY <3>2 DEF SetRemote, Remote
  <2>5. QED
    BY <1>2, <2>2, <2>3, <2>4 DEF SubmitCall, TooLittleLease
<1>3. QED
  BY <1>1, <1>2 DEF RemoteStep

LEMMA ProviderStepMoves ==
  ASSUME IInv, NEW j \in Jobs, NEW a \in Attempts, ProviderStep(j, a)
  PROVE  IInv'
<1> DEFINE c == [job |-> j, att |-> a]
<1>1. PICK p \in ProviderStates \ {"absent"} :
        /\ provider' = [provider EXCEPT ![j][a] = p]
        /\ Remote(c) \in LiveStatuses /\ p # "ACCEPTED"
  BY OutcomesAssumption
     DEF ProviderStep, ProviderStates, LiveStatuses, TerminalStatuses, FailedStatuses, Remote
<1>2. StoreTypeOK' /\ UNCHANGED <<job, run, at, cand, executor, crashes>>
  BY DEF ProviderStep, IInv, TypeOK, StoreTypeOK, store, program
<1>3. Keyed(c) /\ SetRemote(c, p) /\ Remote(c) # "absent"
  BY <1>1 DEF Keyed, SetRemote, LiveStatuses
<1> HIDE DEF c
<1>4. /\ provider' \in [Jobs -> [Attempts -> ProviderStates]]
      /\ IntentPrecedesWork' /\ StatusBacked'
      /\ \A k \in Jobs, b \in Attempts : provider[k][b] # "absent" => provider'[k][b] # "absent"
      /\ \A k \in Jobs, b \in Attempts : provider[k][b] = "CANCELED" => provider'[k][b] = "CANCELED"
      /\ \A k \in Jobs, b \in Attempts, s \in RunStatuses :
           Backs(provider[k][b], s) => Backs(provider'[k][b], s)
  BY <1>1, <1>2, <1>3, ProviderMoves
<1>5. TypeOK'
  BY <1>2, <1>4 DEF TypeOK, IInv
<1>6. ASSUME NEW q \in Runners
      PROVE  Knows(at[q], cand[q])'
  <2>1. Knows(at[q], cand[q]) /\ Keyed(cand[q]) /\ cand[q].seen \in RunStatuses
    BY CandidateKeyed DEF IInv, Candidates
  <2>2. QED
    BY <1>2, <1>4, <2>1 DEF Knows, Row, Remote, Keyed
<1>7. QED
  BY <1>4, <1>5, <1>6 DEF IInv

-----------------------------------------------------------------------------
(* Everybody else, and the theorems.                                       *)

\* A statement of somebody who is not a runner.
LEMMA OthersMove ==
  ASSUME IInv, Harmless, UNCHANGED <<provider, program, executor, crashes>>
  PROVE  IInv'
<1>1. StoreTypeOK' /\ Kept /\ StatusKept
  BY DEF Harmless
<1>2. TypeOK'
  BY <1>1 DEF TypeOK, IInv, program
<1>3. IntentPrecedesWork' /\ StatusBacked'
  BY <1>1 DEF IInv, IntentPrecedesWork, StatusBacked, Kept, StatusKept
<1>4. ASSUME NEW q \in Runners
      PROVE  Knows(at[q], cand[q])'
  <2>1. Knows(at[q], cand[q]) /\ Keyed(cand[q])
    BY CandidateKeyed DEF IInv
  <2>2. Row(cand[q]).row => run'[cand[q].job][cand[q].att].row
    BY <1>1, <2>1 DEF Kept, Row, Keyed
  <2>3. QED
    BY <2>1, <2>2 DEF Knows, Row, Remote, program
<1>5. QED
  BY <1>2, <1>3, <1>4 DEF IInv

LEMMA CrashMoves ==
  ASSUME IInv, NEW r \in Runners, Crash(r)
  PROVE  IInv'
<1>1. "down" \in Points \ Knowing /\ Goto(r, "down")
  BY DEF Points, Stopped, Knowing, Intended, Found, Crash
<1>2. PICK c \in Candidates : GotoWith(r, "down", c)
  BY <1>1, GotoIsGotoWith DEF IInv
<1>3. /\ at' \in [Runners -> Points] /\ cand' \in [Runners -> Candidates]
      /\ at'[r] = "down" /\ cand'[r] = c
      /\ \A q \in Runners \ {r} : at'[q] = at[q] /\ cand'[q] = cand[q]
  BY <1>1, <1>2, Lands DEF IInv
<1>4. crashes' \in 0 .. MaxCrashes
  BY CrashAssumption DEF Crash, IInv, TypeOK
<1>5. TypeOK'
  BY <1>3, <1>4 DEF Crash, TypeOK, StoreTypeOK, IInv, store
<1>6. IntentPrecedesWork' /\ StatusBacked'
  BY DEF Crash, IInv, IntentPrecedesWork, StatusBacked, store
<1>7. ASSUME NEW q \in Runners
      PROVE  Knows(at[q], cand[q])'
  BY <1>3 DEF Crash, IInv, Knows, Row, Remote, store, Knowing, Intended, Found
<1>8. QED
  BY <1>5, <1>6, <1>7 DEF IInv

LEMMA RestartMoves ==
  ASSUME IInv, NEW r \in Runners, Restart(r)
  PROVE  IInv'
<1>1. "idle" \in Points \ Knowing /\ Goto(r, "idle")
  BY DEF Points, Stopped, Knowing, Intended, Found, Restart
<1>2. PICK c \in Candidates : GotoWith(r, "idle", c)
  BY <1>1, GotoIsGotoWith DEF IInv
<1>3. /\ at' \in [Runners -> Points] /\ cand' \in [Runners -> Candidates]
      /\ at'[r] = "idle" /\ cand'[r] = c
      /\ \A q \in Runners \ {r} : at'[q] = at[q] /\ cand'[q] = cand[q]
  BY <1>1, <1>2, Lands DEF IInv
<1>4. executor' \in [Runners -> Executors]
  BY DEF Restart, IInv, TypeOK
<1>5. TypeOK'
  BY <1>3, <1>4 DEF Restart, TypeOK, StoreTypeOK, IInv, store
<1>6. IntentPrecedesWork' /\ StatusBacked'
  BY DEF Restart, IInv, IntentPrecedesWork, StatusBacked, store
<1>7. ASSUME NEW q \in Runners
      PROVE  Knows(at[q], cand[q])'
  BY <1>3 DEF Restart, IInv, Knows, Row, Remote, store, Knowing, Intended, Found
<1>8. QED
  BY <1>5, <1>6, <1>7 DEF IInv

LEMMA ApiRequestMoves ==
  ASSUME IInv, NEW j \in Jobs, ApiRequest(j)
  PROVE  IInv'
<1>1. StoreTypeOK
  BY DEF IInv, TypeOK
<1>2. Harmless
  BY <1>1, ApproveSafe, CancelJobSafe, RetryJobSafe DEF ApiRequest
<1>3. QED
  BY <1>2, OthersMove DEF ApiRequest

LEMMA OperatorMoves ==
  ASSUME IInv, NEW j \in Jobs, Operator(j)
  PROVE  IInv'
<1>1. StoreTypeOK /\ job \in [Jobs -> JobRows] /\ job[j] \in JobRows
  BY DEF IInv, TypeOK, StoreTypeOK
<1>2. ASSUME NEW to \in {"RUNNING", "SUCCEEDED"},
             job' = [job EXCEPT ![j].state = to, ![j].stage = "plain"],
             UNCHANGED <<run, budget>>
      PROVE  Harmless
  <2> DEFINE new == [job[j] EXCEPT !.state = to, !.stage = "plain"]
  <2>1. new \in JobRows /\ new.window = job[j].window
    BY <1>1 DEF JobRows, JobStates, JobStages
  <2>2. job' = [job EXCEPT ![j] = new]
    BY <1>1, <1>2
  <2>3. QED
    BY <1>1, <1>2, <2>1, <2>2, JobOnly
<1>3. Harmless
  BY <1>1, <1>2, BindSafe DEF Operator, SupervisedPrepare, SupervisedFinish, SupervisedBind
<1>4. QED
  BY <1>3, OthersMove DEF Operator

LEMMA ClockMoves ==
  ASSUME IInv, NEW j \in Jobs, NEW a \in Attempts,
         LeaseRunsOut(j, a) \/ ActionComesDue(j, a)
  PROVE  IInv'
<1> DEFINE c == [job |-> j, att |-> a]
           over == [run[j][a] EXCEPT !.over = TRUE]
           due == [run[j][a] EXCEPT !.next = "due"]
<1>1. StoreTypeOK /\ Keyed(c) /\ run[j][a] \in RunRows /\ run[j] \in [Attempts -> RunRows]
  BY DEF IInv, TypeOK, StoreTypeOK, Keyed
<1>2. PICK new \in {over, due} : SetRow(c, new)
  BY <1>1 DEF LeaseRunsOut, ActionComesDue, SetRow, IInv, TypeOK, StoreTypeOK
<1>3. new \in RunRows /\ new.row = Row(c).row /\ new.status = Row(c).status
  BY <1>1 DEF RunRows, Row
<1> HIDE DEF c, over, due
<1>4. job' = job /\ budget' \in [Jobs -> [Budgets -> Nat]]
  BY <1>1 DEF LeaseRunsOut, ActionComesDue, StoreTypeOK
<1>5. Harmless
  BY <1>1, <1>2, <1>3, <1>4, RowOnly
<1>6. QED
  BY <1>5, OthersMove DEF LeaseRunsOut, ActionComesDue

LEMMA ApprovalLapsesMoves ==
  ASSUME IInv, NEW j \in Jobs, ApprovalLapses(j)
  PROVE  IInv'
<1>1. job \in [Jobs -> JobRows] /\ StoreTypeOK
  BY DEF IInv, TypeOK, StoreTypeOK
<1>2. job' = [job EXCEPT ![j] = [job[j] EXCEPT !.window = "lapsed"]]
  BY <1>1 DEF ApprovalLapses
<1>3. [job[j] EXCEPT !.window = "lapsed"] \in JobRows
  BY <1>1 DEF JobRows, Windows
<1>4. job' \in [Jobs -> JobRows]
      /\ \A k \in Jobs : job[k].window # "none" => job'[k].window # "none"
  BY <1>1, <1>2, <1>3 DEF JobRows
<1>5. Harmless
  BY <1>1, <1>4 DEF ApprovalLapses, Harmless, StoreTypeOK, Kept, StatusKept
<1>6. QED
  BY <1>5, OthersMove DEF ApprovalLapses

LEMMA InitIInv == Init => IInv
<1> SUFFICES ASSUME Init
             PROVE  IInv
  OBVIOUS
<1>1. 1 \in Attempts
  BY BoundsAssumption DEF Attempts
<1>2. StoreTypeOK
  BY <1>1 DEF Init, StoreInit, StoreTypeOK, JobRows, RunRows, NoRow, JobStates, JobStages,
              Windows, RunStatuses, RunStages
<1>3. TypeOK
  <2>1. "absent" \in ProviderStates /\ "idle" \in Points /\ 0 \in 0 .. MaxCrashes
    BY CrashAssumption DEF ProviderStates, Points
  <2>2. QED
    BY <1>2, <2>1, BlankType DEF Init, TypeOK
<1>4. IntentPrecedesWork /\ StatusBacked
  BY DEF Init, StoreInit, NoRow, IntentPrecedesWork, StatusBacked, Backs
<1>5. \A r \in Runners : Knows(at[r], cand[r])
  BY DEF Init, Knows, Intended, Found
<1>6. QED
  BY <1>3, <1>4, <1>5 DEF IInv

LEMMA NextIInv == IInv /\ [Next]_vars => IInv'
<1> SUFFICES ASSUME IInv, [Next]_vars
             PROVE  IInv'
  OBVIOUS
<1>1. ASSUME NEW r \in Runners, LocalStep(r)
      PROVE  IInv'
  BY <1>1, TickMoves, CancelMoves, TerminalMoves, PollMoves, RequeueMoves, RecoveryMoves
     DEF LocalStep
<1>2. ASSUME NEW r \in Runners, RemoteStep(r) \/ Crash(r) \/ Restart(r)
      PROVE  IInv'
  BY <1>2, RemoteStepMoves, CrashMoves, RestartMoves
<1>3. ASSUME NEW j \in Jobs, ApiRequest(j) \/ Operator(j) \/ ApprovalLapses(j)
      PROVE  IInv'
  BY <1>3, ApiRequestMoves, OperatorMoves, ApprovalLapsesMoves
<1>4. ASSUME NEW j \in Jobs, NEW a \in Attempts,
             ProviderStep(j, a) \/ LeaseRunsOut(j, a) \/ ActionComesDue(j, a)
      PROVE  IInv'
  BY <1>4, ProviderStepMoves, ClockMoves
<1>5. CASE UNCHANGED vars
  BY <1>5 DEF vars, store, program, IInv, TypeOK, StoreTypeOK, IntentPrecedesWork,
              StatusBacked, Knows, Row, Remote
<1>6. QED
  BY <1>1, <1>2, <1>3, <1>4, <1>5 DEF Next, RunnerStep

LEMMA Invariance == Spec => []IInv
BY InitIInv, NextIInv, PTL DEF Spec

\* Every variable keeps its type: in particular no handler takes an attempt
\* number, a status or a stage out of its range, and no runner is ever at a
\* control point with a candidate it cannot have.
THEOREM TypeCorrect == Spec => []TypeOK
BY Invariance, PTL DEF IInv

\* However many workers share the database, and wherever they crash, are
\* overtaken or lose their lease: external work never exists without the run
\* row and the approval that a restarted worker finds it by.
THEOREM IntentIsDurable == Spec => []IntentPrecedesWork
BY Invariance, PTL DEF IInv

\* However late a runner records what it was told: a recorded success or
\* retryable failure is what the provider reported, a recorded cancellation is
\* one the provider confirmed.
THEOREM RecordsAreTrue == Spec => []RecordedTruth
<1>1. IInv => RecordedTruth
  BY DEF IInv, StatusBacked, Backs, RecordedTruth
<1>2. QED
  BY <1>1, Invariance, PTL

-----------------------------------------------------------------------------
(* Where a runner has to be watched: on its way to submit_authorized, and  *)
(* between an answer of the provider and the statement that records it.    *)

Submitting == {"submit_claim", "submit_check", "submit_resume", "submit_call"}
Guarding == {"poll_record", "cancel_call", "cancel_confirmed"}
Watched == Submitting \cup Guarding

Guards(r) == PollCall(r) \/ CancelBegin(r) \/ CancelCall(r)

\* A step of runner r ends on the way to a submission only where it was on the
\* way already, or where it has just checked the executor, and it ends with an
\* answer to record only where it has asked for one.
Approaches(r) ==
  /\ \A q \in Runners \ {r} : at'[q] = at[q] /\ cand'[q] = cand[q]
  /\ at'[r] \in Submitting => /\ at[r] \in Submitting \/ Matches(r)
                              /\ cand'[r] = cand[r]
  /\ at'[r] \in Guarding => Guards(r)

LEMMA GotoApproaches ==
  ASSUME TypeOK, NEW r \in Runners, NEW point, Goto(r, point),
         point \in Submitting => at[r] \in Submitting \/ Matches(r),
         point \in Guarding => Guards(r)
  PROVE  Approaches(r)
<1>1. at \in [Runners -> Points] /\ cand \in [Runners -> Candidates]
  BY DEF TypeOK
<1>2. at'[r] = point /\ \A q \in Runners \ {r} : at'[q] = at[q] /\ cand'[q] = cand[q]
  BY <1>1 DEF Goto
<1>3. point \in Submitting => cand'[r] = cand[r]
  BY <1>1 DEF Goto, Submitting, Stopped
<1>4. QED
  BY <1>2, <1>3 DEF Approaches

LEMMA GotoWithApproaches ==
  ASSUME TypeOK, NEW r \in Runners, NEW point, point \notin Submitting, NEW c,
         GotoWith(r, point, c), point \in Guarding => Guards(r)
  PROVE  Approaches(r)
<1>1. at \in [Runners -> Points] /\ cand \in [Runners -> Candidates]
  BY DEF TypeOK
<1>2. QED
  BY <1>1 DEF GotoWith, Approaches

LEMMA MarkApproaches ==
  ASSUME TypeOK, NEW r \in Runners, NEW matches, NEW states, NEW stage,
         Mark(r, matches, states, stage)
  PROVE  Approaches(r)
<1>1. PICK point \in {"idle", "raised"} : Goto(r, point)
  BY DEF Mark, Raise
<1>2. QED
  BY <1>1, GotoApproaches DEF Submitting, Guarding

LEMMA SelectNothingStays ==
  ASSUME NEW r \in Runners, SelectNothing(r)
  PROVE  Approaches(r)
BY DEF SelectNothing, program, Approaches, Submitting, Guarding

LEMMA TickApproaches ==
  ASSUME TypeOK, NEW r \in Runners, Tick(r)
  PROVE  Approaches(r)
<1>1. ASSUME NEW S, NEW point, point \notin Watched, Select(r, S, point)
      PROVE  Approaches(r)
  <2>1. PICK c : GotoWith(r, point, c)
    BY <1>1 DEF Select
  <2>2. QED
    BY <1>1, <2>1, GotoWithApproaches DEF Watched
<1>2. CASE SelectNothing(r)
  BY <1>2, SelectNothingStays
<1>3. \A point \in {"cancel", "terminal_claim", "poll_claim", "retry_claim", "recover"} :
        point \notin Watched
  BY DEF Watched, Submitting, Guarding
<1>4. QED
  BY <1>1, <1>2, <1>3 DEF Tick, SelectCancel, SelectTerminal, SelectPoll, SelectRetry,
                          SelectRecovery

LEMMA CancelApproaches ==
  ASSUME TypeOK, NEW r \in Runners, Cancel(r)
  PROVE  Approaches(r)
<1>1. CASE CancelLookupFailed(r) \/ CancelUnconfirmed(r)
  BY <1>1, MarkApproaches DEF CancelLookupFailed, CancelUnconfirmed
<1>2. CASE CancelBegin(r)
  <2>1. Guards(r)
    BY <1>2 DEF Guards
  <2>2. PICK point \in {"cancel_call", "cancel_unconfirmed", "raised"} : Goto(r, point)
    BY <1>2 DEF CancelBegin, OrRaise, Raise
  <2>3. QED
    BY <2>1, <2>2, GotoApproaches DEF Submitting
<1>3. CASE ~(CancelLookupFailed(r) \/ CancelUnconfirmed(r) \/ CancelBegin(r))
  <2>1. PICK point : Goto(r, point) /\ point \notin Watched
    BY <1>3 DEF Cancel, CancelRead, CancelClaimLookup, CancelLookup, TooLittleLease, CancelLookupFound,
                CancelTerminal, CancelClaim, CancelRetry, CancelConfirmed,
                Decide, OrRaise, OrGiveUp, Raise, Watched, Submitting, Guarding
  <2>2. QED
    BY <2>1, GotoApproaches DEF Watched
<1>4. QED
  BY <1>1, <1>2, <1>3

LEMMA TerminalApproaches ==
  ASSUME TypeOK, NEW r \in Runners, Terminal(r)
  PROVE  Approaches(r)
<1>1. CASE TerminalClaim(r)
  <2>1. \/ Goto(r, "idle")
        \/ \E c : GotoWith(r, "terminal_check", c)
    BY <1>1 DEF TerminalClaim, Decide
  <2>2. QED
    BY <2>1, GotoApproaches, GotoWithApproaches DEF Watched, Submitting, Guarding
<1>2. CASE TerminalCheck(r) \/ TerminalConflict(r)
  <2>1. PICK point : Goto(r, point) /\ point \notin Watched
    BY <1>2 DEF TerminalCheck, TerminalConflict, Decide, Watched, Submitting, Guarding
  <2>2. QED
    BY <2>1, GotoApproaches DEF Watched
<1>3. CASE ~(TerminalClaim(r) \/ TerminalCheck(r) \/ TerminalConflict(r))
  <2>1. PICK point : Goto(r, point) /\ point \notin Watched
    BY <1>3 DEF Terminal, TerminalApply, TerminalQueued, TerminalBind, TerminalReconcile,
                TerminalRelease, TerminalAbandon, Decide, OrRaise, Raise, Watched, Submitting, Guarding
  <2>2. QED
    BY <2>1, GotoApproaches DEF Watched
<1>4. QED
  BY <1>1, <1>2, <1>3

LEMMA PollApproaches ==
  ASSUME TypeOK, NEW r \in Runners, Poll(r)
  PROVE  Approaches(r)
<1>1. CASE PollCall(r)
  <2>1. \E point : /\ point \notin Submitting
                   /\ Goto(r, point) \/ \E c : GotoWith(r, point, c)
    BY <1>1 DEF PollCall, TooLittleLease, Decide, Raise, Submitting
  <2>2. Guards(r)
    BY <1>1 DEF Guards
  <2>3. QED
    BY <2>1, <2>2, GotoApproaches, GotoWithApproaches
<1>2. CASE PollExhaustedRunning(r)
  BY <1>2, MarkApproaches DEF PollExhaustedRunning
<1>3. CASE PollClaim(r) \/ PollRecord(r) \/ PollLocal(r) \/ PollApply(r) \/ PollConflict(r)
  <2>1. PICK point : Goto(r, point) /\ point \notin Watched
    BY <1>3 DEF PollClaim, PollRecord, PollLocal, PollApply, PollConflict,
                Decide, OrGiveUp, Raise, Watched, Submitting, Guarding
  <2>2. QED
    BY <2>1, GotoApproaches DEF Watched
<1>4. CASE PollRetryLocal(r) \/ PollExhausted(r) \/ PollFatalLocal(r)
  <2>1. PICK point : Goto(r, point) /\ point \notin Watched
    BY <1>4 DEF PollRetryLocal, PollExhausted, PollFatalLocal, Decide, Watched, Submitting, Guarding
  <2>2. QED
    BY <2>1, GotoApproaches DEF Watched
<1>5. CASE \/ PollReconcile(r) \/ PollBind(r) \/ PollRetry(r)
           \/ PollExhaustedCanceled(r) \/ PollFatal(r) \/ PollFatalApply(r)
  <2>1. Goto(r, "idle") \/ Goto(r, "raised") \/ Goto(r, "poll_retry_local")
        \/ Goto(r, "poll_fatal_local")
    BY <1>5 DEF PollReconcile, PollBind, PollRetry, PollExhaustedCanceled, PollFatal,
                PollFatalApply, OrRaise, Raise
  <2>2. QED
    BY <2>1, GotoApproaches DEF Watched, Submitting, Guarding
<1>6. QED
  BY <1>1, <1>2, <1>3, <1>4, <1>5 DEF Poll

LEMMA RequeueApproaches ==
  ASSUME TypeOK, NEW r \in Runners, Requeue(r)
  PROVE  Approaches(r)
<1>1. PICK point : Goto(r, point) /\ point \notin Watched
  BY DEF Requeue, RetryClaim, RetryApply, RetryConsume, OrRaise, OrGiveUp, Raise,
         Watched, Submitting, Guarding
<1>2. QED
  BY <1>1, GotoApproaches DEF Watched

LEMMA RecoveryApproaches ==
  ASSUME TypeOK, NEW r \in Runners, Recovery(r)
  PROVE  Approaches(r)
<1>1. CASE Submit(r)
  <2>1. PICK point : /\ Goto(r, point) /\ point \notin Guarding
                     /\ point \in Submitting => Matches(r)
    BY <1>1 DEF Submit, Decide, Submitting, Guarding
  <2>2. QED
    BY <2>1, GotoApproaches
<1>2. CASE SubmitClaim(r) \/ SubmitCheck(r) \/ SubmitResume(r)
  <2>1. at[r] \in Submitting
    BY <1>2 DEF SubmitClaim, SubmitCheck, SubmitResume, Submitting
  <2>2. PICK point : Goto(r, point) /\ point \notin Guarding
    BY <1>2 DEF SubmitClaim, SubmitCheck, SubmitResume, Decide, OrGiveUp, Guarding
  <2>3. QED
    BY <2>1, <2>2, GotoApproaches
<1>3. CASE SubmitReleaseCancel(r) \/ SubmitReleaseLapsed(r)
  <2>1. \E point : /\ point \notin Watched
                   /\ Goto(r, point) \/ \E c : GotoWith(r, point, c)
    BY <1>3 DEF SubmitReleaseCancel, SubmitReleaseLapsed, ReleaseAndContinue, Raise,
                Watched, Submitting, Guarding
  <2>2. QED
    BY <2>1, GotoApproaches, GotoWithApproaches DEF Watched
<1>4. CASE ClaimedReconcile(r)
  BY <1>4, MarkApproaches DEF ClaimedReconcile
<1>5. CASE \/ Recover(r) \/ MarkStaleJob(r) \/ QuarantineQueuedJob(r)
           \/ QuarantineRunningDispatch(r) \/ SubmitRelease(r) \/ SubmitRecord(r)
           \/ SubmitStage(r) \/ SubmitAccept(r) \/ SubmitRetry(r) \/ LookupPrepare(r)
           \/ LookupClaim(r) \/ LookupCall(r) \/ LookupRecord(r)
  <2>1. PICK point : Goto(r, point) /\ point \notin Watched
    BY <1>5 DEF Recover, MarkStaleJob, QuarantineQueuedJob, QuarantineRunningDispatch,
                SubmitRelease, SubmitRecord, SubmitStage, SubmitAccept, SubmitRetry,
                LookupPrepare, LookupClaim, LookupCall, TooLittleLease, LookupRecord,
                Decide, OrRaise, OrGiveUp, Raise, Watched, Submitting, Guarding
  <2>2. QED
    BY <2>1, GotoApproaches DEF Watched
<1>6. QED
  BY <1>1, <1>2, <1>3, <1>4, <1>5 DEF Recovery

LEMMA RemoteApproaches ==
  ASSUME TypeOK, NEW r \in Runners, CancelCall(r) \/ SubmitCall(r)
  PROVE  Approaches(r)
<1>1. CASE CancelCall(r)
  <2>1. Guards(r)
    BY <1>1 DEF Guards
  <2>2. PICK point : Goto(r, point) /\ point \notin Submitting
    BY <1>1 DEF CancelCall, TooLittleLease, Decide, Submitting
  <2>3. QED
    BY <2>1, <2>2, GotoApproaches
<1>2. CASE SubmitCall(r)
  <2>1. PICK point : Goto(r, point) /\ point \notin Watched
    BY <1>2 DEF SubmitCall, TooLittleLease, Decide, Watched, Submitting, Guarding
  <2>2. QED
    BY <2>1, GotoApproaches DEF Watched
<1>3. QED
  BY <1>1, <1>2

LEMMA StopApproaches ==
  ASSUME TypeOK, NEW r \in Runners, Crash(r) \/ Restart(r)
  PROVE  Approaches(r) /\ at'[r] \notin Watched
<1>1. PICK point \in {"down", "idle"} : Goto(r, point)
  BY DEF Crash, Restart
<1>2. at'[r] = point
  BY <1>1 DEF Goto, TypeOK
<1>3. QED
  BY <1>1, <1>2, GotoApproaches DEF Watched, Submitting, Guarding

-----------------------------------------------------------------------------
(* No external work for a plan that an operator executes.                  *)

\* The executor identity is checked before the claim and stays what it was.
NoOperatedWork ==
  /\ OperatedStartsNoWork
  /\ \A r \in Runners : at[r] \in Submitting => Matches(r)

\* Who is on the way to a submission still runs the executor of the plan.
LEMMA ApproachKeeps ==
  ASSUME NoOperatedWork, NEW r \in Runners, Approaches(r),
         \A q \in Runners \ {r} : executor'[q] = executor[q],
         at'[r] \in Submitting => executor'[r] = executor[r]
  PROVE  \A q \in Runners : at'[q] \in Submitting => Matches(q)'
<1>1. ASSUME NEW q \in Runners \ {r}, at'[q] \in Submitting
      PROVE  Matches(q)'
  BY <1>1 DEF NoOperatedWork, Approaches, Matches
<1>2. ASSUME at'[r] \in Submitting
      PROVE  Matches(r)'
  BY <1>2 DEF NoOperatedWork, Approaches, Matches
<1>3. QED
  BY <1>1, <1>2

\* A call reaches the provider for a plan of its own executor only.
LEMMA CallsOwnPlans ==
  ASSUME IInv, NoOperatedWork, NEW r \in Runners, CancelCall(r) \/ SubmitCall(r)
  PROVE  OperatedStartsNoWork'
<1> DEFINE c == cand[r]
<1>1. Keyed(c) /\ executor[r] \in Executors
  BY CandidateKeyed DEF IInv, TypeOK
<1>2. PlanExecutor[c.job] # Supervised
  <2>1. CASE CancelCall(r)
    BY <1>1, <2>1 DEF CancelCall, IInv, Knows, Found, Remote, NoOperatedWork,
                      OperatedStartsNoWork, Keyed
  <2>2. CASE SubmitCall(r)
    BY <1>1, <2>2, ExecutorAssumption DEF SubmitCall, NoOperatedWork, Submitting, Matches
  <2>3. QED
    BY <2>1, <2>2
<1>3. \/ provider' = provider
      \/ \E s : provider' = [provider EXCEPT ![c.job][c.att] = s]
  BY DEF CancelCall, SubmitCall, SetRemote
<1>4. \A j \in Jobs \ {c.job}, a \in Attempts : provider'[j][a] = provider[j][a]
  BY <1>1, <1>3 DEF IInv, TypeOK, Keyed
<1>5. QED
  BY <1>2, <1>4 DEF NoOperatedWork, OperatedStartsNoWork

LEMMA NoOperatedWorkKept == IInv /\ NoOperatedWork /\ [Next]_vars => NoOperatedWork'
<1> SUFFICES ASSUME IInv, NoOperatedWork, [Next]_vars
             PROVE  NoOperatedWork'
  OBVIOUS
<1> TypeOK
  BY DEF IInv
<1>1. ASSUME NEW r \in Runners, LocalStep(r)
      PROVE  NoOperatedWork'
  <2>1. Approaches(r) /\ UNCHANGED <<provider, executor>>
    BY <1>1, TickApproaches, CancelApproaches, TerminalApproaches, PollApproaches,
       RequeueApproaches, RecoveryApproaches DEF LocalStep
  <2>2. QED
    BY <2>1, ApproachKeeps DEF NoOperatedWork, OperatedStartsNoWork
<1>2. ASSUME NEW r \in Runners, RemoteStep(r)
      PROVE  NoOperatedWork'
  <2>1. Approaches(r) /\ UNCHANGED executor /\ OperatedStartsNoWork'
    BY <1>2, RemoteApproaches, CallsOwnPlans DEF RemoteStep
  <2>2. QED
    BY <2>1, ApproachKeeps DEF NoOperatedWork
<1>3. ASSUME NEW r \in Runners, Crash(r) \/ Restart(r)
      PROVE  NoOperatedWork'
  <2>1. Approaches(r) /\ at'[r] \notin Submitting /\ UNCHANGED provider
    BY <1>3, StopApproaches DEF Crash, Restart, Watched
  <2>2. \A q \in Runners \ {r} : executor'[q] = executor[q]
    BY <1>3 DEF Crash, Restart, TypeOK
  <2>3. QED
    BY <2>1, <2>2, ApproachKeeps DEF NoOperatedWork, OperatedStartsNoWork
<1>4. ASSUME NEW j \in Jobs, NEW a \in Attempts, ProviderStep(j, a)
      PROVE  NoOperatedWork'
  <2>1. PlanExecutor[j] # Supervised
    BY <1>4 DEF ProviderStep, NoOperatedWork, OperatedStartsNoWork
  <2>2. \A k \in Jobs \ {j}, b \in Attempts : provider'[k][b] = provider[k][b]
    BY <1>4 DEF ProviderStep, TypeOK
  <2>3. OperatedStartsNoWork'
    BY <2>1, <2>2 DEF NoOperatedWork, OperatedStartsNoWork
  <2>4. QED
    BY <1>4, <2>3 DEF ProviderStep, program, NoOperatedWork, Matches
<1>5. CASE UNCHANGED <<provider, program, executor>>
  BY <1>5 DEF program, NoOperatedWork, OperatedStartsNoWork, Matches
<1>6. QED
  BY <1>1, <1>2, <1>3, <1>4, <1>5
     DEF Next, RunnerStep, ApiRequest, Operator, ApprovalLapses, LeaseRunsOut,
         ActionComesDue, vars

\* Whatever executors the workers are started with, and whenever they are
\* restarted with another one: a plan that an operator executes never makes a
\* worker start external work.
THEOREM OperatorsPlansCostNothing == Spec => []OperatedStartsNoWork
<1>1. Init => NoOperatedWork
  BY DEF Init, NoOperatedWork, OperatedStartsNoWork, Submitting
<1>2. NoOperatedWork => OperatedStartsNoWork
  BY DEF NoOperatedWork
<1>3. QED
  BY <1>1, <1>2, NoOperatedWorkKept, Invariance, PTL DEF Spec

-----------------------------------------------------------------------------
(* The lease keeps the recorded status still under the runner that holds   *)
(* it, from the answer of the provider to the statement that records it.   *)

\* What a statement of runner r leaves alone: it gives a lease to r or to
\* nobody, and changes the status of a row only when r holds its lease.
Respectful(r) ==
  \A j \in Jobs, a \in Attempts :
    /\ run'[j][a].lease \in {run[j][a].lease, Nobody, r}
    /\ run'[j][a].status = run[j][a].status \/ run[j][a].lease = r

LEMMA RowRespectful ==
  ASSUME TypeOK, NEW r \in Runners, NEW new, SetRow(cand[r], new),
         new.lease \in {Row(cand[r]).lease, Nobody, r},
         new.status = Row(cand[r]).status \/ Owns(r, cand[r])
  PROVE  Respectful(r)
<1>1. run \in [Jobs -> [Attempts -> RunRows]] /\ Keyed(cand[r])
  BY CandidateKeyed DEF TypeOK, StoreTypeOK
<1>2. \A j \in Jobs, a \in Attempts :
        run'[j][a] = IF j = cand[r].job /\ a = cand[r].att THEN new ELSE run[j][a]
  BY <1>1 DEF SetRow, Keyed
<1>3. QED
  BY <1>1, <1>2 DEF Respectful, Row, Owns, Keyed

\* The statements that leave the status as it is.
LEMMA StatusLeft ==
  ASSUME TypeOK, NEW r \in Runners, NEW terminal, NEW states, NEW stage,
         \/ ClaimExisting(r, cand[r]) \/ ClaimSubmission(r, cand[r])
         \/ ReleaseLease(cand[r]) \/ RecordSubmitTransportFailure(cand[r])
         \/ RecordPollTransportFailure(cand[r]) \/ ReconcilePoll(cand[r], terminal)
         \/ ReconcileTerminal(cand[r]) \/ RecordExhaustedPollAfterLocalCancel(cand[r])
         \/ MarkRetryConsumed(cand[r]) \/ BeginCancelStage(cand[r])
         \/ RecordCancelTransportFailure(cand[r])
         \/ MarkReconciliation(cand[r], states, stage)
         \/ QuarantineRunning(cand[r]) \/ QuarantineQueued(cand[r])
  PROVE  Respectful(r)
<1>1. Row(cand[r]) \in RunRows
  BY CandidateKeyed
<1>2. CASE ClaimExisting(r, cand[r]) \/ ClaimSubmission(r, cand[r])
  BY <1>1, <1>2, RowRespectful DEF ClaimExisting, ClaimSubmission, Leased, RunRows
<1>3. CASE ReleaseLease(cand[r])
  BY <1>1, <1>3, RowRespectful DEF ReleaseLease, Released, RunRows
<1>4. CASE RecordSubmitTransportFailure(cand[r]) \/ RecordPollTransportFailure(cand[r])
  BY <1>1, <1>4, RowRespectful DEF RecordSubmitTransportFailure,
                                 RecordPollTransportFailure, Released, RunRows
<1>5. CASE ReconcilePoll(cand[r], terminal) \/ BeginCancelStage(cand[r])
  BY <1>1, <1>5, RowRespectful DEF ReconcilePoll, BeginCancelStage, RunRows
<1>6. CASE ReconcileTerminal(cand[r]) \/ RecordCancelTransportFailure(cand[r])
  BY <1>1, <1>6, RowRespectful DEF ReconcileTerminal, RecordCancelTransportFailure,
                                 Released, RunRows
<1>7. CASE RecordExhaustedPollAfterLocalCancel(cand[r]) \/ MarkRetryConsumed(cand[r])
  BY <1>1, <1>7, RowRespectful DEF RecordExhaustedPollAfterLocalCancel,
                                 MarkRetryConsumed, Released, RunRows
<1>8. CASE MarkReconciliation(cand[r], states, stage) \/ QuarantineRunning(cand[r])
  BY <1>1, <1>8, RowRespectful DEF MarkReconciliation, QuarantineRunning, Released, RunRows
<1>9. CASE QuarantineQueued(cand[r])
  BY <1>1, <1>9, RowRespectful DEF QuarantineQueued, RunRows
<1>10. QED
  BY <1>2, <1>3, <1>4, <1>5, <1>6, <1>7, <1>8, <1>9

\* The statements that record a status need the lease.
LEMMA StatusRecorded ==
  ASSUME TypeOK, NEW r \in Runners, Owns(r, cand[r]), NEW status, NEW consume,
         \/ RecordAcceptance(cand[r]) \/ RecordPollStatus(cand[r], status, consume)
         \/ RecordRemoteCanceled(cand[r])
  PROVE  Respectful(r)
<1>1. Row(cand[r]) \in RunRows
  BY CandidateKeyed
<1>2. CASE RecordAcceptance(cand[r]) \/ RecordRemoteCanceled(cand[r])
  BY <1>1, <1>2, RowRespectful DEF RecordAcceptance, RecordRemoteCanceled, Released, RunRows
<1>3. CASE RecordPollStatus(cand[r], status, consume)
  <2>1. PollStatusRow(cand[r], status).lease = Nobody
    BY <1>1 DEF PollStatusRow, Released, RunRows
  <2>2. QED
    BY <1>3, <2>1, RowRespectful DEF RecordPollStatus
<1>4. QED
  BY <1>2, <1>3

\* A run nobody intended has no status to lose.
LEMMA StaleMarked ==
  ASSUME IInv, NEW r \in Runners, MarkStale(cand[r])
  PROVE  Respectful(r)
<1>1. TypeOK /\ Row(cand[r]) \in RunRows
  BY CandidateKeyed DEF IInv
<1>2. CASE Row(cand[r]).row
  BY <1>1, <1>2, RowRespectful DEF MarkStale
<1>3. CASE ~Row(cand[r]).row
  <2> DEFINE new == [NoRow EXCEPT !.row = TRUE, !.stage = "reconciliation_required"]
  <2>1. SetRow(cand[r], new)
    BY <1>3 DEF MarkStale
  <2>2. new.lease = Nobody /\ new.status = Row(cand[r]).status
    BY <1>3, NoRowNoStatus DEF NoRow
  <2> HIDE DEF new
  <2>3. QED
    BY <1>1, <2>1, <2>2, RowRespectful
<1>4. QED
  BY <1>2, <1>3

LEMMA RunLeft ==
  ASSUME NEW r \in Runners, run' = run
  PROVE  Respectful(r)
BY DEF Respectful

LEMMA MarkRespectful ==
  ASSUME TypeOK, NEW r \in Runners, NEW matches, NEW states, NEW stage,
         Mark(r, matches, states, stage)
  PROVE  Respectful(r)
<1>1. MarkReconciliation(cand[r], states, stage) \/ run' = run
  BY DEF Mark, Raise, store
<1>2. QED
  BY <1>1, StatusLeft, RunLeft

LEMMA CancelRespectful ==
  ASSUME TypeOK, NEW r \in Runners, Cancel(r)
  PROVE  Respectful(r)
<1>1. CASE CancelLookupFailed(r) \/ CancelUnconfirmed(r)
  BY <1>1, MarkRespectful DEF CancelLookupFailed, CancelUnconfirmed
<1>2. CASE CancelRead(r) \/ CancelLookup(r)
  BY <1>2, RunLeft DEF CancelRead, CancelLookup, TooLittleLease, Decide, store
<1>3. CASE CancelLookupFound(r) \/ CancelConfirmed(r)
  <2>1. \/ run' = run
        \/ /\ Owns(r, cand[r])
           /\ RecordAcceptance(cand[r]) \/ RecordRemoteCanceled(cand[r])
    BY <1>3 DEF CancelLookupFound, CancelConfirmed, CanRecordLookupForCanceled,
                CanRecordRemoteCanceled, Decide, OrRaise, Raise, store
  <2>2. QED
    BY <2>1, RunLeft, StatusRecorded
<1>4. CASE \/ CancelClaimLookup(r) \/ CancelTerminal(r) \/ CancelClaim(r)
           \/ CancelBegin(r) \/ CancelRetry(r)
  <2>1. \/ run' = run \/ ClaimExisting(r, cand[r]) \/ ReconcileTerminal(cand[r])
        \/ BeginCancelStage(cand[r]) \/ RecordCancelTransportFailure(cand[r])
    BY <1>4 DEF CancelClaimLookup, CancelTerminal, CancelClaim, CancelBegin, CancelRetry,
                OrRaise, OrGiveUp, Raise, store
  <2>2. QED
    BY <2>1, RunLeft, StatusLeft
<1>5. QED
  BY <1>1, <1>2, <1>3, <1>4 DEF Cancel

LEMMA TerminalRespectful ==
  ASSUME TypeOK, NEW r \in Runners, Terminal(r)
  PROVE  Respectful(r)
<1>1. \/ run' = run \/ ClaimExisting(r, cand[r]) \/ ReleaseLease(cand[r])
      \/ ReconcileTerminal(cand[r])
  BY DEF Terminal, TerminalClaim, TerminalCheck, TerminalApply, TerminalQueued,
         TerminalBind, TerminalConflict, TerminalReconcile, TerminalRelease,
         TerminalAbandon, ReleaseLease, Decide, OrRaise, Raise, store
<1>2. QED
  BY <1>1, RunLeft, StatusLeft

LEMMA PollRespectful ==
  ASSUME TypeOK, NEW r \in Runners, Poll(r)
  PROVE  Respectful(r)
<1> DEFINE c == cand[r]
<1>1. CASE PollExhaustedRunning(r)
  BY <1>1, MarkRespectful DEF PollExhaustedRunning
<1>2. CASE PollRecord(r) \/ PollFatal(r)
  <2>1. \/ run' = run
        \/ /\ Owns(r, c)
           /\ RecordPollStatus(c, c.seen, c.spend) \/ RecordPollStatus(c, "FAILED_FINAL", FALSE)
    BY <1>2 DEF PollRecord, PollFatal, OwnsLive, OrRaise, Raise, store
  <2>2. QED
    BY <2>1, RunLeft, StatusRecorded
<1>3. CASE \/ PollCall(r) \/ PollLocal(r) \/ PollApply(r) \/ PollConflict(r)
           \/ PollRetryLocal(r) \/ PollExhausted(r) \/ PollFatalLocal(r)
  BY <1>3, RunLeft DEF PollCall, TooLittleLease, PollLocal, PollApply, PollConflict, PollRetryLocal,
                       PollExhausted, PollFatalLocal, Decide, Raise, store
<1>4. CASE PollBind(r) \/ PollFatalApply(r)
  BY <1>4, RunLeft DEF PollBind, PollFatalApply, OrRaise, Raise, store
<1>5. CASE PollClaim(r) \/ PollRetry(r) \/ PollExhaustedCanceled(r)
  <2>1. \/ run' = run \/ ClaimExisting(r, c) \/ RecordPollTransportFailure(c)
        \/ RecordExhaustedPollAfterLocalCancel(c)
    BY <1>5 DEF PollClaim, PollRetry, PollExhaustedCanceled, OrRaise, OrGiveUp, Raise, store
  <2>2. QED
    BY <2>1, RunLeft, StatusLeft
<1>6. CASE PollReconcile(r)
  <2>1. run' = run \/ ReconcilePoll(c, c.seen \in TerminalStatuses)
    BY <1>6 DEF PollReconcile, OrRaise, Raise, store
  <2>2. QED
    BY <2>1, RunLeft, StatusLeft
<1>7. QED
  BY <1>1, <1>2, <1>3, <1>4, <1>5, <1>6 DEF Poll

LEMMA RecoveryRespectful ==
  ASSUME IInv, NEW r \in Runners, Recovery(r)
  PROVE  Respectful(r)
<1> TypeOK
  BY DEF IInv
<1> DEFINE c == cand[r]
<1>1. CASE ClaimedReconcile(r)
  BY <1>1, MarkRespectful DEF ClaimedReconcile
<1>2. CASE MarkStaleJob(r)
  <2>1. run' = run \/ MarkStale(c)
    BY <1>2 DEF MarkStaleJob, OrRaise, Raise, store
  <2>2. QED
    BY <2>1, RunLeft, StaleMarked
<1>3. CASE SubmitRecord(r) \/ LookupRecord(r)
  <2>1. run' = run \/ (Owns(r, c) /\ RecordAcceptance(c))
    BY <1>3 DEF SubmitRecord, LookupRecord, Decide, store
  <2>2. QED
    BY <2>1, RunLeft, StatusRecorded
<1>4. CASE \/ Recover(r) \/ Submit(r) \/ SubmitCheck(r) \/ SubmitResume(r)
           \/ SubmitStage(r) \/ LookupPrepare(r) \/ LookupCall(r)
  BY <1>4, RunLeft DEF Recover, Submit, SubmitCheck, SubmitResume, SubmitStage,
                       LookupPrepare, LookupCall, TooLittleLease, Decide, store
<1>5. CASE SubmitAccept(r)
  BY <1>5, RunLeft DEF SubmitAccept, OrRaise, Raise, store
<1>6. CASE \/ QuarantineQueuedJob(r) \/ QuarantineRunningDispatch(r) \/ SubmitClaim(r)
           \/ SubmitRelease(r) \/ SubmitReleaseCancel(r) \/ SubmitReleaseLapsed(r)
           \/ SubmitRetry(r) \/ LookupClaim(r)
  <2>1. \/ run' = run \/ QuarantineQueued(c) \/ QuarantineRunning(c)
        \/ ClaimSubmission(r, c) \/ ReleaseLease(c) \/ RecordSubmitTransportFailure(c)
    BY <1>6 DEF QuarantineQueuedJob, QuarantineRunningDispatch, SubmitClaim,
                SubmitRelease, SubmitReleaseCancel, SubmitReleaseLapsed,
                ReleaseAndContinue, SubmitRetry, LookupClaim, OrRaise, OrGiveUp,
                Raise, store
  <2>2. QED
    BY <2>1, RunLeft, StatusLeft
<1>7. QED
  BY <1>1, <1>2, <1>3, <1>4, <1>5, <1>6 DEF Recovery

LEMMA RunnerStepRespectful ==
  ASSUME IInv, NEW r \in Runners, RunnerStep(r)
  PROVE  Respectful(r) /\ Approaches(r)
<1> TypeOK
  BY DEF IInv
<1>1. CASE Tick(r)
  <2>1. run' = run
    BY <1>1 DEF Tick, SelectCancel, SelectTerminal, SelectPoll, SelectRetry,
                SelectRecovery, SelectNothing, Select, store
  <2>2. QED
    BY <1>1, <2>1, RunLeft, TickApproaches
<1>2. CASE Requeue(r)
  <2>1. run' = run \/ ClaimExisting(r, cand[r]) \/ MarkRetryConsumed(cand[r])
    BY <1>2 DEF Requeue, RetryClaim, RetryApply, RetryConsume, RetryJob, OrRaise,
                OrGiveUp, Raise, store
  <2>2. QED
    BY <1>2, <2>1, RunLeft, StatusLeft, RequeueApproaches
<1>3. CASE CancelCall(r) \/ SubmitCall(r)
  BY <1>3, RunLeft, RemoteApproaches DEF CancelCall, TooLittleLease, SubmitCall, Decide, store
<1>4. CASE Cancel(r) \/ Terminal(r) \/ Poll(r) \/ Recovery(r)
  BY <1>4, CancelRespectful, TerminalRespectful, PollRespectful, RecoveryRespectful,
     CancelApproaches, TerminalApproaches, PollApproaches, RecoveryApproaches
<1>5. QED
  BY <1>1, <1>2, <1>3, <1>4 DEF RunnerStep, LocalStep, RemoteStep

\* What a runner with an answer to record knows while it holds the lease.
Holds(r) ==
  LET c == cand[r] IN
  /\ at[r] = "poll_record" =>
       /\ c.seen # "NULL"
       /\ Owns(r, c) /\ Row(c).status = "RUNNING" => c.seen # "ACCEPTED"
  /\ at[r] \in {"cancel_call", "cancel_confirmed"} =>
       (Owns(r, c) => Row(c).status \in LiveStatuses)

Holding == \A r \in Runners : Holds(r)

\* Nobody else's step takes the status from under the holder of the lease.
LEMMA HoldsOn ==
  ASSUME IInv, Holding, NEW q \in Runners, at'[q] = at[q], cand'[q] = cand[q],
         \A j \in Jobs, a \in Attempts :
           run'[j][a].lease = q =>
             run[j][a].lease = q /\ run'[j][a].status = run[j][a].status
  PROVE  Holds(q)'
<1>1. Keyed(cand[q])
  BY CandidateKeyed DEF IInv
<1>2. Owns(q, cand[q])' => Owns(q, cand[q]) /\ Row(cand[q])'.status = Row(cand[q]).status
  BY <1>1 DEF Owns, Row, Keyed
<1>3. QED
  BY <1>2 DEF Holding, Holds, Owns, Row

\* The three steps that end with an answer to record.
LEMMA GuardsHold ==
  ASSUME IInv, Holding, NEW r \in Runners, Guards(r), at'[r] \in Guarding
  PROVE  Holds(r)'
<1> DEFINE c == cand[r]
<1>1. /\ at \in [Runners -> Points] /\ cand \in [Runners -> Candidates]
      /\ run \in [Jobs -> [Attempts -> RunRows]]
      /\ Keyed(c) /\ Row(c) \in RunRows /\ Remote(c) \in ProviderStates
  BY CandidateKeyed DEF IInv, TypeOK, StoreTypeOK
<1>2. CASE PollCall(r)
  <2>1. Remote(c) # "absent"
    BY <1>2 DEF PollCall, IInv, Knows, Found
  <2>2. /\ at'[r] = "poll_record" /\ cand'[r] = Decided(c, Remote(c)) /\ run' = run
    BY <1>1, <1>2 DEF PollCall, TooLittleLease, Decide, Raise, Goto, GotoWith, Guarding, store
  <2>3. /\ cand'[r].seen # "NULL"
        /\ cand'[r].seen = "ACCEPTED" => Remote(c) = "ACCEPTED"
        /\ cand'[r].job = c.job /\ cand'[r].att = c.att
    BY <1>1, <2>1, <2>2 DEF Decided, Candidates, ProviderStates, LiveStatuses,
                            TerminalStatuses, FailedStatuses
  <2>4. Backs(Remote(c), Row(c).status)
    BY <1>1 DEF IInv, StatusBacked, Keyed, Remote, Row
  <2>5. Row(cand[r])' = Row(c)
    BY <2>2, <2>3 DEF Row
  <2>6. QED
    BY <2>2, <2>3, <2>4, <2>5 DEF Holds, Backs
<1>3. CASE CancelBegin(r)
  <2>1. /\ at'[r] = "cancel_call" /\ cand'[r] = c
        /\ OwnsLive(r, c) /\ BeginCancelStage(c)
    BY <1>1, <1>3 DEF CancelBegin, OrRaise, Raise, Goto, Guarding, Stopped
  <2>2. Row(cand[r])' = [Row(c) EXCEPT
          !.stage = IF @ = "cancel_retry_pending" THEN @ ELSE "plain"]
    BY <1>1, <2>1 DEF BeginCancelStage, SetRow, Row, Keyed
  <2>3. Row(cand[r])'.status \in LiveStatuses
    BY <1>1, <2>1, <2>2 DEF OwnsLive, RunRows
  <2>4. QED
    BY <2>1, <2>3 DEF Holds
<1>4. CASE CancelCall(r)
  <2>1. at[r] = "cancel_call" /\ at'[r] = "cancel_confirmed" /\ cand'[r] = c /\ run' = run
    BY <1>1, <1>4 DEF CancelCall, TooLittleLease, Decide, Goto, Guarding, Stopped, store
  <2>2. QED
    BY <2>1 DEF Holding, Holds, Owns, Row
<1>5. QED
  BY <1>2, <1>3, <1>4 DEF Guards

LEMMA HoldingKept == IInv /\ Holding /\ [Next]_vars => Holding'
<1> SUFFICES ASSUME IInv, Holding, [Next]_vars, NEW q \in Runners
             PROVE  Holds(q)'
  BY DEF Holding
<1> TypeOK
  BY DEF IInv
<1>1. ASSUME NEW r \in Runners, RunnerStep(r)
      PROVE  Holds(q)'
  <2>1. Respectful(r) /\ Approaches(r)
    BY <1>1, RunnerStepRespectful
  <2>2. CASE q # r
    <3>1. at'[q] = at[q] /\ cand'[q] = cand[q] /\ q # Nobody
      BY <2>1, <2>2, RunnersAssumption DEF Approaches
    <3>2. QED
      BY <2>1, <2>2, <3>1, HoldsOn DEF Respectful
  <2>3. CASE q = r /\ at'[r] \in Guarding
    BY <2>1, <2>3, GuardsHold DEF Approaches
  <2>4. CASE q = r /\ at'[r] \notin Guarding
    BY <2>4 DEF Holds, Guarding
  <2>5. QED
    BY <2>2, <2>3, <2>4
<1>2. ASSUME NEW r \in Runners, Crash(r) \/ Restart(r)
      PROVE  Holds(q)'
  <2>1. Approaches(r) /\ at'[r] \notin Watched /\ run' = run
    BY <1>2, StopApproaches DEF Crash, Restart, store
  <2>2. CASE q = r
    BY <2>1, <2>2 DEF Holds, Watched, Guarding
  <2>3. CASE q # r
    BY <2>1, <2>3, HoldsOn DEF Approaches
  <2>4. QED
    BY <2>2, <2>3
<1>3. ASSUME NEW j \in Jobs, NEW a \in Attempts, LeaseRunsOut(j, a) \/ ActionComesDue(j, a)
      PROVE  Holds(q)'
  <2> DEFINE over == [run[j][a] EXCEPT !.over = TRUE]
             due  == [run[j][a] EXCEPT !.next = "due"]
  <2>1. /\ run \in [Jobs -> [Attempts -> RunRows]]
        /\ run[j][a] \in RunRows /\ run[j] \in [Attempts -> RunRows]
    BY DEF TypeOK, StoreTypeOK
  <2>2. PICK new \in {over, due} : run' = [run EXCEPT ![j][a] = new]
    BY <1>3, <2>1 DEF LeaseRunsOut, ActionComesDue
  <2>3. new.lease = run[j][a].lease /\ new.status = run[j][a].status
    BY <2>1 DEF RunRows
  <2> HIDE DEF over, due
  <2>4. \A k \in Jobs, b \in Attempts :
          run'[k][b].lease = run[k][b].lease /\ run'[k][b].status = run[k][b].status
    BY <2>1, <2>2, <2>3
  <2>5. QED
    BY <1>3, <2>4, HoldsOn DEF LeaseRunsOut, ActionComesDue, program
<1>4. CASE UNCHANGED <<run, program>>
  BY <1>4, HoldsOn DEF program
<1>5. QED
  BY <1>1, <1>2, <1>3, <1>4
     DEF Next, ApiRequest, Approve, CancelJob, RetryJob, Operator, SupervisedPrepare,
         ApprovalLapses, ProviderStep, vars, store

\* However many workers poll and cancel the same run, and however long they
\* pause between the provider's answer and its recording: whoever still holds the
\* lease records a status the run may go to, and the trigger never has to refuse.
THEOREM LeasesGuardStatus == Spec => []LeaseProtectsStatus
<1>1. Init => Holding
  BY DEF Init, Holding, Holds
<1>2. IInv /\ Holding => LeaseProtectsStatus
  BY DEF Holding, Holds, LeaseProtectsStatus, OwnsLive, StatusMayBecome, LiveStatuses,
         TerminalStatuses, FailedStatuses
<1>3. QED
  BY <1>1, <1>2, HoldingKept, Invariance, PTL DEF Spec

=============================================================================
