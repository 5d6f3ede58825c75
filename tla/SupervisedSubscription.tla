----------------------- MODULE SupervisedSubscription -----------------------
(***************************************************************************)
(* services/supervised_subscription.py and the supervised commands of      *)
(* cli.py: what processes do to one supervised run.  A call, be it one of  *)
(* the operator's commands or of the finalizer, which is a class that      *)
(* nothing in src/ calls, opens the ledger, then works through transactions*)
(* on two SQLite databases, plain reads and the artifact directory.  Each  *)
(* of these is one step, and between two of them any other process may take*)
(* its own or the process may die, which leaves the stores as they are.    *)
(***************************************************************************)
EXTENDS SupervisedRail

CONSTANTS
  Processes,      \* processes that run a command
  MaxSetbacks,    \* bound on rejected submissions and recoveries, taken together
  MaxCrashes      \* bound on processes that die in a command, or Unlimited

Unlimited == -1

ASSUME CallAssumption == MaxSetbacks \in Nat /\ MaxCrashes \in Nat \cup {Unlimited}

VARIABLES
  key,      \* the file of the ledger's integrity key
  job,      \* state of the job in the main database
  bundle,   \* hash of the manifest in the job's artifact directory, or None
  bound,    \* whether the job row names that manifest
  at,       \* where each process is in its command
  call,     \* what its command remembers
  lives     \* how many processes may still die

vars == <<ledger, key, job, bundle, bound, at, call, lives>>
stores == <<key, job, bundle, bound, lives>>

\* supervised-packet, supervised-bind without and with --resolve-recovery, and
\* supervised-status.
CliCommands == {"packet", "bind", "recover_bind", "status"}

\* SupervisedSubscriptionFinalizer.finalize has no command: whoever wants a run
\* finished calls it from a program of their own.
Commands == CliCommands \cup {"finalize"}
Entry == [packet |-> "load", bind |-> "submit", recover_bind |-> "resolve",
          status |-> "read_row", finalize |-> "load"]

Points == {"idle", "key_write", "load", "start", "identity", "issue", "resolve",
           "submit", "read_row", "read_head", "read_events", "read_rows",
           "succeed", "publish", "attach", "record", "alarmed"}

\* row and n: the status and the event count that the read under way has seen;
\* reads: how many of the command's validated reads are done; seen: the job's
\* state when the finalizer loaded it; input, by: the recovery's arguments.
NoCall == [cmd |-> "none", row |-> "ABSENT", n |-> 0, reads |-> 0,
           seen |-> "QUEUED", input |-> Unknown, by |-> None]

JobStates == {"QUEUED", "RUNNING", "SUCCEEDED", "CANCELED"}

Calls == [cmd : Commands \cup {"none"}, row : Statuses \cup {"ABSENT"}, n : Nat,
          reads : 0 .. 2, seen : JobStates, input : Inputs,
          by : Operators \cup {None}]

TypeOK ==
  /\ LedgerTypeOK
  /\ key \in {"absent", "empty", "whole"}
  /\ job \in JobStates
  /\ bundle \in Manifests \cup {None}
  /\ bound \in BOOLEAN
  /\ at \in [Processes -> Points]
  /\ call \in [Processes -> Calls]
  /\ lives \in Nat \cup {Unlimited}

Init ==
  /\ LedgerInit
  /\ key = "absent" /\ job = "QUEUED" /\ bundle = None /\ bound = FALSE
  /\ at = [p \in Processes |-> "idle"]
  /\ call = [p \in Processes |-> NoCall]
  /\ lives = MaxCrashes

Go(p, there) == at' = [at EXCEPT ![p] = there]
Keep(p, field, value) == call' = [call EXCEPT ![p] = [@ EXCEPT ![field] = value]]
Leave(p) == Go(p, "idle") /\ call' = [call EXCEPT ![p] = NoCall]
Alarm(p) == Go(p, "alarmed") /\ call' = [call EXCEPT ![p] = NoCall]

Setbacks == Cardinality(Positions(Len(events), "REJECTED"))
            + Cardinality(Positions(Len(events), "OPERATOR_RECOVERY_REQUIRED"))

-----------------------------------------------------------------------------
(* Opening the ledger: the key file is created empty and then written.     *)

Begin(p, cmd) ==
  /\ at[p] = "idle"
  /\ \/ /\ key = "absent" /\ key' = "empty" /\ Go(p, "key_write")
     \/ /\ key = "whole" /\ Go(p, Entry[cmd]) /\ UNCHANGED key
  /\ Keep(p, "cmd", cmd)
  /\ UNCHANGED <<ledger, job, bundle, bound, lives>>

WriteKey(p) ==
  /\ at[p] = "key_write"
  /\ key' = "whole"
  /\ Go(p, Entry[call[p].cmd])
  /\ UNCHANGED <<ledger, job, bundle, bound, call, lives>>

-----------------------------------------------------------------------------
(* A validated read.  The connection is in autocommit: each SELECT sees the*)
(* database of its own moment.                                             *)

ReadRow(p) ==
  /\ at[p] = "read_row"
  /\ IF status = "ABSENT" THEN Leave(p)
                          ELSE Go(p, "read_head") /\ Keep(p, "row", status)
  /\ UNCHANGED <<ledger, stores>>

ReadHead(p) ==
  /\ at[p] = "read_head"
  /\ Go(p, "read_events") /\ Keep(p, "n", Len(events))
  /\ UNCHANGED <<ledger, stores>>

ReadEvents(p) ==
  /\ at[p] = "read_events"
  /\ IF Len(events) = call[p].n THEN Go(p, "read_rows") /\ UNCHANGED call
                                ELSE Alarm(p)
  /\ UNCHANGED <<ledger, stores>>

\* supervised-status reads the packet or the binding after the status.
StatusGoesOn(p) ==
  /\ call[p].reads = 0
  /\ call[p].row \in {"AWAITING_OPERATOR_EXECUTION", "ARTIFACT_FROZEN"}

\* finalize reads the binding, the final completion and the context.
FinalizeGoesOn(p) ==
  \/ call[p].reads = 0
  \/ call[p].reads = 1 /\ call[p].row \in {"FINAL_QA_READY", "ARTIFACT_FROZEN"}

ReadOn(p) == Go(p, "read_row") /\ Keep(p, "reads", call[p].reads + 1)

\* _execution_result, the final QA of the last completion
FinalQA == Last(completions).payload = "sound"

\* Variant: the finalizer takes what the last stage accepted.
Verified_NoFinalQA(p) ==
  IF call[p].cmd = "finalize"
    THEN IF FinalizeGoesOn(p) THEN ReadOn(p)
         ELSE IF call[p].reads = 2 THEN Go(p, "succeed") /\ UNCHANGED call ELSE Leave(p)
    ELSE IF StatusGoesOn(p) THEN ReadOn(p) ELSE Leave(p)

Verified(p) ==
  IF call[p].cmd = "finalize"
    THEN IF FinalizeGoesOn(p) THEN ReadOn(p)
         ELSE IF call[p].reads = 2 /\ FinalQA THEN Go(p, "succeed") /\ UNCHANGED call
                                               ELSE Leave(p)
    ELSE IF StatusGoesOn(p) THEN ReadOn(p) ELSE Leave(p)

\* The last SELECTs (the job's row, its packets, its completions) are one step: a
\* change between two of them is found by a comparison, and raises as one before
\* the first does, or is not seen, as one after the last.
ReadRows(p) ==
  /\ at[p] = "read_rows"
  /\ IF Verifies(call[p].row, call[p].n) THEN Verified(p) ELSE Alarm(p)
  /\ UNCHANGED <<ledger, stores>>

-----------------------------------------------------------------------------
(* supervised-packet and the start of finalize                             *)

\* get_job
LoadJob(p) ==
  /\ at[p] = "load"
  /\ IF call[p].cmd = "finalize" THEN Go(p, "read_row") /\ Keep(p, "seen", job)
     ELSE IF job = "QUEUED" THEN Go(p, "start") /\ UNCHANGED call
     ELSE IF job = "RUNNING" THEN Go(p, "identity") /\ UNCHANGED call
     ELSE Leave(p)
  /\ UNCHANGED <<ledger, stores>>

\* prepare_execution and the transition; whoever lost the race reads the job
\* again, and an approval that lapsed ends the command.
StartJob(p) ==
  /\ at[p] = "start"
  /\ \/ /\ job = "QUEUED" /\ job' = "RUNNING"
        /\ Go(p, "identity") /\ UNCHANGED call
     \/ /\ job = "RUNNING" /\ UNCHANGED job
        /\ Go(p, "identity") /\ UNCHANGED call
     \/ /\ UNCHANGED job /\ Leave(p)
  /\ UNCHANGED <<ledger, key, bundle, bound, lives>>

\* running_execution_identity
ReadIdentity(p) ==
  /\ at[p] = "identity"
  /\ IF job = "RUNNING" THEN Go(p, "issue") /\ UNCHANGED call ELSE Leave(p)
  /\ UNCHANGED <<ledger, stores>>

IssuePacket(p) ==
  /\ at[p] = "issue"
  /\ \E s \in Sessions : PreparePacket(s)
  /\ Leave(p)
  /\ UNCHANGED stores

-----------------------------------------------------------------------------
(* supervised-bind, with and without --resolve-recovery                    *)

Known == {Unknown} \cup 0 .. Current

ResolveRecovery(p) ==
  /\ at[p] = "resolve"
  /\ \E i \in Known, o \in Operators :
       \/ /\ Resolve(i, o) \/ (ResolveReplays(i, o) /\ UNCHANGED ledger)
          /\ Go(p, "submit")
          /\ call' = [call EXCEPT ![p].input = i, ![p].by = o]
       \/ /\ ResolveAlarms(i) /\ Alarm(p) /\ UNCHANGED ledger
       \/ /\ ~ Resolvable(i) /\ ~ ResolveReplays(i, o) /\ ~ ResolveAlarms(i)
          /\ Leave(p) /\ UNCHANGED ledger
  /\ UNCHANGED stores

Submit(p) ==
  /\ at[p] = "submit"
  /\ \E i \in Known, o \in Operators, s \in Sessions :
       \E pay \in PayloadsOf(Current) :
         /\ call[p].cmd = "recover_bind" => i = call[p].input /\ o = call[p].by
         /\ BindCompletion([input |-> i, by |-> o, session |-> s, payload |-> pay])
  /\ Setbacks' <= MaxSetbacks
  /\ Leave(p)
  /\ UNCHANGED stores

-----------------------------------------------------------------------------
(* The rest of finalize                                                    *)

\* Variant: a finalizer that died after this step cannot be run again.
Succeed_OnlyRunning(p) ==
  /\ at[p] = "succeed"
  /\ IF job = "RUNNING" /\ call[p].seen = "RUNNING"
       THEN job' = "SUCCEEDED" /\ Go(p, "publish") /\ UNCHANGED call
       ELSE Leave(p) /\ UNCHANGED job
  /\ UNCHANGED <<ledger, key, bundle, bound, lives>>

\* The transition is tried only if the job was RUNNING when it was loaded; in
\* the end it must be SUCCEEDED, by whomever.
Succeed(p) ==
  /\ at[p] = "succeed"
  /\ job' = IF job = "RUNNING" /\ call[p].seen = "RUNNING" THEN "SUCCEEDED" ELSE job
  /\ IF job' = "SUCCEEDED" /\ call[p].seen \in {"RUNNING", "SUCCEEDED"}
       THEN Go(p, "publish") /\ UNCHANGED call
       ELSE Leave(p)
  /\ UNCHANGED <<ledger, key, bundle, bound, lives>>

\* Variant: write_bundle replaces what it finds.
Publish_Replaces(p) ==
  /\ at[p] = "publish"
  /\ bundle' \in Manifests
  /\ Go(p, "attach")
  /\ UNCHANGED <<ledger, key, job, bound, call, lives>>

\* write_bundle publishes one, or verifies the one it finds.
Publish(p) ==
  /\ at[p] = "publish"
  /\ IF bundle = None THEN bundle' \in Manifests ELSE UNCHANGED bundle
  /\ Go(p, "attach")
  /\ UNCHANGED <<ledger, key, job, bound, call, lives>>

\* bind_artifact_manifest
Attach(p) ==
  /\ at[p] = "attach"
  /\ bound' = TRUE
  /\ Go(p, "record")
  /\ UNCHANGED <<ledger, key, job, bundle, call, lives>>

\* Variant: each finalizer records the manifest it would write itself.
Record_Own(p) ==
  /\ at[p] = "record"
  /\ \E m \in Manifests : RecordArtifact(m)
  /\ Leave(p)
  /\ UNCHANGED stores

\* The hash is that of the bytes read through open_artifact.
Record(p) ==
  /\ at[p] = "record"
  /\ RecordArtifact(bundle)
  /\ Leave(p)
  /\ UNCHANGED stores

-----------------------------------------------------------------------------
(* The rest of the world                                                   *)

\* mark_operator_recovery_required and request_cancel have no command: a
\* caller of the library makes them, in a transaction each.
HoldRun ==
  /\ MarkRecovery
  /\ Setbacks' <= MaxSetbacks
  /\ UNCHANGED <<stores, at, call>>

CancelRun ==
  /\ \E o \in Operators : RequestCancel(o)
  /\ UNCHANGED <<stores, at, call>>

\* POST /v1/jobs/{job_id}/cancel knows nothing of the ledger.
CancelJob ==
  /\ job \in {"QUEUED", "RUNNING"}
  /\ job' = "CANCELED"
  /\ UNCHANGED <<ledger, key, bundle, bound, at, call, lives>>

Crash(p) ==
  /\ at[p] # "idle" /\ lives # 0
  /\ lives' = IF lives = Unlimited THEN lives ELSE lives - 1
  /\ Leave(p)
  /\ UNCHANGED <<ledger, key, job, bundle, bound>>

\* A DataIntegrityError ends the command with an error code of its own.
Dismiss(p) == at[p] = "alarmed" /\ Leave(p) /\ UNCHANGED <<ledger, stores>>

Reads(p) == ReadRow(p) \/ ReadHead(p) \/ ReadEvents(p) \/ ReadRows(p)

Step(p) ==
  \/ WriteKey(p) \/ Reads(p) \/ LoadJob(p) \/ StartJob(p) \/ ReadIdentity(p)
  \/ IssuePacket(p) \/ ResolveRecovery(p) \/ Submit(p)
  \/ Succeed(p) \/ Publish(p) \/ Attach(p) \/ Record(p) \/ Dismiss(p)

Next ==
  \/ \E p \in Processes : (\E cmd \in Commands : Begin(p, cmd)) \/ Step(p) \/ Crash(p)
  \/ HoldRun \/ CancelRun \/ CancelJob

Spec == Init /\ [][Next]_vars

\* A process that runs goes on.  Nobody has to begin anything: the code starts no
\* finalizer, and repeats none.
Fairness == \A p \in Processes : WF_vars(Step(p))

FairSpec == Spec /\ Fairness

-----------------------------------------------------------------------------
(* What the two databases and the directory say of one run agree, whatever *)
(* processes raced or died.                                                *)

\* A job that succeeded was delivered in full and passed the final QA, although
\* the finalizer reads the ledger long before it writes the job.
SucceededWasReviewed ==
  job = "SUCCEEDED" =>
    /\ status \in {"FINAL_QA_READY", "ARTIFACT_FROZEN"}
    /\ Len(completions) = Len(Stages) /\ FinalQA

\* A frozen run names the one manifest that was published for its job and that
\* the job's row is bound to, although two finalizers may have raced and others
\* died between the four writes.
FrozenMeansPublished ==
  status = "ARTIFACT_FROZEN" =>
    /\ job = "SUCCEEDED" /\ bound
    /\ artifact # None /\ artifact = bundle

\* What the design says of a ready run (line 147): that its revision passed the QA.
ReadyPassedQA == status \in {"FINAL_QA_READY", "ARTIFACT_FROZEN"} => FinalQA

\* What the design says of a succeeded job: that its artifact was verified.
SucceededHasArtifact == job = "SUCCEEDED" => bundle # None /\ bound

-----------------------------------------------------------------------------
(* The abstract run.                                                       *)

Phase == CASE status = "ABSENT" -> "none"
           [] status = "AWAITING_OPERATOR_EXECUTION" -> "waiting"
           [] status = "OPERATOR_RECOVERY_REQUIRED" -> "held"
           [] status = "CANCEL_REQUESTED" -> "canceled"
           [] status = "FINAL_QA_READY" -> "ready"
           [] OTHER -> "closed"

Run == INSTANCE OperatorRail WITH
         phase <- Phase, delivered <- Len(completions), job <- job,
         published <- bundle, closed <- artifact,
         NumStages <- Len(Stages), Hashes <- Manifests

\* The processes together are one run of OperatorRail: stages in order, a final
\* cancellation, success after the last delivery, one bundle, closed once.
OneRun == Run!Spec

-----------------------------------------------------------------------------
(* Liveness.                                                               *)

Finished == status = "ARTIFACT_FROZEN" \/ job = "CANCELED"

\* One call of finalize on a ready and sound run ends with the run frozen, whatever
\* earlier finalizers left when they died and others do meanwhile, unless the job
\* is canceled or a process dies during the call: each of the four writes can be
\* found done ("A second finalize call must verify the same existing manifest and
\* result", the design of the rail, line 213).
FinalizeCompletes ==
  \A p \in Processes, n \in 0 .. MaxCrashes :
    /\ at[p] = "load" /\ call[p].cmd = "finalize" /\ lives = n
    /\ status = "FINAL_QA_READY" /\ FinalQA
    ~> Finished \/ (at[p] = "idle" /\ lives < n)

=============================================================================
