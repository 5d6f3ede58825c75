-------------------------- MODULE SupervisedProofs --------------------------
(***************************************************************************)
(* The safety of a supervised run, for any processes, operators, sessions, *)
(* manifests and bounds, and that the processes together implement         *)
(* OperatorRail.  The argument: once the ledger is ready it never goes     *)
(* back, so what a finalizer read of it long ago is still true when it     *)
(* writes the other database; and each of its four writes rests on the one *)
(* before, whichever finalizer made that.                                  *)
(***************************************************************************)
EXTENDS SupervisedSubscription, TLAPS

Done == {"FINAL_QA_READY", "ARTIFACT_FROZEN"}
Open == {"AWAITING_OPERATOR_EXECUTION", "OPERATOR_RECOVERY_REQUIRED", "CANCEL_REQUESTED"}

\* How the rows go with the status: a packet is out exactly while the run is open.
ShapeInv ==
  /\ status = "ABSENT" => issued = 0 /\ Len(completions) = 0
  /\ status \in Open => issued > 0 /\ Len(completions) = issued - 1
  /\ status \in Done => issued = Len(Stages) /\ Len(completions) = Len(Stages)
  /\ status # "ARTIFACT_FROZEN" => artifact = None

RailInv == LedgerTypeOK /\ ShapeInv

\* What a process remembers of a ready ledger is still true.
ReadInv ==
  \A p \in Processes : call[p].row \in Done \/ call[p].reads = 2 => status \in Done

Finalizing == {"succeed", "publish", "attach", "record"}

StepInv ==
  \A p \in Processes :
    /\ at[p] = "key_write" => call[p].cmd \in Commands
    /\ at[p] = "issue" => job # "QUEUED"
    /\ at[p] \in Finalizing => status \in Done /\ FinalQA
    /\ at[p] \in Finalizing \ {"succeed"} => job = "SUCCEEDED"
    /\ at[p] \in {"attach", "record"} => bundle # None
    /\ at[p] = "record" => bound

\* A run has a packet only if its job left QUEUED: prepare_supervised_packet
\* starts the job in one database before it opens the run in the other.
PacketNeedsStartedJob == status # "ABSENT" => job # "QUEUED"

JobInv ==
  /\ PacketNeedsStartedJob
  /\ SucceededWasReviewed
  /\ bundle # None => job = "SUCCEEDED"
  /\ FrozenMeansPublished

IInv == TypeOK /\ ShapeInv /\ ReadInv /\ StepInv /\ JobInv

-----------------------------------------------------------------------------
(* The ledger alone.                                                       *)

LEMMA StageCount == Len(Stages) = 4 /\ LastStage = 3
  BY DEF Stages, LastStage

LEMMA Logged ==
  ASSUME RailInv, NEW es \in Seq(Events), Log(es)
  PROVE  events' \in Seq(Events)
BY DEF RailInv, LedgerTypeOK, Log

LEMMA EventOfRun ==
  ASSUME NEW t \in EventTypes, NEW i \in 0 .. LastStage, NEW o \in Operators \cup {None}
  PROVE  Event(t, i, o) \in Events
BY DEF Event, Events

\* What every operation but two does: the run stays absent, ready or frozen if
\* it was, and a ready run keeps its completions.
Quiet ==
  /\ status = "ABSENT" <=> status' = "ABSENT"
  /\ status = "ARTIFACT_FROZEN" <=> status' = "ARTIFACT_FROZEN"
  /\ status \in Done => status' \in Done /\ completions' = completions
  /\ artifact' = artifact

LEMMA IssueFirstRail ==
  ASSUME RailInv, NEW s \in Sessions, IssueFirst(s)
  PROVE  /\ RailInv'
         /\ status = "ABSENT" /\ status' = "AWAITING_OPERATOR_EXECUTION"
         /\ UNCHANGED <<completions, artifact>>
<1> USE StageCount DEF RailInv
<1>1. <<Event("PACKET_PREPARED", 0, None)>> \in Seq(Events)
  BY EventOfRun DEF EventTypes
<1>2. events' \in Seq(Events)
  BY <1>1, Logged DEF IssueFirst
<1>3. LedgerTypeOK'
  BY <1>2 DEF IssueFirst, LedgerTypeOK, Statuses
<1>4. ShapeInv'
  BY DEF IssueFirst, LedgerTypeOK, ShapeInv, Open, Done
<1> QED BY <1>3, <1>4 DEF IssueFirst

\* An operation that only notes something of the current packet.
LEMMA NotedRail ==
  ASSUME RailInv, status \in Open, UNCHANGED rows, status' \in Open,
         NEW es \in Seq(Events), Log(es)
  PROVE  RailInv' /\ Quiet
<1> USE DEF RailInv
<1>1. LedgerTypeOK'
  BY Logged DEF LedgerTypeOK, rows, Open, Statuses
<1>2. ShapeInv'
  BY DEF ShapeInv, rows, Open, Done
<1> QED BY <1>1, <1>2 DEF Quiet, rows, Open, Done

LEMMA CurrentIsStage ==
  ASSUME RailInv, status \in Open
  PROVE  Current \in 0 .. LastStage
BY StageCount DEF RailInv, ShapeInv, LedgerTypeOK, Current

Completion(c) ==
  /\ c.by \in Operators /\ c.session \in Sessions /\ c.payload \in Payloads

LEMMA AcceptRail ==
  ASSUME RailInv, status = "AWAITING_OPERATOR_EXECUTION", NEW c, Completion(c), Accept(c)
  PROVE  RailInv' /\ Quiet
<1> USE StageCount DEF RailInv
<1>1. Current \in 0 .. LastStage
  BY CurrentIsStage DEF Open
<1>2. /\ Submission(c.by) \in Events
      /\ Event("ACCEPTED", Current, None) \in Events
      /\ Event("FINAL_QA_READY", Current, None) \in Events
  BY <1>1, EventOfRun DEF EventTypes, Submission, Completion
<1>3. /\ completions' \in Seq([payload : Payloads, session : Sessions])
      /\ Len(completions') = Len(completions) + 1
  <2>1. [payload |-> c.payload, session |-> c.session] \in [payload : Payloads, session : Sessions]
    BY DEF Completion
  <2> QED BY <2>1 DEF Accept, LedgerTypeOK
<1>4. CASE Current = LastStage
  <2>1. events' \in Seq(Events)
    <3>1. <<Submission(c.by), Event("ACCEPTED", Current, None),
            Event("FINAL_QA_READY", Current, None)>> \in Seq(Events)
      BY <1>2
    <3> QED BY <1>4, <3>1, Logged DEF Accept
  <2>2. LedgerTypeOK'
    BY <1>3, <1>4, <2>1 DEF Accept, LedgerTypeOK, Statuses
  <2>3. ShapeInv'
    BY <1>3, <1>4 DEF Accept, ShapeInv, LedgerTypeOK, Open, Done, Current
  <2> QED BY <1>4, <2>2, <2>3 DEF Accept, Quiet, Done
<1>5. CASE Current # LastStage
  <2>1. issued \in 0 .. LastStage /\ issued > 0
    BY <1>1, <1>5 DEF Current, LedgerTypeOK
  <2>2. Event("PACKET_PREPARED", issued, None) \in Events
    BY <2>1, EventOfRun DEF EventTypes
  <2>3. events' \in Seq(Events)
    <3>1. <<Submission(c.by), Event("ACCEPTED", Current, None),
            Event("PACKET_PREPARED", issued, None)>> \in Seq(Events)
      BY <1>2, <2>2
    <3> QED BY <1>5, <3>1, Logged DEF Accept
  <2>4. LedgerTypeOK'
    BY <1>3, <1>5, <2>1, <2>3 DEF Accept, LedgerTypeOK
  <2>5. ShapeInv'
    BY <1>3, <1>5, <2>1 DEF Accept, ShapeInv, LedgerTypeOK, Open, Done
  <2> QED BY <1>5, <2>4, <2>5 DEF Accept, Quiet, Done
<1> QED BY <1>4, <1>5

LEMMA BindRail ==
  ASSUME RailInv, NEW c, Completion(c), BindCompletion(c)
  PROVE  RailInv' /\ Quiet
<1>1. CASE UNCHANGED ledger
  BY <1>1 DEF RailInv, LedgerTypeOK, ShapeInv, ledger, rows, Quiet
<1>2. CASE status = "AWAITING_OPERATOR_EXECUTION" /\ Reject(c)
  <2>1. Current \in 0 .. LastStage
    BY <1>2, CurrentIsStage DEF Open
  <2>2. Submission(c.by) \in Events /\ Event("REJECTED", Current, c.by) \in Events
    BY <2>1, EventOfRun DEF EventTypes, Submission, Completion
  <2>3. <<Submission(c.by), Event("REJECTED", Current, c.by)>> \in Seq(Events)
    BY <2>2
  <2> QED BY <1>2, <2>3, NotedRail DEF Reject, Open, rows
<1>3. CASE status = "AWAITING_OPERATOR_EXECUTION" /\ Accept(c)
  BY <1>3, AcceptRail
<1> QED BY <1>1, <1>2, <1>3 DEF BindCompletion

LEMMA HoldRail ==
  ASSUME RailInv,
         \/ MarkRecovery
         \/ \E o \in Operators : RequestCancel(o)
         \/ \E i \in Inputs, o \in Operators : Resolve(i, o)
  PROVE  RailInv' /\ Quiet
<1>1. CASE MarkRecovery
  <2>1. <<Event("OPERATOR_RECOVERY_REQUIRED", Current, None)>> \in Seq(Events)
    BY <1>1, CurrentIsStage, EventOfRun DEF EventTypes, MarkRecovery, Open
  <2> QED BY <1>1, <2>1, NotedRail DEF MarkRecovery, Open
<1>2. ASSUME NEW o \in Operators, RequestCancel(o)
      PROVE  RailInv' /\ Quiet
  <2>1. <<Event("CANCEL_REQUESTED", Current, o)>> \in Seq(Events)
    BY <1>2, CurrentIsStage, EventOfRun DEF EventTypes, RequestCancel, Open
  <2> QED BY <1>2, <2>1, NotedRail DEF RequestCancel, Open
<1>3. ASSUME NEW i \in Inputs, NEW o \in Operators, Resolve(i, o)
      PROVE  RailInv' /\ Quiet
  <2>1. <<Event("RECOVERY_RESOLVED_FOR_EXACT_BINDING", Current, o)>> \in Seq(Events)
    BY <1>3, CurrentIsStage, EventOfRun DEF EventTypes, Resolve, Resolvable, Open
  <2> QED BY <1>3, <2>1, NotedRail DEF Resolve, Resolvable, Open
<1> QED BY <1>1, <1>2, <1>3

LEMMA RecordRail ==
  ASSUME RailInv, NEW m \in Manifests, RecordArtifact(m)
  PROVE  /\ RailInv' /\ UNCHANGED <<issued, completions>>
         /\ \/ status = "FINAL_QA_READY" /\ status' = "ARTIFACT_FROZEN" /\ artifact' = m
            \/ UNCHANGED ledger
<1> USE StageCount DEF RailInv
<1>1. CASE status = "FINAL_QA_READY"
  <2>1. <<FrozenEvent(m)>> \in Seq(Events)
    <3>1. FrozenEvent(m) \in Events
      BY DEF FrozenEvent, Events, EventTypes
    <3> QED BY <3>1
  <2>2. events' \in Seq(Events)
    BY <1>1, <2>1, Logged DEF RecordArtifact
  <2>3. LedgerTypeOK'
    BY <1>1, <2>2 DEF RecordArtifact, LedgerTypeOK, Statuses
  <2> QED BY <1>1, <2>3 DEF RecordArtifact, ShapeInv, Open, Done
<1>2. CASE UNCHANGED ledger
  BY <1>2 DEF LedgerTypeOK, ShapeInv, ledger, rows
<1> QED BY <1>1, <1>2 DEF RecordArtifact

-----------------------------------------------------------------------------
(* The processes.                                                          *)

\* A process that does nothing to the other stores and claims nothing new.
Neutral == Points \ ({"issue"} \cup Finalizing)

Calm(p) ==
  /\ at'[p] = at[p] \/ at'[p] \in Neutral
  /\ call'[p].row \in {call[p].row, "ABSENT", status}
  /\ call'[p].reads = 2 => call[p].reads = 2
  /\ at'[p] = "key_write" =>
       (at[p] = "key_write" /\ call'[p].cmd = call[p].cmd) \/ call'[p].cmd \in Commands

LEMMA CalmInv ==
  ASSUME IInv, TypeOK', RailInv', Quiet, UNCHANGED <<job, bundle, bound>>,
         \A p \in Processes : Calm(p)
  PROVE  IInv'
<1> USE DEF IInv
<1>1. status \in Done => FinalQA' = FinalQA
  BY DEF Quiet, FinalQA
<1>2. ReadInv'
  BY DEF ReadInv, Quiet, Calm, Done
<1>3. StepInv'
  BY <1>1 DEF StepInv, Quiet, Calm, Neutral, Finalizing
<1>4. JobInv'
  <2>1. PacketNeedsStartedJob' /\ FrozenMeansPublished'
    BY DEF JobInv, PacketNeedsStartedJob, FrozenMeansPublished, Quiet
  <2>2. SucceededWasReviewed'
    BY <1>1 DEF JobInv, SucceededWasReviewed, Quiet, Done
  <2> QED BY <2>1, <2>2 DEF JobInv
<1> QED BY <1>2, <1>3, <1>4 DEF RailInv

LEMMA LedgerStays ==
  ASSUME RailInv, UNCHANGED ledger
  PROVE  RailInv' /\ Quiet
BY DEF RailInv, LedgerTypeOK, ShapeInv, ledger, rows, Quiet

\* What a process that goes somewhere does to the others: nothing.
LEMMA Gone ==
  ASSUME TypeOK, NEW p \in Processes, NEW there \in Points, Go(p, there)
  PROVE  /\ at' \in [Processes -> Points] /\ at'[p] = there
         /\ \A q \in Processes : q # p => at'[q] = at[q]
BY DEF TypeOK, Go

\* A process that remembers something new of its own.
LEMMA Remembered ==
  ASSUME TypeOK, NEW p \in Processes, NEW new \in Calls, call' = [call EXCEPT ![p] = new]
  PROVE  /\ call' \in [Processes -> Calls] /\ call'[p] = new
         /\ \A q \in Processes : q # p => call'[q] = call[q]
BY DEF TypeOK

LEMMA NoCallIsCall ==
  /\ NoCall \in Calls
  /\ NoCall.row = "ABSENT" /\ NoCall.reads = 0
BY DEF NoCall, Calls, JobStates, Inputs, Unknown, LastStage, Stages

LEMMA Left ==
  ASSUME TypeOK, NEW p \in Processes, Leave(p) \/ Alarm(p)
  PROVE  /\ at' \in [Processes -> Points] /\ at'[p] \in {"idle", "alarmed"}
         /\ call' \in [Processes -> Calls] /\ call'[p] = NoCall
         /\ \A q \in Processes : q # p => at'[q] = at[q] /\ call'[q] = call[q]
<1>1. call' \in [Processes -> Calls] /\ call'[p] = NoCall
      /\ \A q \in Processes : q # p => call'[q] = call[q]
  BY NoCallIsCall DEF TypeOK, Leave, Alarm
<1> QED BY <1>1, Gone DEF Leave, Alarm, Points

LEMMA LeftCalmly ==
  ASSUME TypeOK, NEW p \in Processes, Leave(p) \/ Alarm(p)
  PROVE  /\ \A q \in Processes : Calm(q)
         /\ at' \in [Processes -> Points] /\ call' \in [Processes -> Calls]
BY Left, NoCallIsCall DEF Calm, Neutral, Points, Finalizing

\* A process that goes on to a neutral point with its call as it was.
LEMMA WentCalmly ==
  ASSUME TypeOK, NEW p \in Processes, NEW there \in Neutral \ {"key_write"}, Go(p, there), UNCHANGED call
  PROVE  /\ \A q \in Processes : Calm(q)
         /\ at' \in [Processes -> Points] /\ call' \in [Processes -> Calls]
BY Gone DEF TypeOK, Calm, Neutral

\* The last two with the ledger and the other stores as they were.
LEMMA PassingInv ==
  ASSUME IInv, UNCHANGED <<ledger, job, bundle, bound>>,
         key' \in {"absent", "empty", "whole"}, lives' \in Nat \cup {Unlimited},
         at' \in [Processes -> Points], call' \in [Processes -> Calls],
         \A p \in Processes : Calm(p)
  PROVE  IInv'
<1>1. RailInv' /\ Quiet
  BY LedgerStays DEF IInv, RailInv, TypeOK
<1>2. TypeOK'
  BY <1>1 DEF IInv, TypeOK, RailInv
<1> QED BY <1>1, <1>2, CalmInv

LEMMA BeginInv ==
  ASSUME IInv, NEW p \in Processes, NEW cmd \in Commands, Begin(p, cmd)
  PROVE  IInv'
<1> USE DEF IInv
<1>1. PICK there \in Neutral : Go(p, there) /\ call'[p].cmd \in Commands
  BY DEF TypeOK, Calls, Keep, Begin, Entry, Commands, CliCommands, Neutral, Points, Finalizing
<1>2. /\ call' \in [Processes -> Calls]
      /\ \A q \in Processes : call'[q].row = call[q].row /\ call'[q].reads = call[q].reads
      /\ \A q \in Processes : q # p => call'[q] = call[q]
  BY DEF Begin, Keep, TypeOK, Calls
<1>3. at' \in [Processes -> Points] /\ \A q \in Processes : Calm(q)
  BY <1>1, <1>2, Gone DEF Calm, Neutral
<1>4. key' \in {"absent", "empty", "whole"}
  BY DEF Begin, TypeOK
<1> QED BY <1>2, <1>3, <1>4, PassingInv DEF Begin, TypeOK

LEMMA WriteKeyInv ==
  ASSUME IInv, NEW p \in Processes, WriteKey(p)
  PROVE  IInv'
<1> USE DEF IInv
<1>1. Entry[call[p].cmd] \in Neutral \ {"key_write"}
  BY DEF StepInv, WriteKey, Entry, Commands, CliCommands, Neutral, Points, Finalizing
<1> QED BY <1>1, WentCalmly, PassingInv DEF WriteKey, TypeOK

LEMMA ReadRowInv ==
  ASSUME IInv, NEW p \in Processes, ReadRow(p)
  PROVE  IInv'
<1> USE DEF IInv
<1>1. CASE Leave(p)
  BY <1>1, LeftCalmly, PassingInv DEF ReadRow, stores, TypeOK
<1>2. CASE status # "ABSENT" /\ Go(p, "read_head") /\ Keep(p, "row", status)
  <2>1. /\ call' \in [Processes -> Calls]
        /\ \A q \in Processes : call'[q].row \in {call[q].row, status}
        /\ \A q \in Processes : call'[q].reads = call[q].reads /\ call'[q].cmd = call[q].cmd
    <3>1. PICK new : new = [call[p] EXCEPT !.row = status]
      OBVIOUS
    <3>2. call[p] \in Calls /\ status \in Statuses \cup {"ABSENT"}
      BY DEF TypeOK, LedgerTypeOK
    <3>3. /\ new \in Calls /\ new.row = status
          /\ new.reads = call[p].reads /\ new.cmd = call[p].cmd
      BY <3>1, <3>2 DEF Calls
    <3>4. call' = [call EXCEPT ![p] = new]
      BY <1>2, <3>1 DEF Keep
    <3> QED BY <3>3, <3>4, Remembered
  <2>2. at' \in [Processes -> Points] /\ \A q \in Processes : Calm(q)
    BY <1>2, <2>1, Gone DEF Calm, Neutral, Points, Finalizing
  <2> QED BY <2>1, <2>2, PassingInv DEF ReadRow, stores, TypeOK
<1> QED BY <1>1, <1>2 DEF ReadRow

LEMMA ReadHeadInv ==
  ASSUME IInv, NEW p \in Processes, ReadHead(p)
  PROVE  IInv'
<1> USE DEF IInv
<1>1. /\ call' \in [Processes -> Calls]
      /\ \A q \in Processes : /\ call'[q].row = call[q].row
                              /\ call'[q].reads = call[q].reads
                              /\ call'[q].cmd = call[q].cmd
  <2>1. Len(events) \in Nat
    BY DEF TypeOK, LedgerTypeOK
  <2>2. PICK new : new = [call[p] EXCEPT !.n = Len(events)]
    OBVIOUS
  <2>3. call[p] \in Calls
    BY DEF TypeOK
  <2>4. /\ new \in Calls /\ new.row = call[p].row
        /\ new.reads = call[p].reads /\ new.cmd = call[p].cmd
    BY <2>1, <2>2, <2>3 DEF Calls
  <2>5. call' = [call EXCEPT ![p] = new]
    BY <2>2 DEF ReadHead, Keep
  <2> QED BY <2>4, <2>5, Remembered
<1>2. at' \in [Processes -> Points] /\ \A q \in Processes : Calm(q)
  BY <1>1, Gone DEF ReadHead, Calm, Neutral, Points, Finalizing
<1> QED BY <1>1, <1>2, PassingInv DEF ReadHead, stores, TypeOK

LEMMA ReadEventsInv ==
  ASSUME IInv, NEW p \in Processes, ReadEvents(p)
  PROVE  IInv'
<1> USE DEF IInv
<1>1. "read_rows" \in Neutral \ {"key_write"}
  BY DEF Neutral, Points, Finalizing
<1> QED BY <1>1, WentCalmly, LeftCalmly, PassingInv DEF ReadEvents, stores, TypeOK

\* A read that goes on to the next one.
LEMMA ReadOnInv ==
  ASSUME IInv, NEW p \in Processes, ReadOn(p), UNCHANGED <<ledger, stores>>,
         call[p].reads = 0 \/ (call[p].reads = 1 /\ call[p].row \in Done)
  PROVE  IInv'
<1> USE DEF IInv
<1>1. /\ call' \in [Processes -> Calls]
      /\ \A q \in Processes : call'[q].row = call[q].row /\ call'[q].cmd = call[q].cmd
      /\ call'[p].reads = call[p].reads + 1
      /\ \A q \in Processes : q # p => call'[q] = call[q]
  BY DEF ReadOn, Keep, TypeOK, Calls
<1>2. /\ at' \in [Processes -> Points] /\ at'[p] = "read_row"
      /\ \A q \in Processes : q # p => at'[q] = at[q]
  BY Gone DEF ReadOn, Points
<1>3. RailInv' /\ Quiet
  BY LedgerStays DEF RailInv, TypeOK
<1>4. TypeOK'
  BY <1>1, <1>2, <1>3 DEF RailInv, TypeOK, stores
<1>5. ReadInv'
  BY <1>1 DEF ReadInv, ledger
<1>6. StepInv'
  BY <1>1, <1>2 DEF StepInv, Finalizing, ledger, rows, stores, FinalQA
<1>7. JobInv'
  BY DEF JobInv, PacketNeedsStartedJob, SucceededWasReviewed, FrozenMeansPublished,
         FinalQA, ledger, rows, stores
<1> QED BY <1>3, <1>4, <1>5, <1>6, <1>7 DEF RailInv

LEMMA ReadRowsInv ==
  ASSUME IInv, NEW p \in Processes, ReadRows(p)
  PROVE  IInv'
<1> USE DEF IInv
<1>1. CASE Leave(p) \/ Alarm(p)
  BY <1>1, LeftCalmly, PassingInv DEF ReadRows, stores, TypeOK
<1>2. CASE ReadOn(p) /\ (StatusGoesOn(p) \/ FinalizeGoesOn(p))
  BY <1>2, ReadOnInv DEF ReadRows, StatusGoesOn, FinalizeGoesOn, Done
<1>3. CASE call[p].reads = 2 /\ FinalQA /\ Go(p, "succeed") /\ UNCHANGED call
  <2>1. status \in Done
    BY <1>3 DEF ReadInv
  <2>2. /\ at' \in [Processes -> Points] /\ at'[p] = "succeed"
        /\ \A q \in Processes : q # p => at'[q] = at[q]
    BY <1>3, Gone DEF Points
  <2>3. RailInv' /\ Quiet
    BY LedgerStays DEF RailInv, TypeOK, ReadRows
  <2>4. TypeOK' /\ ReadInv'
    BY <1>3, <2>2, <2>3 DEF RailInv, TypeOK, ReadInv, ReadRows, ledger, stores
  <2>5. StepInv'
    BY <1>3, <2>1, <2>2 DEF StepInv, ReadRows, ledger, rows, stores, FinalQA, Finalizing
  <2>6. JobInv'
    BY DEF JobInv, PacketNeedsStartedJob, SucceededWasReviewed, FrozenMeansPublished,
           FinalQA, ReadRows, ledger, rows, stores
  <2> QED BY <2>3, <2>4, <2>5, <2>6 DEF RailInv
<1> QED BY <1>1, <1>2, <1>3 DEF ReadRows, Verified

-----------------------------------------------------------------------------
(* The job and the packets.                                                *)

\* A step that changes no store and ends where its job is known to be started.
LEMMA StartedInv ==
  ASSUME IInv, NEW p \in Processes, Go(p, "issue"), job = "RUNNING",
         UNCHANGED <<ledger, stores, call>>
  PROVE  IInv'
<1> USE DEF IInv
<1>1. /\ at' \in [Processes -> Points] /\ at'[p] = "issue"
      /\ \A q \in Processes : q # p => at'[q] = at[q]
  BY Gone DEF Points
<1>2. RailInv' /\ Quiet
  BY LedgerStays DEF RailInv, TypeOK
<1>3. TypeOK' /\ ReadInv'
  BY <1>1, <1>2 DEF RailInv, TypeOK, ReadInv, ledger, stores
<1>4. StepInv'
  BY <1>1 DEF StepInv, ledger, rows, stores, FinalQA, Finalizing
<1>5. JobInv'
  BY DEF JobInv, PacketNeedsStartedJob, SucceededWasReviewed, FrozenMeansPublished,
         FinalQA, ledger, rows, stores
<1> QED BY <1>2, <1>3, <1>4, <1>5 DEF RailInv

LEMMA LoadJobInv ==
  ASSUME IInv, NEW p \in Processes, LoadJob(p)
  PROVE  IInv'
<1> USE DEF IInv
<1>1. {"start", "identity", "read_row"} \subseteq Neutral \ {"key_write"}
  BY DEF Neutral, Points, Finalizing
<1>2. CASE Leave(p) \/ (UNCHANGED call /\ \E there \in {"start", "identity"} : Go(p, there))
  BY <1>1, <1>2, LeftCalmly, WentCalmly, PassingInv DEF LoadJob, stores, TypeOK
<1>3. CASE Go(p, "read_row") /\ Keep(p, "seen", job)
  <2>1. /\ call' \in [Processes -> Calls]
        /\ \A q \in Processes : /\ call'[q].row = call[q].row
                                /\ call'[q].reads = call[q].reads
                                /\ call'[q].cmd = call[q].cmd
    BY <1>3 DEF Keep, TypeOK, Calls
  <2>2. at' \in [Processes -> Points] /\ \A q \in Processes : Calm(q)
    BY <1>1, <1>3, <2>1, Gone DEF Calm, Neutral
  <2> QED BY <2>1, <2>2, PassingInv DEF LoadJob, stores, TypeOK
<1> QED BY <1>2, <1>3 DEF LoadJob

\* The job leaves QUEUED, or ends, while no bundle of it can exist.
LEMMA JobMovesInv ==
  ASSUME IInv, UNCHANGED <<ledger, key, bundle, bound, lives>>,
         at' \in [Processes -> Points], call' \in [Processes -> Calls],
         \A p \in Processes : Calm(p),
         \/ job = "QUEUED" /\ job' = "RUNNING"
         \/ job \in {"QUEUED", "RUNNING"} /\ job' = "CANCELED"
  PROVE  IInv'
<1> USE DEF IInv
<1>1. RailInv' /\ Quiet
  BY LedgerStays DEF RailInv, TypeOK
<1>2. TypeOK'
  BY <1>1 DEF RailInv, TypeOK, JobStates
<1>3. ReadInv'
  BY DEF ReadInv, Calm, ledger, Done
<1>4. StepInv'
  BY DEF StepInv, Calm, Neutral, Finalizing, ledger, rows, FinalQA
<1>5. JobInv'
  BY DEF JobInv, PacketNeedsStartedJob, SucceededWasReviewed, FrozenMeansPublished,
         FinalQA, ledger, rows
<1> QED BY <1>1, <1>2, <1>3, <1>4, <1>5 DEF RailInv

LEMMA StartJobInv ==
  ASSUME IInv, NEW p \in Processes, StartJob(p)
  PROVE  IInv'
<1> USE DEF IInv
<1>1. "identity" \in Neutral \ {"key_write"}
  BY DEF Neutral, Points, Finalizing
<1>2. CASE job = "QUEUED" /\ job' = "RUNNING" /\ Go(p, "identity") /\ UNCHANGED call
  BY <1>1, <1>2, WentCalmly, JobMovesInv DEF StartJob
<1>3. CASE UNCHANGED job /\ (Leave(p) \/ (Go(p, "identity") /\ UNCHANGED call))
  BY <1>1, <1>3, LeftCalmly, WentCalmly, PassingInv DEF StartJob, TypeOK
<1> QED BY <1>2, <1>3 DEF StartJob

LEMMA ReadIdentityInv ==
  ASSUME IInv, NEW p \in Processes, ReadIdentity(p)
  PROVE  IInv'
<1>1. CASE Leave(p)
  BY <1>1, LeftCalmly, PassingInv DEF IInv, ReadIdentity, stores, TypeOK
<1>2. CASE job = "RUNNING" /\ Go(p, "issue") /\ UNCHANGED call
  BY <1>2, StartedInv DEF ReadIdentity
<1> QED BY <1>1, <1>2 DEF ReadIdentity

LEMMA IssuePacketInv ==
  ASSUME IInv, NEW p \in Processes, IssuePacket(p)
  PROVE  IInv'
<1> USE DEF IInv
<1>1. PICK s \in Sessions : PreparePacket(s)
  BY DEF IssuePacket
<1>2. CASE UNCHANGED ledger
  BY <1>2, LeftCalmly, PassingInv DEF IssuePacket, stores, TypeOK
<1>3. CASE IssueFirst(s)
  <2>1. /\ RailInv' /\ status = "ABSENT" /\ status' = "AWAITING_OPERATOR_EXECUTION"
        /\ UNCHANGED <<completions, artifact>>
    BY <1>3, IssueFirstRail DEF RailInv, TypeOK
  <2>2. /\ at' \in [Processes -> Points] /\ call' \in [Processes -> Calls]
        /\ \A q \in Processes : Calm(q)
    BY LeftCalmly DEF IssuePacket
  <2>3. TypeOK'
    BY <2>1, <2>2 DEF RailInv, TypeOK, IssuePacket, stores
  <2>4. ReadInv' /\ StepInv'
    BY <2>1, <2>2 DEF ReadInv, StepInv, Calm, Neutral, Finalizing, IssuePacket, stores, Done
  <2>5. job # "QUEUED" /\ job # "SUCCEEDED"
    BY <2>1 DEF StepInv, IssuePacket, JobInv, SucceededWasReviewed
  <2>6. JobInv'
    BY <2>1, <2>5 DEF JobInv, PacketNeedsStartedJob, SucceededWasReviewed,
                      FrozenMeansPublished, IssuePacket, stores
  <2> QED BY <2>1, <2>3, <2>4, <2>6 DEF RailInv
<1> QED BY <1>1, <1>2, <1>3 DEF PreparePacket

-----------------------------------------------------------------------------
(* The ledger's other operations.                                          *)

\* A quiet operation of the ledger, by a process that is calm about it.
LEMMA QuietInv ==
  ASSUME IInv, RailInv', Quiet, UNCHANGED stores,
         at' \in [Processes -> Points], call' \in [Processes -> Calls],
         \A p \in Processes : Calm(p)
  PROVE  IInv'
<1>1. TypeOK' /\ UNCHANGED <<job, bundle, bound>>
  BY DEF IInv, TypeOK, RailInv, stores
<1> QED BY <1>1, CalmInv

LEMMA KnownIsInput ==
  ASSUME RailInv
  PROVE  Known \subseteq Inputs
BY StageCount DEF RailInv, LedgerTypeOK, Known, Inputs, Unknown, Current

LEMMA ResolveRecoveryInv ==
  ASSUME IInv, NEW p \in Processes, ResolveRecovery(p)
  PROVE  IInv'
<1>1. RailInv /\ TypeOK
  BY DEF IInv, RailInv, TypeOK
<1>2. CASE (Leave(p) \/ Alarm(p)) /\ UNCHANGED ledger
  BY <1>1, <1>2, LeftCalmly, LedgerStays, QuietInv DEF ResolveRecovery
<1>3. ASSUME NEW i \in Known, NEW o \in Operators, Go(p, "submit"),
             call' = [call EXCEPT ![p].input = i, ![p].by = o],
             Resolve(i, o) \/ UNCHANGED ledger
      PROVE  IInv'
  <2>1. i \in Inputs
    BY <1>1, KnownIsInput
  <2>2. RailInv' /\ Quiet
    BY <1>1, <1>3, <2>1, HoldRail, LedgerStays
  <2>3. /\ call' \in [Processes -> Calls]
        /\ \A q \in Processes : /\ call'[q].row = call[q].row
                                /\ call'[q].reads = call[q].reads
                                /\ call'[q].cmd = call[q].cmd
    <3>1. PICK new : new = [call[p] EXCEPT !.input = i, !.by = o]
      OBVIOUS
    <3>2. call[p] \in Calls
      BY <1>1 DEF TypeOK
    <3>3. /\ new \in Calls /\ new.row = call[p].row
          /\ new.reads = call[p].reads /\ new.cmd = call[p].cmd
      BY <2>1, <3>1, <3>2 DEF Calls
    <3>4. call' = [call EXCEPT ![p] = new]
      BY <1>3, <3>1
    <3> QED BY <1>1, <3>3, <3>4, Remembered
  <2>4. at' \in [Processes -> Points] /\ \A q \in Processes : Calm(q)
    BY <1>1, <1>3, <2>3, Gone DEF Calm, Neutral, Points, Finalizing
  <2> QED BY <2>2, <2>3, <2>4, QuietInv DEF ResolveRecovery
<1> QED BY <1>2, <1>3 DEF ResolveRecovery

LEMMA SubmitInv ==
  ASSUME IInv, NEW p \in Processes, Submit(p)
  PROVE  IInv'
<1>1. RailInv /\ TypeOK
  BY DEF IInv, RailInv, TypeOK
<1>2. PICK i \in Known, o \in Operators, s \in Sessions : \E pay \in PayloadsOf(Current) :
        BindCompletion([input |-> i, by |-> o, session |-> s, payload |-> pay])
  BY DEF Submit
<1>3. PICK pay \in Payloads :
        BindCompletion([input |-> i, by |-> o, session |-> s, payload |-> pay])
  BY <1>2 DEF PayloadsOf, Payloads
<1>4. Completion([input |-> i, by |-> o, session |-> s, payload |-> pay])
  BY DEF Completion
<1>5. RailInv' /\ Quiet
  BY <1>1, <1>3, <1>4, BindRail
<1> QED BY <1>1, <1>5, LeftCalmly, QuietInv DEF Submit

LEMMA OutsideInv ==
  ASSUME IInv, HoldRun \/ CancelRun \/ CancelJob
  PROVE  IInv'
<1> USE DEF IInv
<1>1. UNCHANGED <<at, call>> => /\ \A p \in Processes : Calm(p)
                                /\ at' \in [Processes -> Points]
                                /\ call' \in [Processes -> Calls]
  BY DEF Calm, TypeOK
<1>2. CASE HoldRun \/ CancelRun
  <2>1. RailInv' /\ Quiet
    BY <1>2, HoldRail DEF HoldRun, CancelRun, RailInv, TypeOK
  <2> QED BY <1>1, <1>2, <2>1, QuietInv DEF HoldRun, CancelRun
<1>3. CASE CancelJob
  BY <1>1, <1>3, JobMovesInv DEF CancelJob
<1> QED BY <1>2, <1>3

LEMMA StopInv ==
  ASSUME IInv, NEW p \in Processes, Crash(p) \/ Dismiss(p)
  PROVE  IInv'
<1>1. lives' \in Nat \cup {Unlimited} /\ key' \in {"absent", "empty", "whole"}
  BY CallAssumption DEF IInv, TypeOK, Crash, Dismiss, stores, Unlimited
<1> QED BY <1>1, LeftCalmly, PassingInv DEF IInv, Crash, Dismiss, stores

-----------------------------------------------------------------------------
(* The four writes of the finalizer.                                       *)

\* A finalizer that goes on over stores that only gained what it needed there.
LEMMA FinalInv ==
  ASSUME IInv, NEW p \in Processes, at[p] \in Finalizing,
         UNCHANGED <<ledger, key, call, lives>>,
         NEW there \in Finalizing, Go(p, there),
         job \in {"RUNNING", "SUCCEEDED"}, job' = "SUCCEEDED",
         bundle' \in Manifests \cup {None}, bundle # None => bundle' = bundle,
         bound' \in BOOLEAN, bound => bound',
         there \in {"attach", "record"} => bundle' # None,
         there = "record" => bound'
  PROVE  IInv'
<1> USE DEF IInv
<1>1. /\ at' \in [Processes -> Points] /\ at'[p] = there
      /\ \A q \in Processes : q # p => at'[q] = at[q]
  BY Gone DEF Finalizing, Points
<1>2. RailInv' /\ Quiet
  BY LedgerStays DEF RailInv, TypeOK
<1>3. TypeOK' /\ ReadInv'
  BY <1>1, <1>2 DEF RailInv, TypeOK, ReadInv, ledger, JobStates
<1>4. status \in Done /\ FinalQA /\ UNCHANGED <<status, completions, artifact>>
  BY DEF StepInv, ledger, rows
<1>5. StepInv'
  BY <1>1, <1>4 DEF StepInv, FinalQA, Finalizing
<1>6. Len(completions) = Len(Stages)
  BY <1>4 DEF ShapeInv
<1>7. JobInv'
  BY <1>4, <1>6 DEF JobInv, PacketNeedsStartedJob, SucceededWasReviewed,
                    FrozenMeansPublished, FinalQA, Done
<1> QED BY <1>2, <1>3, <1>5, <1>7 DEF RailInv

LEMMA SucceedInv ==
  ASSUME IInv, NEW p \in Processes, Succeed(p)
  PROVE  IInv'
<1> USE DEF IInv
<1>1. CASE job' = "SUCCEEDED" /\ Go(p, "publish") /\ UNCHANGED call
  <2>1. job \in {"RUNNING", "SUCCEEDED"}
    BY <1>1 DEF Succeed
  <2> QED BY <1>1, <2>1, FinalInv DEF Succeed, TypeOK, Finalizing
<1>2. CASE ~ (job' = "SUCCEEDED" /\ call[p].seen \in {"RUNNING", "SUCCEEDED"})
  <2>1. Leave(p) /\ UNCHANGED job
    BY <1>2 DEF Succeed
  <2> QED BY <2>1, LeftCalmly, PassingInv DEF Succeed, TypeOK
<1> QED BY <1>1, <1>2 DEF Succeed

LEMMA PublishInv ==
  ASSUME IInv, NEW p \in Processes, Publish(p)
  PROVE  IInv'
<1>1. job = "SUCCEEDED" /\ UNCHANGED job
  BY DEF IInv, StepInv, Publish, Finalizing
<1>2. bundle' \in Manifests /\ (bundle # None => bundle' = bundle)
  BY DEF IInv, TypeOK, Publish
<1> QED BY <1>1, <1>2, RailAssumption, FinalInv DEF IInv, TypeOK, Publish, Finalizing

LEMMA AttachInv ==
  ASSUME IInv, NEW p \in Processes, Attach(p)
  PROVE  IInv'
<1>1. job = "SUCCEEDED" /\ bundle # None
  BY DEF IInv, StepInv, Attach, Finalizing
<1> QED BY <1>1, FinalInv DEF IInv, TypeOK, Attach, Finalizing

LEMMA RecordInv ==
  ASSUME IInv, NEW p \in Processes, Record(p)
  PROVE  IInv'
<1> USE DEF IInv
<1>1. job = "SUCCEEDED" /\ bound /\ bundle \in Manifests /\ status \in Done
  BY DEF StepInv, Record, Finalizing, TypeOK
<1>2. /\ at' \in [Processes -> Points] /\ call' \in [Processes -> Calls]
      /\ \A q \in Processes : Calm(q)
  BY LeftCalmly DEF Record
<1>3. CASE UNCHANGED ledger
  BY <1>2, <1>3, PassingInv DEF Record, stores, TypeOK
<1>4. CASE status = "FINAL_QA_READY" /\ status' = "ARTIFACT_FROZEN" /\ artifact' = bundle
  <2>1. RailInv' /\ UNCHANGED <<issued, completions>>
    BY <1>1, RecordRail DEF Record, RailInv, TypeOK
  <2>2. TypeOK'
    BY <1>2, <2>1 DEF Record, RailInv, TypeOK, stores
  <2>3. ReadInv' /\ StepInv'
    BY <1>2, <1>4, <2>1 DEF ReadInv, StepInv, Calm, Neutral, Finalizing, Done, Record,
                            stores, FinalQA
  <2>4. JobInv'
    BY <1>1, <1>4, <2>1, RailAssumption
       DEF JobInv, PacketNeedsStartedJob, SucceededWasReviewed, FrozenMeansPublished,
           FinalQA, Record, stores
  <2> QED BY <2>1, <2>2, <2>3, <2>4 DEF RailInv
<1> QED BY <1>1, <1>3, <1>4, RecordRail DEF Record, RailInv, TypeOK

-----------------------------------------------------------------------------
(* The theorems.                                                           *)

LEMMA InitInv == Init => IInv
<1> SUFFICES ASSUME Init PROVE IInv
  OBVIOUS
<1>1. TypeOK
  <2>1. LedgerTypeOK
    BY StageCount DEF Init, LedgerInit, LedgerTypeOK
  <2>2. at \in [Processes -> Points] /\ call \in [Processes -> Calls]
    BY NoCallIsCall DEF Init, Points
  <2>3. lives \in Nat \cup {Unlimited}
    BY CallAssumption DEF Init
  <2> QED BY <2>1, <2>2, <2>3 DEF Init, TypeOK, JobStates
<1>2. ShapeInv
  BY DEF Init, LedgerInit, ShapeInv, Open, Done
<1>3. ReadInv /\ StepInv
  BY NoCallIsCall DEF Init, ReadInv, StepInv, Done, Finalizing
<1>4. JobInv
  BY DEF Init, LedgerInit, JobInv, PacketNeedsStartedJob, SucceededWasReviewed,
         FrozenMeansPublished
<1> QED BY <1>1, <1>2, <1>3, <1>4 DEF IInv

LEMMA NextInv == IInv /\ [Next]_vars => IInv'
<1> SUFFICES ASSUME IInv, [Next]_vars PROVE IInv'
  OBVIOUS
<1>1. ASSUME NEW p \in Processes, Step(p)
      PROVE  IInv'
  BY <1>1, WriteKeyInv, ReadRowInv, ReadHeadInv, ReadEventsInv, ReadRowsInv, LoadJobInv,
     StartJobInv, ReadIdentityInv, IssuePacketInv, ResolveRecoveryInv, SubmitInv,
     SucceedInv, PublishInv, AttachInv, RecordInv, StopInv DEF Step, Reads
<1>2. CASE UNCHANGED vars
  <2>1. at' \in [Processes -> Points] /\ call' \in [Processes -> Calls]
        /\ \A p \in Processes : Calm(p)
    BY <1>2 DEF IInv, TypeOK, vars, Calm
  <2> QED BY <1>2, <2>1, PassingInv DEF IInv, TypeOK, vars
<1> QED BY <1>1, <1>2, BeginInv, StopInv, OutsideInv DEF Next

LEMMA InvHolds == Spec => []IInv
BY InitInv, NextInv, PTL DEF Spec

\* Every variable keeps its type.
THEOREM SupervisedTypes == Spec => []TypeOK
<1>1. IInv => TypeOK
  BY DEF IInv
<1> QED BY <1>1, InvHolds, PTL

\* A packet in the ledger means that the job was started in the other database.
THEOREM PacketsFollowStart == Spec => []PacketNeedsStartedJob
<1>1. IInv => PacketNeedsStartedJob
  BY DEF IInv, JobInv
<1> QED BY <1>1, InvHolds, PTL

\* No race, stale read or crash makes a job succeed that was not delivered and reviewed.
THEOREM SuccessIsReviewed == Spec => []SucceededWasReviewed
<1>1. IInv => SucceededWasReviewed
  BY DEF IInv, JobInv
<1> QED BY <1>1, InvHolds, PTL

\* The ledger is frozen only over the manifest that is published and bound.
THEOREM FrozenIsPublished == Spec => []FrozenMeansPublished
<1>1. IInv => FrozenMeansPublished
  BY DEF IInv, JobInv
<1> QED BY <1>1, InvHolds, PTL

-----------------------------------------------------------------------------
(* The abstract run.                                                       *)

LEMMA RunStays ==
  ASSUME UNCHANGED <<status, completions, job, bundle, artifact>>
  PROVE  UNCHANGED Run!vars
BY DEF Run!vars, Phase

LEMMA RunOpens ==
  ASSUME IInv, NEW p \in Processes, IssuePacket(p)
  PROVE  [Run!Next]_(Run!vars)
<1>1. PICK s \in Sessions : PreparePacket(s)
  BY DEF IssuePacket
<1>2. job # "QUEUED" /\ UNCHANGED <<job, bundle>>
  BY DEF IInv, StepInv, IssuePacket, stores
<1>3. CASE IssueFirst(s)
  <2>1. /\ Phase = "none" /\ Phase' = "waiting"
        /\ UNCHANGED <<completions, artifact>>
    BY <1>3 DEF IssueFirst, Phase
  <2> QED BY <1>2, <2>1 DEF Run!Next, Run!OpenRun
<1>4. CASE UNCHANGED ledger
  BY <1>2, <1>4, RunStays DEF ledger, rows
<1> QED BY <1>1, <1>3, <1>4 DEF PreparePacket

LEMMA RunDelivers ==
  ASSUME IInv, NEW p \in Processes, Submit(p)
  PROVE  [Run!Next]_(Run!vars)
<1>1. PICK i \in Known, o \in Operators, s \in Sessions : \E pay \in PayloadsOf(Current) :
        BindCompletion([input |-> i, by |-> o, session |-> s, payload |-> pay])
  BY DEF Submit
<1>2. PICK c : BindCompletion(c)
  BY <1>1
<1>3. UNCHANGED <<job, bundle>>
  BY DEF Submit, stores
<1>4. CASE status = "AWAITING_OPERATOR_EXECUTION" /\ Accept(c)
  <2>1. /\ issued > 0 /\ Len(completions) = issued - 1 /\ issued \in Nat
        /\ Len(completions') = Len(completions) + 1
        /\ UNCHANGED artifact
    BY <1>4 DEF IInv, TypeOK, ShapeInv, LedgerTypeOK, Accept, Open
  <2>2. Phase = "waiting"
    BY <1>4 DEF Phase
  <2>3. Phase' = IF Len(completions') = Len(Stages) THEN "ready" ELSE "waiting"
    BY <1>4, <2>1, StageCount DEF Accept, Current, Phase
  <2> QED BY <1>3, <2>1, <2>2, <2>3 DEF Run!Next, Run!Deliver
<1>5. CASE UNCHANGED <<status, rows>>
  BY <1>3, <1>5, RunStays DEF rows
<1> QED BY <1>2, <1>4, <1>5 DEF BindCompletion, Reject, ledger

LEMMA RunHolds ==
  ASSUME IInv, \/ \E p \in Processes : ResolveRecovery(p)
               \/ HoldRun \/ CancelRun
  PROVE  [Run!Next]_(Run!vars)
<1>1. UNCHANGED <<job, bundle>>
  BY DEF ResolveRecovery, HoldRun, CancelRun, stores
<1>2. CASE MarkRecovery
  <2>1. Phase = "waiting" /\ Phase' = "held" /\ UNCHANGED <<completions, artifact>>
    BY <1>2 DEF MarkRecovery, rows, Phase
  <2> QED BY <1>1, <2>1 DEF Run!Next, Run!Hold
<1>3. CASE \E i \in Known, o \in Operators : Resolve(i, o)
  <2>1. Phase = "held" /\ Phase' = "waiting" /\ UNCHANGED <<completions, artifact>>
    BY <1>3 DEF Resolve, Resolvable, rows, Phase
  <2> QED BY <1>1, <2>1 DEF Run!Next, Run!Resume
<1>4. CASE \E o \in Operators : RequestCancel(o)
  <2>1. /\ Phase \in {"waiting", "held"} /\ Phase' = "canceled"
        /\ UNCHANGED <<completions, artifact>>
    BY <1>4 DEF RequestCancel, rows, Phase
  <2> QED BY <1>1, <2>1 DEF Run!Next, Run!CancelRun
<1>5. CASE UNCHANGED ledger
  BY <1>1, <1>5, RunStays DEF ledger, rows
<1> QED BY <1>2, <1>3, <1>4, <1>5 DEF ResolveRecovery, HoldRun, CancelRun

LEMMA RunFinishes ==
  ASSUME IInv, NEW p \in Processes, Succeed(p) \/ Publish(p) \/ Record(p)
  PROVE  [Run!Next]_(Run!vars)
<1> USE DEF IInv
<1>1. status \in Done
  BY DEF StepInv, Succeed, Publish, Record, Finalizing
<1>2. CASE Succeed(p)
  <2>1. UNCHANGED <<status, completions, artifact, bundle>>
    BY <1>2 DEF Succeed, ledger, rows
  <2>2. CASE job = "RUNNING" /\ job' = "SUCCEEDED"
    <3>1. status = "FINAL_QA_READY"
      BY <1>1, <2>2 DEF JobInv, FrozenMeansPublished, Done
    <3>2. Phase = "ready" /\ Phase' = "ready"
      BY <2>1, <3>1 DEF Phase
    <3> QED BY <2>1, <2>2, <3>2 DEF Run!Next, Run!Succeed
  <2>3. CASE UNCHANGED job
    BY <2>1, <2>3, RunStays
  <2> QED BY <1>2, <2>2, <2>3 DEF Succeed
<1>3. CASE Publish(p)
  <2>1. UNCHANGED <<status, completions, artifact, job>> /\ job = "SUCCEEDED"
    BY <1>3 DEF Publish, ledger, rows, StepInv, Finalizing
  <2>2. CASE bundle = None /\ bundle' \in Manifests
    <3>1. UNCHANGED Phase
      BY <2>1 DEF Phase
    <3> QED BY <2>1, <2>2, <3>1 DEF Run!Next, Run!Publish
  <2>3. CASE UNCHANGED bundle
    BY <2>1, <2>3, RunStays
  <2> QED BY <1>3, <2>2, <2>3 DEF Publish
<1>4. CASE Record(p)
  <2>1. UNCHANGED <<job, bundle>> /\ bundle \in Manifests /\ bundle # None
    BY <1>4, RailAssumption DEF Record, stores, StepInv, TypeOK
  <2>2. CASE UNCHANGED ledger
    BY <2>1, <2>2, RunStays DEF ledger, rows
  <2>3. CASE status = "FINAL_QA_READY" /\ status' = "ARTIFACT_FROZEN" /\ artifact' = bundle
             /\ UNCHANGED completions
    <3>1. Phase = "ready" /\ Phase' = "closed"
      BY <2>3 DEF Phase
    <3> QED BY <2>1, <2>3, <3>1 DEF Run!Next, Run!Close
  <2> QED BY <1>4, <2>1, <2>2, <2>3, RecordRail DEF Record, RailInv, TypeOK
<1> QED BY <1>2, <1>3, <1>4

LEMMA RunStep ==
  ASSUME IInv, [Next]_vars
  PROVE  [Run!Next]_(Run!vars)
<1>1. ASSUME NEW p \in Processes, Step(p)
      PROVE  [Run!Next]_(Run!vars)
  <2>1. CASE StartJob(p)
    <3>1. UNCHANGED <<status, completions, artifact, bundle>>
      BY <2>1 DEF StartJob, ledger, rows
    <3>2. CASE job = "QUEUED" /\ job' = "RUNNING"
      <4>1. UNCHANGED Phase
        BY <3>1 DEF Phase
      <4> QED BY <3>1, <3>2, <4>1 DEF Run!Next, Run!StartJob
    <3>3. CASE UNCHANGED job
      BY <3>1, <3>3, RunStays
    <3> QED BY <2>1, <3>2, <3>3 DEF StartJob
  <2>2. CASE WriteKey(p) \/ Reads(p) \/ LoadJob(p) \/ ReadIdentity(p) \/ Attach(p) \/ Dismiss(p)
    BY <2>2, RunStays DEF WriteKey, Reads, ReadRow, ReadHead, ReadEvents, ReadRows, LoadJob,
                          ReadIdentity, Attach, Dismiss, ledger, rows, stores
  <2> QED BY <1>1, <2>1, <2>2, RunOpens, RunDelivers, RunHolds, RunFinishes DEF Step
<1>2. CASE CancelJob
  <2>1. UNCHANGED <<status, completions, artifact, bundle, Phase>>
    BY <1>2 DEF CancelJob, ledger, rows, Phase
  <2> QED BY <1>2, <2>1 DEF CancelJob, Run!Next, Run!CancelJob
<1>3. ASSUME NEW p \in Processes, Crash(p) \/ \E cmd \in Commands : Begin(p, cmd)
      PROVE  [Run!Next]_(Run!vars)
  BY <1>3, RunStays DEF Crash, Begin, ledger, rows
<1>4. CASE UNCHANGED vars
  BY <1>4, RunStays DEF vars, ledger, rows
<1> QED BY <1>1, <1>2, <1>3, <1>4, RunHolds DEF Next

\* The processes together, on two databases and a directory, are one OperatorRail.
THEOREM ProcessesImplementOneRun == Spec => OneRun
<1>1. Init => Run!Init
  BY DEF Init, LedgerInit, Run!Init, Phase
<1>2. IInv /\ [Next]_vars => [Run!Next]_(Run!vars)
  BY RunStep
<1> QED BY <1>1, <1>2, InvHolds, PTL DEF Spec, OneRun, Run!Spec

=============================================================================
