--------------------------- MODULE SupervisedRail ---------------------------
(***************************************************************************)
(* supervised_rail.py: the ledger of the work an operator does by hand in  *)
(* a visible session, in an SQLite database of its own beside the jobs.    *)
(*                                                                         *)
(* Every table is keyed by the company and the job and no statement joins  *)
(* two jobs, so one run is modelled.  Its packets form a chain: the packet *)
(* of a stage is computed from the packet and the completion before it, so *)
(* a packet, its input hash and its stage are its sequence number here.    *)
(*                                                                         *)
(* Each operation is one BEGIN IMMEDIATE transaction and one operator; an  *)
(* operation that raises before it wrote changes nothing.  The MAC chain of*)
(* the events keeps out writers other than the program, which are not      *)
(* modelled; what is left of the ledger's verification is that the events  *)
(* explain the rows, and that is Verifies.                                 *)
(***************************************************************************)
EXTENDS Integers, Sequences, FiniteSets, SequencesExt

CONSTANTS
  Operators,   \* operator ids
  Sessions,    \* designated session references
  Manifests,   \* hashes a published manifest may have
  None

ASSUME RailAssumption ==
  /\ Operators # {} /\ Sessions # {}
  /\ None \notin Operators \cup Sessions \cup Manifests

VARIABLES
  status,      \* supervised_jobs.status, "ABSENT" before there is a row
  session,     \* designated_session_ref of every packet
  issued,      \* supervised_packets: the sequences 0 .. issued - 1; the head is the last
  completions, \* supervised_completions in packet order
  events,      \* supervised_events in event_sequence order
  artifact     \* artifact_manifest_hash

rows == <<session, issued, completions, artifact>>
ledger == <<status, rows, events>>

-----------------------------------------------------------------------------
Stages == <<"outline", "draft", "critic", "revision">>
LastStage == Len(Stages) - 1

Statuses == {"AWAITING_OPERATOR_EXECUTION", "OPERATOR_RECOVERY_REQUIRED",
             "CANCEL_REQUESTED", "FINAL_QA_READY", "ARTIFACT_FROZEN"}

\* What the checks of a payload tell apart.  "unsound" satisfies its stage's
\* schema and cites frozen sources and yet fails the final QA (a missing
\* citation, or no keyword); "ungrounded" cites a source that is not frozen.
Payloads == {"malformed", "ungrounded", "unsound", "sound"}

\* _validate_stage_payload, and _validate_revision_sources for the last stage
\* alone: the others carry no sources and no final text.
PayloadsOf(i) == IF i = LastStage THEN Payloads ELSE {"malformed", "sound"}
Acceptable(i, p) == p # "malformed" /\ (i = LastStage => p # "ungrounded")

\* Inputs a completion file may name: a packet, or none of this run's.
Unknown == -1
Inputs == Unknown .. LastStage

EventTypes == {"PACKET_PREPARED", "SUBMITTED", "REJECTED", "ACCEPTED",
               "OPERATOR_RECOVERY_REQUIRED", "RECOVERY_RESOLVED_FOR_EXACT_BINDING",
               "CANCEL_REQUESTED", "FINAL_QA_READY", "ARTIFACT_FROZEN"}

Events == [type : EventTypes, input : 0 .. LastStage,
           by : Operators \cup {None}, manifest : Manifests \cup {None}]

Event(t, i, o) == [type |-> t, input |-> i, by |-> o, manifest |-> None]
FrozenEvent(m) == [type |-> "ARTIFACT_FROZEN", input |-> LastStage,
                   by |-> None, manifest |-> m]

Current == issued - 1   \* the packet in supervised_jobs.packet_json
Bound(i) == i \in 0 .. Len(completions) - 1

LedgerTypeOK ==
  /\ status \in Statuses \cup {"ABSENT"}
  /\ session \in Sessions \cup {None}
  /\ issued \in 0 .. Len(Stages)
  /\ completions \in Seq([payload : Payloads, session : Sessions])
  /\ events \in Seq(Events)
  /\ artifact \in Manifests \cup {None}

LedgerInit ==
  /\ status = "ABSENT"
  /\ session = None /\ issued = 0
  /\ completions = << >> /\ events = << >>
  /\ artifact = None

Log(es) == events' = events \o es

-----------------------------------------------------------------------------
(* The operations.                                                         *)

\* The first call makes the run and its outline packet.
IssueFirst(s) ==
  /\ status = "ABSENT"
  /\ status' = "AWAITING_OPERATOR_EXECUTION"
  /\ session' = s /\ issued' = 1
  /\ Log(<<Event("PACKET_PREPARED", 0, None)>>)
  /\ UNCHANGED <<completions, artifact>>

\* prepare_packet.  A later call only gives the outline packet again, while it
\* is the head and the session is the same; any other is refused.
PreparePacket(s) == IssueFirst(s) \/ (status # "ABSENT" /\ UNCHANGED ledger)

Submission(o) == Event("SUBMITTED", Current, o)

Matches(c) == c.input = Current /\ c.session = session /\ Acceptable(Current, c.payload)

\* _reject_completion commits the two events and raises.
Reject(c) ==
  /\ ~ Matches(c)
  /\ Log(<<Submission(c.by), Event("REJECTED", Current, c.by)>>)
  /\ UNCHANGED <<status, rows>>

\* Variant: one stage too many.
Accept_OneStageMore(c) ==
  /\ Matches(c)
  /\ completions' = Append(completions, [payload |-> c.payload, session |-> c.session])
  /\ IF Current = Len(Stages) THEN status' = "FINAL_QA_READY" /\ UNCHANGED <<issued, events>>
     ELSE /\ issued' = issued + 1
          /\ Log(<<Submission(c.by), Event("ACCEPTED", Current, None),
                   Event("PACKET_PREPARED", Current, None)>>)
          /\ UNCHANGED status
  /\ UNCHANGED <<session, artifact>>

\* The packet of the next stage is issued with the acceptance, in one
\* transaction; the last stage makes the run ready for its final QA.
Accept(c) ==
  /\ Matches(c)
  /\ completions' = Append(completions, [payload |-> c.payload, session |-> c.session])
  /\ IF Current = LastStage
       THEN /\ status' = "FINAL_QA_READY"
            /\ Log(<<Submission(c.by), Event("ACCEPTED", Current, None),
                     Event("FINAL_QA_READY", Current, None)>>)
            /\ UNCHANGED issued
       ELSE /\ issued' = issued + 1
            /\ Log(<<Submission(c.by), Event("ACCEPTED", Current, None),
                     Event("PACKET_PREPARED", issued, None)>>)
            /\ UNCHANGED status
  /\ UNCHANGED <<session, artifact>>

\* Variant: a run in recovery takes a completion too.
BindCompletion_InRecovery(c) ==
  IF /\ status \in {"AWAITING_OPERATOR_EXECUTION", "OPERATOR_RECOVERY_REQUIRED"}
     /\ ~ Bound(c.input)
    THEN Reject(c) \/ Accept(c)
    ELSE UNCHANGED ledger

\* bind_completion.  A packet that has its completion, and a run that is not
\* waiting for one, refuse without a trace.
BindCompletion(c) ==
  IF status = "AWAITING_OPERATOR_EXECUTION" /\ ~ Bound(c.input)
    THEN Reject(c) \/ Accept(c)
    ELSE UNCHANGED ledger

\* mark_operator_recovery_required
MarkRecovery ==
  /\ status = "AWAITING_OPERATOR_EXECUTION"
  /\ status' = "OPERATOR_RECOVERY_REQUIRED"
  /\ Log(<<Event("OPERATOR_RECOVERY_REQUIRED", Current, None)>>)
  /\ UNCHANGED rows

\* resolve_recovery_for_exact_binding, from recovery
Resolvable(i) == status = "OPERATOR_RECOVERY_REQUIRED" /\ i = Current

Resolve(i, o) ==
  /\ Resolvable(i)
  /\ status' = "AWAITING_OPERATOR_EXECUTION"
  /\ Log(<<Event("RECOVERY_RESOLVED_FOR_EXACT_BINDING", Current, o)>>)
  /\ UNCHANGED rows

Resolutions == SelectSeq(events, LAMBDA e : e.type = "RECOVERY_RESOLVED_FOR_EXACT_BINDING")

\* A call that finds the run awaiting already is a replay of the last
\* resolution: allowed for its operator,
ResolveReplays(i, o) ==
  /\ status = "AWAITING_OPERATOR_EXECUTION"
  /\ i = Current
  /\ Resolutions # << >>
  /\ Last(Resolutions).input = i /\ Last(Resolutions).by = o

\* and taken for corruption when the last resolution was of an earlier packet.
ResolveAlarms(i) ==
  /\ status = "AWAITING_OPERATOR_EXECUTION"
  /\ i = Current
  /\ Resolutions # << >>
  /\ Last(Resolutions).input # i

\* request_cancel
RequestCancel(o) ==
  /\ status \in {"AWAITING_OPERATOR_EXECUTION", "OPERATOR_RECOVERY_REQUIRED"}
  /\ status' = "CANCEL_REQUESTED"
  /\ Log(<<Event("CANCEL_REQUESTED", Current, o)>>)
  /\ UNCHANGED rows

\* record_artifact, called with the hash of the published manifest.  A frozen
\* run only compares.
RecordArtifact(m) ==
  IF status = "FINAL_QA_READY"
    THEN /\ status' = "ARTIFACT_FROZEN"
         /\ artifact' = m
         /\ Log(<<FrozenEvent(m)>>)
         /\ UNCHANGED <<session, issued, completions>>
    ELSE UNCHANGED ledger

-----------------------------------------------------------------------------
(* The ledger's verification: _validated_status_projection and             *)
(* _validate_authenticated_materializations over the first n events.       *)

Positions(n, t) == {k \in 1 .. n : events[k].type = t}
Before(n, t, k) == Cardinality({l \in Positions(n, t) : l < k})

\* Packets come in the order of the stages, each after the acceptance of the
\* one before; the final events come once and last.
Grammar(n) ==
  /\ Positions(n, "PACKET_PREPARED") # {}
  /\ \A k \in Positions(n, "PACKET_PREPARED") :
       /\ events[k].input = Before(n, "PACKET_PREPARED", k)
       /\ Before(n, "ACCEPTED", k) = events[k].input
  /\ \A k \in Positions(n, "ACCEPTED") :
       /\ events[k].input = Before(n, "ACCEPTED", k)
       /\ Before(n, "PACKET_PREPARED", k) = events[k].input + 1
  /\ \A k \in Positions(n, "FINAL_QA_READY") :
       Before(n, "ACCEPTED", k) = Len(Stages) /\ Before(n, "FINAL_QA_READY", k) = 0
  /\ \A k \in Positions(n, "ARTIFACT_FROZEN") :
       Before(n, "FINAL_QA_READY", k) = 1 /\ Before(n, "ARTIFACT_FROZEN", k) = 0

\* The rows are those the events speak of.
RowsMatch(n) ==
  /\ issued = Cardinality(Positions(n, "PACKET_PREPARED"))
  /\ Len(completions) = Cardinality(Positions(n, "ACCEPTED"))
  /\ \A i \in 1 .. Len(completions) : /\ completions[i].session = session
                                      /\ Acceptable(i - 1, completions[i].payload)
  /\ {artifact} \ {None} = {events[k].manifest : k \in Positions(n, "ARTIFACT_FROZEN")}

StatusAfter(t) ==
  CASE t \in {"PACKET_PREPARED", "REJECTED", "RECOVERY_RESOLVED_FOR_EXACT_BINDING"}
         -> "AWAITING_OPERATOR_EXECUTION"
    [] t \in Statuses -> t
    [] OTHER -> "no status ends in this event"

\* s is the status that was read, n the number of events in the job's row.
Verifies(s, n) == Grammar(n) /\ RowsMatch(n) /\ s = StatusAfter(events[n].type)

LedgerVerifies == status # "ABSENT" => Verifies(status, Len(events))

=============================================================================
