---------------------------- MODULE LedgerProofs ----------------------------
(***************************************************************************)
(* Every legal use of the rail leaves a ledger that its own verification   *)
(* accepts, for any operators, sessions and manifests.  The verification   *)
(* counts events of a type before a position; an event appended to the     *)
(* ledger leaves those counts alone, so each event is judged once, when it *)
(* is written, by the totals at that moment, and these are the rows.       *)
(***************************************************************************)
EXTENDS SupervisedProofs, FiniteSetTheorems

\* The verification's counts, of any sequence of events.
Pos(ev, n, t) == {k \in 1 .. n : ev[k].type = t}
Count(ev, n, t) == Cardinality(Pos(ev, n, t))
Total(ev, t) == Count(ev, Len(ev), t)

\* What Grammar asks of an event, by the counts before it.
Legal(e, packets, accepted, ready, frozen) ==
  /\ e.type = "PACKET_PREPARED" => e.input = packets /\ accepted = packets
  /\ e.type = "ACCEPTED" => e.input = accepted /\ packets = accepted + 1
  /\ e.type = "FINAL_QA_READY" => accepted = Len(Stages) /\ ready = 0
  /\ e.type = "ARTIFACT_FROZEN" => ready = 1 /\ frozen = 0

LegalAt(ev, k) ==
  Legal(ev[k], Count(ev, k - 1, "PACKET_PREPARED"), Count(ev, k - 1, "ACCEPTED"),
        Count(ev, k - 1, "FINAL_QA_READY"), Count(ev, k - 1, "ARTIFACT_FROZEN"))

Explains(ev, packets, accepted, ready, frozen) ==
  /\ \A k \in 1 .. Len(ev) : LegalAt(ev, k)
  /\ Total(ev, "PACKET_PREPARED") = packets
  /\ Total(ev, "ACCEPTED") = accepted
  /\ Total(ev, "FINAL_QA_READY") = ready
  /\ Total(ev, "ARTIFACT_FROZEN") = frozen

Frozen(ev) == {ev[k].manifest : k \in Pos(ev, Len(ev), "ARTIFACT_FROZEN")}

ReadyCount == IF status \in Done THEN 1 ELSE 0
FrozenCount == IF status = "ARTIFACT_FROZEN" THEN 1 ELSE 0

CompletionsFit ==
  \A i \in 1 .. Len(completions) : /\ completions[i].session = session
                                   /\ Acceptable(i - 1, completions[i].payload)

LedgerInv ==
  /\ Explains(events, issued, Len(completions), ReadyCount, FrozenCount)
  /\ Frozen(events) = {artifact} \ {None}
  /\ CompletionsFit
  /\ status # "ABSENT" => Len(events) > 0 /\ status = StatusAfter(events[Len(events)].type)

-----------------------------------------------------------------------------
(* One more event.                                                         *)

LEMMA PosFinite ==
  ASSUME NEW ev, NEW n \in Nat, NEW t
  PROVE  IsFiniteSet(Pos(ev, n, t)) /\ Count(ev, n, t) \in Nat
<1>1. Pos(ev, n, t) \in SUBSET (1 .. n)
  BY DEF Pos
<1>2. IsFiniteSet(1 .. n)
  BY FS_Interval
<1>3. IsFiniteSet(Pos(ev, n, t))
  BY <1>1, <1>2, FS_Subset
<1> QED BY <1>3, FS_CardinalityType DEF Count

LEMMA PrefixCounts ==
  ASSUME NEW ev \in Seq(Events), NEW e \in Events, NEW n \in 0 .. Len(ev), NEW t
  PROVE  Pos(Append(ev, e), n, t) = Pos(ev, n, t)
BY DEF Pos

LEMMA OneMore ==
  ASSUME NEW ev \in Seq(Events), NEW e \in Events, NEW t
  PROVE  /\ Pos(Append(ev, e), Len(ev) + 1, t) =
              IF e.type = t THEN Pos(ev, Len(ev), t) \cup {Len(ev) + 1} ELSE Pos(ev, Len(ev), t)
         /\ Total(Append(ev, e), t) = IF e.type = t THEN Total(ev, t) + 1 ELSE Total(ev, t)
<1>1. Pos(Append(ev, e), Len(ev) + 1, t) =
        IF e.type = t THEN Pos(ev, Len(ev), t) \cup {Len(ev) + 1} ELSE Pos(ev, Len(ev), t)
  <2>1. \A k \in 1 .. Len(ev) : Append(ev, e)[k] = ev[k]
    OBVIOUS
  <2>2. Append(ev, e)[Len(ev) + 1] = e
    OBVIOUS
  <2>3. 1 .. (Len(ev) + 1) = (1 .. Len(ev)) \cup {Len(ev) + 1}
    OBVIOUS
  <2> QED BY <2>1, <2>2, <2>3 DEF Pos
<1>2. Len(Append(ev, e)) = Len(ev) + 1
  OBVIOUS
<1>3. IsFiniteSet(Pos(ev, Len(ev), t)) /\ Len(ev) + 1 \notin Pos(ev, Len(ev), t)
  <2>1. Len(ev) \in Nat
    OBVIOUS
  <2>2. Len(ev) + 1 \notin 1 .. Len(ev)
    BY <2>1
  <2>3. Pos(ev, Len(ev), t) \subseteq 1 .. Len(ev)
    BY DEF Pos
  <2> QED BY <2>1, <2>2, <2>3, PosFinite
<1>4. Cardinality(Pos(ev, Len(ev), t) \cup {Len(ev) + 1}) = Cardinality(Pos(ev, Len(ev), t)) + 1
  BY <1>3, FS_AddElement
<1> QED BY <1>1, <1>2, <1>4 DEF Total, Count

LEMMA AppendExplains ==
  ASSUME NEW ev \in Seq(Events), NEW e \in Events,
         NEW i \in Nat, NEW a \in Nat, NEW f \in Nat, NEW z \in Nat,
         Explains(ev, i, a, f, z), Legal(e, i, a, f, z)
  PROVE  /\ Explains(Append(ev, e),
                     IF e.type = "PACKET_PREPARED" THEN i + 1 ELSE i,
                     IF e.type = "ACCEPTED" THEN a + 1 ELSE a,
                     IF e.type = "FINAL_QA_READY" THEN f + 1 ELSE f,
                     IF e.type = "ARTIFACT_FROZEN" THEN z + 1 ELSE z)
         /\ Append(ev, e) \in Seq(Events)
<1> DEFINE ev2 == Append(ev, e)
<1>1. /\ Total(ev2, "PACKET_PREPARED") = IF e.type = "PACKET_PREPARED" THEN i + 1 ELSE i
      /\ Total(ev2, "ACCEPTED") = IF e.type = "ACCEPTED" THEN a + 1 ELSE a
      /\ Total(ev2, "FINAL_QA_READY") = IF e.type = "FINAL_QA_READY" THEN f + 1 ELSE f
      /\ Total(ev2, "ARTIFACT_FROZEN") = IF e.type = "ARTIFACT_FROZEN" THEN z + 1 ELSE z
  BY OneMore DEF Explains
<1>2. ASSUME NEW k \in 1 .. Len(ev2)
      PROVE  LegalAt(ev2, k)
  <2>1. k - 1 \in 0 .. Len(ev)
    OBVIOUS
  <2>2. \A t : Count(ev2, k - 1, t) = Count(ev, k - 1, t)
    BY <2>1, PrefixCounts DEF Count
  <2>3. CASE k \in 1 .. Len(ev)
    <3>1. ev2[k] = ev[k]
      BY <2>3
    <3> QED BY <2>2, <2>3, <3>1 DEF LegalAt, Explains
  <2>4. CASE k = Len(ev) + 1
    <3>1. ev2[k] = e /\ k - 1 = Len(ev)
      BY <2>4
    <3>2. \A t : Count(ev2, k - 1, t) = Total(ev, t)
      BY <2>2, <3>1 DEF Total
    <3> QED BY <3>1, <3>2 DEF LegalAt, Explains
  <2> QED BY <2>3, <2>4
<1> QED BY <1>1, <1>2 DEF Explains

LEMMA AppendFrozen ==
  ASSUME NEW ev \in Seq(Events), NEW e \in Events
  PROVE  Frozen(Append(ev, e)) =
           IF e.type = "ARTIFACT_FROZEN" THEN Frozen(ev) \cup {e.manifest} ELSE Frozen(ev)
<1>1. Len(Append(ev, e)) = Len(ev) + 1 /\ Append(ev, e)[Len(ev) + 1] = e
  OBVIOUS
<1>2. \A k \in Pos(ev, Len(ev), "ARTIFACT_FROZEN") : Append(ev, e)[k] = ev[k]
  BY DEF Pos
<1>3. CASE e.type = "ARTIFACT_FROZEN"
  <2>1. Pos(Append(ev, e), Len(ev) + 1, "ARTIFACT_FROZEN")
          = Pos(ev, Len(ev), "ARTIFACT_FROZEN") \cup {Len(ev) + 1}
    BY <1>3, OneMore
  <2>2. Frozen(Append(ev, e)) =
          {Append(ev, e)[k].manifest : k \in Pos(ev, Len(ev), "ARTIFACT_FROZEN") \cup {Len(ev) + 1}}
    BY <1>1, <2>1, Zenon DEF Frozen
  <2>3. Frozen(ev) = {Append(ev, e)[k].manifest : k \in Pos(ev, Len(ev), "ARTIFACT_FROZEN")}
    BY <1>2, Zenon DEF Frozen
  <2> QED BY <1>1, <1>3, <2>2, <2>3, Zenon
<1>4. CASE e.type # "ARTIFACT_FROZEN"
  <2>1. Pos(Append(ev, e), Len(ev) + 1, "ARTIFACT_FROZEN") = Pos(ev, Len(ev), "ARTIFACT_FROZEN")
    BY <1>4, OneMore
  <2> QED BY <1>1, <1>2, <1>4, <2>1, Zenon DEF Frozen
<1> QED BY <1>3, <1>4

-----------------------------------------------------------------------------
(* The operations.                                                         *)

LEMMA Spread ==
  ASSUME NEW ev \in Seq(Events), NEW e \in Events, NEW f \in Events, NEW g \in Events
  PROVE  /\ ev \o <<e>> = Append(ev, e)
         /\ ev \o <<e, f>> = Append(Append(ev, e), f)
         /\ ev \o <<e, f, g>> = Append(Append(Append(ev, e), f), g)
OBVIOUS

\* Types whose events the verification does not count.
Plain == EventTypes \ {"PACKET_PREPARED", "ACCEPTED", "FINAL_QA_READY", "ARTIFACT_FROZEN"}

LEMMA AppendPlain ==
  ASSUME NEW ev \in Seq(Events), NEW e \in Events, e.type \in Plain,
         NEW i \in Nat, NEW a \in Nat, NEW f \in Nat, NEW z \in Nat,
         Explains(ev, i, a, f, z)
  PROVE  /\ Explains(Append(ev, e), i, a, f, z) /\ Append(ev, e) \in Seq(Events)
         /\ Frozen(Append(ev, e)) = Frozen(ev)
<1>1. Legal(e, i, a, f, z)
  BY DEF Legal, Plain
<1> QED BY <1>1, AppendExplains, AppendFrozen DEF Plain

LEMMA AppendReady ==
  ASSUME NEW ev \in Seq(Events), NEW e \in Events, e.type = "FINAL_QA_READY",
         NEW i \in Nat, NEW a \in Nat, Explains(ev, i, a, 0, 0), Legal(e, i, a, 0, 0)
  PROVE  Explains(Append(ev, e), i, a, 1, 0) /\ Frozen(Append(ev, e)) = Frozen(ev)
<1>1. Explains(Append(ev, e),
               IF e.type = "PACKET_PREPARED" THEN i + 1 ELSE i,
               IF e.type = "ACCEPTED" THEN a + 1 ELSE a,
               IF e.type = "FINAL_QA_READY" THEN 0 + 1 ELSE 0,
               IF e.type = "ARTIFACT_FROZEN" THEN 0 + 1 ELSE 0)
  <2>1. 0 \in Nat
    OBVIOUS
  <2> QED BY <2>1, AppendExplains, Zenon
<1>2. 0 + 1 = 1
  OBVIOUS
<1> QED BY <1>1, <1>2, AppendFrozen

LEMMA IssueFirstLedger ==
  ASSUME RailInv, LedgerInv, NEW s \in Sessions, IssueFirst(s)
  PROVE  LedgerInv'
<1> USE StageCount DEF RailInv
<1> DEFINE e == Event("PACKET_PREPARED", 0, None)
<1>1. e \in Events /\ e.type = "PACKET_PREPARED" /\ e.input = 0
  BY EventOfRun DEF EventTypes, Event
<1>2. issued = 0 /\ Len(completions) = 0 /\ ReadyCount = 0 /\ FrozenCount = 0
  BY DEF IssueFirst, ShapeInv, ReadyCount, FrozenCount, Done
<1>3. events' = Append(events, e) /\ events \in Seq(Events)
  BY <1>1, Spread DEF IssueFirst, Log, LedgerTypeOK
<1>4. Legal(e, 0, 0, 0, 0)
  BY <1>1 DEF Legal
<1>5. Explains(events', 1, 0, 0, 0) /\ Frozen(events') = Frozen(events)
  BY <1>1, <1>2, <1>3, <1>4, AppendExplains, AppendFrozen DEF LedgerInv
<1>6. issued' = 1 /\ Len(completions') = 0 /\ ReadyCount' = 0 /\ FrozenCount' = 0 /\ artifact' = artifact
  BY <1>2 DEF IssueFirst, ReadyCount, FrozenCount, Done
<1>7. CompletionsFit'
  BY <1>6 DEF CompletionsFit
<1>8. Len(events') > 0 /\ status' = StatusAfter(events'[Len(events')].type)
  <2>1. Len(events') = Len(events) + 1 /\ events'[Len(events')] = e
    BY <1>1, <1>3
  <2>2. StatusAfter(e.type) = "AWAITING_OPERATOR_EXECUTION"
    BY <1>1 DEF StatusAfter, Statuses
  <2> QED BY <1>3, <2>1, <2>2 DEF IssueFirst
<1> QED BY <1>5, <1>6, <1>7, <1>8 DEF LedgerInv

\* A last event of a plain type, after which the run is open.
LEMMA NotedLedger ==
  ASSUME RailInv, LedgerInv, status \in Open, status' \in Open, UNCHANGED rows,
         NEW ev \in Seq(Events), NEW e \in Events, e.type \in Plain,
         Explains(ev, issued, Len(completions), 0, 0), Frozen(ev) = Frozen(events),
         events' = Append(ev, e), status' = StatusAfter(e.type)
  PROVE  LedgerInv'
<1>1. issued \in Nat /\ Len(completions) \in Nat
  BY DEF RailInv, LedgerTypeOK
<1>2. Explains(events', issued, Len(completions), 0, 0) /\ Frozen(events') = Frozen(events)
  BY <1>1, AppendPlain
<1>3. Len(events') > 0 /\ status' = StatusAfter(events'[Len(events')].type)
  OBVIOUS
<1>4. ReadyCount' = 0 /\ FrozenCount' = 0 /\ CompletionsFit'
  BY DEF ReadyCount, FrozenCount, Open, Done, LedgerInv, CompletionsFit, rows
<1> QED BY <1>2, <1>3, <1>4 DEF LedgerInv, rows

LEMMA OpenLedger ==
  ASSUME RailInv, LedgerInv, status \in Open
  PROVE  /\ events \in Seq(Events) /\ issued \in Nat /\ Len(completions) \in Nat
         /\ Len(completions) = issued - 1
         /\ Explains(events, issued, Len(completions), 0, 0)
<1>1. ReadyCount = 0 /\ FrozenCount = 0
  BY DEF ReadyCount, FrozenCount, Open, Done
<1> QED BY <1>1 DEF RailInv, LedgerTypeOK, ShapeInv, LedgerInv

LEMMA HoldLedger ==
  ASSUME RailInv, LedgerInv,
         \/ MarkRecovery
         \/ \E o \in Operators : RequestCancel(o)
         \/ \E i \in Inputs, o \in Operators : Resolve(i, o)
  PROVE  LedgerInv'
<1>1. CASE MarkRecovery
  <2> DEFINE e == Event("OPERATOR_RECOVERY_REQUIRED", Current, None)
  <2>1. e \in Events /\ e.type = "OPERATOR_RECOVERY_REQUIRED"
    BY <1>1, CurrentIsStage, EventOfRun DEF EventTypes, MarkRecovery, Open, Event
  <2>2. events' = Append(events, e) /\ status \in Open /\ status' \in Open /\ UNCHANGED rows
    BY <1>1, <2>1, Spread, OpenLedger DEF MarkRecovery, Log, Open
  <2>3. status' = StatusAfter(e.type) /\ e.type \in Plain
    BY <1>1, <2>1 DEF MarkRecovery, StatusAfter, Statuses, Plain, EventTypes
  <2> QED BY <2>1, <2>2, <2>3, OpenLedger, NotedLedger
<1>2. ASSUME NEW o \in Operators, RequestCancel(o)
      PROVE  LedgerInv'
  <2> DEFINE e == Event("CANCEL_REQUESTED", Current, o)
  <2>1. e \in Events /\ e.type = "CANCEL_REQUESTED"
    BY <1>2, CurrentIsStage, EventOfRun DEF EventTypes, RequestCancel, Open, Event
  <2>2. events' = Append(events, e) /\ status \in Open /\ status' \in Open /\ UNCHANGED rows
    BY <1>2, <2>1, Spread, OpenLedger DEF RequestCancel, Log, Open
  <2>3. status' = StatusAfter(e.type) /\ e.type \in Plain
    BY <1>2, <2>1 DEF RequestCancel, StatusAfter, Statuses, Plain, EventTypes
  <2> QED BY <2>1, <2>2, <2>3, OpenLedger, NotedLedger
<1>3. ASSUME NEW i \in Inputs, NEW o \in Operators, Resolve(i, o)
      PROVE  LedgerInv'
  <2> DEFINE e == Event("RECOVERY_RESOLVED_FOR_EXACT_BINDING", Current, o)
  <2>1. e \in Events /\ e.type = "RECOVERY_RESOLVED_FOR_EXACT_BINDING"
    BY <1>3, CurrentIsStage, EventOfRun DEF EventTypes, Resolve, Resolvable, Open, Event
  <2>2. events' = Append(events, e) /\ status \in Open /\ status' \in Open /\ UNCHANGED rows
    BY <1>3, <2>1, Spread, OpenLedger DEF Resolve, Resolvable, Log, Open
  <2>3. status' = StatusAfter(e.type) /\ e.type \in Plain
    BY <1>3, <2>1 DEF Resolve, StatusAfter, Statuses, Plain, EventTypes
  <2> QED BY <2>1, <2>2, <2>3, OpenLedger, NotedLedger
<1> QED BY <1>1, <1>2, <1>3

LEMMA RejectLedger ==
  ASSUME RailInv, LedgerInv, status = "AWAITING_OPERATOR_EXECUTION", NEW c, Completion(c), Reject(c)
  PROVE  LedgerInv'
<1> DEFINE e == Submission(c.by)
           f == Event("REJECTED", Current, c.by)
<1>1. e \in Events /\ f \in Events /\ e.type = "SUBMITTED" /\ f.type = "REJECTED"
  BY CurrentIsStage, EventOfRun DEF EventTypes, Submission, Completion, Open, Event
<1>2. status \in Open /\ status' \in Open /\ UNCHANGED rows
  BY DEF Reject, Open
<1>3. events' = Append(Append(events, e), f)
  BY <1>1, <1>2, Spread, OpenLedger DEF Reject, Log
<1>4. /\ Explains(Append(events, e), issued, Len(completions), 0, 0)
      /\ Append(events, e) \in Seq(Events) /\ Frozen(Append(events, e)) = Frozen(events)
  <2>1. e.type \in Plain
    BY <1>1 DEF Plain, EventTypes
  <2> QED BY <1>1, <1>2, <2>1, OpenLedger, AppendPlain
<1>5. status' = StatusAfter(f.type) /\ f.type \in Plain
  BY <1>1 DEF Reject, StatusAfter, Statuses, Plain, EventTypes
<1> QED BY <1>1, <1>2, <1>3, <1>4, <1>5, NotedLedger

\* The acceptance itself, of whichever stage.
LEMMA AcceptedSoFar ==
  ASSUME RailInv, LedgerInv, status = "AWAITING_OPERATOR_EXECUTION", NEW c, Completion(c), Accept(c),
         NEW e, e = Submission(c.by), NEW f, f = Event("ACCEPTED", Current, None)
  PROVE  /\ e \in Events /\ f \in Events
         /\ Append(Append(events, e), f) \in Seq(Events)
         /\ Explains(Append(Append(events, e), f), issued, Len(completions'), 0, 0)
         /\ Frozen(Append(Append(events, e), f)) = Frozen(events)
         /\ Len(completions') = Len(completions) + 1 /\ Len(completions') = issued
         /\ CompletionsFit'
<1>1. /\ e \in Events /\ f \in Events
      /\ e.type = "SUBMITTED" /\ f.type = "ACCEPTED" /\ f.input = issued - 1
  BY CurrentIsStage, EventOfRun DEF EventTypes, Submission, Completion, Open, Event, Current
<1>2. /\ events \in Seq(Events) /\ issued \in Nat /\ Len(completions) \in Nat
      /\ Len(completions) = issued - 1
      /\ Explains(events, issued, Len(completions), 0, 0)
  BY OpenLedger DEF Open
<1>3. /\ Explains(Append(events, e), issued, Len(completions), 0, 0)
      /\ Append(events, e) \in Seq(Events) /\ Frozen(Append(events, e)) = Frozen(events)
  <2>1. e.type \in Plain
    BY <1>1 DEF Plain, EventTypes
  <2> QED BY <1>1, <1>2, <2>1, AppendPlain
<1>4. Legal(f, issued, Len(completions), 0, 0)
  BY <1>1, <1>2 DEF Legal
<1>5. /\ Explains(Append(Append(events, e), f), issued, Len(completions) + 1, 0, 0)
      /\ Append(Append(events, e), f) \in Seq(Events)
      /\ Frozen(Append(Append(events, e), f)) = Frozen(events)
  BY <1>1, <1>2, <1>3, <1>4, AppendExplains, AppendFrozen
<1>6. completions \in Seq([payload : Payloads, session : Sessions])
  BY DEF RailInv, LedgerTypeOK
<1>7. /\ Len(completions') = Len(completions) + 1
      /\ completions'[Len(completions) + 1] = [payload |-> c.payload, session |-> c.session]
      /\ \A i \in 1 .. Len(completions) : completions'[i] = completions[i]
  <2>1. [payload |-> c.payload, session |-> c.session] \in [payload : Payloads, session : Sessions]
    BY DEF Completion
  <2> QED BY <1>6, <2>1 DEF Accept
<1>8. CompletionsFit'
  <2> SUFFICES ASSUME NEW i \in 1 .. Len(completions')
               PROVE  completions'[i].session = session' /\ Acceptable(i - 1, completions'[i].payload)
    BY DEF CompletionsFit
  <2>1. session' = session
    BY DEF Accept
  <2>2. CASE i \in 1 .. Len(completions)
    BY <1>7, <2>1, <2>2 DEF LedgerInv, CompletionsFit
  <2>3. CASE i = Len(completions) + 1
    <3>1. i - 1 = Current
      BY <1>2, <2>3 DEF Current
    <3> QED BY <1>7, <2>1, <2>3, <3>1 DEF Accept, Matches
  <2> QED BY <1>2, <1>7, <2>2, <2>3
<1> QED BY <1>1, <1>2, <1>5, <1>7, <1>8

LEMMA AcceptLedger ==
  ASSUME RailInv, LedgerInv, status = "AWAITING_OPERATOR_EXECUTION", NEW c, Completion(c), Accept(c)
  PROVE  LedgerInv'
<1> USE StageCount
<1> DEFINE e == Submission(c.by)
           f == Event("ACCEPTED", Current, None)
           ev == Append(Append(events, e), f)
<1>1. /\ e \in Events /\ f \in Events /\ ev \in Seq(Events)
      /\ Explains(ev, issued, Len(completions'), 0, 0)
      /\ Frozen(ev) = Frozen(events)
      /\ Len(completions') = issued /\ CompletionsFit'
  BY AcceptedSoFar
<1>2. /\ events \in Seq(Events) /\ issued \in Nat
      /\ Current \in 0 .. LastStage /\ Current = issued - 1
  BY OpenLedger, CurrentIsStage DEF Open, Current
<1>3. Frozen(events) = {artifact} \ {None} /\ artifact' = artifact
  BY DEF LedgerInv, Accept
<1>4. CASE Current = LastStage
  <2> DEFINE g == Event("FINAL_QA_READY", Current, None)
  <2>1. g \in Events /\ g.type = "FINAL_QA_READY"
    BY <1>2, EventOfRun DEF EventTypes, Event
  <2>2. events' = Append(ev, g)
    BY <1>1, <1>2, <1>4, <2>1, Spread DEF Accept, Log
  <2>3. issued = 4
    BY <1>2, <1>4
  <2>4. Legal(g, issued, Len(completions'), 0, 0)
    BY <1>1, <2>1, <2>3 DEF Legal
  <2>5. Explains(events', issued, Len(completions'), 1, 0) /\ Frozen(events') = Frozen(events)
    <3>1. Len(completions') \in Nat
      BY <1>1, <1>2
    <3> QED BY <1>1, <1>2, <2>1, <2>2, <2>4, <3>1, AppendReady
  <2>6. issued' = issued /\ ReadyCount' = 1 /\ FrozenCount' = 0
    BY <1>4 DEF Accept, ReadyCount, FrozenCount, Done
  <2>7. Len(events') > 0 /\ events'[Len(events')] = g
    BY <1>1, <2>1, <2>2
  <2>8. status' = StatusAfter(g.type)
    BY <1>4, <2>1 DEF Accept, StatusAfter, Statuses
  <2> QED BY <1>1, <1>3, <2>5, <2>6, <2>7, <2>8 DEF LedgerInv
<1>5. CASE Current # LastStage
  <2> DEFINE g == Event("PACKET_PREPARED", issued, None)
  <2>1. g \in Events /\ g.type = "PACKET_PREPARED" /\ g.input = issued
    BY <1>2, <1>5, EventOfRun DEF EventTypes, Event
  <2>2. events' = Append(ev, g)
    BY <1>1, <1>2, <1>5, <2>1, Spread DEF Accept, Log
  <2>4. Legal(g, issued, Len(completions'), 0, 0)
    BY <1>1, <2>1 DEF Legal
  <2>5. Explains(events', issued + 1, Len(completions'), 0, 0) /\ Frozen(events') = Frozen(events)
    BY <1>1, <1>2, <2>1, <2>2, <2>4, AppendExplains, AppendFrozen
  <2>6. issued' = issued + 1 /\ ReadyCount' = 0 /\ FrozenCount' = 0
    BY <1>5 DEF Accept, ReadyCount, FrozenCount, Done
  <2>7. Len(events') > 0 /\ events'[Len(events')] = g
    BY <1>1, <2>1, <2>2
  <2>8. status' = StatusAfter(g.type)
    BY <1>5, <2>1 DEF Accept, StatusAfter, Statuses
  <2> QED BY <1>1, <1>3, <2>5, <2>6, <2>7, <2>8 DEF LedgerInv
<1> QED BY <1>4, <1>5

LEMMA SameLedger ==
  ASSUME LedgerInv, UNCHANGED ledger
  PROVE  LedgerInv'
BY DEF LedgerInv, ledger, rows, ReadyCount, FrozenCount, CompletionsFit

LEMMA BindLedger ==
  ASSUME RailInv, LedgerInv, NEW c, Completion(c), BindCompletion(c)
  PROVE  LedgerInv'
BY RejectLedger, AcceptLedger, SameLedger DEF BindCompletion

LEMMA RecordLedger ==
  ASSUME RailInv, LedgerInv, NEW m \in Manifests, RecordArtifact(m)
  PROVE  LedgerInv'
<1>1. CASE status = "FINAL_QA_READY"
  <2> DEFINE e == FrozenEvent(m)
  <2>1. e \in Events /\ e.type = "ARTIFACT_FROZEN" /\ e.manifest = m
    BY StageCount DEF FrozenEvent, Events, EventTypes
  <2>2. /\ events \in Seq(Events) /\ issued \in Nat /\ Len(completions) \in Nat
        /\ artifact = None
    BY <1>1 DEF RailInv, LedgerTypeOK, ShapeInv
  <2>3. events' = Append(events, e)
    BY <1>1, <2>1, <2>2, Spread DEF RecordArtifact, Log
  <2>4. Explains(events, issued, Len(completions), 1, 0)
    BY <1>1 DEF LedgerInv, ReadyCount, FrozenCount, Done
  <2>5. Legal(e, issued, Len(completions), 1, 0)
    BY <2>1 DEF Legal
  <2>6. Explains(events', issued, Len(completions), 1, 1)
    BY <2>1, <2>2, <2>3, <2>4, <2>5, AppendExplains
  <2>7. Frozen(events') = {m}
    <3>1. Frozen(events) = {}
      BY <2>2 DEF LedgerInv
    <3> QED BY <2>1, <2>2, <2>3, <3>1, AppendFrozen
  <2>8. /\ artifact' = m /\ m # None /\ UNCHANGED <<session, issued, completions>>
        /\ ReadyCount' = 1 /\ FrozenCount' = 1
    BY <1>1, RailAssumption DEF RecordArtifact, ReadyCount, FrozenCount, Done
  <2>9. Len(events') > 0 /\ events'[Len(events')] = e
    BY <2>1, <2>2, <2>3
  <2>10. status' = StatusAfter(e.type)
    BY <1>1, <2>1 DEF RecordArtifact, StatusAfter, Statuses
  <2>11. CompletionsFit'
    BY <2>8 DEF LedgerInv, CompletionsFit
  <2> QED BY <2>6, <2>7, <2>8, <2>9, <2>10, <2>11 DEF LedgerInv
<1>2. CASE UNCHANGED ledger
  BY <1>2, SameLedger
<1> QED BY <1>1, <1>2 DEF RecordArtifact

-----------------------------------------------------------------------------
(* The verification accepts the ledger.                                    *)

LEMMA LedgerAccepted ==
  ASSUME RailInv, LedgerInv
  PROVE  LedgerVerifies
<1> SUFFICES ASSUME status # "ABSENT"
             PROVE  Verifies(status, Len(events))
  BY DEF LedgerVerifies
<1> DEFINE n == Len(events)
<1>1. events \in Seq(Events) /\ n \in Nat /\ n > 0
  BY DEF RailInv, LedgerTypeOK, LedgerInv
<1>2. \A t : Positions(n, t) = Pos(events, n, t)
  BY DEF Positions, Pos
<1>3. ASSUME NEW t, NEW k \in 1 .. n
      PROVE  Before(n, t, k) = Count(events, k - 1, t)
  <2>1. {l \in Pos(events, n, t) : l < k} = Pos(events, k - 1, t)
    BY <1>1 DEF Pos
  <2> QED BY <1>2, <2>1 DEF Before, Count
<1>4. \A k \in 1 .. n : LegalAt(events, k)
  BY DEF LedgerInv, Explains
<1>5. Grammar(n)
  <2>1. Positions(n, "PACKET_PREPARED") # {}
    <3>1. issued > 0
      BY StageCount DEF RailInv, LedgerTypeOK, ShapeInv, Open, Done, Statuses
    <3>2. Cardinality(Pos(events, n, "PACKET_PREPARED")) = issued
      BY DEF LedgerInv, Explains, Total, Count
    <3> QED BY <1>2, <3>1, <3>2, FS_EmptySet
  <2>2. \A t : Positions(n, t) \subseteq 1 .. n /\ \A k \in Positions(n, t) : events[k].type = t
    BY DEF Positions
  <2>3. ASSUME NEW k \in Positions(n, "PACKET_PREPARED")
        PROVE  /\ events[k].input = Before(n, "PACKET_PREPARED", k)
               /\ Before(n, "ACCEPTED", k) = events[k].input
    <3>1. k \in 1 .. n /\ events[k].type = "PACKET_PREPARED"
      BY <2>2
    <3> QED BY <1>3, <1>4, <3>1 DEF LegalAt, Legal
  <2>4. ASSUME NEW k \in Positions(n, "ACCEPTED")
        PROVE  /\ events[k].input = Before(n, "ACCEPTED", k)
               /\ Before(n, "PACKET_PREPARED", k) = events[k].input + 1
    <3>1. k \in 1 .. n /\ events[k].type = "ACCEPTED"
      BY <2>2
    <3> QED BY <1>3, <1>4, <3>1 DEF LegalAt, Legal
  <2>5. ASSUME NEW k \in Positions(n, "FINAL_QA_READY")
        PROVE  Before(n, "ACCEPTED", k) = Len(Stages) /\ Before(n, "FINAL_QA_READY", k) = 0
    <3>1. k \in 1 .. n /\ events[k].type = "FINAL_QA_READY"
      BY <2>2
    <3> QED BY <1>3, <1>4, <3>1 DEF LegalAt, Legal
  <2>6. ASSUME NEW k \in Positions(n, "ARTIFACT_FROZEN")
        PROVE  Before(n, "FINAL_QA_READY", k) = 1 /\ Before(n, "ARTIFACT_FROZEN", k) = 0
    <3>1. k \in 1 .. n /\ events[k].type = "ARTIFACT_FROZEN"
      BY <2>2
    <3> QED BY <1>3, <1>4, <3>1 DEF LegalAt, Legal
  <2> QED BY <2>1, <2>3, <2>4, <2>5, <2>6 DEF Grammar
<1>6. RowsMatch(n)
  <2>1. /\ issued = Cardinality(Positions(n, "PACKET_PREPARED"))
        /\ Len(completions) = Cardinality(Positions(n, "ACCEPTED"))
    BY <1>2 DEF LedgerInv, Explains, Total, Count
  <2>2. {artifact} \ {None} = {events[k].manifest : k \in Positions(n, "ARTIFACT_FROZEN")}
    BY <1>2 DEF LedgerInv, Frozen
  <2> QED BY <2>1, <2>2 DEF RowsMatch, LedgerInv, CompletionsFit
<1> QED BY <1>5, <1>6 DEF Verifies, LedgerInv

-----------------------------------------------------------------------------
(* The theorem.                                                            *)

LEMMA LedgerInitInv == Init => LedgerInv
<1> SUFFICES ASSUME Init PROVE LedgerInv
  OBVIOUS
<1>1. Len(events) = 0 /\ Len(completions) = 0 /\ issued = 0 /\ artifact = None /\ status = "ABSENT"
  BY DEF Init, LedgerInit
<1>2. \A t : Pos(events, 0, t) = {}
  BY DEF Pos
<1>3. \A t : Total(events, t) = 0
  BY <1>1, <1>2, FS_EmptySet DEF Total, Count
<1>4. Frozen(events) = {}
  BY <1>1, <1>2 DEF Frozen
<1> QED BY <1>1, <1>3, <1>4 DEF LedgerInv, Explains, ReadyCount, FrozenCount, Done, CompletionsFit

LEMMA LedgerNextInv ==
  ASSUME IInv, LedgerInv, [Next]_vars
  PROVE  LedgerInv'
<1>1. RailInv /\ TypeOK
  BY DEF IInv, TypeOK, RailInv
<1>2. ASSUME NEW p \in Processes, IssuePacket(p)
      PROVE  LedgerInv'
  BY <1>1, <1>2, IssueFirstLedger, SameLedger DEF IssuePacket, PreparePacket
<1>3. ASSUME NEW p \in Processes, ResolveRecovery(p)
      PROVE  LedgerInv'
  <2>1. Known \subseteq Inputs
    BY <1>1, StageCount DEF RailInv, LedgerTypeOK, Known, Inputs, Unknown, Current
  <2> QED BY <1>1, <1>3, <2>1, HoldLedger, SameLedger DEF ResolveRecovery
<1>4. ASSUME NEW p \in Processes, Submit(p)
      PROVE  LedgerInv'
  <2>1. PICK i \in Known, o \in Operators, s \in Sessions :
          \E pay \in PayloadsOf(Current) :
            BindCompletion([input |-> i, by |-> o, session |-> s, payload |-> pay])
    BY <1>4 DEF Submit
  <2>2. PICK pay \in PayloadsOf(Current) :
          BindCompletion([input |-> i, by |-> o, session |-> s, payload |-> pay])
    BY <2>1
  <2>3. Completion([input |-> i, by |-> o, session |-> s, payload |-> pay])
    BY DEF Completion, PayloadsOf, Payloads
  <2> QED BY <1>1, <2>2, <2>3, BindLedger
<1>5. ASSUME NEW p \in Processes, Record(p)
      PROVE  LedgerInv'
  <2>1. bundle \in Manifests
    BY <1>1, <1>5 DEF Record, IInv, StepInv, TypeOK
  <2> QED BY <1>1, <1>5, <2>1, RecordLedger DEF Record
<1>6. CASE HoldRun \/ CancelRun
  BY <1>1, <1>6, HoldLedger DEF HoldRun, CancelRun
<1>7. ASSUME NEW p \in Processes, Step(p)
      PROVE  LedgerInv'
  BY <1>2, <1>3, <1>4, <1>5, <1>7, SameLedger
     DEF Step, WriteKey, Reads, ReadRow, ReadHead, ReadEvents, ReadRows, LoadJob, StartJob,
         ReadIdentity, Succeed, Publish, Attach, Dismiss
<1>8. ASSUME NEW p \in Processes, Crash(p) \/ \E cmd \in Commands : Begin(p, cmd)
      PROVE  LedgerInv'
  BY <1>8, SameLedger DEF Crash, Begin
<1>9. CASE CancelJob \/ UNCHANGED vars
  BY <1>9, SameLedger DEF CancelJob, vars
<1> QED BY <1>6, <1>7, <1>8, <1>9 DEF Next

\* Whatever processes race or die, the ledger's own verification accepts what
\* the rail wrote: _validate_authenticated_materializations never raises of it.
THEOREM LedgerIsExplained == Spec => []LedgerVerifies
<1>1. Init => LedgerInv
  BY LedgerInitInv
<1>2. IInv /\ LedgerInv /\ [Next]_vars => LedgerInv'
  BY LedgerNextInv
<1>3. IInv /\ LedgerInv => LedgerVerifies
  BY LedgerAccepted DEF IInv, TypeOK, RailInv
<1> QED BY <1>1, <1>2, <1>3, InvHolds, PTL DEF Spec

=============================================================================
