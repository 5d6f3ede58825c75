----------------------------- MODULE ExportSaga -----------------------------
(***************************************************************************)
(* services/exports.py: the export of one succeeded job to a spreadsheet.  *)
(*                                                                         *)
(* Every key of the export tables starts with the company and the job, so  *)
(* the jobs are independent and one is modelled.  A job that has succeeded *)
(* keeps its state, its snapshot and its artifact, so the checks of those  *)
(* (services/exports.py:304, :435, :560) always pass and the export key,   *)
(* which hashes the job and the artifact, is one value.                    *)
(*                                                                         *)
(* A plan, its fingerprint, its approval and the request to the backend    *)
(* are all determined by the destination and stand for one another here:   *)
(* approve_export keeps one approval of a fingerprint.                     *)
(*                                                                         *)
(* A transaction() holds SQLite's write lock from its first statement      *)
(* (db/connection.py:153) and is one step.  The calls of the backend lie   *)
(* between transactions; anything may happen there.                        *)
(***************************************************************************)
EXTENDS Naturals, Sequences

CONSTANTS
  Targets,        \* destinations: spreadsheet, tab, row selector, columns
  Callers,        \* threads or processes that call execute_export
  Backends,       \* what the sheets backend may be like
  MaxFaults       \* bound: write errors and abandoned calls of one behaviour

VARIABLES
  plans,          \* sheet_export_plans in rowid order
  approved,       \* destinations with a sheet_export row in approval_records
  claims,         \* sheet_export_claims: at most one, never changed
  attempts,       \* sheet_export_attempts: at most one
  receipts,       \* sheet_export_receipts
  minted,         \* number of attempt ids made so far (uuid4 in the code)
  sheet,          \* rows at the backend, each with the write that made it
  late,           \* given-up writes that may still take effect
  kind,           \* what the backend is like, for good
  call,           \* what each caller is doing in execute_export
  faults,
  orphans         \* history: attempts whose writing call was abandoned

tables == <<plans, approved, claims, attempts, receipts, minted>>
backend == <<sheet, late, kind>>
faulty == <<faults, orphans>>
vars == <<tables, backend, call, faulty>>

ASSUME ExportAssumption ==
  /\ Targets # {}
  /\ MaxFaults \in Nat
  /\ Backends \subseteq [dedups : BOOLEAN, late : BOOLEAN]

\* What the service needs of a backend: a write that raised and that a lookup
\* then does not find either never takes effect or takes effect once per key.
ASSUME BackendAssumption == \A b \in Backends : b.dedups \/ ~ b.late

BackendDedups == kind.dedups   \* it writes a row of one export key once, as the mock does
LateEffects   == kind.late     \* a write that was given up may still take effect later

-----------------------------------------------------------------------------
\* A write is known by its attempt id; a row of the sheet by the write that
\* made it, which stands for its exported_at.
Rows == [target : Targets, attempt : Nat]

NoRow == [target |-> CHOOSE t \in Targets : TRUE, attempt |-> 0]

\* A caller between two steps of execute_export:
\*   write     write() is called and has had no effect yet
\*   written   write() has had its effect and has not returned
\*   recheck   write() raised and lookup() decides
\*   lookup    another caller holds the attempt; only lookup() is allowed
\*   release   nothing was found after a failed write
\*   persist   a backend receipt is to be stored
Steps == {"idle", "write", "written", "recheck", "lookup", "release", "persist"}

Calls == [pc : Steps, write : Rows, row : Rows]

Idle == [pc |-> "idle", write |-> NoRow, row |-> NoRow]

TypeOK ==
  /\ plans \in Seq(Targets)
  /\ approved \subseteq Targets
  /\ claims \subseteq Targets
  /\ attempts \subseteq Rows
  /\ receipts \subseteq Rows
  /\ minted \in Nat
  /\ sheet \subseteq Rows
  /\ late \subseteq Rows
  /\ kind \in Backends
  /\ call \in [Callers -> Calls]
  /\ faults \in Nat
  /\ orphans \subseteq Rows

Init ==
  /\ plans = << >>
  /\ approved = {} /\ claims = {} /\ attempts = {} /\ receipts = {}
  /\ minted = 0
  /\ sheet = {} /\ late = {} /\ kind \in Backends
  /\ call = [c \in Callers |-> Idle]
  /\ faults = 0
  /\ orphans = {}

-----------------------------------------------------------------------------
\* The plan with the greatest rowid is the only one that counts.
IsCurrent(t) == plans # << >> /\ plans[Len(plans)] = t

\* Variant: a claimed job may be planned anew.
Prepare_EvenClaimed(t) ==
  /\ \A i \in 1 .. Len(plans) : plans[i] # t
  /\ plans' = Append(plans, t)
  /\ UNCHANGED <<approved, claims, attempts, receipts, minted, backend, call, faulty>>

\* prepare_export.  INSERT OR IGNORE leaves a plan that was made before where it
\* is, so a plan that another one has replaced is refused for ever; asking again
\* for the current one changes nothing.
Prepare(t) ==
  /\ \A k \in claims : k = t
  /\ \A i \in 1 .. Len(plans) : plans[i] # t
  /\ plans' = Append(plans, t)
  /\ UNCHANGED <<approved, claims, attempts, receipts, minted, backend, call, faulty>>

Approve(t) ==
  /\ IsCurrent(t)
  /\ approved' = approved \cup {t}
  /\ UNCHANGED <<plans, claims, attempts, receipts, minted, backend, call, faulty>>

At(c, step) == call[c].pc = step
Writing(c) == call[c].pc \in {"write", "written", "recheck", "release"}
Goto(c, step, w, r) == call' = [call EXCEPT ![c] = [pc |-> step, write |-> w, row |-> r]]
Step(c, step) == Goto(c, step, call[c].write, NoRow)
Leave(c) == Goto(c, "idle", NoRow, NoRow)

-----------------------------------------------------------------------------
\* Variant: another plan may have become the current one since the approval.
MayClaim_AnyPlan(t) ==
  /\ t \in approved
  /\ \A r \in receipts : r.target # t
  /\ \A k \in claims : k = t

\* The first transaction of execute_export: bind the job to this approval, and
\* let one caller write.  An export that has its receipt only looks it up.
MayClaim(t) ==
  /\ t \in approved
  /\ IsCurrent(t)
  /\ \A r \in receipts : r.target # t
  /\ \A k \in claims : k = t

\* Variant: the claim alone lets a caller write, whoever else is writing.
Execute_NoAttempt(c, t) ==
  /\ At(c, "idle")
  /\ MayClaim(t)
  /\ claims' = {t}
  /\ minted' = minted + 1
  /\ attempts' = {[target |-> t, attempt |-> minted + 1]}
  /\ Goto(c, "write", [target |-> t, attempt |-> minted + 1], NoRow)
  /\ UNCHANGED <<plans, approved, receipts, backend, faulty>>

Execute(c, t) ==
  /\ At(c, "idle")
  /\ MayClaim(t)
  /\ claims' = {t}
  /\ \/ /\ attempts = {}
        /\ minted' = minted + 1
        /\ attempts' = {[target |-> t, attempt |-> minted + 1]}
        /\ Goto(c, "write", [target |-> t, attempt |-> minted + 1], NoRow)
     \/ /\ \E a \in attempts :
             a.target = t /\ Goto(c, "lookup", a, NoRow)
        /\ UNCHANGED <<attempts, minted>>
  /\ UNCHANGED <<plans, approved, receipts, backend, faulty>>

\* A row appears, unless the backend already has one of the export key.
RowAppears(w) == sheet' = IF BackendDedups /\ sheet # {} THEN sheet ELSE sheet \cup {w}

TakeEffect(c) ==
  /\ At(c, "write")
  /\ RowAppears(call[c].write)
  /\ Step(c, "written")
  /\ UNCHANGED <<tables, late, kind, faulty>>

\* write() returns the receipt of its row, or of the row the key already has.
WriteReturns(c) ==
  /\ At(c, "written")
  /\ \E r \in sheet :
       /\ BackendDedups \/ r = call[c].write
       /\ r.target = call[c].write.target
       /\ Goto(c, "persist", call[c].write, r)
  /\ UNCHANGED <<tables, backend, faulty>>

\* A write that is given up before it took effect may be lost, or be late.
GivenUp(c) ==
  IF At(c, "write") /\ LateEffects THEN late' \in {late, late \cup {call[c].write}}
                                   ELSE late' = late

WriteRaises(c) ==
  /\ At(c, "write") \/ At(c, "written")
  /\ faults < MaxFaults
  /\ faults' = faults + 1
  /\ GivenUp(c)
  /\ Step(c, "recheck")
  /\ UNCHANGED <<tables, sheet, kind, orphans>>

\* lookup() after a failed write, or instead of one.
LookupFinds(c) ==
  /\ At(c, "recheck") \/ At(c, "lookup")
  /\ \E r \in sheet : /\ r.target = call[c].write.target
                      /\ Goto(c, "persist", call[c].write, r)
  /\ UNCHANGED <<tables, backend, faulty>>

LookupFindsNothing(c) ==
  /\ sheet = {}
  /\ \/ At(c, "recheck") /\ Step(c, "release")
     \/ At(c, "lookup") /\ Leave(c)              \* StateConflict
  /\ UNCHANGED <<tables, backend, faulty>>

\* Variant: a failed write keeps its attempt.
ReleaseAttempt_Kept(c) ==
  /\ At(c, "release")
  /\ Leave(c)
  /\ UNCHANGED <<tables, backend, faulty>>

\* _release_attempt_locked, and the error of write() is raised again; when the
\* attempt is gone already, DataIntegrityError is raised instead.
ReleaseAttempt(c) ==
  /\ At(c, "release")
  /\ attempts' = attempts \ {call[c].write}
  /\ Leave(c)
  /\ UNCHANGED <<plans, approved, claims, receipts, minted, backend, faulty>>

\* Variant: the receipt is stored whoever holds the attempt.
MayStore_AnyAttempt(c) ==
  /\ call[c].write.target \in claims
  /\ \A r \in receipts : r.target # call[c].write.target

\* _persist_receipt_locked.  A receipt that is there already is only compared;
\* one whose attempt is not this caller's is refused with DataIntegrityError.
MayStore(c) ==
  /\ call[c].write.target \in claims
  /\ \A r \in receipts : r.target # call[c].write.target
  /\ call[c].write \in attempts

\* Variant: only the destination is stored.
PersistReceipt_DestinationOnly(c) ==
  /\ At(c, "persist")
  /\ IF MayStore(c) THEN /\ receipts' = receipts \cup {call[c].row.target}
                         /\ attempts' = attempts \ {call[c].write}
                    ELSE UNCHANGED <<receipts, attempts>>
  /\ Leave(c)
  /\ UNCHANGED <<plans, approved, claims, minted, backend, faulty>>

PersistReceipt(c) ==
  /\ At(c, "persist")
  /\ IF MayStore(c) THEN /\ receipts' = receipts \cup {call[c].row}
                         /\ attempts' = attempts \ {call[c].write}
                    ELSE UNCHANGED <<receipts, attempts>>
  /\ Leave(c)
  /\ UNCHANGED <<plans, approved, claims, minted, backend, faulty>>

-----------------------------------------------------------------------------
\* The caller's process ends, or lookup(), the check of the backend's receipt or
\* SQLite raises: the call is gone and the attempt stays.
Abandon(c) ==
  /\ ~ At(c, "idle")
  /\ faults < MaxFaults
  /\ faults' = faults + 1
  /\ GivenUp(c)
  /\ orphans' = IF Writing(c) THEN orphans \cup {call[c].write} ELSE orphans
  /\ Leave(c)
  /\ UNCHANGED <<tables, sheet, kind>>

LateEffect ==
  /\ \E w \in late : RowAppears(w) /\ late' = late \ {w}
  /\ UNCHANGED <<tables, kind, call, faulty>>

\* What a caller does by itself once it is in execute_export.
Proceed(c) ==
  \/ TakeEffect(c) \/ WriteReturns(c)
  \/ LookupFinds(c) \/ LookupFindsNothing(c)
  \/ ReleaseAttempt(c) \/ PersistReceipt(c)

Next ==
  \/ \E t \in Targets : Prepare(t) \/ Approve(t) \/ \E c \in Callers : Execute(c, t)
  \/ \E c \in Callers : Proceed(c) \/ WriteRaises(c) \/ Abandon(c)
  \/ LateEffect

Spec == Init /\ [][Next]_vars

\* Somebody asks again for an export that has no receipt yet, and a caller that
\* is inside execute_export goes on.  Plans, approvals and faults are not owed.
Fairness ==
  /\ \A c \in Callers : WF_vars(Proceed(c))
  /\ WF_vars(\E c \in Callers, t \in Targets : Execute(c, t))

FairSpec == Spec /\ Fairness

-----------------------------------------------------------------------------
\* However many callers, retries and failed writes, the sheet gets one row
\* (plan: "Duplicate callback or retry must not append duplicate rows").
AtMostOneRow == \A r, s \in sheet : r = s

\* Two callers are never both inside write(): the row of sheet_export_attempts
\* keeps the second one out, also after a failed call, a release and a retry.
OneWriter ==
  \A c, d \in Callers :
    (/\ At(c, "write") \/ At(c, "written")
     /\ At(d, "write") \/ At(d, "written")) => c = d

\* Whatever reaches the sheet, early or late, went to the destination that the
\* latest plan names and that was approved, although plans and approvals may
\* change between the approval and the claim.
RowIsApprovedPlan ==
  \A r \in sheet \cup late : r.target \in approved /\ IsCurrent(r.target)

\* A stored receipt is the receipt of a row that is there, so that asking again
\* answers it instead of DataIntegrityError; and no attempt is left that would
\* let somebody write after it.
ReceiptIsFinal ==
  receipts # {} => receipts = sheet /\ attempts = {}

\* The only way in which an export fails for good: the call that may write was
\* abandoned before its write took effect, so that its attempt stays and every
\* later caller is refused the write.
Stranded == sheet = {} /\ attempts \cap orphans # {}

\* An export that was claimed and has no receipt can be asked for again, and the
\* next call finds it free, finds its row, or comes while somebody holds the
\* attempt; or else the export is stranded.
ClaimIsResumable ==
  claims # {} /\ receipts = {} =>
    /\ \A t \in claims : MayClaim(t) /\ \A r \in sheet \cup attempts : r.target = t
    /\ \/ attempts = {} \/ sheet # {} \/ Stranded
       \/ \E c \in Callers : Writing(c) /\ call[c].write \in attempts

\* An export that has been claimed gets its receipt, whatever callers compete
\* and whichever writes fail, unless it is stranded.
ExportCompletes == claims # {} ~> receipts # {} \/ Stranded

Once == INSTANCE ExportOnce WITH receipt <- receipts

\* All of this is one promise to the owner of the sheet (ExportOnce).
ExportOnceSpec == Once!Spec

=============================================================================
