-------------------------- MODULE ExportSagaProofs --------------------------
(***************************************************************************)
(* The safety of the export saga, for any callers, destinations and        *)
(* faults, and that it implements ExportOnce.  The argument rests on two   *)
(* facts: only one caller at a time is on its way to or from write(), and  *)
(* with a backend that appends what it is sent, an attempt is given back   *)
(* only while the sheet is empty.                                          *)
(*                                                                         *)
(* Then that a claim can be taken up again: an attempt is given back, or   *)
(* leaves its row, unless the call that held it was abandoned.             *)
(***************************************************************************)
EXTENDS ExportSaga, TLAPS

\* A claim binds the job to an approved plan that stays the current one.
PlanInv ==
  /\ claims \subseteq approved
  /\ \A k \in claims : IsCurrent(k)

\* There is one attempt, of the claimed destination, and none after a receipt.
AttemptInv ==
  /\ \A a \in attempts : a.target \in claims
  /\ \A a, b \in attempts : a = b
  /\ receipts # {} => attempts = {}

\* The caller that may write owns the attempt until somebody has the receipt.
CallInv ==
  \A c \in Callers :
    /\ ~ At(c, "idle") => call[c].write.target \in claims
    /\ Writing(c) => call[c].write \in attempts \/ receipts # {}
    /\ At(c, "persist") => call[c].row \in sheet

OwnerInv == \A c, d \in Callers : Writing(c) /\ Writing(d) => c = d

SheetInv ==
  /\ \A r \in sheet \cup late : r.target \in claims
  /\ AtMostOneRow
  /\ receipts \subseteq sheet
  /\ ~ LateEffects => late = {}

\* What replaces the backend's own check where it makes none.
PlainInv ==
  ~ BackendDedups =>
    /\ receipts = {} => sheet \subseteq attempts
    /\ \A c \in Callers : At(c, "write") \/ At(c, "release") => sheet = {}

IInv ==
  /\ TypeOK
  /\ PlanInv /\ AttemptInv /\ CallInv /\ OwnerInv /\ SheetInv /\ PlainInv

-----------------------------------------------------------------------------
LEMMA NoRowIsRow == NoRow \in Rows /\ Idle \in Calls
  BY ExportAssumption DEF NoRow, Idle, Rows, Calls, Steps

\* What Goto does to the callers.
LEMMA Moved ==
  ASSUME TypeOK, NEW c \in Callers, NEW s \in Steps, NEW w \in Rows, NEW r \in Rows,
         Goto(c, s, w, r)
  PROVE  /\ call' \in [Callers -> Calls]
         /\ call'[c].pc = s /\ call'[c].write = w /\ call'[c].row = r
         /\ \A d \in Callers : d # c => call'[d] = call[d]
<1>1. [pc |-> s, write |-> w, row |-> r] \in Calls
  BY DEF Calls
<1> QED BY <1>1 DEF TypeOK, Goto

-----------------------------------------------------------------------------
LEMMA InitInv == Init => IInv
<1> SUFFICES ASSUME Init PROVE IInv
  OBVIOUS
<1>1. TypeOK
  <2>1. << >> \in Seq(Targets)
    OBVIOUS
  <2> QED BY <2>1, NoRowIsRow DEF Init, TypeOK
<1>2. \A c \in Callers : call[c] = Idle
  BY DEF Init
<1>3. PlanInv /\ AttemptInv /\ SheetInv
  BY DEF Init, PlanInv, AttemptInv, SheetInv, LateEffects, AtMostOneRow
<1>4. CallInv /\ OwnerInv /\ PlainInv
  BY <1>2 DEF Init, CallInv, OwnerInv, PlainInv, BackendDedups, At, Writing, Idle
<1> QED BY <1>1, <1>3, <1>4 DEF IInv

LEMMA PrepareInv ==
  ASSUME IInv, NEW t \in Targets, Prepare(t)
  PROVE  IInv'
<1> USE DEF IInv
<1>1. claims = {}
  <2> SUFFICES ASSUME NEW k \in claims PROVE FALSE
    OBVIOUS
  <2>1. k = t /\ plans \in Seq(Targets) /\ IsCurrent(k)
    BY DEF Prepare, PlanInv, TypeOK
  <2>2. Len(plans) \in 1 .. Len(plans) /\ plans[Len(plans)] = t
    BY <2>1 DEF IsCurrent
  <2> QED BY <2>2 DEF Prepare
<1>2. plans' \in Seq(Targets) /\ UNCHANGED <<approved, claims, attempts, receipts, minted, sheet, late, kind, call, faults, orphans>>
  BY DEF Prepare, TypeOK, backend, faulty
<1>3. TypeOK'
  BY <1>2 DEF TypeOK
<1>4. PlanInv'
  BY <1>1, <1>2 DEF PlanInv
<1>5. AttemptInv' /\ CallInv' /\ OwnerInv' /\ SheetInv' /\ PlainInv'
  BY <1>2 DEF AttemptInv, CallInv, OwnerInv, SheetInv, LateEffects, PlainInv, BackendDedups, At, Writing, AtMostOneRow
<1> QED BY <1>3, <1>4, <1>5

LEMMA ApproveInv ==
  ASSUME IInv, NEW t \in Targets, Approve(t)
  PROVE  IInv'
<1> USE DEF IInv
<1>1. approved' = approved \cup {t} /\ UNCHANGED <<plans, claims, attempts, receipts, minted, sheet, late, kind, call, faults, orphans>>
  BY DEF Approve, backend, faulty
<1>2. TypeOK' /\ PlanInv'
  BY <1>1 DEF TypeOK, PlanInv, IsCurrent
<1>3. AttemptInv' /\ CallInv' /\ OwnerInv' /\ SheetInv' /\ PlainInv'
  BY <1>1 DEF AttemptInv, CallInv, OwnerInv, SheetInv, LateEffects, PlainInv, BackendDedups, At, Writing, AtMostOneRow
<1> QED BY <1>2, <1>3

\* Before a receipt no row is there that the claim does not know of.
LEMMA MayClaimNoReceipt ==
  ASSUME IInv, NEW t, MayClaim(t)
  PROVE  receipts = {}
  BY DEF IInv, MayClaim, SheetInv, LateEffects

LEMMA ExecuteInv ==
  ASSUME IInv, NEW c \in Callers, NEW t \in Targets, Execute(c, t)
  PROVE  IInv'
<1> USE DEF IInv
<1>1. receipts = {}
  BY MayClaimNoReceipt DEF Execute
<1>2. /\ UNCHANGED <<plans, approved, receipts, sheet, late, kind, faults, orphans>>
      /\ claims' = {t} /\ claims \subseteq {t} /\ t \in approved /\ IsCurrent(t)
      /\ call[c].pc = "idle"
  BY DEF Execute, MayClaim, backend, faulty, At
<1>3. PlanInv'
  BY <1>2 DEF PlanInv, IsCurrent
<1>4. SheetInv'
  BY <1>2 DEF SheetInv, LateEffects, AtMostOneRow
<1>5. CASE attempts = {} /\ minted' = minted + 1
           /\ attempts' = {[target |-> t, attempt |-> minted + 1]}
           /\ Goto(c, "write", [target |-> t, attempt |-> minted + 1], NoRow)
  <2>1. PICK w \in Rows :
          w.target = t /\ attempts' = {w} /\ Goto(c, "write", w, NoRow)
    <3>1. [target |-> t, attempt |-> minted + 1] \in Rows
      BY DEF TypeOK, Rows
    <3> QED BY <1>5, <3>1
  <2>2. /\ call' \in [Callers -> Calls]
        /\ call'[c].pc = "write" /\ call'[c].write = w
        /\ \A d \in Callers : d # c => call'[d] = call[d]
    BY <2>1, Moved, NoRowIsRow DEF Steps
  <2>3. TypeOK'
    BY <1>2, <1>5, <2>1, <2>2 DEF TypeOK
  <2>4. \A d \in Callers : ~ Writing(d)
    BY <1>1, <1>5 DEF CallInv
  <2>5. AttemptInv'
    BY <1>1, <1>2, <2>1 DEF AttemptInv
  <2>6. CallInv'
    BY <1>2, <2>1, <2>2, <2>4 DEF CallInv, At, Writing
  <2>7. OwnerInv'
    BY <2>2, <2>4 DEF OwnerInv, Writing
  <2>8. PlainInv'
    BY <1>1, <1>2, <1>5, <2>1, <2>2, <2>4 DEF PlainInv, BackendDedups, At
  <2> QED BY <1>3, <1>4, <2>3, <2>5, <2>6, <2>7, <2>8
<1>6. CASE UNCHANGED <<attempts, minted>>
           /\ \E a \in attempts : a.target = t /\ Goto(c, "lookup", a, NoRow)
  <2>1. PICK a \in attempts : a.target = t /\ Goto(c, "lookup", a, NoRow)
    BY <1>6
  <2>2. /\ call' \in [Callers -> Calls]
        /\ call'[c].pc = "lookup" /\ call'[c].write = a
        /\ \A d \in Callers : d # c => call'[d] = call[d]
    BY <2>1, Moved, NoRowIsRow DEF Steps, TypeOK
  <2>3. TypeOK'
    BY <1>2, <1>6, <2>2 DEF TypeOK
  <2>4. AttemptInv'
    BY <1>2, <1>6 DEF AttemptInv
  <2>5. CallInv'
    BY <1>2, <1>6, <2>1, <2>2 DEF CallInv, At, Writing
  <2>6. OwnerInv'
    BY <2>2 DEF OwnerInv, Writing
  <2>7. PlainInv'
    BY <1>2, <1>6, <2>2 DEF PlainInv, BackendDedups, At
  <2> QED BY <1>3, <1>4, <2>3, <2>4, <2>5, <2>6, <2>7
<1> QED BY <1>5, <1>6 DEF Execute

\* A caller's step that leaves the tables alone and takes it to s with its own
\* write, or out of execute_export.
LEMMA SameTables ==
  ASSUME IInv, NEW c \in Callers, ~ At(c, "idle"),
         NEW s \in Steps, NEW w \in Rows, NEW r \in Rows, Goto(c, s, w, r),
         UNCHANGED tables, UNCHANGED sheet, UNCHANGED kind,
         \/ s = "idle"
         \/ /\ w = call[c].write
            /\ s \in {"written", "recheck", "release"} => Writing(c)
            /\ s \in {"written", "recheck", "release", "persist"}
            /\ s = "persist" => r \in sheet
            /\ s = "release" => sheet = {},
         late' \subseteq late \cup (IF LateEffects THEN {call[c].write} ELSE {}),
         faults' \in Nat, orphans' \subseteq orphans \cup {call[c].write}
  PROVE  IInv'
<1> USE DEF IInv
<1>1. /\ call' \in [Callers -> Calls]
      /\ call'[c].pc = s /\ call'[c].write = w /\ call'[c].row = r
      /\ \A d \in Callers : d # c => call'[d] = call[d]
  BY Moved
<1>2. /\ UNCHANGED <<plans, approved, claims, attempts, receipts, minted>>
      /\ call[c].write \in Rows /\ call[c].write.target \in claims
  BY DEF tables, TypeOK, Calls, CallInv
<1>3. TypeOK' /\ PlanInv'
  BY <1>1, <1>2 DEF TypeOK, PlanInv, IsCurrent
<1>4. AttemptInv'
  BY <1>2 DEF AttemptInv
<1>5. SheetInv'
  BY <1>2 DEF SheetInv, LateEffects, AtMostOneRow
<1>6. CallInv'
  BY <1>1, <1>2 DEF CallInv, At, Writing
<1>7. OwnerInv'
  BY <1>1 DEF OwnerInv, Writing
<1>8. PlainInv'
  BY <1>1, <1>2 DEF PlainInv, BackendDedups, At
<1> QED BY <1>3, <1>4, <1>5, <1>6, <1>7, <1>8

\* With a backend that appends, nobody else is before its write when a row appears.
LEMMA TakeEffectInv ==
  ASSUME IInv, NEW c \in Callers, TakeEffect(c)
  PROVE  IInv'
<1> USE DEF IInv
<1> DEFINE w == call[c].write
<1>1. At(c, "write") /\ w \in Rows /\ w.target \in claims /\ Writing(c)
  BY DEF TakeEffect, TypeOK, Calls, CallInv, At, Writing
<1>2. /\ call' \in [Callers -> Calls]
      /\ call'[c].pc = "written" /\ call'[c].write = w
      /\ \A d \in Callers : d # c => call'[d] = call[d]
  BY <1>1, Moved, NoRowIsRow DEF TakeEffect, Step, Steps
<1>3. UNCHANGED <<plans, approved, claims, attempts, receipts, minted, late, kind, faults, orphans>>
  BY DEF TakeEffect, tables, faulty
<1>4. sheet' = sheet \/ (sheet = {} /\ sheet' = {w})
  BY <1>1 DEF TakeEffect, RowAppears, BackendDedups, PlainInv
<1>5. TypeOK' /\ PlanInv'
  BY <1>1, <1>2, <1>3, <1>4 DEF TypeOK, PlanInv, IsCurrent
<1>6. AttemptInv' /\ SheetInv'
  BY <1>1, <1>3, <1>4 DEF AttemptInv, SheetInv, LateEffects, AtMostOneRow
<1>7. CallInv'
  BY <1>1, <1>2, <1>3, <1>4 DEF CallInv, At, Writing
<1>8. OwnerInv'
  BY <1>1, <1>2 DEF OwnerInv, Writing
<1>9. PlainInv'
  <2> SUFFICES ASSUME ~ BackendDedups PROVE
        /\ receipts' = {} => sheet' \subseteq attempts'
        /\ \A d \in Callers : ~ At(d, "write")' /\ ~ At(d, "release")'
    BY <1>3 DEF PlainInv, BackendDedups
  <2>1. \A d \in Callers : d # c => ~ At(d, "write") /\ ~ At(d, "release")
    BY <1>1 DEF OwnerInv, Writing, At
  <2>2. receipts = {} => sheet' \subseteq attempts
    BY <1>1, <1>4 DEF CallInv, PlainInv, BackendDedups
  <2> QED BY <1>2, <1>3, <2>1, <2>2 DEF At
<1> QED BY <1>5, <1>6, <1>7, <1>8, <1>9

LEMMA WriteReturnsInv ==
  ASSUME IInv, NEW c \in Callers, WriteReturns(c)
  PROVE  IInv'
<1>1. PICK r \in sheet : Goto(c, "persist", call[c].write, r)
  BY DEF WriteReturns
<1>2. ~ At(c, "idle") /\ r \in Rows /\ call[c].write \in Rows
  BY DEF WriteReturns, At, IInv, TypeOK, Calls
<1>3. UNCHANGED <<tables, sheet, late, kind, faults, orphans>>
  BY DEF WriteReturns, backend, faulty
<1>4. faults \in Nat
  BY DEF IInv, TypeOK
<1> QED BY <1>1, <1>2, <1>3, <1>4, SameTables DEF Steps

LEMMA WriteRaisesInv ==
  ASSUME IInv, NEW c \in Callers, WriteRaises(c)
  PROVE  IInv'
<1>1. Goto(c, "recheck", call[c].write, NoRow)
  BY DEF WriteRaises, Step
<1>2. ~ At(c, "idle") /\ Writing(c) /\ call[c].write \in Rows
  BY DEF WriteRaises, At, Writing, IInv, TypeOK, Calls
<1>3. UNCHANGED <<tables, sheet, kind, orphans>> /\ faults' \in Nat
  BY DEF WriteRaises, IInv, TypeOK
<1>4. late' \subseteq late \cup (IF LateEffects THEN {call[c].write} ELSE {})
  BY DEF WriteRaises, GivenUp
<1> QED BY <1>1, <1>2, <1>3, <1>4, NoRowIsRow, SameTables DEF Steps

LEMMA LookupFindsInv ==
  ASSUME IInv, NEW c \in Callers, LookupFinds(c)
  PROVE  IInv'
<1>1. PICK r \in sheet : Goto(c, "persist", call[c].write, r)
  BY DEF LookupFinds
<1>2. ~ At(c, "idle") /\ r \in Rows /\ call[c].write \in Rows
  BY DEF LookupFinds, At, IInv, TypeOK, Calls
<1>3. UNCHANGED <<tables, sheet, late, kind, faults, orphans>>
  BY DEF LookupFinds, backend, faulty
<1>4. faults \in Nat
  BY DEF IInv, TypeOK
<1> QED BY <1>1, <1>2, <1>3, <1>4, SameTables DEF Steps

LEMMA LookupFindsNothingInv ==
  ASSUME IInv, NEW c \in Callers, LookupFindsNothing(c)
  PROVE  IInv'
<1>1. ~ At(c, "idle") /\ call[c].write \in Rows /\ sheet = {}
  BY DEF LookupFindsNothing, At, IInv, TypeOK, Calls
<1>2. UNCHANGED <<tables, sheet, late, kind, faults, orphans>>
  BY DEF LookupFindsNothing, backend, faulty
<1>3. faults \in Nat
  BY DEF IInv, TypeOK
<1>4. CASE At(c, "recheck") /\ Goto(c, "release", call[c].write, NoRow)
  <2>1. Writing(c)
    BY <1>4 DEF At, Writing
  <2> QED BY <1>1, <1>2, <1>3, <1>4, <2>1, NoRowIsRow, SameTables DEF Steps
<1>5. CASE Goto(c, "idle", NoRow, NoRow)
  BY <1>1, <1>2, <1>3, <1>5, NoRowIsRow, SameTables DEF Steps
<1> QED BY <1>4, <1>5 DEF LookupFindsNothing, Step, Leave

LEMMA AbandonInv ==
  ASSUME IInv, NEW c \in Callers, Abandon(c)
  PROVE  IInv'
<1>1. Goto(c, "idle", NoRow, NoRow) /\ ~ At(c, "idle")
  BY DEF Abandon, Leave
<1>2. UNCHANGED <<tables, sheet, kind>> /\ faults' \in Nat
      /\ orphans' \subseteq orphans \cup {call[c].write}
  BY DEF Abandon, IInv, TypeOK
<1>3. late' \subseteq late \cup (IF LateEffects THEN {call[c].write} ELSE {})
  BY DEF Abandon, GivenUp
<1> QED BY <1>1, <1>2, <1>3, NoRowIsRow, SameTables DEF Steps

\* Nobody but the owner gives the attempt back, and only over an empty sheet.
LEMMA ReleaseAttemptInv ==
  ASSUME IInv, NEW c \in Callers, ReleaseAttempt(c)
  PROVE  IInv'
<1> USE DEF IInv
<1>1. At(c, "release") /\ Writing(c)
  BY DEF ReleaseAttempt, At, Writing
<1>2. /\ call' \in [Callers -> Calls]
      /\ call'[c].pc = "idle"
      /\ \A d \in Callers : d # c => call'[d] = call[d]
  BY Moved, NoRowIsRow DEF ReleaseAttempt, Leave, Steps
<1>3. /\ UNCHANGED <<plans, approved, claims, receipts, minted, sheet, late, kind, faults, orphans>>
      /\ attempts' = attempts \ {call[c].write}
  BY DEF ReleaseAttempt, backend, faulty
<1>4. TypeOK' /\ PlanInv'
  BY <1>2, <1>3 DEF TypeOK, PlanInv, IsCurrent
<1>5. AttemptInv' /\ SheetInv'
  BY <1>3 DEF AttemptInv, SheetInv, LateEffects, AtMostOneRow
<1>6. OwnerInv'
  BY <1>2 DEF OwnerInv, Writing
<1>7. CallInv'
  <2>1. \A d \in Callers : d # c => ~ Writing(d)
    BY <1>1 DEF OwnerInv
  <2> QED BY <1>2, <1>3, <2>1 DEF CallInv, At, Writing
<1>8. PlainInv'
  BY <1>1, <1>2, <1>3 DEF PlainInv, BackendDedups, At
<1> QED BY <1>4, <1>5, <1>6, <1>7, <1>8

\* A receipt is stored for the row on the sheet, and it takes the attempt away.
LEMMA StoreEffect ==
  ASSUME IInv, NEW c \in Callers, PersistReceipt(c)
  PROVE  \/ UNCHANGED <<receipts, attempts>>
         \/ receipts = {} /\ receipts' = sheet /\ sheet # {} /\ attempts' = {}
<1> USE DEF IInv
<1>1. At(c, "persist") /\ call[c].row \in sheet
  BY DEF PersistReceipt, CallInv
<1>2. CASE MayStore(c)
  <2>1. call[c].write \in attempts
    BY <1>2 DEF MayStore
  <2>2. receipts = {} /\ attempts = {call[c].write}
    BY <2>1 DEF AttemptInv
  <2>3. sheet = {call[c].row}
    BY <1>1 DEF SheetInv, LateEffects, AtMostOneRow
  <2> QED BY <1>2, <2>2, <2>3 DEF PersistReceipt
<1> QED BY <1>2 DEF PersistReceipt

LEMMA PersistReceiptInv ==
  ASSUME IInv, NEW c \in Callers, PersistReceipt(c)
  PROVE  IInv'
<1> USE DEF IInv
<1>1. /\ call' \in [Callers -> Calls]
      /\ call'[c].pc = "idle"
      /\ \A d \in Callers : d # c => call'[d] = call[d]
  BY Moved, NoRowIsRow DEF PersistReceipt, Leave, Steps
<1>2. /\ UNCHANGED <<plans, approved, claims, minted, sheet, late, kind, faults, orphans>>
      /\ \/ UNCHANGED <<receipts, attempts>>
         \/ receipts = {} /\ receipts' = sheet /\ sheet # {} /\ attempts' = {}
  BY StoreEffect DEF PersistReceipt, backend, faulty
<1>3. TypeOK' /\ PlanInv'
  BY <1>1, <1>2 DEF TypeOK, PlanInv, IsCurrent
<1>4. AttemptInv' /\ SheetInv'
  BY <1>2 DEF AttemptInv, SheetInv, LateEffects, AtMostOneRow
<1>5. CallInv' /\ OwnerInv'
  BY <1>1, <1>2 DEF CallInv, OwnerInv, At, Writing
<1>6. PlainInv'
  BY <1>1, <1>2 DEF PlainInv, BackendDedups, At
<1> QED BY <1>3, <1>4, <1>5, <1>6

\* Only a backend that writes a key once has effects that come late.
LEMMA LateEffectInv ==
  ASSUME IInv, LateEffect
  PROVE  IInv'
<1> USE DEF IInv
<1>1. PICK w \in late : RowAppears(w) /\ late' = late \ {w}
  BY DEF LateEffect
<1>2. BackendDedups
  BY <1>1, BackendAssumption DEF SheetInv, LateEffects, BackendDedups, TypeOK
<1>3. sheet' = sheet \/ (sheet = {} /\ sheet' = {w})
  BY <1>1, <1>2 DEF RowAppears, BackendDedups
<1>4. UNCHANGED <<plans, approved, claims, attempts, receipts, minted, kind, call, faults, orphans>>
  BY DEF LateEffect, tables, faulty
<1>5. TypeOK' /\ PlanInv'
  BY <1>1, <1>3, <1>4 DEF TypeOK, PlanInv, IsCurrent
<1>6. AttemptInv' /\ SheetInv'
  BY <1>1, <1>3, <1>4 DEF AttemptInv, SheetInv, LateEffects, AtMostOneRow
<1>7. CallInv' /\ OwnerInv' /\ PlainInv'
  BY <1>2, <1>3, <1>4 DEF CallInv, OwnerInv, PlainInv, BackendDedups, At, Writing
<1> QED BY <1>5, <1>6, <1>7

LEMMA StutterInv ==
  ASSUME IInv, UNCHANGED vars
  PROVE  IInv'
BY DEF IInv, vars, tables, backend, faulty, TypeOK, PlanInv, AttemptInv, CallInv, OwnerInv,
       SheetInv, LateEffects, PlainInv, BackendDedups, IsCurrent, At, Writing, AtMostOneRow

LEMMA NextInv == IInv /\ [Next]_vars => IInv'
<1> SUFFICES ASSUME IInv, [Next]_vars PROVE IInv'
  OBVIOUS
<1>1. ASSUME NEW t \in Targets, Prepare(t) \/ Approve(t) PROVE IInv'
  BY <1>1, PrepareInv, ApproveInv
<1>2. ASSUME NEW t \in Targets, NEW c \in Callers, Execute(c, t) PROVE IInv'
  BY <1>2, ExecuteInv
<1>3. ASSUME NEW c \in Callers, Proceed(c) PROVE IInv'
  BY <1>3, TakeEffectInv, WriteReturnsInv, LookupFindsInv, LookupFindsNothingInv,
     ReleaseAttemptInv, PersistReceiptInv DEF Proceed
<1>4. ASSUME NEW c \in Callers, WriteRaises(c) \/ Abandon(c) PROVE IInv'
  BY <1>4, WriteRaisesInv, AbandonInv
<1> QED BY <1>1, <1>2, <1>3, <1>4, LateEffectInv, StutterInv DEF Next

THEOREM InvHolds == Spec => []IInv
  BY InitInv, NextInv, PTL DEF Spec

-----------------------------------------------------------------------------
\* Every variable keeps its type, whatever the callers and the backend do.
THEOREM SagaTypes == Spec => []TypeOK
<1>1. IInv => TypeOK
  BY DEF IInv
<1> QED BY <1>1, InvHolds, PTL

\* The sheet never gets a second row of the job, for any number of callers,
\* retries and failures, with either kind of backend BackendAssumption allows.
THEOREM RowIsUnique == Spec => []AtMostOneRow
<1>1. IInv => AtMostOneRow
  BY DEF IInv, SheetInv, LateEffects
<1> QED BY <1>1, InvHolds, PTL

\* The attempt row keeps all but one caller out of write().
THEOREM WritersExclude == Spec => []OneWriter
<1>1. IInv => OneWriter
  BY DEF IInv, OwnerInv, OneWriter, Writing, At
<1> QED BY <1>1, InvHolds, PTL

\* Whatever reaches the sheet went where the latest, approved plan says.
THEOREM RowIsApproved == Spec => []RowIsApprovedPlan
<1>1. IInv => RowIsApprovedPlan
  BY DEF IInv, PlanInv, SheetInv, LateEffects, RowIsApprovedPlan
<1> QED BY <1>1, InvHolds, PTL

\* A receipt is the receipt of the one row, and ends all writing.
THEOREM ReceiptIsLast == Spec => []ReceiptIsFinal
<1>1. IInv => ReceiptIsFinal
  BY DEF IInv, AttemptInv, SheetInv, LateEffects, AtMostOneRow, ReceiptIsFinal
<1> QED BY <1>1, InvHolds, PTL

-----------------------------------------------------------------------------
\* A step of the saga seen from the sheet: the row appears, a receipt is stored,
\* a destination is approved, or nothing happens.
LEMMA SagaStep ==
  ASSUME IInv, [Next]_vars
  PROVE  [Once!Next]_(Once!export)
<1> USE DEF IInv, Once!export
<1>1. ASSUME NEW t \in Targets, Prepare(t) \/ Approve(t)
      PROVE  [Once!Next]_(Once!export)
  <2>1. CASE Prepare(t)
    BY <2>1 DEF Prepare, backend
  <2>2. CASE Approve(t)
    <3>1. UNCHANGED <<sheet, receipts>> /\ approved' = approved \cup {t} /\ IsCurrent(t)
      BY <2>2 DEF Approve, backend
    <3>2. CASE sheet = {}
      BY <3>1, <3>2 DEF Once!Next, Once!Approve
    <3>3. CASE sheet # {}
      <4>1. PICK k \in claims : k \in approved /\ IsCurrent(k)
        BY <3>3 DEF SheetInv, LateEffects, PlanInv
      <4>2. t \in approved
        BY <3>1, <4>1 DEF IsCurrent
      <4> QED BY <3>1, <4>2
    <3> QED BY <3>2, <3>3
  <2> QED BY <1>1, <2>1, <2>2
<1>2. ASSUME NEW t \in Targets, NEW c \in Callers, Execute(c, t)
      PROVE  [Once!Next]_(Once!export)
  BY <1>2 DEF Execute, backend
<1>3. ASSUME NEW w \in Rows, w.target \in claims, UNCHANGED <<approved, receipts>>,
             sheet' = sheet \/ (sheet = {} /\ sheet' = {w})
      PROVE  [Once!Next]_(Once!export)
  BY <1>3 DEF PlanInv, Once!Next, Once!Write
<1>4. ASSUME NEW c \in Callers, Proceed(c)
      PROVE  [Once!Next]_(Once!export)
  <2>1. CASE TakeEffect(c)
    <3>1. call[c].write \in Rows /\ call[c].write.target \in claims
      BY <2>1 DEF TakeEffect, TypeOK, Calls, CallInv, At
    <3>2. UNCHANGED <<approved, receipts>>
      BY <2>1 DEF TakeEffect, tables
    <3>3. sheet' = sheet \/ (sheet = {} /\ sheet' = {call[c].write})
      BY <2>1 DEF TakeEffect, RowAppears, BackendDedups, PlainInv
    <3> QED BY <1>3, <3>1, <3>2, <3>3
  <2>2. CASE PersistReceipt(c)
    <3>1. UNCHANGED <<approved, sheet>>
      BY <2>2 DEF PersistReceipt, backend
    <3> QED BY <2>2, <3>1, StoreEffect DEF Once!Next, Once!Record
  <2> QED BY <1>4, <2>1, <2>2
          DEF Proceed, WriteReturns, LookupFinds, LookupFindsNothing, ReleaseAttempt,
              tables, backend
<1>5. ASSUME NEW c \in Callers, WriteRaises(c) \/ Abandon(c)
      PROVE  [Once!Next]_(Once!export)
  BY <1>5 DEF WriteRaises, Abandon, tables
<1>6. CASE LateEffect
  <2>1. PICK w \in late : RowAppears(w)
    BY <1>6 DEF LateEffect
  <2>2. BackendDedups /\ w \in Rows /\ w.target \in claims
    BY BackendAssumption DEF SheetInv, LateEffects, BackendDedups, TypeOK
  <2>3. UNCHANGED <<approved, receipts>>
    BY <1>6 DEF LateEffect, tables
  <2> QED BY <1>3, <2>1, <2>2, <2>3 DEF RowAppears, BackendDedups
<1>7. CASE UNCHANGED vars
  BY <1>7 DEF vars, tables, backend
<1> QED BY <1>1, <1>2, <1>4, <1>5, <1>6, <1>7 DEF Next

\* The saga keeps the whole promise of ExportOnce.
THEOREM SagaImplementsExportOnce == Spec => ExportOnceSpec
<1>1. Init => Once!Init
  BY DEF Init, Once!Init
<1>2. IInv /\ [Next]_vars => [Once!Next]_(Once!export)
  BY SagaStep
<1> QED BY <1>1, <1>2, InvHolds, PTL DEF Spec, ExportOnceSpec, Once!Spec

-----------------------------------------------------------------------------
(* The attempt is the lock of the export: whoever takes it gives it back,  *)
(* leaves a row on the sheet, or was abandoned.                            *)

HeldInv ==
  receipts = {} =>
    \/ attempts = {} \/ sheet # {} \/ Stranded
    \/ \E c \in Callers : Writing(c) /\ call[c].write \in attempts

\* A step that keeps the attempt, and a writer too unless it is an orphan now.
LEMMA StillHeld ==
  ASSUME HeldInv, UNCHANGED <<attempts, receipts>>, orphans \subseteq orphans',
         sheet # {} => sheet' # {},
         \A c \in Callers : Writing(c) =>
           \/ Writing(c)' /\ call'[c].write = call[c].write
           \/ call[c].write \in orphans'
  PROVE  HeldInv'
<1>1. CASE receipts # {} \/ attempts = {} \/ sheet # {}
  BY <1>1 DEF HeldInv
<1>2. CASE attempts \cap orphans # {}
  <2>1. attempts' \cap orphans' # {}
    BY <1>2
  <2> QED BY <2>1 DEF HeldInv, Stranded
<1>3. ASSUME NEW c \in Callers, Writing(c), call[c].write \in attempts
      PROVE  HeldInv'
  <2>1. CASE Writing(c)' /\ call'[c].write = call[c].write
    BY <1>3, <2>1 DEF HeldInv
  <2>2. CASE call[c].write \in orphans'
    <3>1. attempts' \cap orphans' # {}
      BY <1>3, <2>2
    <3> QED BY <3>1 DEF HeldInv, Stranded
  <2> QED BY <1>3, <2>1, <2>2
<1> QED BY <1>1, <1>2, <1>3 DEF HeldInv, Stranded

\* The caller goes on with the write it has, or was not writing.
LEMMA GoesOnHeld ==
  ASSUME IInv, HeldInv, NEW c \in Callers, NEW s \in Steps, NEW w \in Rows, NEW r \in Rows,
         Goto(c, s, w, r), UNCHANGED <<attempts, receipts, orphans>>,
         sheet # {} => sheet' # {},
         Writing(c) => /\ s \in {"write", "written", "recheck", "release"}
                       /\ w = call[c].write
  PROVE  HeldInv'
<1>1. /\ call'[c].pc = s /\ call'[c].write = w
      /\ \A d \in Callers : d # c => call'[d] = call[d]
  BY Moved DEF IInv
<1>2. ASSUME NEW d \in Callers, Writing(d)
      PROVE  Writing(d)' /\ call'[d].write = call[d].write
  <2>1. CASE d = c
    BY <1>1, <1>2, <2>1 DEF Writing
  <2>2. CASE d # c
    BY <1>1, <1>2, <2>2 DEF Writing
  <2> QED BY <2>1, <2>2
<1> QED BY <1>2, StillHeld

LEMMA RowEndsIt ==
  ASSUME sheet' # {}
  PROVE  HeldInv'
BY DEF HeldInv

LEMMA ExecuteHeld ==
  ASSUME IInv, HeldInv, NEW c \in Callers, NEW t \in Targets, Execute(c, t)
  PROVE  HeldInv'
<1>1. ~ Writing(c) /\ UNCHANGED <<receipts, sheet, orphans>>
  BY DEF Execute, At, Writing, backend, faulty
<1>2. NoRow \in Rows /\ {"write", "lookup"} \subseteq Steps /\ TypeOK
  BY NoRowIsRow DEF Steps, IInv
<1>3. ASSUME NEW w \in Rows, attempts' = {w}, Goto(c, "write", w, NoRow)
      PROVE  HeldInv'
  <2>1. call'[c].pc = "write" /\ call'[c].write = w
    BY <1>2, <1>3, Moved
  <2>2. Writing(c)' /\ call'[c].write \in attempts'
    BY <1>3, <2>1 DEF Writing
  <2> QED BY <2>2 DEF HeldInv
<1>4. ASSUME NEW a \in attempts, Goto(c, "lookup", a, NoRow), UNCHANGED attempts
      PROVE  HeldInv'
  <2>1. a \in Rows
    BY <1>2 DEF TypeOK
  <2> QED BY <1>1, <1>2, <1>4, <2>1, GoesOnHeld
<1>5. [target |-> t, attempt |-> minted + 1] \in Rows
  BY <1>2 DEF TypeOK, Rows
<1> QED BY <1>3, <1>4, <1>5 DEF Execute

LEMMA ProceedHeld ==
  ASSUME IInv, HeldInv, NEW c \in Callers, Proceed(c)
  PROVE  HeldInv'
<1>1. /\ NoRow \in Rows /\ {"idle", "release"} \subseteq Steps
      /\ call[c] \in Calls /\ call[c].write \in Rows
  BY NoRowIsRow DEF Steps, IInv, TypeOK, Calls
<1>2. CASE TakeEffect(c)
  BY <1>2, RowEndsIt DEF TakeEffect, RowAppears
<1>3. CASE WriteReturns(c) \/ LookupFinds(c)
  BY <1>3, RowEndsIt DEF WriteReturns, LookupFinds, backend
<1>4. CASE LookupFindsNothing(c)
  <2>1. UNCHANGED <<attempts, receipts, orphans, sheet>>
    BY <1>4 DEF LookupFindsNothing, tables, backend, faulty
  <2>2. CASE Step(c, "release")
    BY <1>1, <2>1, <2>2, GoesOnHeld DEF Step
  <2>3. CASE At(c, "lookup") /\ Leave(c)
    <3>1. ~ Writing(c)
      BY <2>3 DEF At, Writing
    <3> QED BY <1>1, <2>1, <2>3, <3>1, GoesOnHeld DEF Leave
  <2> QED BY <1>4, <2>2, <2>3 DEF LookupFindsNothing
<1>5. CASE ReleaseAttempt(c)
  <2>1. Writing(c) /\ attempts' = attempts \ {call[c].write} /\ UNCHANGED receipts
    BY <1>5 DEF ReleaseAttempt, At, Writing
  <2>2. receipts = {} => attempts' = {}
    BY <2>1 DEF IInv, CallInv, AttemptInv
  <2> QED BY <2>1, <2>2 DEF HeldInv
<1>6. CASE PersistReceipt(c)
  <2>1. sheet' = sheet /\ call[c].row \in sheet
    BY <1>6 DEF PersistReceipt, backend, IInv, CallInv
  <2> QED BY <2>1, RowEndsIt
<1> QED BY <1>2, <1>3, <1>4, <1>5, <1>6 DEF Proceed

LEMMA FaultHeld ==
  ASSUME IInv, HeldInv, NEW c \in Callers, WriteRaises(c) \/ Abandon(c)
  PROVE  HeldInv'
<1>1. /\ NoRow \in Rows /\ {"idle", "recheck"} \subseteq Steps
      /\ call[c] \in Calls /\ call[c].write \in Rows
  BY NoRowIsRow DEF Steps, IInv, TypeOK, Calls
<1>2. CASE WriteRaises(c)
  <2>1. UNCHANGED <<attempts, receipts, orphans, sheet>>
    BY <1>2 DEF WriteRaises, tables
  <2> QED BY <1>1, <1>2, <2>1, GoesOnHeld DEF WriteRaises, Step
<1>3. CASE Abandon(c)
  <2>1. /\ UNCHANGED <<attempts, receipts, sheet>> /\ orphans \subseteq orphans'
        /\ Writing(c) => call[c].write \in orphans'
    BY <1>3 DEF Abandon, tables
  <2>2. \A d \in Callers : d # c => call'[d] = call[d]
    BY <1>1, <1>3, Moved DEF Abandon, Leave, IInv
  <2>3. \A d \in Callers : d # c /\ Writing(d) => Writing(d)' /\ call'[d].write = call[d].write
    BY <2>2 DEF Writing
  <2> QED BY <2>1, <2>3, StillHeld
<1> QED BY <1>2, <1>3

LEMMA NextHeld ==
  ASSUME IInv, HeldInv, [Next]_vars
  PROVE  HeldInv'
<1>1. ASSUME NEW t \in Targets, Prepare(t) \/ Approve(t) PROVE HeldInv'
  <2>1. UNCHANGED <<attempts, receipts, orphans, sheet, call>>
    BY <1>1 DEF Prepare, Approve, backend, faulty
  <2> QED BY <2>1, StillHeld DEF Writing
<1>2. CASE LateEffect
  BY <1>2, RowEndsIt DEF LateEffect, RowAppears
<1>3. CASE UNCHANGED vars
  BY <1>3, StillHeld DEF vars, tables, backend, faulty, Writing
<1> QED BY <1>1, <1>2, <1>3, ExecuteHeld, ProceedHeld, FaultHeld DEF Next

\* The first transaction of execute_export accepts a claimed export again until
\* it has its receipt, and what it meets is a free attempt, a row to look up, the
\* call that holds the attempt or one that was abandoned.
THEOREM ClaimsAreResumable == Spec => []ClaimIsResumable
<1>1. Init => HeldInv
  BY DEF Init, HeldInv
<1>2. IInv /\ HeldInv => ClaimIsResumable
  <2> SUFFICES ASSUME IInv, HeldInv, claims # {}, receipts = {}
               PROVE  /\ \A t \in claims : /\ MayClaim(t)
                                           /\ \A r \in sheet \cup attempts : r.target = t
                      /\ \/ attempts = {} \/ sheet # {} \/ Stranded
                         \/ \E c \in Callers : Writing(c) /\ call[c].write \in attempts
    BY DEF ClaimIsResumable
  <2>1. \A t \in claims : IsCurrent(t) /\ t \in approved /\ \A k \in claims : k = t
    BY DEF IInv, PlanInv, IsCurrent
  <2>2. \A r \in sheet \cup attempts : r.target \in claims
    BY DEF IInv, SheetInv, AttemptInv
  <2> QED BY <2>1, <2>2 DEF HeldInv, MayClaim
<1>3. IInv /\ HeldInv /\ [Next]_vars => HeldInv'
  BY NextHeld
<1> QED BY <1>1, <1>2, <1>3, InvHolds, PTL DEF Spec
=============================================================================
