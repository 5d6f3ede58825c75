------------------------ MODULE ArtifactStoreProofs ------------------------
(***************************************************************************)
(* The safety of the artifact store, for any writers, clocks, faults and   *)
(* losses of power, and that it implements BundleOnce.  A directory gets   *)
(* its name only when it is whole, and nothing but a loss of power takes a *)
(* name away; what the disk has is what the name stands for.               *)
(***************************************************************************)
EXTENDS ArtifactStore, TLAPS

\* What a writer has staged goes with where it is.
StageInv ==
  \A w \in Writers :
    /\ at[w] = "write" => staging[w] \in Bundles /\ staging[w].files < NumFiles
    /\ at[w] \in {"rename", "race"} => staging[w] \in Whole
    /\ at[w] \notin {"write", "rename", "race"} => staging[w] = None

\* Who has seen the job's directory still sees it.
SeenInv == \A w \in Writers : at[w] \in {"sync", "race", "verify", "bind"} => target # None

DiskInv == PublishedIsComplete /\ (kept # None => kept = target)

IInv == TypeOK /\ StageInv /\ SeenInv /\ DiskInv

-----------------------------------------------------------------------------
LEMMA NoneIsNoBundle == None \notin Bundles /\ None \notin Whole /\ Whole \subseteq Bundles
BY StoreAssumption DEF Bundles, Whole, NumFiles

LEMMA Gone ==
  ASSUME TypeOK, NEW w \in Writers, NEW there \in Points, Go(w, there)
  PROVE  /\ at' \in [Writers -> Points] /\ at'[w] = there
         /\ \A v \in Writers : v # w => at'[v] = at[v]
BY DEF TypeOK, Go

LEMMA Unstaged ==
  ASSUME TypeOK, NEW w \in Writers, Unstage(w)
  PROVE  /\ staging' \in [Writers -> Bundles \cup {None}] /\ staging'[w] = None
         /\ \A v \in Writers : v # w => staging'[v] = staging[v]
BY DEF TypeOK, Unstage

\* A writer gives up, with or without its staging directory.
LEMMA StopInv ==
  ASSUME IInv, NEW w \in Writers, Fails(w) \/ SyncFails(w) \/ Dies(w)
  PROVE  IInv'
<1> USE DEF IInv
<1>1. /\ at' \in [Writers -> Points] /\ at'[w] = "idle"
      /\ \A v \in Writers : v # w => at'[v] = at[v]
  BY Gone DEF Fails, SyncFails, Dies, Points
<1>2. UNCHANGED <<target, kept, bound, behind, losses>>
  BY DEF Fails, SyncFails, Dies
<1>3. /\ staging' \in [Writers -> Bundles \cup {None}] /\ staging'[w] = None
      /\ \A v \in Writers : v # w => staging'[v] = staging[v]
  BY Unstaged DEF Fails, SyncFails, Dies, TypeOK, StageInv
<1>4. faults' = faults + 1
  BY DEF Fails, SyncFails, Dies, Fault, TypeOK
<1>5. TypeOK'
  BY <1>1, <1>2, <1>3, <1>4 DEF TypeOK
<1>6. StageInv' /\ SeenInv' /\ DiskInv'
  BY <1>1, <1>2, <1>3 DEF StageInv, SeenInv, DiskInv, PublishedIsComplete
<1> QED BY <1>5, <1>6

LEMMA LosePowerInv ==
  ASSUME IInv, LosePower
  PROVE  IInv'
<1> USE DEF IInv
<1>1. /\ at' = [w \in Writers |-> "idle"] /\ staging' = [w \in Writers |-> None]
      /\ target' = kept /\ losses' = losses + 1
      /\ UNCHANGED <<kept, bound, behind, faults>>
  BY DEF LosePower
<1>2. TypeOK'
  BY <1>1 DEF TypeOK, Points
<1>3. StageInv' /\ SeenInv'
  BY <1>1 DEF StageInv, SeenInv
<1>4. DiskInv'
  BY <1>1 DEF DiskInv, PublishedIsComplete
<1> QED BY <1>2, <1>3, <1>4

\* A step that moves one writer between points where it has nothing staged.
LEMMA MoveInv ==
  ASSUME IInv, NEW w \in Writers, NEW there \in {"idle", "open", "stage", "verify", "bind"},
         Go(w, there), at[w] \notin {"write", "rename", "race"},
         there \in {"verify", "bind"} => target # None,
         UNCHANGED <<target, staging, behind, faults, losses>>,
         kept' = kept \/ (target # None /\ kept' = target), bound' \in BOOLEAN
  PROVE  IInv'
<1> USE DEF IInv
<1>1. /\ at' \in [Writers -> Points] /\ at'[w] = there
      /\ \A v \in Writers : v # w => at'[v] = at[v]
  BY Gone DEF Points
<1>2. TypeOK'
  BY <1>1 DEF TypeOK
<1>3. StageInv' /\ SeenInv'
  BY <1>1 DEF StageInv, SeenInv
<1>4. DiskInv'
  BY DEF DiskInv, PublishedIsComplete
<1> QED BY <1>2, <1>3, <1>4

LEMMA CreateStagingInv ==
  ASSUME IInv, NEW w \in Writers, CreateStaging(w)
  PROVE  IInv'
<1> USE DEF IInv
<1>1. /\ at' \in [Writers -> Points] /\ at'[w] = "write"
      /\ \A v \in Writers : v # w => at'[v] = at[v]
  BY Gone DEF CreateStaging, Points
<1>2. PICK s \in Stamps : staging' = [staging EXCEPT ![w] = [stamp |-> s, files |-> 0]]
  BY DEF CreateStaging
<1>3. [stamp |-> s, files |-> 0] \in Bundles
  BY DEF Bundles, NumFiles
<1>4. /\ staging' \in [Writers -> Bundles \cup {None}]
      /\ staging'[w] = [stamp |-> s, files |-> 0]
      /\ \A v \in Writers : v # w => staging'[v] = staging[v]
  BY <1>2, <1>3 DEF TypeOK
<1>5. TypeOK'
  BY <1>1, <1>4 DEF CreateStaging, TypeOK
<1>6. StageInv' /\ SeenInv'
  BY <1>1, <1>3, <1>4 DEF CreateStaging, StageInv, SeenInv, NumFiles
<1>7. DiskInv'
  BY DEF CreateStaging, DiskInv, PublishedIsComplete
<1> QED BY <1>5, <1>6, <1>7

LEMMA WriteFileInv ==
  ASSUME IInv, NEW w \in Writers, WriteFile(w)
  PROVE  IInv'
<1> USE DEF IInv
<1>1. staging[w] \in Bundles /\ staging[w].files < NumFiles
  BY DEF WriteFile, StageInv
<1>2. /\ staging' \in [Writers -> Bundles \cup {None}]
      /\ staging'[w] \in Bundles /\ staging'[w].files = staging[w].files + 1
      /\ \A v \in Writers : v # w => staging'[v] = staging[v]
  BY <1>1 DEF WriteFile, TypeOK, Bundles, NumFiles
<1>3. /\ at' \in [Writers -> Points]
      /\ at'[w] = IF staging'[w].files = NumFiles THEN "rename" ELSE "write"
      /\ \A v \in Writers : v # w => at'[v] = at[v]
  BY Gone DEF WriteFile, Points
<1>4. TypeOK'
  BY <1>2, <1>3 DEF WriteFile, TypeOK
<1>5. at'[w] = "rename" => staging'[w] \in Whole
  BY <1>2, <1>3 DEF Bundles, Whole
<1>6. at'[w] = "write" => staging'[w].files < NumFiles
  BY <1>1, <1>2, <1>3 DEF Bundles, NumFiles
<1>7. StageInv' /\ SeenInv'
  BY <1>2, <1>3, <1>5, <1>6 DEF WriteFile, StageInv, SeenInv
<1>8. DiskInv'
  BY DEF WriteFile, DiskInv, PublishedIsComplete
<1> QED BY <1>4, <1>7, <1>8

LEMMA RenameInv ==
  ASSUME IInv, NEW w \in Writers, Rename(w)
  PROVE  IInv'
<1> USE DEF IInv
<1>1. staging[w] \in Whole /\ staging[w] # None
  BY NoneIsNoBundle DEF Rename, StageInv
<1>2. CASE target = None /\ target' = staging[w] /\ Unstage(w) /\ Go(w, "sync")
  <2>1. /\ at' \in [Writers -> Points] /\ at'[w] = "sync"
        /\ \A v \in Writers : v # w => at'[v] = at[v]
    BY <1>2, Gone DEF Points
  <2>2. /\ staging' \in [Writers -> Bundles \cup {None}] /\ staging'[w] = None
        /\ \A v \in Writers : v # w => staging'[v] = staging[v]
    BY <1>2, Unstaged
  <2>3. TypeOK'
    BY <1>1, <1>2, <2>1, <2>2, NoneIsNoBundle DEF Rename, TypeOK
  <2>4. StageInv' /\ SeenInv'
    BY <1>1, <1>2, <2>1, <2>2 DEF StageInv, SeenInv
  <2>5. DiskInv'
    BY <1>1, <1>2 DEF Rename, DiskInv, PublishedIsComplete
  <2> QED BY <2>3, <2>4, <2>5
<1>3. CASE target # None /\ Go(w, "race") /\ UNCHANGED <<target, staging>>
  <2>1. /\ at' \in [Writers -> Points] /\ at'[w] = "race"
        /\ \A v \in Writers : v # w => at'[v] = at[v]
    BY <1>3, Gone DEF Points
  <2>2. TypeOK' /\ StageInv' /\ SeenInv'
    BY <1>1, <1>3, <2>1 DEF Rename, TypeOK, StageInv, SeenInv
  <2>3. DiskInv'
    BY <1>3 DEF Rename, DiskInv, PublishedIsComplete
  <2> QED BY <2>2, <2>3
<1> QED BY <1>2, <1>3 DEF Rename

LEMMA CleanUpInv ==
  ASSUME IInv, NEW w \in Writers, CleanUp(w)
  PROVE  IInv'
<1> USE DEF IInv
<1>1. target # None
  BY DEF CleanUp, SeenInv
<1>2. /\ at' \in [Writers -> Points] /\ at'[w] = "verify"
      /\ \A v \in Writers : v # w => at'[v] = at[v]
  BY Gone DEF CleanUp, Points
<1>3. /\ staging' \in [Writers -> Bundles \cup {None}] /\ staging'[w] = None
      /\ \A v \in Writers : v # w => staging'[v] = staging[v]
  BY Unstaged DEF CleanUp
<1>4. TypeOK'
  BY <1>2, <1>3 DEF CleanUp, TypeOK
<1>5. StageInv' /\ SeenInv'
  BY <1>1, <1>2, <1>3 DEF CleanUp, StageInv, SeenInv
<1>6. DiskInv'
  BY DEF CleanUp, DiskInv, PublishedIsComplete
<1> QED BY <1>4, <1>5, <1>6

LEMMA StepInv ==
  ASSUME IInv, NEW w \in Writers, Begin(w) \/ Step(w)
  PROVE  IInv'
<1>1. CASE Begin(w)
  BY <1>1, MoveInv DEF IInv, TypeOK, Begin
<1>2. CASE OpenTarget(w)
  BY <1>2, MoveInv DEF IInv, TypeOK, OpenTarget
<1>3. CASE SyncJobs(w)
  BY <1>3, MoveInv DEF IInv, TypeOK, SeenInv, SyncJobs
<1>4. CASE VerifyExisting(w)
  BY <1>4, MoveInv DEF IInv, TypeOK, SeenInv, VerifyExisting
<1>5. CASE Bind(w)
  BY <1>5, MoveInv DEF IInv, TypeOK, Bind
<1> QED BY <1>1, <1>2, <1>3, <1>4, <1>5, CreateStagingInv, WriteFileInv, RenameInv, CleanUpInv
        DEF Step

\* What is in nobody's hands: the clock and the operating system.
LEMMA BackgroundInv ==
  ASSUME IInv, WriteBack \/ ClockCatchesUp \/ UNCHANGED vars
  PROVE  IInv'
<1> USE DEF IInv
<1>1. /\ UNCHANGED <<target, staging, bound, at, faults, losses>>
      /\ behind' \in BOOLEAN
      /\ kept' = kept \/ (target # None /\ kept' = target)
  BY DEF WriteBack, ClockCatchesUp, vars, TypeOK, DiskInv
<1> QED BY <1>1 DEF TypeOK, StageInv, SeenInv, DiskInv, PublishedIsComplete

LEMMA InitInv == Init => IInv
<1> SUFFICES ASSUME Init PROVE IInv
  OBVIOUS
<1>1. TypeOK
  BY DEF Init, TypeOK, Points
<1>2. StageInv /\ SeenInv /\ DiskInv
  BY DEF Init, StageInv, SeenInv, DiskInv, PublishedIsComplete
<1> QED BY <1>1, <1>2 DEF IInv

LEMMA NextInv == IInv /\ [Next]_vars => IInv'
BY StepInv, StopInv, LosePowerInv, BackgroundInv DEF Next

LEMMA InvHolds == Spec => []IInv
BY InitInv, NextInv, PTL DEF Spec

-----------------------------------------------------------------------------
\* Every variable keeps its type.
THEOREM StoreTypes == Spec => []TypeOK
<1>1. IInv => TypeOK
  BY DEF IInv
<1> QED BY <1>1, InvHolds, PTL

\* Whatever has the job's name has all five files.
THEOREM BundlesAreWhole == Spec => []PublishedIsComplete
<1>1. IInv => PublishedIsComplete
  BY DEF IInv, DiskInv
<1> QED BY <1>1, InvHolds, PTL

\* A writer has a staging directory only while it stages: publishing and losing
\* the race both end with none.
THEOREM NothingIsLeftBehind == Spec => []NothingLeftBehind
<1>1. IInv => NothingLeftBehind
  BY DEF IInv, StageInv, NothingLeftBehind, OwnPoints
<1> QED BY <1>1, InvHolds, PTL

LEMMA StoreStep ==
  ASSUME IInv, [Next]_vars
  PROVE  [Store!Next]_(Store!vars)
<1> USE DEF IInv, Store!vars
<1>1. ASSUME NEW w \in Writers, Step(w)
      PROVE  [Store!Next]_(Store!vars)
  <2>1. CASE Rename(w)
    <3>1. staging[w] \in Whole
      BY <2>1 DEF Rename, StageInv
    <3> QED BY <2>1, <3>1 DEF Rename, Store!Next, Store!Publish
  <2>2. CASE SyncJobs(w) \/ CleanUp(w)
    <3>1. target # None /\ kept' = target /\ UNCHANGED <<target, bound>>
      BY <2>2 DEF SyncJobs, CleanUp, SeenInv
    <3> QED BY <3>1 DEF Store!Next, Store!Harden
  <2>3. CASE Bind(w)
    <3>1. target # None /\ target \in Whole
      BY <2>3 DEF Bind, SeenInv, DiskInv, PublishedIsComplete
    <3>2. bound' = TRUE
      BY <2>3, <3>1 DEF Bind
    <3> QED BY <2>3, <3>1, <3>2 DEF Bind, Store!Next, Store!Bind
  <2> QED BY <1>1, <2>1, <2>2, <2>3 DEF Step, OpenTarget, CreateStaging, WriteFile, VerifyExisting
<1>2. ASSUME NEW w \in Writers, Begin(w) \/ Fails(w) \/ SyncFails(w) \/ Dies(w)
      PROVE  [Store!Next]_(Store!vars)
  BY <1>2 DEF Begin, Fails, SyncFails, Dies
<1>3. CASE LosePower
  BY <1>3 DEF LosePower, Store!Next, Store!LosePower
<1>4. CASE WriteBack
  <2>1. target # None
    BY <1>4 DEF WriteBack, DiskInv
  <2> QED BY <1>4, <2>1 DEF WriteBack, Store!Next, Store!Harden
<1> QED BY <1>1, <1>2, <1>3, <1>4 DEF Next, ClockCatchesUp, vars

\* The store keeps the whole promise of BundleOnce.
THEOREM StoreImplementsBundleOnce == Spec => OneBundle
<1>1. Init => Store!Init
  BY DEF Init, Store!Init
<1>2. IInv /\ [Next]_vars => [Store!Next]_(Store!vars)
  BY StoreStep
<1> QED BY <1>1, <1>2, InvHolds, PTL DEF Spec, OneBundle, Store!Spec

=============================================================================
