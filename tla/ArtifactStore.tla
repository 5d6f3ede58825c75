---------------------------- MODULE ArtifactStore ----------------------------
(***************************************************************************)
(* services/artifacts.py: ArtifactStore.write_bundle by several writers of *)
(* one succeeded job (a worker that finalises it, the same worker after a  *)
(* restart, a supervised finalizer run twice) and the binding of the job to*)
(* what they published (JobService.bind_artifact_manifest).                *)
(*                                                                         *)
(* Every writer computes the same four payloads from the recorded result;  *)
(* the manifest differs by the created_at its writer's clock gave, so a    *)
(* bundle is that stamp and how many of the five files it has.  An fsync   *)
(* of a directory is what takes its entries to the disk; the operating     *)
(* system may do so earlier.  The job's row is in a database with          *)
(* synchronous=FULL: a commit is on the disk.                              *)
(***************************************************************************)
EXTENDS Integers

CONSTANTS
  Writers,    \* calls of write_bundle that may be under way at once
  Stamps,     \* readings of the artifact clock
  None,
  MaxFaults,  \* bound on calls that fail and writers that die
  MaxLosses   \* bound on losses of power

ASSUME StoreAssumption ==
  /\ MaxFaults \in Nat /\ MaxLosses \in Nat
  /\ None \notin [stamp : Stamps, files : 0 .. 5]

VARIABLES
  target,   \* the job's artifact directory, None when there is none
  kept,     \* that entry as it is on the disk
  staging,  \* the staging directory of each writer, or None
  bound,    \* jobs.artifact_manifest_path is set
  behind,   \* the clock has not reached the job's finished_at
  at,       \* where each writer is
  faults, losses

vars == <<target, kept, staging, bound, behind, at, faults, losses>>

NumFiles == 5   \* _ARTIFACT_NAMES

Bundles == [stamp : Stamps, files : 0 .. NumFiles]
Whole == [stamp : Stamps, files : {NumFiles}]

Points == {"idle", "open", "stage", "write", "rename", "sync", "race", "verify", "bind"}

TypeOK ==
  /\ target \in Bundles \cup {None} /\ kept \in Bundles \cup {None}
  /\ staging \in [Writers -> Bundles \cup {None}]
  /\ bound \in BOOLEAN /\ behind \in BOOLEAN
  /\ at \in [Writers -> Points]
  /\ faults \in Nat /\ losses \in Nat

Init ==
  /\ target = None /\ kept = None
  /\ staging = [w \in Writers |-> None]
  /\ bound = FALSE /\ behind \in BOOLEAN
  /\ at = [w \in Writers |-> "idle"]
  /\ faults = 0 /\ losses = 0

Go(w, there) == at' = [at EXCEPT ![w] = there]
Unstage(w) == staging' = [staging EXCEPT ![w] = None]
Fault == faults < MaxFaults /\ faults' = faults + 1

-----------------------------------------------------------------------------
(* write_bundle                                                            *)

Begin(w) ==
  /\ at[w] = "idle" /\ Go(w, "open")
  /\ UNCHANGED <<target, kept, staging, bound, behind, faults, losses>>

\* Variant: a directory that is there already is refused.
OpenTarget_MustBeNew(w) ==
  /\ at[w] = "open"
  /\ Go(w, IF target # None \/ behind THEN "idle" ELSE "stage")
  /\ UNCHANGED <<target, kept, staging, bound, behind, faults, losses>>

\* A bundle that is there already is verified and not written again; a clock
\* behind finished_at refuses to write.
OpenTarget(w) ==
  /\ at[w] = "open"
  /\ Go(w, IF target # None THEN "verify" ELSE IF behind THEN "idle" ELSE "stage")
  /\ UNCHANGED <<target, kept, staging, bound, behind, faults, losses>>

CreateStaging(w) ==
  /\ at[w] = "stage"
  /\ \E s \in Stamps : staging' = [staging EXCEPT ![w] = [stamp |-> s, files |-> 0]]
  /\ Go(w, "write")
  /\ UNCHANGED <<target, kept, bound, behind, faults, losses>>

\* Variant: it goes on until a write finds nothing to do.
WriteFile_OneMore(w) ==
  /\ at[w] = "write"
  /\ staging' = [staging EXCEPT ![w].files = @ + 1]
  /\ Go(w, IF staging'[w].files > NumFiles THEN "rename" ELSE "write")
  /\ UNCHANGED <<target, kept, bound, behind, faults, losses>>

\* One file, created exclusively and synced.  After the last one the directory
\* is sealed, synced and validated twice.
WriteFile(w) ==
  /\ at[w] = "write"
  /\ staging' = [staging EXCEPT ![w].files = @ + 1]
  /\ Go(w, IF staging'[w].files = NumFiles THEN "rename" ELSE "write")
  /\ UNCHANGED <<target, kept, bound, behind, faults, losses>>

\* Variant: the directory gets its name before its last file.
Rename_Early(w) ==
  /\ at[w] \in {"write", "rename"}
  /\ IF target = None THEN target' = staging[w] /\ Unstage(w) /\ Go(w, "sync")
                      ELSE Go(w, "race") /\ UNCHANGED <<target, staging>>
  /\ UNCHANGED <<kept, bound, behind, faults, losses>>

\* Variant: rename without RENAME_NOREPLACE.
Rename_Replaces(w) ==
  /\ at[w] = "rename"
  /\ target' = staging[w] /\ Unstage(w) /\ Go(w, "sync")
  /\ UNCHANGED <<kept, bound, behind, faults, losses>>

\* _rename_noreplace
Rename(w) ==
  /\ at[w] = "rename"
  /\ IF target = None THEN target' = staging[w] /\ Unstage(w) /\ Go(w, "sync")
                      ELSE Go(w, "race") /\ UNCHANGED <<target, staging>>
  /\ UNCHANGED <<kept, bound, behind, faults, losses>>

\* The published name is taken to the disk.
SyncJobs(w) ==
  /\ at[w] = "sync"
  /\ kept' = target /\ Go(w, "verify")
  /\ UNCHANGED <<target, staging, bound, behind, faults, losses>>

\* _cleanup_staging after a lost race; its fsync is of the same directory, so
\* it keeps the winner's name too.
CleanUp(w) ==
  /\ at[w] = "race"
  /\ Unstage(w) /\ kept' = target
  /\ Go(w, "verify")
  /\ UNCHANGED <<target, bound, behind, faults, losses>>

\* _verified_existing_manifest: whole, and of this job and result.
VerifyExisting(w) ==
  /\ at[w] = "verify"
  /\ Go(w, IF target \in Whole THEN "bind" ELSE "idle")
  /\ UNCHANGED <<target, kept, staging, bound, behind, faults, losses>>

\* bind_artifact_manifest verifies again inside its transaction; a job that is
\* bound already stays so.
Bind(w) ==
  /\ at[w] = "bind"
  /\ bound' = (bound \/ target \in Whole)
  /\ Go(w, "idle")
  /\ UNCHANGED <<target, kept, staging, behind, faults, losses>>

-----------------------------------------------------------------------------
(* What goes wrong                                                         *)

\* An OSError elsewhere ends the call, which first tries to remove its directory.
\* What it cannot remove, or a writer that dies leaves, has a random name that
\* nothing looks at again.
Fails(w) ==
  /\ at[w] \notin {"idle", "sync"} /\ Fault
  /\ Unstage(w) /\ Go(w, "idle")
  /\ UNCHANGED <<target, kept, bound, behind, losses>>

\* The fsync after the rename fails: the call raises with the name published.
SyncFails(w) ==
  /\ at[w] = "sync" /\ Fault /\ Go(w, "idle")
  /\ UNCHANGED <<target, kept, staging, bound, behind, losses>>

Dies(w) ==
  /\ at[w] # "idle" /\ Fault
  /\ Unstage(w) /\ Go(w, "idle")
  /\ UNCHANGED <<target, kept, bound, behind, losses>>

\* Every writer dies, and names that no fsync covered may be gone.
LosePower ==
  /\ losses < MaxLosses /\ losses' = losses + 1
  /\ target' = kept
  /\ staging' = [w \in Writers |-> None]
  /\ at' = [w \in Writers |-> "idle"]
  /\ UNCHANGED <<kept, bound, behind, faults>>

\* The operating system writes directories back when it likes.
WriteBack ==
  /\ kept # target /\ kept' = target
  /\ UNCHANGED <<target, staging, bound, behind, at, faults, losses>>

ClockCatchesUp ==
  /\ behind /\ behind' = FALSE
  /\ UNCHANGED <<target, kept, staging, bound, at, faults, losses>>

Step(w) ==
  \/ OpenTarget(w) \/ CreateStaging(w) \/ WriteFile(w) \/ Rename(w) \/ SyncJobs(w)
  \/ CleanUp(w) \/ VerifyExisting(w) \/ Bind(w)

Next ==
  \/ \E w \in Writers : Begin(w) \/ Step(w) \/ Fails(w) \/ SyncFails(w) \/ Dies(w)
  \/ LosePower \/ WriteBack \/ ClockCatchesUp

Spec == Init /\ [][Next]_vars

\* A writer that runs goes on, a job without a manifest is finalised again, and
\* time passes.
FairSpec ==
  /\ Spec
  /\ \A w \in Writers : WF_vars(Step(w)) /\ WF_vars(Begin(w))
  /\ WF_vars(ClockCatchesUp)

-----------------------------------------------------------------------------
(* Properties                                                              *)

\* Whoever died and whatever was lost, a directory under the job's name has
\* all five files.
PublishedIsComplete == target # None => target \in Whole

\* Where a writer has a directory of its own: made, and neither published nor
\* cleaned up.
OwnPoints == {"write", "rename", "race"}

\* A writer that has published its bundle, lost the race for the name or found a
\* bundle there has no staging directory any more: whoever goes on to verify and
\* bind, or begins again, leaves nothing behind.
NothingLeftBehind == \A w \in Writers : staging[w] # None => at[w] \in OwnPoints

\* One bundle, never replaced while the machine is up, kept for good once it
\* is on the disk, and bound only when it is there.
Store == INSTANCE BundleOnce WITH
           Bundles <- Whole, shown <- target, kept <- kept, bound <- bound
OneBundle == Store!Spec

\* The finalisation of a succeeded job ends in spite of writers that died at
\* any of its steps: the next one verifies what it finds and binds it.
BoundAtLast == <>bound

\* What the docstrings say: the manifest is attached durably, so a bound job
\* has its bundle on the disk.
BoundIsDurable == bound => kept # None

=============================================================================
