---------------------------- MODULE OperatorRail ----------------------------
(***************************************************************************)
(* What a supervised run promises, whatever its processes do: the stages   *)
(* are delivered one at a time and in order, a cancellation is final, the  *)
(* job succeeds only after the last delivery, and the run is closed once,  *)
(* over the one bundle that was published for the succeeded job.           *)
(***************************************************************************)
EXTENDS Integers

CONSTANTS NumStages, Hashes, None

VARIABLES
  phase,      \* of the run
  delivered,  \* stages delivered
  job,        \* the job's state
  published,  \* the bundle of the job, None before there is one
  closed      \* the bundle the run was closed over

vars == <<phase, delivered, job, published, closed>>

Phases == {"none", "waiting", "held", "canceled", "ready", "closed"}

Init ==
  /\ phase = "none" /\ delivered = 0
  /\ job = "QUEUED"
  /\ published = None /\ closed = None

StartJob == /\ job = "QUEUED" /\ job' = "RUNNING"
            /\ UNCHANGED <<phase, delivered, published, closed>>

CancelJob == /\ job \in {"QUEUED", "RUNNING"} /\ job' = "CANCELED"
             /\ UNCHANGED <<phase, delivered, published, closed>>

OpenRun == /\ phase = "none" /\ job # "QUEUED"
           /\ phase' = "waiting"
           /\ UNCHANGED <<delivered, job, published, closed>>

Deliver == /\ phase = "waiting"
           /\ delivered' = delivered + 1
           /\ phase' = IF delivered' = NumStages THEN "ready" ELSE "waiting"
           /\ UNCHANGED <<job, published, closed>>

Hold == /\ phase = "waiting" /\ phase' = "held"
        /\ UNCHANGED <<delivered, job, published, closed>>

Resume == /\ phase = "held" /\ phase' = "waiting"
          /\ UNCHANGED <<delivered, job, published, closed>>

CancelRun == /\ phase \in {"waiting", "held"} /\ phase' = "canceled"
             /\ UNCHANGED <<delivered, job, published, closed>>

Succeed == /\ phase = "ready" /\ job = "RUNNING"
           /\ job' = "SUCCEEDED"
           /\ UNCHANGED <<phase, delivered, published, closed>>

Publish == /\ job = "SUCCEEDED" /\ published = None
           /\ published' \in Hashes
           /\ UNCHANGED <<phase, delivered, job, closed>>

Close == /\ phase = "ready" /\ published # None
         /\ phase' = "closed" /\ closed' = published
         /\ UNCHANGED <<delivered, job, published>>

Next == \/ StartJob \/ CancelJob \/ OpenRun \/ Deliver \/ Hold \/ Resume
        \/ CancelRun \/ Succeed \/ Publish \/ Close

Spec == Init /\ [][Next]_vars

=============================================================================
