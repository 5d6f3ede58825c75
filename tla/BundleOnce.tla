----------------------------- MODULE BundleOnce -----------------------------
(***************************************************************************)
(* What the artifact store promises for one job: its directory gets one    *)
(* bundle, whole, and never another while the machine stays up; what the   *)
(* disk once has it has for good; the job is bound only to what is there.  *)
(***************************************************************************)
CONSTANTS Bundles, None

VARIABLES
  shown,   \* the bundle readers see, or None
  kept,    \* the bundle that outlives a loss of power
  bound    \* whether the job points at it

vars == <<shown, kept, bound>>

Init == shown = None /\ kept = None /\ bound = FALSE

Publish == /\ shown = None
           /\ shown' \in Bundles
           /\ UNCHANGED <<kept, bound>>

Harden == /\ shown # None
          /\ kept' = shown
          /\ UNCHANGED <<shown, bound>>

LosePower == shown' = kept /\ UNCHANGED <<kept, bound>>

Bind == /\ shown # None
        /\ bound' = TRUE
        /\ UNCHANGED <<shown, kept>>

Next == Publish \/ Harden \/ LosePower \/ Bind

Spec == Init /\ [][Next]_vars

=============================================================================
