---------------------------- MODULE MCSupervised ----------------------------
(***************************************************************************)
(* Instances of SupervisedSubscription for TLC.                            *)
(***************************************************************************)
EXTENDS SupervisedSubscription, TLC

CONSTANTS p1, p2, o1, s1, s2, m1, m2

TwoProcesses == {p1, p2}
OneOperator == {o1}
OneSession == {s1}
OneManifest == {m1}
TwoSessions == {s1, s2}
TwoManifests == {m1, m2}

Alike == Permutations(Processes) \cup Permutations(Sessions) \cup Permutations(Manifests)

=============================================================================
