--------------------------- MODULE MCArtifactStore ---------------------------
(* Instances of ArtifactStore for TLC.                                     *)
EXTENDS ArtifactStore

CONSTANTS w1, w2, t1, t2

TwoWriters == {w1, w2}
TwoStamps == {t1, t2}
=============================================================================
