---------------------------- MODULE MCExportSaga ----------------------------
(* Instances of ExportSaga for TLC.                                        *)
EXTENDS ExportSaga, TLC

CONSTANTS t1, t2, c1, c2, c3

TwoTargets == {t1, t2}
OneTarget  == {t1}
TwoCallers == {c1, c2}
ThreeCallers == {c1, c2, c3}

\* One that appends whatever it is sent and whose failed writes are over when
\* they raise; and the mock, which writes a key once, late or not.
PlainAndMock == {[dedups |-> FALSE, late |-> FALSE], [dedups |-> TRUE, late |-> TRUE]}

\* Interchangeable callers: no safety property names one of them.
CallersAlike == Permutations(Callers)
=============================================================================
