---------------------------- MODULE MCJobRunner ----------------------------
(* Instances of JobRunner for TLC.                                         *)
EXTENDS JobRunner, TLC

CONSTANTS j1, j2, r1, r2

OneJob == {j1}
TwoJobs == {j1, j2}
OneRunner == {r1}
TwoRunners == {r1, r2}

\* Two users with one job each; or one user whose second job waits for the
\* first (the unique index allows one active job of a creator).
TwoCreators == [j \in Jobs |-> j]
OneCreator  == [j \in Jobs |-> "user"]

AllMock      == [j \in Jobs |-> "mock"]
OneOperated  == [j \in Jobs |-> IF j = j1 THEN "supervised" ELSE "mock"]

AllOutcomes == TerminalStatuses
NoFaults    == {}
AllFaults   == Calls \X FaultKinds
\* Polls fail transiently in every instance: the lease may be too short.
CancelFaults == {<<"cancel", "transient">>}
EachCall     == CancelFaults \cup {<<"submit", "fatal">>, <<"poll", "ambiguous">>}

\* Interchangeable workers: no property names one of them.
RunnersAlike == Permutations(Runners)

AllRequests == {"approve", "cancel", "retry"}
=============================================================================
