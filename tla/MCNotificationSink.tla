------------------------- MODULE MCNotificationSink -------------------------
(* Instances of NotificationSink for TLC.                                  *)
EXTENDS NotificationSink, TLC

CONSTANTS s1, s2, s3, c1, c2, k1, k2, p1, p2

TwoSenders   == {s1, s2}
ThreeSenders == {s1, s2, s3}
OneCloser    == {c1}
TwoClosers   == {c1, c2}
OneKey       == {k1}
TwoKeys      == {k1, k2}
OnePayload   == {p1}
TwoPayloads  == {p1, p2}

\* Interchangeable threads: no safety property names one of them.
ThreadsAlike == Permutations(Senders) \cup Permutations(Closers)
=============================================================================
