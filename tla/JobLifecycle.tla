--------------------------- MODULE JobLifecycle ---------------------------
(***************************************************************************)
(* What the job core promises to whoever approves, pays for and watches a  *)
(* job, with no runner, lease, database row or retry in sight: the frozen  *)
(* transition graph of domain/jobs.py, and when work that costs money may  *)
(* be started and answered for.                                            *)
(*                                                                         *)
(* The graph is domain/jobs.py:50-67 restricted to the states between the  *)
(* paid approval gate and the result.                                      *)
(***************************************************************************)
EXTENDS Naturals

CONSTANTS
  Jobs,
  Operated    \* jobs an operator executes, which start no external run

VARIABLES
  state,      \* state of each job
  attempt,    \* its attempt number
  started     \* the attempts for which external work was ever started

lifecycle == <<state, attempt, started>>

Init ==
  /\ state = [j \in Jobs |-> "AWAITING_PAID_APPROVAL"]
  /\ attempt = [j \in Jobs |-> 1]
  /\ started = [j \in Jobs |-> {}]

Move(j, from, to) == state[j] = from /\ state' = [state EXCEPT ![j] = to]

Queue(j)  == Move(j, "AWAITING_PAID_APPROVAL", "QUEUED") /\ UNCHANGED <<attempt, started>>
Run(j)    == Move(j, "QUEUED", "RUNNING") /\ UNCHANGED <<attempt, started>>
Cancel(j) == /\ \E from \in {"QUEUED", "RUNNING"} : Move(j, from, "CANCELED")
             /\ UNCHANGED <<attempt, started>>

\* External work belongs to the current attempt of a job that left the queue;
\* a cancel that came after the dispatch does not undo it.
Start(j) ==
  /\ state[j] \in {"RUNNING", "CANCELED"}
  /\ started' = [started EXCEPT ![j] = @ \cup {attempt[j]}]
  /\ UNCHANGED <<state, attempt>>

\* A result is the result of work started in this attempt.
Finish(j) ==
  /\ \E to \in {"SUCCEEDED", "FAILED_RETRYABLE", "FAILED_FINAL"} : Move(j, "RUNNING", to)
  /\ attempt[j] \in started[j] \/ j \in Operated
  /\ UNCHANGED <<attempt, started>>

\* Only a retry makes a new attempt.
Retry(j) ==
  /\ Move(j, "FAILED_RETRYABLE", "QUEUED")
  /\ attempt' = [attempt EXCEPT ![j] = @ + 1]
  /\ UNCHANGED started

Next == \E j \in Jobs : \/ Queue(j) \/ Run(j) \/ Cancel(j)
                        \/ Start(j) \/ Finish(j) \/ Retry(j)

Spec == Init /\ [][Next]_lifecycle

=============================================================================
