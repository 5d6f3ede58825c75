-------------------------- MODULE NotificationSink --------------------------
(***************************************************************************)
(* services/notifications.py: HermesWebhookSink, shared by the threads of  *)
(* one process.  Everything it knows is in memory; a restarted process has *)
(* a new sink, and repetitions across restarts are the receiver's to       *)
(* recognise by the idempotency key.                                       *)
(*                                                                         *)
(* A step is one block under a lock, one semaphore operation, one          *)
(* assignment another thread may read, or one thing the network does.      *)
(* Validation, privacy checks and signing keep no state: a send they       *)
(* refuse is a Refuse.  Faults of the locks and semaphores themselves,     *)
(* which the code turns into a generic error, are left out.                *)
(***************************************************************************)
EXTENDS Naturals, Sequences, FiniteSets

CONSTANTS
  Senders,        \* threads that call send
  Closers,        \* threads that call close
  Keys,           \* event keys: job, event type, stage and attempt
  Payloads,       \* hashes of what a notification of a key may say
  MaxConcurrent,  \* max_concurrent_deliveries
  MaxPending,     \* max_pending_deliveries
  MaxTracked,     \* max_tracked_events
  MaxSends        \* bound: calls of send in one behaviour

ASSUME SinkAssumption ==
  /\ Keys # {} /\ Payloads # {}
  /\ MaxConcurrent \in Nat /\ MaxPending \in Nat
  /\ MaxTracked \in Nat /\ MaxSends \in Nat

VARIABLES
  lifecycle,      \* "open", "closing" or "closed"
  active,         \* _active_sends
  pending,        \* request slots in use
  busy,           \* transport slots in use
  client,         \* is the HTTP client usable
  states,         \* every _DeliveryState made so far, oldest first
  events,         \* _events: the number in states of a key's current one, 0 for none
  wire,           \* numbers of the states whose request reached the receiver
  lost,           \* of those given up on while their request was on its way
  at,             \* where a sender is in send
  event,          \* the event it sends
  mine,           \* the number of the state it owns or waits for
  won,            \* did its delivery succeed
  receipt,        \* did its last send return a receipt
  closer,         \* where a closer is in close
  sends           \* calls of send so far

sink == <<lifecycle, active, pending, busy, client>>
book == <<states, events>>
sender == <<at, event, mine, won, receipt>>
net == <<wire, lost>>
vars == <<sink, book, net, sender, closer, sends>>

-----------------------------------------------------------------------------
Events == [key : Keys, payload : Payloads]

States == [key : Keys, payload : Payloads,
           status : {"in_flight", "failed", "delivered"}, done : BOOLEAN]

\* The points of send and _send_admitted, named for what comes next:
\*   admit      take a request slot        register  look the key up
\*   wait       for somebody's delivery    transport take a transport slot
\*   posting    the request is out         posted    it reached the receiver
\*   release    give the transport slot back
\*   finish     set the status             signal    set the event
\*   leave      give the request slot back exit      count the send out
Points == {"idle", "admit", "register", "wait", "transport", "posting", "posted",
           "release", "finish", "signal", "leave", "exit"}

AnEvent == [key |-> CHOOSE k \in Keys : TRUE, payload |-> CHOOSE p \in Payloads : TRUE]

CounterTypes ==
  /\ lifecycle \in {"open", "closing", "closed"}
  /\ active \in Nat /\ pending \in Nat /\ busy \in Nat /\ sends \in Nat
  /\ client \in BOOLEAN
  /\ closer \in [Closers -> {"idle", "drain", "shut", "publish", "await"}]

BookTypes ==
  /\ states \in Seq(States)
  /\ events \in [Keys -> Nat]
  /\ wire \subseteq Nat /\ lost \subseteq Nat
  /\ at \in [Senders -> Points]
  /\ event \in [Senders -> Events]
  /\ mine \in [Senders -> Nat]
  /\ won \in [Senders -> BOOLEAN]
  /\ receipt \in [Senders -> BOOLEAN]

TypeOK == CounterTypes /\ BookTypes

Init ==
  /\ lifecycle = "open" /\ client = TRUE
  /\ active = 0 /\ pending = 0 /\ busy = 0 /\ sends = 0
  /\ states = << >> /\ events = [k \in Keys |-> 0] /\ wire = {} /\ lost = {}
  /\ at = [s \in Senders |-> "idle"]
  /\ event = [s \in Senders |-> AnEvent]
  /\ mine = [s \in Senders |-> 0]
  /\ won = [s \in Senders |-> FALSE]
  /\ receipt = [s \in Senders |-> FALSE]
  /\ closer = [c \in Closers |-> "idle"]

At(s, point) == at[s] = point
Goto(s, point) == at' = [at EXCEPT ![s] = point]

\* A send that ends gives a receipt or raises.
Return(s, given) == Goto(s, "leave") /\ receipt' = [receipt EXCEPT ![s] = given]

-----------------------------------------------------------------------------
(* Admission: the lifecycle, then the request slots.                       *)

Enter(s, e) ==
  /\ At(s, "idle")
  /\ lifecycle = "open"
  /\ sends < MaxSends
  /\ sends' = sends + 1
  /\ active' = active + 1
  /\ event' = [event EXCEPT ![s] = e]
  /\ receipt' = [receipt EXCEPT ![s] = FALSE]
  /\ Goto(s, "admit")
  /\ UNCHANGED <<lifecycle, pending, busy, client, book, net, mine, won, closer>>

Admit(s) ==
  /\ At(s, "admit")
  /\ IF pending < MaxPending THEN pending' = pending + 1 /\ Goto(s, "register")
                             ELSE pending' = pending /\ Goto(s, "exit")
  /\ UNCHANGED <<lifecycle, active, busy, client, book, net, event, mine, won, receipt, closer, sends>>

\* The catalog does not approve the event, or the body cannot be made.
Refuse(s) ==
  /\ At(s, "register")
  /\ Return(s, FALSE)
  /\ UNCHANGED <<sink, book, net, event, mine, won, closer, sends>>

-----------------------------------------------------------------------------
(* The block under _delivery_lock: one of five answers for the key.        *)

Current(k) == states[events[k]]
Tracked == Cardinality({k \in Keys : events[k] # 0})

\* Variant: only a delivered notification pins what its key says.
SamePayload_IfDelivered(e) ==
  Current(e.key).status = "delivered" => Current(e.key).payload = e.payload

SamePayload(e) == Current(e.key).payload = e.payload

Conflict(s) ==
  /\ At(s, "register")
  /\ LET e == event[s] IN events[e.key] # 0 /\ ~ SamePayload(e)
  /\ Return(s, FALSE)
  /\ UNCHANGED <<sink, book, net, event, mine, won, closer, sends>>

AlreadyDelivered(s) ==
  /\ At(s, "register")
  /\ LET e == event[s]
     IN events[e.key] # 0 /\ SamePayload(e) /\ Current(e.key).status = "delivered"
  /\ Return(s, TRUE)
  /\ UNCHANGED <<sink, book, net, event, mine, won, closer, sends>>

JoinDelivery(s) ==
  /\ At(s, "register")
  /\ LET e == event[s]
     IN /\ events[e.key] # 0 /\ SamePayload(e) /\ Current(e.key).status = "in_flight"
        /\ mine' = [mine EXCEPT ![s] = events[e.key]]
  /\ Goto(s, "wait")
  /\ UNCHANGED <<sink, book, net, event, won, receipt, closer, sends>>

\* Variant: everything that has not been delivered may be tried again.
MayDeliver_InFlight(e) ==
  IF events[e.key] = 0 THEN Tracked < MaxTracked
                       ELSE SamePayload(e) /\ Current(e.key).status # "delivered"

\* Variant: a key is tried again whatever became of it.
MayDeliver_Again(e) ==
  IF events[e.key] = 0 THEN Tracked < MaxTracked
                       ELSE SamePayload(e) /\ Current(e.key).status # "in_flight"

\* A new key needs room in _events, a failed one is tried again; keys are never
\* forgotten.
MayDeliver(e) ==
  IF events[e.key] = 0 THEN Tracked < MaxTracked
                       ELSE SamePayload(e) /\ Current(e.key).status = "failed"

\* The new state replaces the failed one; who waits for that keeps it.
StartDelivery(s) ==
  /\ At(s, "register")
  /\ MayDeliver(event[s])
  /\ states' = Append(states, [key |-> event[s].key, payload |-> event[s].payload,
                               status |-> "in_flight", done |-> FALSE])
  /\ events' = [events EXCEPT ![event[s].key] = Len(states) + 1]
  /\ mine' = [mine EXCEPT ![s] = Len(states) + 1]
  /\ Goto(s, "transport")
  /\ UNCHANGED <<sink, net, event, won, receipt, closer, sends>>

NoRoom(s) ==
  /\ At(s, "register")
  /\ events[event[s].key] = 0 /\ Tracked >= MaxTracked
  /\ Return(s, FALSE)
  /\ UNCHANGED <<sink, book, net, event, mine, won, closer, sends>>

-----------------------------------------------------------------------------
(* Waiting for somebody else's delivery.                                   *)

\* Variant: a delivery that is over is taken for one that succeeded.
WaitEnds_AnyStatus(s) ==
  /\ At(s, "wait")
  /\ states[mine[s]].done
  /\ Return(s, TRUE)
  /\ UNCHANGED <<sink, book, net, event, mine, won, closer, sends>>

WaitEnds(s) ==
  /\ At(s, "wait")
  /\ states[mine[s]].done
  /\ Return(s, states[mine[s]].status = "delivered")
  /\ UNCHANGED <<sink, book, net, event, mine, won, closer, sends>>

WaitTimesOut(s) ==
  /\ At(s, "wait")
  /\ Return(s, FALSE)
  /\ UNCHANGED <<sink, book, net, event, mine, won, closer, sends>>

-----------------------------------------------------------------------------
(* One's own delivery.                                                     *)

\* Variant: the slot is given back whether or not one was taken.
TakeTransport_ReleaseAnyway(s) ==
  /\ At(s, "transport")
  /\ IF busy < MaxConcurrent
     THEN busy' = busy + 1 /\ Goto(s, "posting") /\ won' = won
     ELSE busy' = busy /\ Goto(s, "release") /\ won' = [won EXCEPT ![s] = FALSE]
  /\ UNCHANGED <<lifecycle, active, pending, client, book, net, event, mine, receipt, closer, sends>>

\* Variant: a delivery that gets no transport slot just ends.
TakeTransport_NoFinish(s) ==
  /\ At(s, "transport")
  /\ IF busy < MaxConcurrent
     THEN busy' = busy + 1 /\ Goto(s, "posting") /\ receipt' = receipt
     ELSE busy' = busy /\ Return(s, FALSE)
  /\ UNCHANGED <<lifecycle, active, pending, client, book, net, event, mine, won, closer, sends>>

TakeTransport(s) ==
  /\ At(s, "transport")
  /\ IF busy < MaxConcurrent
     THEN busy' = busy + 1 /\ Goto(s, "posting") /\ won' = won
     ELSE busy' = busy /\ Goto(s, "finish") /\ won' = [won EXCEPT ![s] = FALSE]
  /\ UNCHANGED <<lifecycle, active, pending, client, book, net, event, mine, receipt, closer, sends>>

ReachReceiver(s) ==
  /\ At(s, "posting")
  /\ wire' = wire \cup {mine[s]}
  /\ Goto(s, "posted")
  /\ UNCHANGED <<sink, book, lost, event, mine, won, receipt, closer, sends>>

\* 202 or 204.
PostSucceeds(s) ==
  /\ At(s, "posted")
  /\ won' = [won EXCEPT ![s] = TRUE]
  /\ Goto(s, "release")
  /\ UNCHANGED <<sink, book, net, event, mine, receipt, closer, sends>>

\* A timeout, a transport error or another status.  The receiver has the request,
\* or nothing was sent, or the request is still on its way.
PostFails(s) ==
  /\ \/ At(s, "posting") /\ lost' \in {lost, lost \cup {mine[s]}}
     \/ At(s, "posted") /\ lost' = lost
  /\ won' = [won EXCEPT ![s] = FALSE]
  /\ Goto(s, "release")
  /\ UNCHANGED <<sink, book, wire, event, mine, receipt, closer, sends>>

ArriveLate(n) ==
  /\ wire' = wire \cup {n}
  /\ lost' = lost \ {n}
  /\ UNCHANGED <<sink, book, sender, closer, sends>>

\* Variant: the slot is given back after a success only.
ReleaseTransport_IfWon(s) ==
  /\ At(s, "release")
  /\ busy' = IF won[s] THEN busy - 1 ELSE busy
  /\ Goto(s, "finish")
  /\ UNCHANGED <<lifecycle, active, pending, client, book, net, event, mine, won, receipt, closer, sends>>

ReleaseTransport(s) ==
  /\ At(s, "release")
  /\ busy' = busy - 1
  /\ Goto(s, "finish")
  /\ UNCHANGED <<lifecycle, active, pending, client, book, net, event, mine, won, receipt, closer, sends>>

\* _finish_state: the status first, without the lock, and then the waiters.
SetStatus(s) ==
  /\ At(s, "finish")
  /\ states' = [states EXCEPT ![mine[s]].status = IF won[s] THEN "delivered" ELSE "failed"]
  /\ Goto(s, "signal")
  /\ UNCHANGED <<sink, events, net, event, mine, won, receipt, closer, sends>>

Signal(s) ==
  /\ At(s, "signal")
  /\ states' = [states EXCEPT ![mine[s]].done = TRUE]
  /\ Return(s, won[s])
  /\ UNCHANGED <<sink, events, net, event, mine, won, closer, sends>>

\* The finally of send.
Leave(s) ==
  /\ At(s, "leave")
  /\ pending' = pending - 1
  /\ Goto(s, "exit")
  /\ UNCHANGED <<lifecycle, active, busy, client, book, net, event, mine, won, receipt, closer, sends>>

Exit(s) ==
  /\ At(s, "exit")
  /\ active' = active - 1
  /\ Goto(s, "idle")
  /\ UNCHANGED <<lifecycle, pending, busy, client, book, net, event, mine, won, receipt, closer, sends>>

-----------------------------------------------------------------------------
(* close.  The client is the sink's own, as it is in production.           *)

CloserAt(c, point) == closer[c] = point
CloserGoto(c, point) == closer' = [closer EXCEPT ![c] = point]

\* The first one closes, another one waits for it; on a closed sink close
\* returns at once.
Close(c) ==
  /\ CloserAt(c, "idle")
  /\ \/ /\ lifecycle = "open" /\ lifecycle' = "closing"
        /\ CloserGoto(c, "drain")
     \/ /\ lifecycle = "closing" /\ lifecycle' = lifecycle
        /\ CloserGoto(c, "await")
  /\ UNCHANGED <<active, pending, busy, client, book, net, sender, sends>>

\* Variant: the sink is shut down although sends are active.
Drained_AtOnce(c) ==
  /\ CloserAt(c, "drain")
  /\ CloserGoto(c, "shut")
  /\ UNCHANGED <<sink, book, net, sender, sends>>

Drained(c) ==
  /\ CloserAt(c, "drain")
  /\ active = 0
  /\ CloserGoto(c, "shut")
  /\ UNCHANGED <<sink, book, net, sender, sends>>

\* Variant: a failure to close the client ends close.
ShutClient_OrRaise(c) ==
  /\ CloserAt(c, "shut")
  /\ client' = FALSE
  /\ CloserGoto(c, "publish") \/ CloserGoto(c, "idle")
  /\ UNCHANGED <<lifecycle, active, pending, busy, book, net, sender, sends>>

ShutClient(c) ==
  /\ CloserAt(c, "shut")
  /\ client' = FALSE
  /\ CloserGoto(c, "publish")
  /\ UNCHANGED <<lifecycle, active, pending, busy, book, net, sender, sends>>

\* Also when the client's own close failed.
PublishClosed(c) ==
  /\ CloserAt(c, "publish")
  /\ lifecycle' = "closed"
  /\ CloserGoto(c, "idle")
  /\ UNCHANGED <<active, pending, busy, client, book, net, sender, sends>>

CloseAwaited(c) ==
  /\ CloserAt(c, "await")
  /\ lifecycle = "closed"
  /\ CloserGoto(c, "idle")
  /\ UNCHANGED <<sink, book, net, sender, sends>>

-----------------------------------------------------------------------------
Register(s) ==
  \/ Refuse(s) \/ Conflict(s) \/ AlreadyDelivered(s)
  \/ JoinDelivery(s) \/ StartDelivery(s) \/ NoRoom(s)

\* Everything a thread inside send comes to by itself; both waits and the
\* request have a timeout.
SendOn(s) ==
  \/ Admit(s) \/ Register(s)
  \/ WaitEnds(s) \/ WaitTimesOut(s)
  \/ TakeTransport(s) \/ ReachReceiver(s) \/ PostSucceeds(s) \/ PostFails(s)
  \/ ReleaseTransport(s) \/ SetStatus(s) \/ Signal(s)
  \/ Leave(s) \/ Exit(s)

CloseOn(c) == Drained(c) \/ ShutClient(c) \/ PublishClosed(c) \/ CloseAwaited(c)

Next ==
  \/ \E s \in Senders : SendOn(s) \/ \E e \in Events : Enter(s, e)
  \/ \E c \in Closers : Close(c) \/ CloseOn(c)
  \/ \E n \in lost : ArriveLate(n)

Spec == Init /\ [][Next]_vars

\* Threads that are inside send or close go on; nobody has to call either.
Fairness ==
  /\ \A s \in Senders : WF_vars(SendOn(s))
  /\ \A c \in Closers : WF_vars(CloseOn(c))

FairSpec == Spec /\ Fairness

-----------------------------------------------------------------------------
Posting(s) == At(s, "posting") \/ At(s, "posted")

\* Two threads never have requests of one key out at the same time.
SingleFlight ==
  \A s, t \in Senders :
    Posting(s) /\ Posting(t) /\ event[s].key = event[t].key => s = t

\* Once a delivery of a key has succeeded no other request of the key is made,
\* whoever asks for it and when (plan: "Completion is delivered exactly once per
\* destination"); what was given up on before may still arrive.
DeliveredOnce ==
  [][\A s \in Senders, m \in 1 .. Len(states) :
       /\ At(s, "transport") /\ at'[s] = "posting"
       /\ states[m].key = event[s].key
       => states[m].status # "delivered"]_vars

\* What reaches the receiver under one key says one thing, also after failures.
OneMessagePerKey ==
  \A m, n \in wire : states[m].key = states[n].key => states[m].payload = states[n].payload

Reached(e) ==
  \E n \in wire : /\ states[n].key = e.key
                  /\ states[n].payload = e.payload
                  /\ states[n].status = "delivered"

\* A thread is told of a delivery only if its own message has reached the
\* receiver, by its own request or by the one it joined or was too late for.
ReceiptIsEarned == \A s \in Senders : receipt[s] => Reached(event[s])

\* The client is not closed under a request, and nothing is sent after close.
ClientOutlivesRequests ==
  ~ client => \A s \in Senders : at[s] \notin {"transport", "posting", "posted"}

\* No path through send keeps a slot or loses one: the counters count the
\* threads that hold something, and the bounds hold.
SlotsBalance ==
  /\ busy = Cardinality({s \in Senders : at[s] \in {"posting", "posted", "release"}})
  /\ pending = Cardinality({s \in Senders : at[s] \notin {"idle", "admit", "exit"}})
  /\ active = Cardinality({s \in Senders : ~ At(s, "idle")})
  /\ busy <= MaxConcurrent /\ pending <= MaxPending

Delivering(s) ==
  at[s] \in {"transport", "posting", "posted", "release", "finish", "signal"}

\* Nobody waits for what nobody will do: a delivery whose event is not set has a
\* thread that will set it, one whose event is set has been decided, and a sink
\* that is closing has a thread that closes it.  Otherwise a key would be taken for
\* in flight for ever, or close would hang.
NothingIsAbandoned ==
  /\ \A n \in 1 .. Len(states) :
       IF states[n].done THEN states[n].status # "in_flight"
                         ELSE \E s \in Senders : Delivering(s) /\ mine[s] = n
  /\ lifecycle = "closing" =>
       \E c \in Closers : closer[c] \in {"drain", "shut", "publish"}

\* Closing ends, however many sends are on their way and whoever they wait for.
CloseEnds == lifecycle = "closing" ~> lifecycle = "closed"

=============================================================================
