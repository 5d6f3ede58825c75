----------------------- MODULE NotificationSinkProofs -----------------------
(***************************************************************************)
(* The safety of the deliveries of NotificationSink, for any number of     *)
(* threads, keys and slots.  The argument: a thread that delivers owns the *)
(* state it made, that state is in flight and is its key's current one,    *)
(* and every earlier state of the key has failed and said the same.        *)
(*                                                                         *)
(* Then its counters and its shutdown, for any number of closers as well,  *)
(* and that what somebody waits for has a thread that will do it.          *)
(***************************************************************************)
EXTENDS NotificationSink, FiniteSetTheorems, TLAPS

Involved(s) ==
  at[s] \in {"wait", "transport", "posting", "posted", "release", "finish", "signal"}

Owns(s) == at[s] \in {"transport", "posting", "posted", "release", "finish"}

Made == 1 .. Len(states)

BookInv ==
  /\ \A k \in Keys : events[k] # 0 => events[k] \in Made /\ states[events[k]].key = k
  /\ \A n \in Made : /\ events[states[n].key] # 0
                     /\ Current(states[n].key).payload = states[n].payload
                     /\ n # events[states[n].key] => states[n].status = "failed"
                     /\ states[n].status = "delivered" => n \in wire
  /\ wire \subseteq Made /\ lost \subseteq Made

SenderInv ==
  \A s \in Senders :
    /\ Involved(s) => /\ mine[s] \in Made
                      /\ states[mine[s]].key = event[s].key
                      /\ states[mine[s]].payload = event[s].payload
    /\ Owns(s) => states[mine[s]].status = "in_flight"
    /\ At(s, "posted") => mine[s] \in wire
    /\ (At(s, "release") \/ At(s, "finish")) /\ won[s] => mine[s] \in wire
    /\ At(s, "signal") /\ won[s] => states[mine[s]].status = "delivered"
    /\ receipt[s] => Reached(event[s])

OwnerInv == \A s, t \in Senders : Owns(s) /\ Owns(t) /\ mine[s] = mine[t] => s = t

IInv == BookTypes /\ BookInv /\ SenderInv /\ OwnerInv

-----------------------------------------------------------------------------
LEMMA StateTyped ==
  ASSUME BookTypes
  PROVE  \A m \in Made : states[m] \in States /\ states[m].key \in Keys
<1> SUFFICES ASSUME NEW m \in Made PROVE states[m] \in States /\ states[m].key \in Keys
  OBVIOUS
<1>1. states[m] \in States
  BY DEF BookTypes, Made
<1> QED BY <1>1 DEF States

LEMMA InitInv == Init => IInv
<1> SUFFICES ASSUME Init PROVE IInv
  OBVIOUS
<1>1. AnEvent \in Events
  BY SinkAssumption DEF AnEvent, Events
<1>2. BookTypes
  BY <1>1 DEF Init, BookTypes, Points
<1>3. BookInv
  BY DEF Init, BookInv, Made
<1>4. SenderInv /\ OwnerInv
  BY DEF Init, SenderInv, OwnerInv, Involved, Owns, At
<1> QED BY <1>2, <1>3, <1>4 DEF IInv

\* A step of one thread that makes no state and changes none: where it goes must
\* be fit for what it holds.
LEMMA MoveInv ==
  ASSUME IInv, NEW s \in Senders, NEW p \in Points, NEW g \in BOOLEAN,
         UNCHANGED <<book, event, mine>>, Goto(s, p),
         receipt' = [receipt EXCEPT ![s] = g],
         g => receipt[s] \/ Reached(event[s]),
         won' \in [Senders -> BOOLEAN],
         \A t \in Senders : t # s => won'[t] = won[t],
         wire \subseteq wire', wire' \subseteq Made, lost' \subseteq Made,
         Involved(s)' => Involved(s),
         Owns(s)' => Owns(s),
         p = "posted" => mine[s] \in wire',
         p \in {"release", "finish"} /\ won'[s] => mine[s] \in wire',
         p # "signal"
  PROVE  IInv'
<1> USE DEF IInv
<1>1. /\ at' \in [Senders -> Points] /\ at'[s] = p
      /\ receipt' \in [Senders -> BOOLEAN] /\ receipt'[s] = g
      /\ \A t \in Senders : t # s => at'[t] = at[t] /\ receipt'[t] = receipt[t]
  BY DEF BookTypes, Goto
<1>2. UNCHANGED <<states, events, event, mine>>
  BY DEF book
<1>3. BookTypes'
  BY <1>1, <1>2 DEF BookTypes, Made
<1>4. BookInv'
  BY <1>2 DEF BookInv, Made, Current
<1>5. \A e : Reached(e) => Reached(e)'
  BY <1>2 DEF Reached
<1>6. SenderInv'
  <2> SUFFICES ASSUME NEW t \in Senders
               PROVE  /\ Involved(t)' => /\ mine[t] \in Made
                                         /\ states[mine[t]].key = event[t].key
                                         /\ states[mine[t]].payload = event[t].payload
                      /\ Owns(t)' => states[mine[t]].status = "in_flight"
                      /\ At(t, "posted")' => mine[t] \in wire'
                      /\ (At(t, "release") \/ At(t, "finish"))' /\ won'[t] => mine[t] \in wire'
                      /\ At(t, "signal")' /\ won'[t] => states[mine[t]].status = "delivered"
                      /\ receipt'[t] => Reached(event[t])'
    BY <1>2 DEF SenderInv, Made
  <2>1. CASE t = s
    BY <1>1, <1>5, <2>1 DEF SenderInv, At
  <2>2. CASE t # s
    BY <1>1, <1>5, <2>2 DEF SenderInv, At, Involved, Owns
  <2> QED BY <2>1, <2>2
<1>7. OwnerInv'
  BY <1>1, <1>2 DEF OwnerInv, Owns
<1> QED BY <1>3, <1>4, <1>6, <1>7

\* The same for a step that neither ends a send nor concerns a request.
LEMMA StepInv ==
  ASSUME IInv, NEW s \in Senders, NEW p \in Points,
         UNCHANGED <<book, net, event, mine, receipt>>, Goto(s, p),
         won' \in [Senders -> BOOLEAN],
         \A t \in Senders : t # s => won'[t] = won[t],
         Involved(s)' => Involved(s),
         Owns(s)' => Owns(s),
         p \notin {"posted", "signal"},
         p \in {"release", "finish"} /\ won'[s] => mine[s] \in wire
  PROVE  IInv'
<1>1. receipt[s] \in BOOLEAN /\ receipt' = [receipt EXCEPT ![s] = receipt[s]]
  BY DEF IInv, BookTypes
<1>2. wire \subseteq wire' /\ wire' \subseteq Made /\ lost' \subseteq Made
  BY DEF IInv, BookInv, net
<1> QED BY <1>1, <1>2, MoveInv

\* Every end of a send that was registered, refused or waiting.
LEMMA ReturnInv ==
  ASSUME IInv, NEW s \in Senders, NEW g \in BOOLEAN,
         UNCHANGED <<book, net, event, mine, won>>, Return(s, g),
         g => Reached(event[s])
  PROVE  IInv'
<1>1. wire \subseteq wire' /\ wire' \subseteq Made /\ lost' \subseteq Made
  BY DEF IInv, BookInv, net
<1>2. won' \in [Senders -> BOOLEAN] /\ \A t \in Senders : t # s => won'[t] = won[t]
  BY DEF IInv, BookTypes
<1>3. "leave" \in Points /\ at'[s] = "leave"
  BY DEF Points, Return, Goto, IInv, BookTypes
<1>4. ~ Involved(s)' /\ ~ Owns(s)'
  BY <1>3 DEF Involved, Owns
<1> QED BY <1>1, <1>2, <1>3, <1>4, MoveInv DEF Return

LEMMA EnterInv ==
  ASSUME IInv, NEW s \in Senders, NEW e \in Events, Enter(s, e)
  PROVE  IInv'
<1> USE DEF IInv
<1>1. /\ UNCHANGED <<states, events, wire, lost, mine, won>>
      /\ at[s] = "idle"
      /\ event' = [event EXCEPT ![s] = e] /\ at' = [at EXCEPT ![s] = "admit"]
      /\ receipt' = [receipt EXCEPT ![s] = FALSE]
  BY DEF Enter, book, net, Goto, At
<1>2. BookTypes'
  BY <1>1 DEF BookTypes, Points
<1>3. BookInv'
  BY <1>1 DEF BookInv, Made, Current
<1>4. \A t \in Senders : t # s => /\ at'[t] = at[t] /\ event'[t] = event[t]
                                  /\ receipt'[t] = receipt[t]
  BY <1>1 DEF BookTypes
<1>5. at'[s] = "admit" /\ receipt'[s] = FALSE
  BY <1>1 DEF BookTypes
<1>6. \A x : Reached(x)' <=> Reached(x)
  BY <1>1 DEF Reached
<1>7. SenderInv'
  <2> SUFFICES ASSUME NEW t \in Senders
               PROVE  /\ Involved(t)' => /\ mine[t] \in Made
                                         /\ states[mine[t]].key = event'[t].key
                                         /\ states[mine[t]].payload = event'[t].payload
                      /\ Owns(t)' => states[mine[t]].status = "in_flight"
                      /\ At(t, "posted")' => mine[t] \in wire
                      /\ (At(t, "release") \/ At(t, "finish"))' /\ won[t] => mine[t] \in wire
                      /\ At(t, "signal")' /\ won[t] => states[mine[t]].status = "delivered"
                      /\ receipt'[t] => Reached(event'[t])
    BY <1>1, <1>6 DEF SenderInv, Made, Reached
  <2>1. CASE t = s
    BY <1>5, <2>1 DEF At, Involved, Owns
  <2>2. CASE t # s
    BY <1>4, <2>2 DEF SenderInv, At, Involved, Owns
  <2> QED BY <2>1, <2>2
<1>8. OwnerInv'
  BY <1>1, <1>4, <1>5 DEF OwnerInv, Owns
<1> QED BY <1>2, <1>3, <1>7, <1>8

LEMMA AdmitInv ==
  ASSUME IInv, NEW s \in Senders, Admit(s)
  PROVE  IInv'
<1>1. PICK p \in {"register", "exit"} : Goto(s, p)
  BY DEF Admit
<1>2. UNCHANGED <<book, net, event, mine, won, receipt>> /\ p \in Points
  BY DEF Admit, Points
<1>3. at'[s] = p
  BY <1>1 DEF IInv, BookTypes, Goto
<1> QED BY <1>1, <1>2, <1>3, StepInv DEF IInv, BookTypes, Involved, Owns

LEMMA RefusedInv ==
  ASSUME IInv, NEW s \in Senders, Refuse(s) \/ Conflict(s) \/ NoRoom(s) \/ WaitTimesOut(s)
  PROVE  IInv'
<1>1. UNCHANGED <<book, net, event, mine, won>> /\ Return(s, FALSE)
  BY DEF Refuse, Conflict, NoRoom, WaitTimesOut
<1> QED BY <1>1, ReturnInv

\* What a delivered state says has reached the receiver.
LEMMA DeliveredReached ==
  ASSUME IInv, NEW n \in Made, states[n].status = "delivered",
         NEW e, states[n].key = e.key, states[n].payload = e.payload
  PROVE  Reached(e)
  BY DEF IInv, BookInv, Reached

LEMMA AlreadyDeliveredInv ==
  ASSUME IInv, NEW s \in Senders, AlreadyDelivered(s)
  PROVE  IInv'
<1>1. UNCHANGED <<book, net, event, mine, won>> /\ Return(s, TRUE)
  BY DEF AlreadyDelivered
<1>2. event[s] \in Events
  BY DEF IInv, BookTypes
<1>3. /\ events[event[s].key] \in Made
      /\ states[events[event[s].key]].key = event[s].key
      /\ states[events[event[s].key]].payload = event[s].payload
      /\ states[events[event[s].key]].status = "delivered"
  BY <1>2 DEF AlreadyDelivered, IInv, BookInv, Events, SamePayload, Current
<1>4. Reached(event[s])
  BY <1>3, DeliveredReached
<1> QED BY <1>1, <1>4, ReturnInv

LEMMA WaitEndsInv ==
  ASSUME IInv, NEW s \in Senders, WaitEnds(s)
  PROVE  IInv'
<1>1. UNCHANGED <<book, net, event, mine, won>>
  BY DEF WaitEnds
<1>2. Return(s, states[mine[s]].status = "delivered")
  BY DEF WaitEnds
<1>3. /\ mine[s] \in Made /\ states[mine[s]].key = event[s].key
      /\ states[mine[s]].payload = event[s].payload
  BY DEF WaitEnds, IInv, SenderInv, Involved, At
<1>4. states[mine[s]].status = "delivered" => Reached(event[s])
  BY <1>3, DeliveredReached
<1> QED BY <1>1, <1>2, <1>4, ReturnInv

LEMMA TakeTransportInv ==
  ASSUME IInv, NEW s \in Senders, TakeTransport(s)
  PROVE  IInv'
<1>1. /\ UNCHANGED <<book, net, event, mine, receipt>> /\ at[s] = "transport"
      /\ \/ Goto(s, "posting") /\ won' = won
         \/ Goto(s, "finish") /\ won' = [won EXCEPT ![s] = FALSE]
  BY DEF TakeTransport, At
<1>2. Involved(s) /\ Owns(s)
  BY <1>1 DEF Involved, Owns
<1>3. CASE Goto(s, "posting") /\ won' = won
  BY <1>1, <1>2, <1>3, StepInv DEF Points, IInv, BookTypes
<1>4. CASE Goto(s, "finish") /\ won' = [won EXCEPT ![s] = FALSE]
  BY <1>1, <1>2, <1>4, StepInv DEF Points, IInv, BookTypes
<1> QED BY <1>1, <1>3, <1>4

LEMMA RequestInv ==
  ASSUME IInv, NEW s \in Senders,
         ReachReceiver(s) \/ PostSucceeds(s) \/ PostFails(s)
  PROVE  IInv'
<1>1. /\ UNCHANGED <<book, event, mine, receipt>> /\ Owns(s) /\ Involved(s)
      /\ at[s] \in {"posting", "posted"}
  BY DEF ReachReceiver, PostSucceeds, PostFails, At, Owns, Involved
<1>2. mine[s] \in Made /\ wire \subseteq Made /\ lost \subseteq Made
  BY <1>1 DEF IInv, SenderInv, BookInv
<1>3. receipt[s] \in BOOLEAN /\ receipt' = [receipt EXCEPT ![s] = receipt[s]]
  BY <1>1 DEF IInv, BookTypes
<1>4. {"posted", "release"} \subseteq Points
  BY DEF Points
<1>5. CASE ReachReceiver(s)
  <2>1. Goto(s, "posted") /\ wire' = wire \cup {mine[s]} /\ lost' = lost /\ won' = won
    BY <1>5 DEF ReachReceiver
  <2>2. won' \in [Senders -> BOOLEAN]
    BY <2>1 DEF IInv, BookTypes
  <2> QED BY <1>1, <1>2, <1>3, <1>4, <2>1, <2>2, MoveInv
<1>6. CASE PostSucceeds(s)
  <2>1. Goto(s, "release") /\ wire' = wire /\ lost' = lost /\ won' = [won EXCEPT ![s] = TRUE]
    BY <1>6 DEF PostSucceeds, net
  <2>2. mine[s] \in wire
    BY <1>6 DEF IInv, SenderInv, PostSucceeds
  <2>3. won' \in [Senders -> BOOLEAN] /\ \A t \in Senders : t # s => won'[t] = won[t]
    BY <2>1 DEF IInv, BookTypes
  <2> QED BY <1>1, <1>2, <1>3, <1>4, <2>1, <2>2, <2>3, MoveInv
<1>7. CASE PostFails(s)
  <2>1. Goto(s, "release") /\ wire' = wire /\ won' = [won EXCEPT ![s] = FALSE]
    BY <1>7 DEF PostFails
  <2>2. lost' \subseteq Made
    BY <1>2, <1>7 DEF PostFails
  <2>3. /\ won' \in [Senders -> BOOLEAN] /\ won'[s] = FALSE
        /\ \A t \in Senders : t # s => won'[t] = won[t]
    BY <2>1 DEF IInv, BookTypes
  <2> QED BY <1>1, <1>2, <1>3, <1>4, <2>1, <2>2, <2>3, MoveInv
<1> QED BY <1>5, <1>6, <1>7

LEMMA ReleaseInv ==
  ASSUME IInv, NEW s \in Senders, ReleaseTransport(s)
  PROVE  IInv'
<1>1. UNCHANGED <<book, net, event, mine, won, receipt>> /\ Goto(s, "finish") /\ at[s] = "release"
  BY DEF ReleaseTransport, At
<1>2. Involved(s) /\ Owns(s) /\ (won[s] => mine[s] \in wire)
  BY <1>1 DEF Involved, Owns, IInv, SenderInv, At
<1> QED BY <1>1, <1>2, StepInv DEF IInv, BookTypes, Points

LEMMA LeaveInv ==
  ASSUME IInv, NEW s \in Senders, Leave(s) \/ Exit(s)
  PROVE  IInv'
<1>1. PICK p \in {"exit", "idle"} : Goto(s, p)
  BY DEF Leave, Exit
<1>2. UNCHANGED <<book, net, event, mine, won, receipt>> /\ p \in Points
  BY DEF Leave, Exit, Points
<1>3. at'[s] = p
  BY <1>1 DEF IInv, BookTypes, Goto
<1> QED BY <1>1, <1>2, <1>3, StepInv DEF IInv, BookTypes, Involved, Owns

-----------------------------------------------------------------------------
LEMMA JoinInv ==
  ASSUME IInv, NEW s \in Senders, JoinDelivery(s)
  PROVE  IInv'
<1> USE DEF IInv
<1>1. /\ UNCHANGED <<states, events, wire, lost, event, won, receipt>>
      /\ mine' = [mine EXCEPT ![s] = events[event[s].key]]
      /\ at' = [at EXCEPT ![s] = "wait"] /\ event[s] \in Events
  BY DEF JoinDelivery, book, net, Goto, BookTypes
<1>2. LET n == events[event[s].key]
      IN n \in Made /\ states[n].key = event[s].key /\ states[n].payload = event[s].payload
  BY <1>1 DEF JoinDelivery, BookInv, Events, SamePayload, Current
<1>3. /\ at'[s] = "wait" /\ mine'[s] = events[event[s].key]
      /\ \A t \in Senders : t # s => at'[t] = at[t] /\ mine'[t] = mine[t]
  BY <1>1 DEF BookTypes
<1>4. BookTypes'
  <2>1. events[event[s].key] \in Nat
    BY <1>2 DEF Made
  <2> QED BY <1>1, <2>1 DEF BookTypes, Points
<1>5. BookInv'
  BY <1>1 DEF BookInv, Made, Current
<1>6. SenderInv'
  <2> SUFFICES ASSUME NEW t \in Senders
               PROVE  /\ Involved(t)' => /\ mine'[t] \in Made
                                         /\ states[mine'[t]].key = event[t].key
                                         /\ states[mine'[t]].payload = event[t].payload
                      /\ Owns(t)' => states[mine'[t]].status = "in_flight"
                      /\ At(t, "posted")' => mine'[t] \in wire
                      /\ (At(t, "release") \/ At(t, "finish"))' /\ won[t] => mine'[t] \in wire
                      /\ At(t, "signal")' /\ won[t] => states[mine'[t]].status = "delivered"
                      /\ receipt[t] => Reached(event[t])
    BY <1>1 DEF SenderInv, Made, Reached
  <2>1. CASE t = s
    BY <1>2, <1>3, <2>1 DEF SenderInv, At, Owns
  <2>2. CASE t # s
    BY <1>3, <2>2 DEF SenderInv, At, Involved, Owns
  <2> QED BY <2>1, <2>2
<1>7. OwnerInv'
  BY <1>3 DEF OwnerInv, Owns
<1> QED BY <1>4, <1>5, <1>6, <1>7

LEMMA StartInv ==
  ASSUME IInv, NEW s \in Senders, StartDelivery(s)
  PROVE  IInv'
<1> USE DEF IInv
<1> DEFINE e == event[s]
           n == Len(states) + 1
           new == [key |-> e.key, payload |-> e.payload, status |-> "in_flight", done |-> FALSE]
<1>1. /\ UNCHANGED <<wire, lost, event, won, receipt>>
      /\ states' = Append(states, new)
      /\ events' = [events EXCEPT ![e.key] = n]
      /\ mine' = [mine EXCEPT ![s] = n]
      /\ at' = [at EXCEPT ![s] = "transport"]
      /\ at[s] = "register"
      /\ e \in Events /\ e.key \in Keys /\ e.payload \in Payloads
  BY DEF StartDelivery, net, Goto, At, BookTypes, Events
<1>2. new \in States /\ Len(states) \in Nat
  BY <1>1 DEF States, BookTypes
<1>3. /\ states' \in Seq(States) /\ Len(states') = n /\ states'[n] = new
      /\ \A m \in Made : states'[m] = states[m] /\ m # n
      /\ Made' = Made \cup {n}
  BY <1>1, <1>2 DEF BookTypes, Made
<1>4. /\ at'[s] = "transport" /\ mine'[s] = n
      /\ \A t \in Senders : t # s => at'[t] = at[t] /\ mine'[t] = mine[t]
      /\ events'[e.key] = n
      /\ \A k \in Keys : k # e.key => events'[k] = events[k]
  BY <1>1 DEF BookTypes
<1>5. BookTypes'
  BY <1>1, <1>2, <1>3 DEF BookTypes, Points
<1>6. \A m \in Made : states[m] \in States /\ states[m].key \in Keys
  BY StateTyped
<1>7. \A m \in Made : states[m].key = e.key =>
        states[m].status = "failed" /\ states[m].payload = e.payload
  <2> SUFFICES ASSUME NEW m \in Made, states[m].key = e.key
               PROVE  states[m].status = "failed" /\ states[m].payload = e.payload
    OBVIOUS
  <2>1. events[e.key] # 0 /\ Current(e.key).payload = states[m].payload
    BY DEF BookInv
  <2>2. Current(e.key).payload = e.payload /\ Current(e.key).status = "failed"
    BY <2>1 DEF StartDelivery, MayDeliver, SamePayload
  <2>3. m # events[e.key] => states[m].status = "failed"
    BY DEF BookInv
  <2> QED BY <2>1, <2>2, <2>3 DEF Current
<1>8. BookInv'
  <2>1. \A k \in Keys : events'[k] # 0 => events'[k] \in Made' /\ states'[events'[k]].key = k
    BY <1>3, <1>4 DEF BookInv
  <2>2. ASSUME NEW m \in Made'
        PROVE  /\ events'[states'[m].key] # 0
               /\ states'[events'[states'[m].key]].payload = states'[m].payload
               /\ m # events'[states'[m].key] => states'[m].status = "failed"
               /\ states'[m].status = "delivered" => m \in wire
    <3>1. CASE m = n
      BY <1>2, <1>3, <1>4, <3>1
    <3>2. CASE m \in Made /\ states[m].key = e.key
      BY <1>2, <1>3, <1>4, <1>7, <3>2
    <3>3. CASE m \in Made /\ states[m].key # e.key
      <4>1. states'[m] = states[m] /\ events'[states[m].key] = events[states[m].key]
        BY <1>3, <1>4, <1>6, <3>3
      <4>2. events[states[m].key] \in Made
        BY <1>6, <3>3 DEF BookInv
      <4>3. states'[events[states[m].key]] = states[events[states[m].key]]
        BY <1>3, <4>2
      <4> QED BY <3>3, <4>1, <4>3 DEF BookInv, Current
    <3> QED BY <1>3, <3>1, <3>2, <3>3
  <2>3. wire' \subseteq Made' /\ lost' \subseteq Made'
    BY <1>1, <1>3 DEF BookInv
  <2> QED BY <1>1, <2>1, <2>2, <2>3 DEF BookInv, Current
<1>9. \A x : Reached(x) => Reached(x)'
  BY <1>1, <1>3 DEF Reached, BookInv
<1>10. SenderInv'
  <2> SUFFICES ASSUME NEW t \in Senders
               PROVE  /\ Involved(t)' => /\ mine'[t] \in Made'
                                         /\ states'[mine'[t]].key = event'[t].key
                                         /\ states'[mine'[t]].payload = event'[t].payload
                      /\ Owns(t)' => states'[mine'[t]].status = "in_flight"
                      /\ At(t, "posted")' => mine'[t] \in wire'
                      /\ (At(t, "release") \/ At(t, "finish"))' /\ won'[t] => mine'[t] \in wire'
                      /\ At(t, "signal")' /\ won'[t] => states'[mine'[t]].status = "delivered"
                      /\ receipt'[t] => Reached(event[t])'
    BY DEF SenderInv
  <2>0. wire' = wire /\ event' = event /\ won' = won /\ receipt' = receipt
    BY <1>1
  <2>1. CASE t = s
    <3>1. /\ at'[t] = "transport" /\ mine'[t] \in Made' /\ states'[mine'[t]] = new
      BY <1>3, <1>4, <2>1
    <3>2. /\ new.key = event'[t].key /\ new.payload = event'[t].payload
          /\ new.status = "in_flight"
      BY <2>0, <2>1
    <3>3. receipt'[t] => Reached(event[t])'
      BY <1>9, <2>0 DEF SenderInv
    <3> QED BY <3>1, <3>2, <3>3 DEF At
  <2>2. CASE t # s
    <3>1. Involved(t) => mine[t] \in Made /\ states'[mine[t]] = states[mine[t]]
      BY <1>3 DEF SenderInv
    <3>2. Owns(t) => Involved(t)
      BY DEF Owns, Involved
    <3>3. At(t, "signal") => Involved(t)
      BY DEF At, Involved
    <3>4. at'[t] = at[t] /\ mine'[t] = mine[t]
      BY <1>4, <2>2
    <3>5. (Involved(t)' <=> Involved(t)) /\ (Owns(t)' <=> Owns(t))
      BY <3>4 DEF Involved, Owns
    <3>6. Involved(t) => mine[t] \in Made' /\ states'[mine[t]] = states[mine[t]]
      BY <1>3, <3>1
    <3>7. receipt[t] => Reached(event[t])'
      BY <1>1, <1>9 DEF SenderInv
    <3> QED BY <2>0, <3>2, <3>3, <3>4, <3>5, <3>6, <3>7 DEF SenderInv, At
  <2> QED BY <2>1, <2>2
<1>11. OwnerInv'
  <2>1. \A t \in Senders : Owns(t) => mine[t] \in Made
    BY DEF SenderInv, Owns, Involved
  <2>2. n \notin Made
    BY <1>3
  <2> QED BY <1>4, <2>1, <2>2 DEF OwnerInv, Owns
<1> QED BY <1>5, <1>8, <1>10, <1>11

\* An owned state is its key's current one.
LEMMA OwnedIsCurrent ==
  ASSUME IInv, NEW s \in Senders, Owns(s)
  PROVE  /\ event[s].key \in Keys /\ mine[s] \in Made
         /\ mine[s] = events[event[s].key]
         /\ states[mine[s]].key = event[s].key
         /\ states[mine[s]].status = "in_flight"
<1>1. /\ mine[s] \in Made /\ states[mine[s]].key = event[s].key
      /\ states[mine[s]].status = "in_flight"
  BY DEF IInv, SenderInv, Owns, Involved
<1>2. event[s].key \in Keys
  BY DEF IInv, BookTypes, Events
<1> QED BY <1>1, <1>2 DEF IInv, BookInv

\* A step of an owner that updates its state and nobody else's.
LEMMA SetStatusInv ==
  ASSUME IInv, NEW s \in Senders, SetStatus(s)
  PROVE  IInv'
<1> USE DEF IInv
<1> DEFINE n == mine[s]
           status == IF won[s] THEN "delivered" ELSE "failed"
<1>1. /\ UNCHANGED <<events, wire, lost, event, mine, won, receipt>>
      /\ states' = [states EXCEPT ![n].status = status]
      /\ at' = [at EXCEPT ![s] = "signal"] /\ at[s] = "finish"
  BY DEF SetStatus, net, Goto, At
<1>2. Owns(s)
  BY <1>1 DEF Owns
<1>3. /\ n \in Made /\ n = events[states[n].key] /\ states[n].status = "in_flight"
      /\ won[s] => n \in wire
  BY <1>1, <1>2, OwnedIsCurrent DEF SenderInv, At
<1>4. /\ states' \in Seq(States) /\ Made' = Made
      /\ \A m \in Made : /\ states'[m].key = states[m].key
                         /\ states'[m].payload = states[m].payload
                         /\ m # n => states'[m] = states[m]
      /\ states'[n].status = status
  <2>1. status \in {"failed", "delivered"}
    OBVIOUS
  <2>2. states[n] \in States /\ Len(states) \in Nat
    BY <1>3 DEF BookTypes, Made
  <2>3. states' = [states EXCEPT ![n] = [states[n] EXCEPT !.status = status]]
    BY <1>1
  <2>4. [states[n] EXCEPT !.status = status] \in States
    BY <2>1, <2>2 DEF States
  <2>5. Len(states') = Len(states)
    BY <1>1, <2>2 DEF BookTypes
  <2>6. states' \in Seq(States)
    BY <1>3, <2>3, <2>4 DEF BookTypes, Made
  <2>7. \A m \in Made : m # n => states'[m] = states[m]
    BY <2>3, <2>2 DEF BookTypes, Made
  <2>8. states'[n] = [states[n] EXCEPT !.status = status]
    BY <1>3, <2>3 DEF BookTypes, Made
  <2>9. /\ states'[n].key = states[n].key /\ states'[n].payload = states[n].payload
        /\ states'[n].status = status
    BY <2>2, <2>8 DEF States
  <2> QED BY <2>5, <2>6, <2>7, <2>9 DEF Made
<1>5. BookTypes'
  BY <1>1, <1>4 DEF BookTypes, Points
<1>6. BookInv'
  <2>1. \A m \in Made : states[m] \in States /\ states[m].key \in Keys
    BY StateTyped
  <2>2. \A k \in Keys : events[k] # 0 => events[k] \in Made' /\ states'[events[k]].key = k
    BY <1>4 DEF BookInv
  <2>3. ASSUME NEW m \in Made
        PROVE  /\ events[states'[m].key] # 0
               /\ states'[events[states'[m].key]].payload = states'[m].payload
               /\ m # events[states'[m].key] => states'[m].status = "failed"
               /\ states'[m].status = "delivered" => m \in wire
    <3>1. /\ events[states[m].key] # 0 /\ events[states[m].key] \in Made
          /\ Current(states[m].key).payload = states[m].payload
      BY <2>1 DEF BookInv
    <3>2. m # events[states[m].key] => states'[m].status = "failed"
      BY <1>3, <1>4 DEF BookInv
    <3>3. states'[m].status = "delivered" => m \in wire
      BY <1>3, <1>4 DEF BookInv
    <3>4. \A j \in Made : /\ states'[j].key = states[j].key
                          /\ states'[j].payload = states[j].payload
      BY <1>4
    <3>5. states'[events[states[m].key]].payload = states'[m].payload
      BY <3>1, <3>4 DEF Current
    <3>6. states'[m].key = states[m].key
      BY <3>4
    <3> QED BY <3>1, <3>2, <3>3, <3>5, <3>6
  <2>4. /\ UNCHANGED <<events, wire, lost>> /\ Made' = Made
        /\ wire \subseteq Made /\ lost \subseteq Made
    BY <1>1, <1>4 DEF BookInv
  <2> QED BY <2>2, <2>3, <2>4 DEF BookInv, Current
<1>7. \A x : Reached(x) => Reached(x)'
  <2>1. \A m \in wire : states[m].status = "delivered" => states'[m] = states[m]
    BY <1>3, <1>4 DEF BookInv
  <2> QED BY <1>1, <2>1 DEF Reached
<1>8. \A t \in Senders : t # s => at'[t] = at[t]
  BY <1>1 DEF BookTypes
<1>9. at'[s] = "signal"
  BY <1>1 DEF BookTypes
<1>10. SenderInv'
  <2> SUFFICES ASSUME NEW t \in Senders
               PROVE  /\ Involved(t)' => /\ mine[t] \in Made
                                         /\ states'[mine[t]].key = event[t].key
                                         /\ states'[mine[t]].payload = event[t].payload
                      /\ Owns(t)' => states'[mine[t]].status = "in_flight"
                      /\ At(t, "posted")' => mine[t] \in wire
                      /\ (At(t, "release") \/ At(t, "finish"))' /\ won[t] => mine[t] \in wire
                      /\ At(t, "signal")' /\ won[t] => states'[mine[t]].status = "delivered"
                      /\ receipt[t] => Reached(event[t])'
    BY <1>1, <1>4 DEF SenderInv
  <2>1. receipt[t] => Reached(event[t])'
    BY <1>1, <1>7 DEF SenderInv
  <2>2. CASE t = s
    <3>1. Involved(s)
      BY <1>1 DEF Involved
    <3> QED BY <1>3, <1>4, <1>9, <2>1, <2>2, <3>1 DEF SenderInv, At, Owns
  <2>3. CASE t # s
    <3>1. (Involved(t)' <=> Involved(t)) /\ (Owns(t)' <=> Owns(t)) /\ at'[t] = at[t]
      BY <1>8, <2>3 DEF Involved, Owns
    <3>2. Involved(t) => /\ states'[mine[t]].key = states[mine[t]].key
                         /\ states'[mine[t]].payload = states[mine[t]].payload
      BY <1>4 DEF SenderInv
    <3>3. Owns(t) => mine[t] \in Made /\ states'[mine[t]] = states[mine[t]]
      BY <1>2, <1>4, <2>3, OwnedIsCurrent DEF OwnerInv
    <3>4. At(t, "signal") /\ won[t] => states'[mine[t]].status = "delivered"
      <4> SUFFICES ASSUME At(t, "signal"), won[t] PROVE states'[mine[t]].status = "delivered"
        OBVIOUS
      <4>1. mine[t] \in Made /\ states[mine[t]].status = "delivered"
        BY DEF SenderInv, Involved, At
      <4> QED BY <1>3, <1>4, <4>1
    <3> QED BY <2>1, <3>1, <3>2, <3>3, <3>4 DEF SenderInv, At
  <2> QED BY <2>2, <2>3
<1>11. OwnerInv'
  BY <1>1, <1>8, <1>9 DEF OwnerInv, Owns
<1> QED BY <1>5, <1>6, <1>10, <1>11

\* Waking the waiters changes nothing the invariant speaks of.
LEMMA SignalInv ==
  ASSUME IInv, NEW s \in Senders, Signal(s)
  PROVE  IInv'
<1> USE DEF IInv
<1> DEFINE n == mine[s]
<1>1. /\ UNCHANGED <<events, wire, lost, event, mine, won>>
      /\ states' = [states EXCEPT ![n].done = TRUE]
      /\ at' = [at EXCEPT ![s] = "leave"] /\ at[s] = "signal"
      /\ receipt' = [receipt EXCEPT ![s] = won[s]]
  BY DEF Signal, net, Goto, Return, At
<1>2. /\ n \in Made /\ states[n].key = event[s].key /\ states[n].payload = event[s].payload
      /\ won[s] => states[n].status = "delivered"
  BY <1>1 DEF SenderInv, At, Involved
<1>3. /\ states' \in Seq(States) /\ Made' = Made
      /\ \A m \in Made : /\ states'[m].key = states[m].key
                         /\ states'[m].payload = states[m].payload
                         /\ states'[m].status = states[m].status
  <2>1. states[n] \in States /\ Len(states) \in Nat
    BY <1>2 DEF BookTypes, Made
  <2>2. PICK r \in States : /\ states' = [states EXCEPT ![n] = r]
                            /\ r.key = states[n].key /\ r.payload = states[n].payload
                            /\ r.status = states[n].status
    <3>1. [states[n] EXCEPT !.done = TRUE] \in States
      BY <2>1 DEF States
    <3>2. states' = [states EXCEPT ![n] = [states[n] EXCEPT !.done = TRUE]]
      BY <1>1
    <3>3. LET r == [states[n] EXCEPT !.done = TRUE]
          IN r.key = states[n].key /\ r.payload = states[n].payload /\ r.status = states[n].status
      BY <2>1 DEF States
    <3> QED BY <3>1, <3>2, <3>3
  <2>3. Len(states') = Len(states)
    BY <1>1, <2>1 DEF BookTypes
  <2>4. states' \in Seq(States)
    BY <1>2, <2>2 DEF BookTypes, Made
  <2>5. \A m \in Made : m # n => states'[m] = states[m]
    BY <2>2, <2>1 DEF BookTypes, Made
  <2>6. states'[n] = r
    BY <1>2, <2>2 DEF BookTypes, Made
  <2> QED BY <2>2, <2>3, <2>4, <2>5, <2>6 DEF Made
<1>4. BookTypes'
  BY <1>1, <1>3 DEF BookTypes, Points
<1>5. BookInv'
  <2>1. \A m \in Made : states[m].key \in Keys
    BY StateTyped
  <2> QED BY <1>1, <1>3, <2>1 DEF BookInv, Current
<1>6. \A x : Reached(x) => Reached(x)'
  <2>1. wire \subseteq Made
    BY DEF BookInv
  <2> QED BY <1>1, <1>3, <2>1 DEF Reached
<1>7. \A t \in Senders : t # s => at'[t] = at[t] /\ receipt'[t] = receipt[t]
  BY <1>1 DEF BookTypes
<1>8. at'[s] = "leave" /\ receipt'[s] = won[s]
  BY <1>1 DEF BookTypes
<1>9. won[s] => Reached(event[s])
  BY <1>2, DeliveredReached
<1>10. SenderInv'
  <2> SUFFICES ASSUME NEW t \in Senders
               PROVE  /\ Involved(t)' => /\ mine[t] \in Made
                                         /\ states'[mine[t]].key = event[t].key
                                         /\ states'[mine[t]].payload = event[t].payload
                      /\ Owns(t)' => states'[mine[t]].status = "in_flight"
                      /\ At(t, "posted")' => mine[t] \in wire
                      /\ (At(t, "release") \/ At(t, "finish"))' /\ won[t] => mine[t] \in wire
                      /\ At(t, "signal")' /\ won[t] => states'[mine[t]].status = "delivered"
                      /\ receipt'[t] => Reached(event[t])'
    BY <1>1, <1>3 DEF SenderInv
  <2>1. CASE t = s
    BY <1>1, <1>6, <1>8, <1>9, <2>1 DEF At, Involved, Owns
  <2>2. CASE t # s
    <3>1. /\ Involved(t)' <=> Involved(t)
          /\ Owns(t)' <=> Owns(t)
          /\ at'[t] = at[t]
      BY <1>7, <2>2 DEF Involved, Owns
    <3>2. Involved(t) => /\ states'[mine[t]].key = states[mine[t]].key
                         /\ states'[mine[t]].payload = states[mine[t]].payload
                         /\ states'[mine[t]].status = states[mine[t]].status
      BY <1>3 DEF SenderInv
    <3>3. Owns(t) \/ At(t, "signal") => Involved(t)
      BY DEF Owns, Involved, At
    <3>4. receipt'[t] => Reached(event[t])'
      BY <1>1, <1>6, <1>7, <2>2 DEF SenderInv
    <3> QED BY <3>1, <3>2, <3>3, <3>4 DEF SenderInv, At
  <2> QED BY <2>1, <2>2
<1>11. OwnerInv'
  BY <1>1, <1>7, <1>8 DEF OwnerInv, Owns
<1> QED BY <1>4, <1>5, <1>10, <1>11

-----------------------------------------------------------------------------
\* The closers, and what the network still had.
LEMMA OthersInv ==
  ASSUME IInv, UNCHANGED <<book, sender>>,
         wire \subseteq wire', wire' \subseteq Made, lost' \subseteq Made
  PROVE  IInv'
<1> USE DEF IInv
<1>1. UNCHANGED <<states, events, at, event, mine, won, receipt>>
  BY DEF book, sender
<1>2. BookTypes'
  BY <1>1 DEF BookTypes, Made
<1>3. BookInv'
  BY <1>1 DEF BookInv, Made, Current
<1>4. SenderInv'
  BY <1>1 DEF SenderInv, Made, Involved, Owns, At, Reached
<1>5. OwnerInv'
  BY <1>1 DEF OwnerInv, Owns
<1> QED BY <1>2, <1>3, <1>4, <1>5

LEMMA NextInv == IInv /\ [Next]_vars => IInv'
<1> SUFFICES ASSUME IInv, [Next]_vars PROVE IInv'
  OBVIOUS
<1>1. wire \subseteq Made /\ lost \subseteq Made
  BY DEF IInv, BookInv
<1>2. ASSUME NEW s \in Senders, SendOn(s) PROVE IInv'
  BY <1>2, AdmitInv, RefusedInv, AlreadyDeliveredInv, JoinInv, StartInv, WaitEndsInv,
     TakeTransportInv, RequestInv, ReleaseInv, SetStatusInv, SignalInv, LeaveInv
     DEF SendOn, Register
<1>3. ASSUME NEW s \in Senders, NEW e \in Events, Enter(s, e) PROVE IInv'
  BY <1>3, EnterInv
<1>4. ASSUME NEW c \in Closers, Close(c) \/ CloseOn(c) PROVE IInv'
  <2>1. UNCHANGED <<book, sender, net>>
    BY <1>4 DEF Close, CloseOn, Drained, ShutClient, PublishClosed, CloseAwaited
  <2> QED BY <1>1, <2>1, OthersInv DEF net
<1>5. ASSUME NEW n \in lost, ArriveLate(n) PROVE IInv'
  BY <1>1, <1>5, OthersInv DEF ArriveLate
<1>6. CASE UNCHANGED vars
  BY <1>1, <1>6, OthersInv DEF vars, net
<1> QED BY <1>2, <1>3, <1>4, <1>5, <1>6 DEF Next

THEOREM InvHolds == Spec => []IInv
  BY InitInv, NextInv, PTL DEF Spec

\* Two threads never have requests of one key out at the same time
\* (_send_admitted registers a delivery under _delivery_lock).
THEOREM FlightsExclude == Spec => []SingleFlight
<1>1. IInv => SingleFlight
  <2>1. \A s \in Senders : Posting(s) => Owns(s)
    BY DEF Posting, Owns, At
  <2> QED BY <2>1, OwnedIsCurrent DEF IInv, OwnerInv, SingleFlight
<1> QED BY <1>1, InvHolds, PTL

\* All requests under one key say the same, also after failures and late ones
\* (the payload hash in _DeliveryState).
THEOREM KeyHasOneMessage == Spec => []OneMessagePerKey
<1>1. IInv => OneMessagePerKey
  BY DEF IInv, BookInv, OneMessagePerKey
<1> QED BY <1>1, InvHolds, PTL

\* send returns a receipt only for a message the receiver has accepted.
THEOREM ReceiptsAreEarned == Spec => []ReceiptIsEarned
<1>1. IInv => ReceiptIsEarned
  BY DEF IInv, SenderInv, ReceiptIsEarned
<1> QED BY <1>1, InvHolds, PTL

\* After a success no further request of the key is made.
THEOREM NothingAfterDelivery == Spec => DeliveredOnce
<1> DEFINE Quiet ==
      \A s \in Senders, m \in 1 .. Len(states) :
        /\ At(s, "transport") /\ at'[s] = "posting"
        /\ states[m].key = event[s].key
        => states[m].status # "delivered"
<1>1. IInv => Quiet
  <2> SUFFICES ASSUME IInv, NEW s \in Senders, NEW m \in Made, At(s, "transport"),
                      states[m].key = event[s].key
               PROVE  states[m].status # "delivered"
    BY DEF Made
  <2>1. Owns(s)
    BY DEF Owns, At
  <2>2. mine[s] = events[states[m].key] /\ states[mine[s]].status = "in_flight"
    BY <2>1, OwnedIsCurrent
  <2> QED BY <2>2 DEF IInv, BookInv
<1> QED BY <1>1, InvHolds, PTL DEF DeliveredOnce

-----------------------------------------------------------------------------
(* The counters and the shutdown.  Each counter is the number of threads   *)
(* at the points between its increment and its decrement, and one step     *)
(* moves one thread; once the sink is not open and the count of threads    *)
(* inside is zero, nobody is inside and nobody comes in.                   *)

\* The threads at some points.
In(P) == {s \in Senders : at[s] \in P}

Inside == Points \ {"idle"}
Admitted == Points \ {"idle", "admit", "exit"}
Transporting == {"posting", "posted", "release"}

CountInv ==
  /\ IsFiniteSet(In(Inside))
  /\ active = Cardinality(In(Inside))
  /\ pending = Cardinality(In(Admitted))
  /\ busy = Cardinality(In(Transporting))
  /\ busy <= MaxConcurrent /\ pending <= MaxPending

\* Without the counters' types, which are those of cardinalities.
ControlTypes ==
  /\ lifecycle \in {"open", "closing", "closed"}
  /\ sends \in Nat /\ client \in BOOLEAN
  /\ closer \in [Closers -> {"idle", "drain", "shut", "publish", "await"}]

ShutInv ==
  /\ \A c \in Closers : /\ closer[c] \in {"drain", "shut", "publish"} => lifecycle # "open"
                        /\ closer[c] \in {"shut", "publish"} => active = 0
  /\ ~ client => active = 0
  /\ lifecycle = "closed" \/ ~ client => lifecycle # "open"

CInv == CountInv /\ ControlTypes /\ ShutInv

-----------------------------------------------------------------------------
(* Counting threads.                                                       *)

LEMMA FiniteIn ==
  ASSUME IsFiniteSet(In(Inside)), NEW P, P \subseteq Inside
  PROVE  IsFiniteSet(In(P)) /\ Cardinality(In(P)) \in Nat
<1>1. In(P) \in SUBSET In(Inside)
  BY DEF In
<1>2. IsFiniteSet(In(P))
  BY <1>1, FS_Subset
<1> QED BY <1>2, FS_CardinalityType

\* One thread moves.
LEMMA MoveCounts ==
  ASSUME at \in [Senders -> Points], NEW s \in Senders, NEW p, Goto(s, p),
         NEW P, IsFiniteSet(In(P))
  PROVE  /\ IsFiniteSet(In(P)')
         /\ at[s] \notin P /\ p \notin P => Cardinality(In(P)') = Cardinality(In(P))
         /\ at[s] \in P /\ p \in P => Cardinality(In(P)') = Cardinality(In(P))
         /\ at[s] \notin P /\ p \in P => Cardinality(In(P)') = Cardinality(In(P)) + 1
         /\ at[s] \in P /\ p \notin P => /\ Cardinality(In(P)') = Cardinality(In(P)) - 1
                                         /\ Cardinality(In(P)) > 0
<1>1. at'[s] = p /\ \A t \in Senders : t # s => at'[t] = at[t]
  BY DEF Goto
<1>2. CASE p \in P
  <2>1. In(P)' = In(P) \cup {s}
    BY <1>1, <1>2 DEF In
  <2>2. s \in In(P) <=> at[s] \in P
    BY DEF In
  <2> QED BY <1>2, <2>1, <2>2, FS_AddElement
<1>3. CASE p \notin P
  <2>1. In(P)' = In(P) \ {s}
    BY <1>1, <1>3 DEF In
  <2>2. s \in In(P) <=> at[s] \in P
    BY DEF In
  <2>3. s \in In(P) => Cardinality(In(P)) # 0
    BY FS_EmptySet
  <2>4. Cardinality(In(P)) \in Nat
    BY FS_CardinalityType
  <2> QED BY <1>3, <2>1, <2>2, <2>3, <2>4, FS_RemoveElement
<1> QED BY <1>2, <1>3

LEMMA NobodyInside ==
  ASSUME CountInv, active = 0, at \in [Senders -> Points]
  PROVE  \A s \in Senders : at[s] = "idle"
<1>1. In(Inside) = {}
  BY FS_EmptySet DEF CountInv
<1> QED BY <1>1 DEF In, Inside

-----------------------------------------------------------------------------
(* The steps.                                                              *)

LEMMA MoveAll ==
  ASSUME BookTypes, CountInv, NEW s \in Senders, NEW p \in Points, Goto(s, p),
         NEW P, P \in {Inside, Admitted, Transporting}
  PROVE  /\ IsFiniteSet(In(P)') /\ Cardinality(In(P)) \in Nat
         /\ at[s] \notin P /\ p \notin P => Cardinality(In(P)') = Cardinality(In(P))
         /\ at[s] \in P /\ p \in P => Cardinality(In(P)') = Cardinality(In(P))
         /\ at[s] \notin P /\ p \in P => Cardinality(In(P)') = Cardinality(In(P)) + 1
         /\ at[s] \in P /\ p \notin P => /\ Cardinality(In(P)') = Cardinality(In(P)) - 1
                                         /\ Cardinality(In(P)) > 0
<1>1. P \subseteq Inside
  BY DEF Inside, Admitted, Transporting, Points
<1>2. IsFiniteSet(In(P)) /\ Cardinality(In(P)) \in Nat
  BY <1>1, FiniteIn DEF CountInv
<1> QED BY <1>2, MoveCounts DEF BookTypes

\* A thread that stays where it is counted.
LEMMA StayCounted ==
  ASSUME BookTypes, CountInv, NEW s \in Senders, NEW p \in Points, Goto(s, p),
         UNCHANGED <<active, pending, busy>>,
         at[s] \in Inside <=> p \in Inside,
         at[s] \in Admitted <=> p \in Admitted,
         at[s] \in Transporting <=> p \in Transporting
  PROVE  CountInv'
<1>1. IsFiniteSet(In(Inside)') /\ Cardinality(In(Inside)') = Cardinality(In(Inside))
  BY MoveAll
<1>2. Cardinality(In(Admitted)') = Cardinality(In(Admitted))
  BY MoveAll
<1>3. Cardinality(In(Transporting)') = Cardinality(In(Transporting))
  BY MoveAll
<1> QED BY <1>1, <1>2, <1>3 DEF CountInv

LEMMA EntersCounted ==
  ASSUME BookTypes, CountInv, NEW s \in Senders, NEW e \in Events, Enter(s, e)
  PROVE  CountInv'
<1>1. /\ Goto(s, "admit") /\ at[s] = "idle" /\ active' = active + 1
      /\ UNCHANGED <<pending, busy>>
  BY DEF Enter, At
<1>2. "admit" \in Points
  BY DEF Points
<1>3. IsFiniteSet(In(Inside)') /\ Cardinality(In(Inside)') = Cardinality(In(Inside)) + 1
  BY <1>1, <1>2, MoveAll DEF Inside, Points
<1>4. Cardinality(In(Admitted)') = Cardinality(In(Admitted))
  BY <1>1, <1>2, MoveAll DEF Admitted
<1>5. Cardinality(In(Transporting)') = Cardinality(In(Transporting))
  BY <1>1, <1>2, MoveAll DEF Transporting
<1> QED BY <1>1, <1>3, <1>4, <1>5 DEF CountInv

LEMMA AdmitCounted ==
  ASSUME BookTypes, CountInv, NEW s \in Senders, Admit(s)
  PROVE  CountInv'
<1>1. at[s] = "admit" /\ UNCHANGED <<active, busy>>
  BY DEF Admit, At
<1>2. CASE pending < MaxPending
  <2>1. Goto(s, "register") /\ pending' = pending + 1 /\ "register" \in Points
    BY <1>2 DEF Admit, Points
  <2>2. IsFiniteSet(In(Inside)') /\ Cardinality(In(Inside)') = Cardinality(In(Inside))
    BY <1>1, <2>1, MoveAll DEF Inside, Points
  <2>3. /\ Cardinality(In(Admitted)') = Cardinality(In(Admitted)) + 1
        /\ Cardinality(In(Admitted)) \in Nat
    BY <1>1, <2>1, MoveAll DEF Admitted, Points
  <2>4. Cardinality(In(Transporting)') = Cardinality(In(Transporting))
    BY <1>1, <2>1, MoveAll DEF Transporting
  <2>5. pending + 1 <= MaxPending
    BY <1>2, <2>3, SinkAssumption DEF CountInv
  <2> QED BY <1>1, <2>1, <2>2, <2>3, <2>4, <2>5 DEF CountInv
<1>3. CASE ~ (pending < MaxPending)
  <2>1. Goto(s, "exit") /\ pending' = pending
    BY <1>3 DEF Admit
  <2> QED BY <1>1, <2>1, StayCounted DEF Inside, Admitted, Transporting, Points
<1> QED BY <1>2, <1>3

LEMMA TransportCounted ==
  ASSUME BookTypes, CountInv, NEW s \in Senders, TakeTransport(s) \/ ReleaseTransport(s)
  PROVE  CountInv'
<1>1. CASE TakeTransport(s) /\ busy < MaxConcurrent
  <2>1. /\ at[s] = "transport" /\ Goto(s, "posting") /\ busy' = busy + 1
        /\ UNCHANGED <<active, pending>> /\ "posting" \in Points
    BY <1>1 DEF TakeTransport, At, Points
  <2>2. IsFiniteSet(In(Inside)') /\ Cardinality(In(Inside)') = Cardinality(In(Inside))
    BY <2>1, MoveAll DEF Inside, Points
  <2>3. Cardinality(In(Admitted)') = Cardinality(In(Admitted))
    BY <2>1, MoveAll DEF Admitted, Points
  <2>4. /\ Cardinality(In(Transporting)') = Cardinality(In(Transporting)) + 1
        /\ Cardinality(In(Transporting)) \in Nat
    BY <2>1, MoveAll DEF Transporting
  <2>5. busy + 1 <= MaxConcurrent
    BY <1>1, <2>4, SinkAssumption DEF CountInv
  <2> QED BY <2>1, <2>2, <2>3, <2>4, <2>5 DEF CountInv
<1>2. CASE TakeTransport(s) /\ ~ (busy < MaxConcurrent)
  <2>1. at[s] = "transport" /\ Goto(s, "finish") /\ UNCHANGED <<active, pending, busy>>
    BY <1>2 DEF TakeTransport, At
  <2> QED BY <2>1, StayCounted DEF Inside, Admitted, Transporting, Points
<1>3. CASE ReleaseTransport(s)
  <2>1. /\ at[s] = "release" /\ Goto(s, "finish") /\ busy' = busy - 1
        /\ UNCHANGED <<active, pending>> /\ "finish" \in Points
    BY <1>3 DEF ReleaseTransport, At, Points
  <2>2. IsFiniteSet(In(Inside)') /\ Cardinality(In(Inside)') = Cardinality(In(Inside))
    BY <2>1, MoveAll DEF Inside, Points
  <2>3. Cardinality(In(Admitted)') = Cardinality(In(Admitted))
    BY <2>1, MoveAll DEF Admitted, Points
  <2>4. /\ Cardinality(In(Transporting)') = Cardinality(In(Transporting)) - 1
        /\ Cardinality(In(Transporting)) \in Nat
    BY <2>1, MoveAll DEF Transporting
  <2>5. busy - 1 <= MaxConcurrent
    BY <2>4, SinkAssumption DEF CountInv
  <2> QED BY <2>1, <2>2, <2>3, <2>4, <2>5 DEF CountInv
<1> QED BY <1>1, <1>2, <1>3

LEMMA LeavesCounted ==
  ASSUME BookTypes, CountInv, NEW s \in Senders, Leave(s) \/ Exit(s)
  PROVE  CountInv'
<1>1. CASE Leave(s)
  <2>1. /\ at[s] = "leave" /\ Goto(s, "exit") /\ pending' = pending - 1
        /\ UNCHANGED <<active, busy>> /\ "exit" \in Points
    BY <1>1 DEF Leave, At, Points
  <2>2. IsFiniteSet(In(Inside)') /\ Cardinality(In(Inside)') = Cardinality(In(Inside))
    BY <2>1, MoveAll DEF Inside, Points
  <2>3. /\ Cardinality(In(Admitted)') = Cardinality(In(Admitted)) - 1
        /\ Cardinality(In(Admitted)) \in Nat
    BY <2>1, MoveAll DEF Admitted, Points
  <2>4. Cardinality(In(Transporting)') = Cardinality(In(Transporting))
    BY <2>1, MoveAll DEF Transporting
  <2>5. pending - 1 <= MaxPending
    BY <2>3, SinkAssumption DEF CountInv
  <2> QED BY <2>1, <2>2, <2>3, <2>4, <2>5 DEF CountInv
<1>2. CASE Exit(s)
  <2>1. /\ at[s] = "exit" /\ Goto(s, "idle") /\ active' = active - 1
        /\ UNCHANGED <<pending, busy>> /\ "idle" \in Points
    BY <1>2 DEF Exit, At, Points
  <2>2. IsFiniteSet(In(Inside)') /\ Cardinality(In(Inside)') = Cardinality(In(Inside)) - 1
    BY <2>1, MoveAll DEF Inside, Points
  <2>3. Cardinality(In(Admitted)') = Cardinality(In(Admitted))
    BY <2>1, MoveAll DEF Admitted, Points
  <2>4. Cardinality(In(Transporting)') = Cardinality(In(Transporting))
    BY <2>1, MoveAll DEF Transporting
  <2> QED BY <2>1, <2>2, <2>3, <2>4 DEF CountInv
<1> QED BY <1>1, <1>2

LEMMA SendCounted ==
  ASSUME BookTypes, CountInv, NEW s \in Senders, SendOn(s)
  PROVE  CountInv'
<1> USE DEF Inside, Admitted, Transporting, Points, At
<1>1. CASE Register(s)
  <2>1. PICK p \in {"leave", "wait", "transport"} : Goto(s, p)
    BY <1>1 DEF Register, Refuse, Conflict, AlreadyDelivered, JoinDelivery, StartDelivery,
                NoRoom, Return
  <2>2. at[s] = "register" /\ UNCHANGED <<active, pending, busy>>
    BY <1>1 DEF Register, Refuse, Conflict, AlreadyDelivered, JoinDelivery, StartDelivery,
                NoRoom, sink
  <2> QED BY <2>1, <2>2, StayCounted
<1>2. CASE WaitEnds(s) \/ WaitTimesOut(s)
  <2>1. at[s] = "wait" /\ Goto(s, "leave") /\ UNCHANGED <<active, pending, busy>>
    BY <1>2 DEF WaitEnds, WaitTimesOut, Return, sink
  <2> QED BY <2>1, StayCounted
<1>3. CASE ReachReceiver(s) \/ PostSucceeds(s) \/ PostFails(s)
  <2>1. PICK p \in {"posted", "release"} : Goto(s, p)
    BY <1>3 DEF ReachReceiver, PostSucceeds, PostFails
  <2>2. at[s] \in {"posting", "posted"} /\ UNCHANGED <<active, pending, busy>>
    BY <1>3 DEF ReachReceiver, PostSucceeds, PostFails, sink
  <2> QED BY <2>1, <2>2, StayCounted
<1>4. CASE SetStatus(s)
  <2>1. at[s] = "finish" /\ Goto(s, "signal") /\ UNCHANGED <<active, pending, busy>>
    BY <1>4 DEF SetStatus, sink
  <2> QED BY <2>1, StayCounted
<1>5. CASE Signal(s)
  <2>1. at[s] = "signal" /\ Goto(s, "leave") /\ UNCHANGED <<active, pending, busy>>
    BY <1>5 DEF Signal, Return, sink
  <2> QED BY <2>1, StayCounted
<1> QED BY <1>1, <1>2, <1>3, <1>4, <1>5, AdmitCounted, TransportCounted, LeavesCounted DEF SendOn

\* While somebody is inside, nobody has begun to shut the client.
LEMMA SendShut ==
  ASSUME BookTypes, CInv, NEW s \in Senders, SendOn(s)
  PROVE  ControlTypes' /\ ShutInv'
<1>1. at[s] # "idle" /\ UNCHANGED <<lifecycle, client, closer, sends>>
  BY DEF SendOn, Admit, Register, Refuse, Conflict, AlreadyDelivered, JoinDelivery,
         StartDelivery, NoRoom, WaitEnds, WaitTimesOut, TakeTransport, ReachReceiver,
         PostSucceeds, PostFails, ReleaseTransport, SetStatus, Signal, Leave, Exit, At, sink
<1>2. active # 0
  BY <1>1, NobodyInside DEF CInv, BookTypes
<1> QED BY <1>1, <1>2 DEF CInv, ControlTypes, ShutInv

LEMMA EnterShut ==
  ASSUME CInv, NEW s \in Senders, NEW e \in Events, Enter(s, e)
  PROVE  ControlTypes' /\ ShutInv'
<1>1. lifecycle = "open" /\ UNCHANGED <<lifecycle, client, closer>> /\ sends' = sends + 1
  BY DEF Enter
<1>2. client /\ \A c \in Closers : closer[c] \notin {"drain", "shut", "publish"}
  BY <1>1 DEF CInv, ShutInv
<1> QED BY <1>1, <1>2 DEF CInv, ControlTypes, ShutInv

LEMMA SameCounts ==
  ASSUME CountInv, UNCHANGED <<at, active, pending, busy>>
  PROVE  CountInv'
<1>1. \A P : In(P)' = In(P)
  BY DEF In
<1> QED BY <1>1 DEF CountInv

LEMMA CloseShut ==
  ASSUME CInv, NEW c \in Closers, Close(c) \/ CloseOn(c)
  PROVE  CInv'
<1> USE DEF CInv, ControlTypes, CloserAt, CloserGoto
<1>1. UNCHANGED <<at, active, pending, busy, sends>>
  BY DEF Close, CloseOn, Drained, ShutClient, PublishClosed, CloseAwaited, sink, sender
<1>2. CountInv'
  BY <1>1, SameCounts
<1>3. CASE Close(c)
  BY <1>1, <1>2, <1>3 DEF Close, ShutInv
<1>4. CASE Drained(c)
  BY <1>1, <1>2, <1>4 DEF Drained, ShutInv, sink
<1>5. CASE ShutClient(c)
  BY <1>1, <1>2, <1>5 DEF ShutClient, ShutInv
<1>6. CASE PublishClosed(c)
  BY <1>1, <1>2, <1>6 DEF PublishClosed, ShutInv
<1>7. CASE CloseAwaited(c)
  BY <1>1, <1>2, <1>7 DEF CloseAwaited, ShutInv, sink
<1> QED BY <1>3, <1>4, <1>5, <1>6, <1>7 DEF CloseOn

-----------------------------------------------------------------------------
(* The theorems.                                                           *)

LEMMA CounterInit == Init => CInv
<1> SUFFICES ASSUME Init PROVE CInv
  OBVIOUS
<1>1. In(Inside) = {} /\ In(Admitted) = {} /\ In(Transporting) = {}
  BY DEF Init, In, Inside, Admitted, Transporting
<1>2. CountInv
  BY <1>1, FS_EmptySet, SinkAssumption DEF Init, CountInv
<1> QED BY <1>2 DEF Init, CInv, ControlTypes, ShutInv

LEMMA CounterNext ==
  ASSUME BookTypes, CInv, [Next]_vars
  PROVE  CInv'
<1>1. ASSUME NEW s \in Senders, SendOn(s) PROVE CInv'
  BY <1>1, SendCounted, SendShut DEF CInv
<1>2. ASSUME NEW s \in Senders, NEW e \in Events, Enter(s, e) PROVE CInv'
  BY <1>2, EntersCounted, EnterShut DEF CInv
<1>3. ASSUME NEW c \in Closers, Close(c) \/ CloseOn(c) PROVE CInv'
  BY <1>3, CloseShut
<1>4. ASSUME NEW n \in lost, ArriveLate(n) PROVE CInv'
  <2>1. UNCHANGED <<sink, at, closer, sends>>
    BY <1>4 DEF ArriveLate, sender
  <2> QED BY <2>1, SameCounts DEF CInv, ControlTypes, ShutInv, sink
<1>5. CASE UNCHANGED vars
  BY <1>5, SameCounts DEF CInv, ControlTypes, ShutInv, vars, sink, sender
<1> QED BY <1>1, <1>2, <1>3, <1>4, <1>5 DEF Next

LEMMA CountersHold == Spec => [](IInv /\ CInv)
<1>1. IInv /\ CInv /\ [Next]_vars => CInv'
  BY CounterNext DEF IInv
<1> QED BY <1>1, CounterInit, InvHolds, PTL DEF Spec

LEMMA CountsAreNumbers == CountInv => active \in Nat /\ pending \in Nat /\ busy \in Nat
<1> SUFFICES ASSUME CountInv PROVE active \in Nat /\ pending \in Nat /\ busy \in Nat
  OBVIOUS
<1>1. Admitted \subseteq Inside /\ Transporting \subseteq Inside
  BY DEF Inside, Admitted, Transporting, Points
<1> QED BY <1>1, FiniteIn DEF CountInv

\* Every variable of the sink keeps its type; no counter goes below zero.
THEOREM SinkTypes == Spec => []TypeOK
<1>1. IInv /\ CInv => TypeOK
  BY CountsAreNumbers DEF IInv, CInv, ControlTypes, TypeOK, CounterTypes
<1> QED BY <1>1, CountersHold, PTL

\* On every path through send the slots and the active count are given back
\* exactly once (the finally blocks of send and _send_admitted).
THEOREM SlotsAreBalanced == Spec => []SlotsBalance
<1>1. ASSUME BookTypes, CountInv PROVE SlotsBalance
  <2>1. In(Transporting) = {s \in Senders : at[s] \in {"posting", "posted", "release"}}
    BY DEF In, Transporting
  <2>2. In(Admitted) = {s \in Senders : at[s] \notin {"idle", "admit", "exit"}}
    BY <1>1 DEF In, Admitted, BookTypes
  <2>3. In(Inside) = {s \in Senders : ~ At(s, "idle")}
    BY <1>1 DEF In, Inside, BookTypes, At
  <2> QED BY <1>1, <2>1, <2>2, <2>3 DEF CountInv, SlotsBalance
<1>2. IInv /\ CInv => SlotsBalance
  BY <1>1 DEF IInv, CInv
<1> QED BY <1>2, CountersHold, PTL

\* close shuts the client only when the last send has left, and none comes after.
THEOREM ClientIsLast == Spec => []ClientOutlivesRequests
<1>1. IInv /\ CInv => ClientOutlivesRequests
  BY NobodyInside DEF IInv, CInv, ShutInv, BookTypes, ClientOutlivesRequests
<1> QED BY <1>1, CountersHold, PTL

-----------------------------------------------------------------------------
(* Nobody waits for what nobody will do.  A thread lets go of the delivery *)
(* it makes only by setting its event, and by then it has set the status;  *)
(* a closer leaves close only once the sink is closed.                     *)

Abandoned(n) == ~ \E s \in Senders : Delivering(s) /\ mine[s] = n

TendedInv ==
  /\ \A n \in Made : IF states[n].done THEN states[n].status # "in_flight"
                                       ELSE ~ Abandoned(n)
  /\ \A s \in Senders : At(s, "signal") => states[mine[s]].status # "in_flight"

ClosingInv ==
  lifecycle = "closing" => \E c \in Closers : closer[c] \in {"drain", "shut", "publish"}

\* A step that changes no state may move a thread that delivers to where it still does.
LEMMA MoveTended ==
  ASSUME BookTypes, TendedInv, NEW s \in Senders, NEW p \in Points, Goto(s, p),
         p # "signal", UNCHANGED states,
         \A t \in Senders : t # s \/ Delivering(t) => mine'[t] = mine[t],
         Delivering(s) => p \in {"posting", "posted", "release", "finish"}
  PROVE  TendedInv'
<1>1. at'[s] = p /\ \A t \in Senders : t # s => at'[t] = at[t]
  BY DEF BookTypes, Goto
<1>2. \A t \in Senders : Delivering(t) => Delivering(t)' /\ mine'[t] = mine[t]
  BY <1>1 DEF Delivering
<1>3. \A n : ~ Abandoned(n) => ~ Abandoned(n)'
  BY <1>2 DEF Abandoned
<1>4. \A t \in Senders : At(t, "signal")' => At(t, "signal") /\ mine'[t] = mine[t]
  BY <1>1 DEF At
<1> QED BY <1>3, <1>4 DEF TendedInv, Made

LEMMA EnterTended ==
  ASSUME BookTypes, TendedInv, NEW s \in Senders, NEW e \in Events, Enter(s, e)
  PROVE  TendedInv'
<1>1. Goto(s, "admit") /\ UNCHANGED <<states, mine>> /\ ~ Delivering(s)
  BY DEF Enter, book, At, Delivering
<1> QED BY <1>1, MoveTended DEF Points

\* Before a thread delivers, and after.
LEMMA OutsideTended ==
  ASSUME BookTypes, TendedInv, NEW s \in Senders,
         \/ Admit(s) \/ Leave(s) \/ Exit(s) \/ JoinDelivery(s)
         \/ Refuse(s) \/ Conflict(s) \/ AlreadyDelivered(s) \/ NoRoom(s)
         \/ WaitEnds(s) \/ WaitTimesOut(s)
  PROVE  TendedInv'
<1>1. ~ Delivering(s)
  BY DEF Admit, Leave, Exit, JoinDelivery, Refuse, Conflict, AlreadyDelivered, NoRoom,
         WaitEnds, WaitTimesOut, At, Delivering
<1>2. UNCHANGED states
  BY DEF Admit, Leave, Exit, JoinDelivery, Refuse, Conflict, AlreadyDelivered, NoRoom,
         WaitEnds, WaitTimesOut, book
<1>3. PICK p \in {"register", "exit", "idle", "wait", "leave"} : Goto(s, p)
  BY DEF Admit, Leave, Exit, JoinDelivery, Refuse, Conflict, AlreadyDelivered, NoRoom,
         WaitEnds, WaitTimesOut, Return
<1>4. \A t \in Senders : t # s => mine'[t] = mine[t]
  BY DEF Admit, Leave, Exit, JoinDelivery, Refuse, Conflict, AlreadyDelivered, NoRoom,
         WaitEnds, WaitTimesOut, BookTypes
<1> QED BY <1>1, <1>2, <1>3, <1>4, MoveTended DEF Points

LEMMA DeliverTended ==
  ASSUME BookTypes, TendedInv, NEW s \in Senders,
         \/ TakeTransport(s) \/ ReachReceiver(s) \/ PostSucceeds(s) \/ PostFails(s)
         \/ ReleaseTransport(s)
  PROVE  TendedInv'
<1>1. UNCHANGED <<states, mine>>
  BY DEF TakeTransport, ReachReceiver, PostSucceeds, PostFails, ReleaseTransport, book
<1>2. PICK p \in {"posting", "posted", "release", "finish"} : Goto(s, p)
  BY DEF TakeTransport, ReachReceiver, PostSucceeds, PostFails, ReleaseTransport
<1> QED BY <1>1, <1>2, MoveTended DEF Points

\* A delivery is made with the thread that makes it.
LEMMA StartTended ==
  ASSUME IInv, TendedInv, NEW s \in Senders, StartDelivery(s)
  PROVE  TendedInv'
<1> DEFINE new == Len(states) + 1
<1>1. /\ states \in Seq(States) /\ mine \in [Senders -> Nat]
      /\ at \in [Senders -> Points] /\ at[s] = "register"
  BY DEF IInv, BookTypes, StartDelivery, At
<1>2. /\ Len(states') = new /\ new \in Nat
      /\ \A n \in Made : states'[n] = states[n]
      /\ states'[new].done = FALSE
  BY <1>1 DEF StartDelivery, Made
<1>3. /\ at'[s] = "transport" /\ mine'[s] = new
      /\ \A t \in Senders : t # s => at'[t] = at[t] /\ mine'[t] = mine[t]
  BY <1>1 DEF StartDelivery, Goto
<1>4. \A n : n = new \/ ~ Abandoned(n) => ~ Abandoned(n)'
  BY <1>1, <1>3 DEF Abandoned, Delivering
<1>5. ASSUME NEW n \in Made'
      PROVE  IF states'[n].done THEN states'[n].status # "in_flight" ELSE ~ Abandoned(n)'
  <2>1. n \in Made \/ n = new
    BY <1>1, <1>2, <1>5 DEF Made
  <2> QED BY <2>1, <1>2, <1>4 DEF TendedInv
<1>6. ASSUME NEW t \in Senders, At(t, "signal")'
      PROVE  states'[mine'[t]].status # "in_flight"
  <2>1. t # s /\ At(t, "signal") /\ mine'[t] = mine[t]
    BY <1>3, <1>6 DEF At
  <2>2. mine[t] \in Made
    BY <2>1 DEF IInv, SenderInv, Involved, At
  <2> QED BY <2>1, <2>2, <1>2 DEF TendedInv
<1> QED BY <1>5, <1>6 DEF TendedInv

\* The status is set before the event, and by the thread that then sets the event.
LEMMA SetStatusTended ==
  ASSUME IInv, TendedInv, NEW s \in Senders, SetStatus(s)
  PROVE  TendedInv'
<1> DEFINE m == mine[s]
<1>1. /\ states \in Seq(States) /\ at \in [Senders -> Points] /\ at[s] = "finish"
      /\ UNCHANGED mine
  BY DEF IInv, BookTypes, SetStatus, At
<1>2. m \in Made
  BY <1>1 DEF IInv, SenderInv, Involved
<1>3. Len(states') = Len(states) /\ \A n \in Made : n # m => states'[n] = states[n]
  BY <1>1, <1>2 DEF SetStatus, Made
<1>4. states'[m].status # "in_flight" /\ states'[m].done = states[m].done
  <2>1. states[m] \in States
    BY <1>1, <1>2 DEF Made
  <2> QED BY <1>1, <1>2, <2>1 DEF SetStatus, Made, States
<1>5. at'[s] = "signal" /\ \A t \in Senders : t # s => at'[t] = at[t]
  BY <1>1 DEF SetStatus, Goto
<1>6. \A n : ~ Abandoned(n) => ~ Abandoned(n)'
  BY <1>1, <1>5 DEF Abandoned, Delivering
<1>7. \A n \in Made' : IF states'[n].done THEN states'[n].status # "in_flight"
                                          ELSE ~ Abandoned(n)'
  BY <1>3, <1>4, <1>6 DEF TendedInv, Made
<1>8. ASSUME NEW t \in Senders, At(t, "signal")'
      PROVE  states'[mine'[t]].status # "in_flight"
  <2>1. CASE mine[t] = m
    BY <2>1, <1>1, <1>4
  <2>2. CASE mine[t] # m
    <3>1. At(t, "signal")
      BY <2>2, <1>5, <1>8 DEF At
    <3>2. mine[t] \in Made
      BY <3>1 DEF IInv, SenderInv, Involved, At
    <3> QED BY <2>2, <3>1, <3>2, <1>1, <1>3 DEF TendedInv
  <2> QED BY <2>1, <2>2
<1> QED BY <1>7, <1>8 DEF TendedInv

LEMMA SignalTended ==
  ASSUME IInv, TendedInv, NEW s \in Senders, Signal(s)
  PROVE  TendedInv'
<1> DEFINE m == mine[s]
<1>1. /\ states \in Seq(States) /\ at \in [Senders -> Points] /\ At(s, "signal")
      /\ UNCHANGED mine
  BY DEF IInv, BookTypes, Signal
<1>2. m \in Made
  BY <1>1 DEF IInv, SenderInv, Involved, At
<1>3. Len(states') = Len(states) /\ \A n \in Made : n # m => states'[n] = states[n]
  BY <1>1, <1>2 DEF Signal, Made
<1>4. states'[m].status = states[m].status /\ states'[m].done
  <2>1. states[m] \in States
    BY <1>1, <1>2 DEF Made
  <2> QED BY <1>1, <1>2, <2>1 DEF Signal, Made, States
<1>5. at'[s] = "leave" /\ \A t \in Senders : t # s => at'[t] = at[t]
  BY <1>1 DEF Signal, Return, Goto
<1>6. \A n : n # m /\ ~ Abandoned(n) => ~ Abandoned(n)'
  BY <1>1, <1>5 DEF Abandoned, Delivering
<1>7. states[m].status # "in_flight"
  BY <1>1 DEF TendedInv
<1>8. \A n \in Made' : IF states'[n].done THEN states'[n].status # "in_flight"
                                          ELSE ~ Abandoned(n)'
  BY <1>3, <1>4, <1>6, <1>7 DEF TendedInv, Made
<1>9. ASSUME NEW t \in Senders, At(t, "signal")'
      PROVE  states'[mine'[t]].status # "in_flight"
  <2>1. At(t, "signal")
    BY <1>5, <1>9 DEF At
  <2>2. mine[t] \in Made /\ states[mine[t]].status # "in_flight"
    BY <2>1 DEF IInv, SenderInv, TendedInv, Involved, At
  <2> QED BY <2>2, <1>1, <1>3, <1>4
<1> QED BY <1>8, <1>9 DEF TendedInv

LEMMA NextTended == IInv /\ TendedInv /\ [Next]_vars => TendedInv'
<1> SUFFICES ASSUME IInv, TendedInv, [Next]_vars PROVE TendedInv'
  OBVIOUS
<1>1. BookTypes
  BY DEF IInv
<1>2. ASSUME NEW s \in Senders, SendOn(s) PROVE TendedInv'
  BY <1>1, <1>2, OutsideTended, DeliverTended, StartTended, SetStatusTended, SignalTended
     DEF SendOn, Register
<1>3. ASSUME NEW s \in Senders, NEW e \in Events, Enter(s, e) PROVE TendedInv'
  BY <1>1, <1>3, EnterTended
<1>4. ASSUME UNCHANGED <<book, sender>> PROVE TendedInv'
  BY <1>4 DEF TendedInv, Abandoned, Delivering, Made, At, book, sender
<1>5. ASSUME NEW c \in Closers, Close(c) \/ CloseOn(c) PROVE TendedInv'
  <2>1. UNCHANGED <<book, sender>>
    BY <1>5 DEF Close, CloseOn, Drained, ShutClient, PublishClosed, CloseAwaited
  <2> QED BY <1>4, <2>1
<1>6. ASSUME NEW n \in lost, ArriveLate(n) PROVE TendedInv'
  BY <1>4, <1>6 DEF ArriveLate
<1>7. CASE UNCHANGED vars
  BY <1>4, <1>7 DEF vars
<1> QED BY <1>2, <1>3, <1>5, <1>6, <1>7 DEF Next

\* Whoever finds the sink open and closes it stays until it has published that.
LEMMA NextClosing == ControlTypes /\ ClosingInv /\ [Next]_vars => ClosingInv'
<1> SUFFICES ASSUME ControlTypes, ClosingInv, [Next]_vars PROVE ClosingInv'
  OBVIOUS
<1> DEFINE Closing(c) == closer[c] \in {"drain", "shut", "publish"}
<1>1. ASSUME UNCHANGED <<lifecycle, closer>> PROVE ClosingInv'
  BY <1>1 DEF ClosingInv
<1>2. ASSUME NEW s \in Senders, SendOn(s) PROVE ClosingInv'
  <2>1. UNCHANGED <<lifecycle, closer>>
    BY <1>2 DEF SendOn, Register, Admit, Refuse, Conflict, AlreadyDelivered, JoinDelivery,
       StartDelivery, NoRoom, WaitEnds, WaitTimesOut, TakeTransport, ReachReceiver,
       PostSucceeds, PostFails, ReleaseTransport, SetStatus, Signal, Leave, Exit, sink
  <2> QED BY <1>1, <2>1
<1>3. ASSUME NEW s \in Senders, NEW e \in Events, Enter(s, e) PROVE ClosingInv'
  BY <1>1, <1>3 DEF Enter
<1>4. ASSUME NEW c \in Closers, Close(c) \/ CloseOn(c) PROVE ClosingInv'
  <2> USE DEF CloserAt, CloserGoto, ControlTypes
  <2>1. CASE Close(c)
    <3>1. \A d \in Closers : Closing(d) => Closing(d)'
      BY <2>1 DEF Close
    <3>2. lifecycle = "closing" \/ Closing(c)'
      BY <2>1 DEF Close
    <3> QED BY <3>1, <3>2 DEF ClosingInv
  <2>2. CASE Drained(c)
    <3>1. Closing(c)'
      BY <2>2 DEF Drained
    <3> QED BY <3>1 DEF ClosingInv
  <2>3. CASE ShutClient(c)
    <3>1. Closing(c)'
      BY <2>3 DEF ShutClient
    <3> QED BY <3>1 DEF ClosingInv
  <2>4. CASE PublishClosed(c)
    BY <2>4 DEF PublishClosed, ClosingInv
  <2>5. CASE CloseAwaited(c)
    BY <2>5 DEF CloseAwaited, ClosingInv, sink
  <2> QED BY <1>4, <2>1, <2>2, <2>3, <2>4, <2>5 DEF CloseOn
<1>5. ASSUME NEW n \in lost, ArriveLate(n) PROVE ClosingInv'
  BY <1>1, <1>5 DEF ArriveLate, sink
<1>6. CASE UNCHANGED vars
  BY <1>1, <1>6 DEF vars, sink
<1> QED BY <1>2, <1>3, <1>4, <1>5, <1>6 DEF Next

\* A delivery that is not over has a thread that ends it, one that is over has been
\* decided, and a sink that is closing has a thread that closes it (_finish_state
\* in every path of _send_admitted, the finally blocks of close).
THEOREM NobodyIsLeftWaiting == Spec => []NothingIsAbandoned
<1>1. Init => TendedInv /\ ClosingInv
  BY DEF Init, TendedInv, ClosingInv, Made, At
<1>2. IInv /\ CInv /\ TendedInv /\ ClosingInv /\ [Next]_vars => TendedInv' /\ ClosingInv'
  BY NextTended, NextClosing DEF CInv
<1>3. TendedInv /\ ClosingInv => NothingIsAbandoned
  BY DEF TendedInv, ClosingInv, NothingIsAbandoned, Abandoned, Made
<1> QED BY <1>1, <1>2, <1>3, CountersHold, PTL DEF Spec

=============================================================================
