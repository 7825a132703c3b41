---------------------------- MODULE BridgeProofs ----------------------------
(***************************************************************************)
(* The safety properties of Bridge, for any number of clients, signals,    *)
(* outages and calls.                                                      *)
(***************************************************************************)
EXTENDS Bridge, TLAPS

\* Before the first connection there is no bus to read from and no client; and
\* a link that is up leaves nothing to the reconnect loop but to subscribe.
Phases ==
    /\ initial <=> bus = 0
    /\ initial => ~connected /\ inbox = <<>> /\ \A w \in Clients : place[w] = "away"
    /\ connected => loop \in {"none", "resub"}

\* Everything but the order of signals.
CInv == TypeOK /\ Phases /\ NoStuckWaiter /\ StreamIsComplete
---------------------------------------------------------------------------
(* Types.                                                                  *)

\* Control messages stay where they are meant to be.
LEMMA BroadcastType ==
  ASSUME TypeOK, NEW note \in Notes, NEW quitting, Broadcast(note, quitting)
  PROVE  queue' \in [Clients -> Seq(Notes)] /\ told' \in [Clients -> Notes \cup {"none"}]
BY DEF TypeOK, Broadcast

\* Those who quit leave nothing behind.
LEMMA SilenceType ==
  ASSUME TypeOK, NEW quitting, Silence(quitting)
  PROVE  queue' \in [Clients -> Seq(Notes)] /\ told' \in [Clients -> Notes \cup {"none"}]
BY DEF TypeOK, Silence

\* A report of an outage leaves the variables that it changes well typed.
LEMMA LostType ==
  ASSUME TypeOK, NEW quitting, OnConnectionLost(quitting)
  PROVE  /\ queue' \in [Clients -> Seq(Notes)] /\ told' \in [Clients -> Notes \cup {"none"}]
         /\ connected' \in BOOLEAN /\ initial' \in BOOLEAN
         /\ loop' \in {"none", "wait", "asked", "matched", "ready", "resub"}
<1>1. queue' \in [Clients -> Seq(Notes)] /\ told' \in [Clients -> Notes \cup {"none"}]
  <2>1. CASE connected
    BY <2>1, BroadcastType DEF OnConnectionLost, Notes
  <2>2. CASE ~connected
    BY <2>2, SilenceType DEF OnConnectionLost
  <2> QED BY <2>1, <2>2
<1>2. connected' \in BOOLEAN /\ initial' \in BOOLEAN
  BY DEF OnConnectionLost, TypeOK
<1>3. loop' \in {"none", "wait", "asked", "matched", "ready", "resub"}
  BY DEF OnConnectionLost, TypeOK
<1> QED BY <1>1, <1>2, <1>3

\* What is heard of is a message.
LEMMA HeardType ==
  ASSUME TypeOK, NEW message \in Messages, NEW places, Heard(message, places)
  PROVE  inbox' \in Seq(Messages) /\ fresh' \in Seq(Messages)
BY DEF TypeOK, Heard

\* The first state is well typed.
LEMMA TypeInit == ASSUME Init PROVE TypeOK
<1>1. outages \in 0..MaxOutages /\ emitted \in 0..MaxEvents /\ calls \in 0..MaxCalls
  BY BoundsAssumption DEF Init
<1>2. bus \in Nat /\ since \in 0..emitted
  BY DEF Init
<1>3. inbox \in Seq(Messages) /\ fresh \in Seq(Messages) /\ handled \in Seq(Nat \X (1..MaxEvents))
  BY DEF Init
<1>4. queue \in [Clients -> Seq(Notes)] /\ told \in [Clients -> Notes \cup {"none"}]
  BY DEF Init
<1>5. place \in [Clients -> InCall \cup {"away", "idle", "waiting"}]
  BY DEF Init, InCall
<1> QED
  BY <1>1, <1>2, <1>3, <1>4, <1>5 DEF Init, TypeOK

\* Every step keeps the state well typed.
LEMMA TypeStep == ASSUME TypeOK, [Next]_vars PROVE TypeOK'
<1> USE BoundsAssumption
<1>1. CASE Emit
  <2>1. emitted' \in 1..MaxEvents /\ since \in 0..emitted'
    BY <1>1 DEF Emit, TypeOK
  <2>2. inbox' \in Seq(Messages) /\ fresh' \in Seq(Messages)
    BY <1>1, <2>1, HeardType DEF Emit, Messages
  <2> QED
    BY <1>1, <2>1, <2>2 DEF Emit, TypeOK, linkVars, noteVars
<1>2. CASE Vanish
  <2>1. inbox' \in Seq(Messages) /\ fresh' \in Seq(Messages)
    BY <1>2, HeardType DEF Vanish, Messages, Gone
  <2>2. outages' \in 0..MaxOutages
    BY <1>2 DEF Vanish, TypeOK
  <2>3. place' \in [Clients -> InCall \cup {"away", "idle", "waiting"}]
    BY <1>2 DEF Vanish, TypeOK, InCall
  <2> QED
    BY <1>2, <2>1, <2>2, <2>3 DEF Vanish, TypeOK, linkVars, noteVars
<1>3. CASE Appear
  BY <1>3 DEF Appear, TypeOK, busVars, linkVars, noteVars
<1>4. CASE Read
  <2>1. inbox' \in Seq(Messages) /\ Head(inbox) \in Messages
    BY <1>4 DEF Read, TypeOK
  <2>2. CASE Head(inbox) = Gone
    BY <1>4, <2>1, <2>2, LostType DEF Read, HandleMessage, TypeOK, serviceVars
  <2>3. CASE Head(inbox) # Gone
    <3>1. Head(inbox) \in 1..MaxEvents
      BY <2>1, <2>3 DEF Messages, Gone
    <3>2. handled' \in Seq(Nat \X (1..MaxEvents))
      <4>1. handled' = Append(handled, <<bus, Head(inbox)>>)
        BY <1>4, <2>3 DEF Read, HandleMessage
      <4>2. <<bus, Head(inbox)>> \in Nat \X (1..MaxEvents)
        BY <3>1 DEF TypeOK
      <4> QED
        BY <4>1, <4>2 DEF TypeOK
    <3>3. UNCHANGED <<linkVars, noteVars>>
      BY <1>4, <2>3 DEF Read, HandleMessage
    <3> QED
      BY <1>4, <2>1, <3>2, <3>3 DEF Read, TypeOK, serviceVars, linkVars, noteVars
  <2> QED BY <2>2, <2>3
<1>5. CASE ReadFresh
  BY <1>5 DEF ReadFresh, TypeOK, serviceVars, linkVars, noteVars
<1>6. CASE Attempt \/ AttemptFails \/ Match \/ MatchOwner \/ Resubscribed
  BY <1>6 DEF Attempt, AttemptFails, Match, MatchOwner, Resubscribed, loopOthers, TypeOK,
              serviceVars, busVars, noteVars
<1>7. CASE Connected
  <2>1. queue' \in [Clients -> Seq(Notes)] /\ told' \in [Clients -> Notes \cup {"none"}]
    BY <1>7, BroadcastType DEF Connected, Adopt, Notes, TypeOK, noteVars
  <2>2. place' \in [Clients -> InCall \cup {"away", "idle", "waiting"}]
    BY <1>7 DEF Connected, Adopt, TypeOK, InCall
  <2>3. /\ bus' \in Nat /\ inbox' \in Seq(Messages) /\ fresh' \in Seq(Messages)
        /\ since' \in 0..emitted'
    BY <1>7 DEF Connected, Adopt, TypeOK, serviceVars
  <2> QED
    BY <1>7, <2>1, <2>2, <2>3 DEF Connected, TypeOK, serviceVars
<1>8. ASSUME NEW w \in Clients, Join(w) \/ Call(w) \/ Deliver(w) PROVE TypeOK'
  <2>1. queue' \in [Clients -> Seq(Notes)] /\ told' \in [Clients -> Notes \cup {"none"}]
    <3>1. CASE Deliver(w)
      BY <3>1 DEF Deliver, TypeOK
    <3>2. CASE Join(w) \/ Call(w)
      BY <3>2 DEF Join, Call, TypeOK, noteVars
    <3> QED BY <1>8, <3>1, <3>2
  <2>2. place' \in [Clients -> InCall \cup {"away", "idle", "waiting"}]
    BY <1>8 DEF Join, Call, Deliver, TypeOK, InCall
  <2>3. calls' \in 0..MaxCalls
    BY <1>8 DEF Join, Call, Deliver, TypeOK
  <2> QED
    BY <1>8, <2>1, <2>2, <2>3
       DEF Join, Call, Deliver, TypeOK, worldVars, serviceVars, busVars, linkVars
<1>9. ASSUME NEW w \in Clients, Leave(w) PROVE TypeOK'
  BY <1>9, SilenceType DEF Leave, TypeOK, worldVars, serviceVars, busVars, linkVars
<1>10. ASSUME NEW w \in Clients, CallReturns(w) PROVE TypeOK'
  BY <1>10 DEF CallReturns, ErrorReply, TypeOK, worldVars, serviceVars, busVars, linkVars, noteVars
<1>11. ASSUME NEW w \in Clients, CallErrs(w) PROVE TypeOK'
  <2>1. place' \in [Clients -> InCall \cup {"away", "idle", "waiting"}]
    BY <1>11 DEF CallErrs, ErrorReply, TypeOK
  <2> QED
    BY <1>11, <2>1, LostType DEF CallErrs, TypeOK, worldVars, serviceVars, busVars
<1>12. ASSUME NEW w \in Clients, CallDies(w) PROVE TypeOK'
  <2>1. place' \in [Clients -> InCall \cup {"away", "idle", "waiting"}]
    BY <1>12 DEF CallDies, TypeOK
  <2> QED
    BY <1>12, <2>1, LostType DEF CallDies, TypeOK, worldVars, serviceVars, busVars
<1>13. CASE UNCHANGED vars
  BY <1>13 DEF vars, TypeOK, serviceVars, busVars, linkVars, noteVars
<1> QED
  BY <1>1, <1>2, <1>3, <1>4, <1>5, <1>6, <1>7, <1>8, <1>9, <1>10, <1>11, <1>12, <1>13
     DEF Next, BusStep, LoopStep, ClientStep


\* The state stays well typed.
THEOREM TypeCorrect == Spec => []TypeOK
<1>1. Init => TypeOK
  BY TypeInit
<1>2. TypeOK /\ [Next]_vars => TypeOK'
  BY TypeStep
<1> QED
  BY <1>1, <1>2, PTL DEF Spec
---------------------------------------------------------------------------
(* Phases.                                                                 *)

\* A report of an outage keeps the phase, whoever ends with it.
LEMMA LostPhases ==
  ASSUME Phases, NEW quitting, OnConnectionLost(quitting), UNCHANGED <<bus, inbox>>,
         initial => \A w \in Clients : place'[w] = "away"
  PROVE  Phases'
BY DEF Phases, OnConnectionLost

\* The phases are kept by every step.
LEMMA PhasesStep == ASSUME TypeOK, Phases, [Next]_vars PROVE Phases'
<1>1. CASE Emit \/ Vanish
  <2>1. bus = 0 => inbox' = inbox
    BY <1>1 DEF Emit, Vanish, Heard, TypeOK
  <2>2. initial => \A w \in Clients : place'[w] = "away"
    BY <1>1 DEF Emit, Vanish, Phases
  <2> QED
    BY <1>1, <2>1, <2>2 DEF Emit, Vanish, Phases, linkVars
<1>2. CASE Appear \/ ReadFresh \/ UNCHANGED vars
  BY <1>2 DEF Appear, ReadFresh, vars, Phases, busVars, linkVars, serviceVars
<1>3. CASE Read
  <2>1. ~initial
    BY <1>3 DEF Read, Phases
  <2>2. CASE Head(inbox) = Gone
    BY <1>3, <2>1, <2>2 DEF Read, HandleMessage, OnConnectionLost, Phases
  <2>3. CASE Head(inbox) # Gone
    BY <1>3, <2>1, <2>3 DEF Read, HandleMessage, Phases, linkVars
  <2> QED BY <2>2, <2>3
<1>4. CASE Attempt \/ AttemptFails \/ Match \/ MatchOwner \/ Resubscribed
  BY <1>4 DEF Attempt, AttemptFails, Match, MatchOwner, Resubscribed, loopOthers, Phases, busVars
<1>5. CASE Connected
  BY <1>5 DEF Connected, Adopt, Phases, TypeOK
<1>6. ASSUME NEW w \in Clients, Join(w) \/ Leave(w) \/ Deliver(w) \/ Call(w) \/ CallReturns(w)
      PROVE  Phases'
  <2>1. CASE Deliver(w)
    <3>1. initial => \A v \in Clients : place'[v] = "away"
      BY <2>1 DEF Deliver, Phases, TypeOK
    <3> QED
      BY <2>1, <3>1 DEF Deliver, Phases, linkVars, worldVars, busVars
  <2>2. CASE Join(w) \/ Leave(w) \/ Call(w) \/ CallReturns(w)
    <3>1. ~initial
      BY <2>2 DEF Join, Leave, Call, CallReturns, Phases
    <3> QED
      BY <2>2, <3>1 DEF Join, Leave, Call, CallReturns, Phases, linkVars, worldVars, busVars
  <2> QED BY <1>6, <2>1, <2>2
<1>7. ASSUME NEW w \in Clients, CallErrs(w) \/ CallDies(w) PROVE Phases'
  <2>1. ~initial
    BY <1>7 DEF CallErrs, CallDies, InCall, Phases
  <2>2. CASE CallErrs(w)
    BY <2>1, <2>2, LostPhases DEF CallErrs, worldVars, busVars
  <2>3. CASE CallDies(w)
    BY <2>1, <2>3, LostPhases DEF CallDies, worldVars, busVars
  <2> QED BY <1>7, <2>2, <2>3
<1> QED
  BY <1>1, <1>2, <1>3, <1>4, <1>5, <1>6, <1>7 DEF Next, BusStep, LoopStep, ClientStep
---------------------------------------------------------------------------
(* Clients that wait for Reconnected.                                      *)

\* Reconnected is among the messages that have still to be written to w.
Called(w) == \E i \in 1..Len(queue[w]) : queue[w][i] = "Reconnected"

\* What is scheduled last is still to be written.
LEMMA BroadcastCalls ==
  ASSUME TypeOK, Broadcast("Reconnected", {}), NEW w \in Present
  PROVE  Called(w)'
<1>1. queue'[w] = Append(queue[w], "Reconnected")
  BY DEF Broadcast, Present
<1>2. queue[w] \in Seq(Notes)
  BY DEF TypeOK, Present
<1>3. /\ Len(queue'[w]) \in 1..Len(queue'[w])
      /\ queue'[w][Len(queue'[w])] = "Reconnected"
  BY <1>1, <1>2
<1> QED BY <1>3 DEF Called

\* Nobody who is told to wait misses the message that ends the wait.
LEMMA WaiterStep == ASSUME TypeOK, Phases, NoStuckWaiter, [Next]_vars PROVE NoStuckWaiter'
<1> USE DEF NoStuckWaiter
<1>1. CASE Emit \/ Appear \/ ReadFresh \/ UNCHANGED vars
  BY <1>1 DEF Emit, Appear, ReadFresh, vars, linkVars, noteVars
<1>2. CASE Vanish
  <2>1. \A w \in Clients : place'[w] = "waiting" => place[w] = "waiting"
    BY <1>2 DEF Vanish, TypeOK
  <2> QED
    BY <1>2, <2>1 DEF Vanish, linkVars, noteVars
<1>3. CASE Read
  <2>1. CASE Head(inbox) = Gone
    BY <1>3, <2>1 DEF Read, HandleMessage, OnConnectionLost
  <2>2. CASE Head(inbox) # Gone
    BY <1>3, <2>2 DEF Read, HandleMessage, linkVars, noteVars
  <2> QED BY <2>1, <2>2
<1>4. CASE Attempt \/ AttemptFails \/ Match \/ MatchOwner \/ Resubscribed
  BY <1>4 DEF Attempt, AttemptFails, Match, MatchOwner, Resubscribed, loopOthers, noteVars
<1>5. CASE Connected
  <2>1. \A w \in Clients : place'[w] = "waiting" => place[w] = "waiting"
    BY <1>5 DEF Connected, Adopt, TypeOK
  <2>2. CASE initial
    BY <2>1, <2>2 DEF Phases
  <2>3. CASE ~initial
    <3>1. Broadcast("Reconnected", {})
      BY <1>5, <2>3 DEF Connected, Adopt
    <3>2. \A w \in Clients : place[w] = "waiting" => Called(w)'
      BY <3>1, BroadcastCalls DEF Present
    <3> QED BY <2>1, <3>2 DEF Called
  <2> QED BY <2>2, <2>3
<1>6. ASSUME NEW w \in Clients, Join(w) \/ Call(w) \/ CallReturns(w) PROVE NoStuckWaiter'
  <2>1. \A v \in Clients : place'[v] = "waiting" => place[v] = "waiting" \/ ~connected'
    BY <1>6 DEF Join, Call, CallReturns, ErrorReply, TypeOK
  <2> QED
    BY <1>6, <2>1 DEF Join, Call, CallReturns, linkVars, noteVars
<1>7. ASSUME NEW w \in Clients, Leave(w) PROVE NoStuckWaiter'
  BY <1>7 DEF Leave, Silence, TypeOK, linkVars
<1>8. ASSUME NEW w \in Clients, Deliver(w) PROVE NoStuckWaiter'
  <2> SUFFICES ASSUME NEW v \in Clients, place'[v] = "waiting", connected'
               PROVE  Called(v)'
    BY DEF Called
  <2>1. place[v] = "waiting" /\ connected
    BY <1>8 DEF Deliver, TypeOK, linkVars
  <2>2. PICK i \in 1..Len(queue[v]) : queue[v][i] = "Reconnected"
    BY <2>1
  <2>3. CASE v = w
    <3>1. /\ queue[w] \in Seq(Notes) /\ queue[w] # <<>>
          /\ queue'[w] = Tail(queue[w])
      BY <1>8 DEF Deliver, TypeOK
    <3>2. Head(queue[w]) # "Reconnected"
      BY <1>8, <2>1, <2>3 DEF Deliver, TypeOK
    <3>3. i # 1
      BY <2>2, <2>3, <3>1, <3>2
    <3>4. i - 1 \in 1..Len(queue'[w]) /\ queue'[w][i - 1] = queue[w][i]
      BY <2>2, <2>3, <3>1, <3>3
    <3> QED BY <2>2, <2>3, <3>4 DEF Called
  <2>4. CASE v # w
    BY <1>8, <2>2, <2>4 DEF Deliver, TypeOK, Called
  <2> QED BY <2>3, <2>4
<1>9. ASSUME NEW w \in Clients, CallErrs(w) \/ CallDies(w) PROVE NoStuckWaiter'
  BY <1>9 DEF CallErrs, CallDies, OnConnectionLost
<1> QED
  BY <1>1, <1>2, <1>3, <1>4, <1>5, <1>6, <1>7, <1>8, <1>9
     DEF Next, BusStep, LoopStep, ClientStep
---------------------------------------------------------------------------
(* Signals.                                                                *)

\* e has been read from the adopted bus or waits there.
Reached(e) ==
    \/ \E i \in 1..Len(handled) : handled[i] = <<bus, e>>
    \/ \E i \in 1..Len(inbox) : inbox[i] = e

\* What a bus hears is behind what it has heard.
LEMMA HeardReaches ==
  ASSUME TypeOK, NEW message \in Messages, NEW places, Heard(message, places), bus > 0,
         UNCHANGED <<bus, handled>>, NEW e, Reached(e) \/ e = message
  PROVE  Reached(e)'
<1>1. inbox' = Append(inbox, message) /\ inbox \in Seq(Messages)
  BY DEF Heard, TypeOK
<1>2. CASE e = message
  <2>1. Len(inbox') \in 1..Len(inbox') /\ inbox'[Len(inbox')] = message
    BY <1>1
  <2> QED BY <1>2, <2>1 DEF Reached
<1>3. ASSUME NEW i \in 1..Len(inbox), inbox[i] = e PROVE Reached(e)'
  <2>1. i \in 1..Len(inbox') /\ inbox'[i] = e
    BY <1>1, <1>3
  <2> QED BY <2>1 DEF Reached
<1>4. ASSUME NEW i \in 1..Len(handled), handled[i] = <<bus, e>> PROVE Reached(e)'
  BY <1>4 DEF Reached
<1> QED BY <1>2, <1>3, <1>4 DEF Reached

\* A signal that has been heard is read, whatever the state of the link.
LEMMA ReadReaches ==
  ASSUME TypeOK, Read, NEW e, e # Gone, Reached(e)
  PROVE  Reached(e)'
<1>1. /\ inbox \in Seq(Messages) /\ inbox # <<>> /\ inbox' = Tail(inbox) /\ bus' = bus
      /\ Head(inbox) = inbox[1] /\ handled \in Seq(Nat \X (1..MaxEvents))
  BY DEF Read, TypeOK
<1>2. handled' = IF Head(inbox) = Gone THEN handled ELSE Append(handled, <<bus, Head(inbox)>>)
  BY DEF Read, HandleMessage
<1>3. ASSUME NEW i \in 1..Len(handled), handled[i] = <<bus, e>> PROVE Reached(e)'
  <2>1. i \in 1..Len(handled') /\ handled'[i] = handled[i]
    BY <1>1, <1>2
  <2> QED BY <1>1, <1>3, <2>1 DEF Reached
<1>4. ASSUME NEW i \in 1..Len(inbox), inbox[i] = e PROVE Reached(e)'
  <2>1. CASE i = 1
    <3>1. handled' = Append(handled, <<bus, e>>)
      BY <1>1, <1>2, <1>4, <2>1
    <3>2. Len(handled') \in 1..Len(handled') /\ handled'[Len(handled')] = <<bus, e>>
      BY <1>1, <3>1
    <3> QED BY <1>1, <3>2 DEF Reached
  <2>2. CASE i # 1
    <3>1. i - 1 \in 1..Len(inbox') /\ inbox'[i - 1] = e
      BY <1>1, <1>4, <2>2
    <3> QED BY <3>1 DEF Reached
  <2> QED BY <2>1, <2>2
<1> QED BY <1>3, <1>4 DEF Reached

\* No step loses a signal of the adopted bus.
LEMMA StreamStep == ASSUME TypeOK, Phases, StreamIsComplete, [Next]_vars PROVE StreamIsComplete'
<1> USE DEF StreamIsComplete
<1>1. CASE Emit
  <2> SUFFICES ASSUME bus > 0, NEW e \in since + 1 .. emitted + 1
               PROVE  Reached(e)'
    BY <1>1 DEF Emit, Reached
  <2>1. emitted + 1 \in Messages
    BY <1>1, BoundsAssumption DEF Emit, TypeOK, Messages
  <2>2. e \in since + 1 .. emitted \/ e = emitted + 1
    BY DEF TypeOK
  <2>3. Reached(e) \/ e = emitted + 1
    BY <2>2 DEF Reached
  <2> QED
    BY <1>1, <2>1, <2>3, HeardReaches DEF Emit
<1>2. CASE Vanish
  <2> SUFFICES ASSUME bus > 0, NEW e \in since + 1 .. emitted
               PROVE  Reached(e)'
    BY <1>2 DEF Vanish, Reached
  <2>1. Gone \in Messages
    BY BoundsAssumption DEF Messages, Gone
  <2> QED
    BY <1>2, <2>1, HeardReaches DEF Vanish, Reached
<1>3. CASE Read
  <2> SUFFICES ASSUME bus > 0, NEW e \in since + 1 .. emitted
               PROVE  Reached(e)'
    BY <1>3 DEF Read, serviceVars, Reached
  <2>1. e # Gone
    BY DEF TypeOK, Gone
  <2> QED
    BY <1>3, <2>1, ReadReaches DEF Reached
<1>4. CASE Connected
  BY <1>4 DEF Connected, Adopt, TypeOK, serviceVars
<1>5. CASE Appear \/ ReadFresh \/ UNCHANGED vars
  BY <1>5 DEF Appear, ReadFresh, vars, busVars, serviceVars
<1>6. CASE Attempt \/ AttemptFails \/ Match \/ MatchOwner \/ Resubscribed
  BY <1>6 DEF Attempt, AttemptFails, Match, MatchOwner, Resubscribed, loopOthers, busVars,
              serviceVars
<1>7. ASSUME NEW w \in Clients, ClientStep(w) PROVE StreamIsComplete'
  BY <1>7 DEF ClientStep, Join, Leave, Deliver, Call, CallReturns, CallErrs, CallDies, worldVars,
              busVars, serviceVars
<1> QED
  BY <1>1, <1>2, <1>3, <1>4, <1>5, <1>6, <1>7 DEF Next, BusStep, LoopStep
---------------------------------------------------------------------------
(* The first three properties.                                             *)

\* CInv is an inductive invariant.
LEMMA Invariance == Spec => []CInv
<1>1. Init => CInv
  <2>1. Init => Phases /\ NoStuckWaiter /\ StreamIsComplete
    BY DEF Init, Phases, NoStuckWaiter, StreamIsComplete
  <2> QED BY <2>1, TypeInit DEF CInv
<1>2. CInv /\ [Next]_vars => CInv'
  BY TypeStep, PhasesStep, WaiterStep, StreamStep DEF CInv
<1> QED
  BY <1>1, <1>2, PTL DEF Spec

\* A client that waits for Reconnected has not missed it.
THEOREM WaitersAreCalled == Spec => []NoStuckWaiter
<1>1. CInv => NoStuckWaiter
  BY DEF CInv
<1> QED
  BY <1>1, Invariance, PTL

\* No signal is lost on a bus.
THEOREM NothingLostOnABus == Spec => []StreamIsComplete
<1>1. CInv => StreamIsComplete
  BY DEF CInv
<1> QED
  BY <1>1, Invariance, PTL
---------------------------------------------------------------------------
(* The refinement.                                                         *)

Goal == [L!Next]_(L!linkVars)

\* A report of an outage that takes nobody along is Drop, or nothing at all.
LEMMA LostIsDrop ==
  ASSUME TypeOK, OnConnectionLost({}), Present' = Present
  PROVE  Goal
<1>1. CASE connected
  <2>1. L!Drop
    BY <1>1 DEF OnConnectionLost, Broadcast, L!Drop, L!Tell
  <2> QED BY <2>1 DEF L!Next, Goal
<1>2. CASE ~connected
  <2>1. told' = told
    BY <1>2 DEF OnConnectionLost, Silence, TypeOK
  <2> QED
    BY <1>2, <2>1 DEF OnConnectionLost, TypeOK, L!linkVars, Goal
<1> QED BY <1>1, <1>2

\* Who is present is not changed by where handlers stand.
LEMMA SamePresent ==
  ASSUME \A w \in Clients : (place'[w] = "away") <=> (place[w] = "away")
  PROVE  Present' = Present
BY DEF Present

\* Every step is a step of Link or leaves what it shows unchanged.
LEMMA LinkStep == ASSUME CInv, [Next]_vars PROVE Goal
<1> USE DEF CInv, Goal, L!linkVars
<1>1. CASE Emit \/ Appear \/ ReadFresh \/ UNCHANGED vars
  BY <1>1 DEF Emit, Appear, ReadFresh, vars, linkVars, noteVars, Present
<1>2. CASE Vanish
  <2>1. Present' = Present
    BY <1>2, SamePresent DEF Vanish, TypeOK
  <2> QED
    BY <1>2, <2>1 DEF Vanish, linkVars, noteVars
<1>3. CASE Read
  <2>1. Present' = Present
    BY <1>3 DEF Read, Present
  <2>2. CASE Head(inbox) = Gone
    BY <1>3, <2>1, <2>2, LostIsDrop DEF Read, HandleMessage
  <2>3. CASE Head(inbox) # Gone
    BY <1>3, <2>1, <2>3 DEF Read, HandleMessage, linkVars, noteVars
  <2> QED BY <2>2, <2>3
<1>4. CASE Attempt \/ AttemptFails \/ Match \/ MatchOwner \/ Resubscribed
  BY <1>4 DEF Attempt, AttemptFails, Match, MatchOwner, Resubscribed, loopOthers, noteVars, Present
<1>5. CASE Connected
  <2>1. Present' = Present
    BY <1>5, SamePresent DEF Connected, Adopt, TypeOK, InCall
  <2>2. ~connected
    BY <1>5 DEF Connected, Phases
  <2>3. CASE initial
    BY <1>5, <2>1, <2>3 DEF Connected, Adopt, noteVars, L!Next, L!Establish
  <2>4. CASE ~initial
    <3>1. L!Restore
      BY <1>5, <2>1, <2>2, <2>4 DEF Connected, Adopt, Broadcast, Phases, TypeOK, L!Restore, L!Tell
    <3> QED BY <3>1 DEF L!Next
  <2> QED BY <2>3, <2>4
<1>6. ASSUME NEW w \in Clients, Join(w) PROVE Goal
  <2>1. w \notin Present /\ Present' = Present \cup {w}
    BY <1>6 DEF Join, Present, TypeOK
  <2>2. L!Join(w)
    BY <1>6, <2>1 DEF Join, L!Join, linkVars, noteVars
  <2> QED BY <2>2 DEF L!Next
<1>7. ASSUME NEW w \in Clients, Leave(w) PROVE Goal
  <2>1. w \in Present /\ Present' = Present \ {w}
    BY <1>7 DEF Leave, Present, TypeOK
  <2>2. told' = [told EXCEPT ![w] = "none"]
    BY <1>7 DEF Leave, Silence, TypeOK
  <2>3. L!Leave(w)
    BY <1>7, <2>1, <2>2 DEF Leave, L!Leave, linkVars
  <2> QED BY <2>3 DEF L!Next
<1>8. ASSUME NEW w \in Clients, Deliver(w) \/ Call(w) \/ CallReturns(w) PROVE Goal
  <2>1. Present' = Present
    BY <1>8, SamePresent DEF Deliver, Call, CallReturns, ErrorReply, TypeOK
  <2> QED
    BY <1>8, <2>1 DEF Deliver, Call, CallReturns, linkVars, noteVars
<1>9. ASSUME NEW w \in Clients, CallErrs(w) PROVE Goal
  <2>1. Present' = Present
    BY <1>9, SamePresent DEF CallErrs, ErrorReply, TypeOK, InCall
  <2> QED
    BY <1>9, <2>1, LostIsDrop DEF CallErrs
<1>10. ASSUME NEW w \in Clients, CallDies(w) PROVE Goal
  <2>1. w \in Present /\ Present' = Present \ {w}
    BY <1>10 DEF CallDies, InCall, Present, TypeOK
  <2>2. CASE connected
    <3>1. L!Abort(w)
      BY <1>10, <2>1, <2>2 DEF CallDies, OnConnectionLost, Broadcast, L!Abort
    <3> QED BY <3>1 DEF L!Next
  <2>3. CASE ~connected
    <3>1. told' = [told EXCEPT ![w] = "none"]
      BY <1>10, <2>3 DEF CallDies, OnConnectionLost, Silence, TypeOK
    <3>2. L!Leave(w)
      BY <1>10, <2>1, <2>3, <3>1 DEF CallDies, OnConnectionLost, L!Leave, TypeOK
    <3> QED BY <3>2 DEF L!Next
  <2> QED BY <2>2, <2>3
<1> QED
  BY <1>1, <1>2, <1>3, <1>4, <1>5, <1>6, <1>7, <1>8, <1>9, <1>10
     DEF Next, BusStep, LoopStep, ClientStep

\* Clients are told of every loss and every recovery of the link, each once,
\* also when the loss is noticed by a call that ends their session: Bridge is
\* a Link.
THEOREM ImplementsLink == Spec => LinkSpec
<1>1. Init => L!Init
  BY DEF Init, Present, L!Init
<1>2. CInv /\ [Next]_vars => [L!Next]_(L!linkVars)
  BY LinkStep DEF Goal
<1> QED
  BY <1>1, <1>2, Invariance, PTL DEF Spec, LinkSpec, L!Spec
---------------------------------------------------------------------------
(* The order of signals.                                                   *)

\* The signals of s come after e.
Follow(s, e) == \A i \in 1..Len(s) : s[i] # Gone => e < s[i]

\* They are in the order in which they were emitted, the last being top.
Rising(s, top) ==
    /\ \A i \in 1..Len(s) : s[i] # Gone => s[i] <= top
    /\ \A i, j \in 1..Len(s) : i < j /\ s[i] # Gone /\ s[j] # Gone => s[i] < s[j]

\* What was handled, h, comes before what bus b, adopted at floor, has still to
\* deliver, but for the signals of the previous bus, which b may have too.
HandledFirst(h, b, floor, s, top) ==
    /\ h[1] <= b /\ h[2] <= top
    /\ h[1] < b => h[2] <= floor
    /\ h[1] + 1 # b => Follow(s, h[2])

Order ==
    /\ Rising(inbox, emitted) /\ Rising(fresh, emitted) /\ Follow(fresh, since)
    /\ loop \notin {"matched", "ready"} => fresh = <<>>
    /\ \A i \in 1..Len(handled) : HandledFirst(handled[i], bus, since, inbox, emitted)

\* A further signal, or none, keeps the order.
LEMMA RisingHears ==
  ASSUME NEW s \in Seq(Messages), NEW top \in Nat, Rising(s, top)
  PROVE  /\ Rising(s, top + 1) /\ Rising(Append(s, top + 1), top + 1)
         /\ Rising(Append(s, Gone), top)
<1>1. \A i \in 1..Len(s) : s[i] \in Nat
  BY BoundsAssumption DEF Messages
<1> QED
  BY <1>1 DEF Rising, Gone

\* What was heard later follows too.
LEMMA FollowHears ==
  ASSUME NEW s \in Seq(Messages), NEW e \in Nat, NEW top \in Nat, e <= top, Follow(s, e)
  PROVE  Follow(Append(s, top + 1), e) /\ Follow(Append(s, Gone), e)
BY DEF Follow, Gone

\* To read the first message takes nothing from the order, and what is left
\* follows it.
LEMMA RisingReads ==
  ASSUME NEW s \in Seq(Messages), s # <<>>, NEW top \in Nat, Rising(s, top)
  PROVE  /\ Rising(Tail(s), top)
         /\ Head(s) # Gone => Head(s) <= top /\ Follow(Tail(s), Head(s))
         /\ \A e \in Nat : Follow(s, e) => Follow(Tail(s), e) /\ (Head(s) # Gone => e < Head(s))
<1>1. /\ Len(s) \in Nat /\ Len(s) >= 1 /\ Head(s) = s[1] /\ Len(Tail(s)) = Len(s) - 1
      /\ \A i \in 1..Len(Tail(s)) : Tail(s)[i] = s[i + 1]
  OBVIOUS
<1>2. Rising(Tail(s), top)
  BY <1>1 DEF Rising
<1>3. Head(s) # Gone => Head(s) <= top /\ Follow(Tail(s), Head(s))
  BY <1>1 DEF Rising, Follow
<1>4. \A e \in Nat : Follow(s, e) => Follow(Tail(s), e) /\ (Head(s) # Gone => e < Head(s))
  BY <1>1 DEF Follow
<1> QED BY <1>2, <1>3, <1>4

\* What was handled is a signal of a bus.
LEMMA HandledType ==
  ASSUME TypeOK, NEW i \in 1..Len(handled)
  PROVE  handled[i][1] \in Nat /\ handled[i][2] \in 1..MaxEvents
BY DEF TypeOK

\* Hearing keeps the order.
LEMMA OrderHears ==
  ASSUME CInv, Order, NEW message, NEW places, Heard(message, places),
         UNCHANGED <<bus, since, loop, handled>>, places \subseteq {"matched", "ready"},
         \/ message = emitted + 1 /\ emitted' = emitted + 1
         \/ message = Gone /\ emitted' = emitted
  PROVE  Order'
<1>1. /\ inbox \in Seq(Messages) /\ fresh \in Seq(Messages)
      /\ emitted \in Nat /\ since \in Nat /\ since <= emitted
  BY BoundsAssumption DEF CInv, TypeOK
<1>2. Rising(inbox', emitted') /\ Rising(fresh', emitted')
  BY <1>1, RisingHears DEF Heard, Order
<1>3. Follow(fresh', since)
  <2>1. Follow(fresh, since)
    BY DEF Order
  <2>2. Follow(Append(fresh, emitted + 1), since) /\ Follow(Append(fresh, Gone), since)
    BY <1>1, <2>1, FollowHears
  <2> QED
    BY <2>1, <2>2 DEF Heard
<1>4. loop \notin {"matched", "ready"} => fresh' = <<>>
  BY DEF Heard, Order
<1>5. ASSUME NEW i \in 1..Len(handled)
      PROVE  HandledFirst(handled[i], bus, since, inbox', emitted')
  <2>1. handled[i][1] \in Nat /\ handled[i][2] \in Nat
    BY HandledType, BoundsAssumption DEF CInv
  <2>2. HandledFirst(handled[i], bus, since, inbox, emitted)
    BY DEF Order
  <2>3. handled[i][1] + 1 # bus => Follow(inbox', handled[i][2])
    BY <1>1, <2>1, <2>2, FollowHears DEF Heard, HandledFirst
  <2> QED
    BY <1>1, <2>1, <2>2, <2>3 DEF HandledFirst
<1> QED
  BY <1>2, <1>3, <1>4, <1>5 DEF Order

\* Reading keeps it, and hands signals over in order.
LEMMA OrderReads ==
  ASSUME CInv, Order, RepeatedOnlyByNextBus, Read
  PROVE  Order' /\ RepeatedOnlyByNextBus'
<1> DEFINE e == Head(inbox)
           First(h) == HandledFirst(h, bus, since, inbox', emitted)
<1>1. /\ inbox \in Seq(Messages) /\ inbox # <<>> /\ emitted \in Nat /\ bus \in Nat \ {0}
      /\ handled \in Seq(Nat \X (1..MaxEvents)) /\ e \in Nat
  BY BoundsAssumption DEF CInv, TypeOK, Phases, Read, Messages
<1>2. /\ inbox' = Tail(inbox) /\ UNCHANGED <<emitted, bus, fresh, since>>
      /\ loop' \in {loop, "wait"} /\ (loop' # loop => loop = "none")
  BY DEF Read, HandleMessage, OnConnectionLost, serviceVars, linkVars
<1>3. /\ Rising(inbox', emitted)
      /\ e # Gone => e <= emitted /\ Follow(inbox', e)
      /\ \A d \in Nat : Follow(inbox, d) => Follow(inbox', d) /\ (e # Gone => d < e)
  BY <1>1, <1>2, RisingReads DEF Order
<1>4. ASSUME NEW i \in 1..Len(handled)
      PROVE  /\ handled[i][1] \in Nat /\ handled[i][2] \in Nat
             /\ First(handled[i])
             /\ handled[i][1] <= bus
             /\ e # Gone /\ handled[i][1] + 1 # bus => handled[i][2] < e
  <2>1. handled[i][1] \in Nat /\ handled[i][2] \in Nat
    BY HandledType, BoundsAssumption DEF CInv
  <2>2. HandledFirst(handled[i], bus, since, inbox, emitted)
    BY DEF Order
  <2> QED
    BY <1>3, <2>1, <2>2 DEF HandledFirst
<1>5. CASE e = Gone
  <2>1. handled' = handled
    BY <1>5 DEF Read, HandleMessage
  <2>2. RepeatedOnlyByNextBus'
    BY <2>1 DEF RepeatedOnlyByNextBus
  <2>3. \A i \in 1..Len(handled) : First(handled[i])
    BY <1>4
  <2> QED
    BY <1>2, <1>3, <2>1, <2>2, <2>3 DEF Order
<1>6. CASE e # Gone
  <2>1. handled' = Append(handled, <<bus, e>>)
    BY <1>6 DEF Read, HandleMessage
  <2>2. /\ Len(handled') = Len(handled) + 1 /\ handled'[Len(handled) + 1] = <<bus, e>>
        /\ \A i \in 1..Len(handled) : handled'[i] = handled[i]
        /\ Len(handled) \in Nat
    BY <1>1, <2>1
  <2>3. First(<<bus, e>>)
    BY <1>1, <1>3, <1>6 DEF HandledFirst
  <2>4. ASSUME NEW i \in 1..Len(handled') PROVE First(handled'[i])
    <3>1. CASE i \in 1..Len(handled)
      <4>1. First(handled[i]) /\ handled'[i] = handled[i]
        BY <1>4, <2>2, <3>1
      <4> QED BY <4>1
    <3>2. CASE i = Len(handled) + 1
      BY <2>2, <2>3, <3>2
    <3> QED BY <2>2, <3>1, <3>2
  <2>5. Order'
    BY <1>2, <1>3, <2>4 DEF Order
  <2>6. ASSUME NEW i \in 1..Len(handled'), NEW j \in 1..Len(handled'), i < j
        PROVE  /\ handled'[i][1] <= handled'[j][1]
               /\ handled'[i][1] = handled'[j][1] => handled'[i][2] < handled'[j][2]
               /\ handled'[i][2] = handled'[j][2] => handled'[j][1] = handled'[i][1] + 1
    <3>1. i \in 1..Len(handled) /\ (j \in 1..Len(handled) \/ j = Len(handled) + 1)
      BY <2>2, <2>6
    <3>2. CASE j \in 1..Len(handled)
      BY <2>2, <2>6, <3>1, <3>2 DEF RepeatedOnlyByNextBus
    <3>3. CASE j = Len(handled) + 1
      <4>1. handled'[j][1] = bus /\ handled'[j][2] = e
        BY <2>2, <3>3
      <4>2. /\ handled[i][1] \in Nat /\ handled[i][2] \in Nat /\ handled[i][1] <= bus
            /\ handled[i][1] + 1 # bus => handled[i][2] < e
        BY <1>4, <1>6, <3>1
      <4> QED
        BY <1>1, <2>2, <3>1, <4>1, <4>2
    <3> QED BY <3>1, <3>2, <3>3
  <2> QED
    BY <2>5, <2>6 DEF RepeatedOnlyByNextBus
<1> QED BY <1>5, <1>6

\* A bus is adopted after all that was handled; what it has heard follows what
\* was handled before the last one.
LEMMA OrderAdopts == ASSUME CInv, Order, Connected PROVE Order'
<1>1. /\ bus' = bus + 1 /\ inbox' = fresh /\ fresh' = <<>> /\ since' = emitted
      /\ UNCHANGED <<emitted, handled>>
  BY DEF Connected, Adopt, serviceVars
<1>2. Rising(fresh', emitted) /\ Follow(fresh', since')
  BY <1>1 DEF Rising, Follow
<1>3. fresh \in Seq(Messages) /\ bus \in Nat /\ since \in Nat /\ emitted \in Nat
  BY DEF CInv, TypeOK
<1>4. ASSUME NEW i \in 1..Len(handled)
      PROVE  HandledFirst(handled[i], bus + 1, emitted, fresh, emitted)
  <2>1. handled[i][1] \in Nat /\ handled[i][2] \in Nat
    BY HandledType, BoundsAssumption DEF CInv
  <2>2. HandledFirst(handled[i], bus, since, inbox, emitted)
    BY DEF Order
  <2>3. handled[i][1] < bus => Follow(fresh, handled[i][2])
    <3>1. \A k \in 1..Len(fresh) : fresh[k] \in Nat
      BY <1>3, BoundsAssumption DEF Messages
    <3> QED
      BY <1>3, <2>1, <2>2, <3>1 DEF HandledFirst, Order, Follow
  <2> QED
    BY <1>3, <2>1, <2>2, <2>3 DEF HandledFirst
<1> QED
  BY <1>1, <1>2, <1>4 DEF Order

\* No step mixes the order up.
LEMMA OrderStep ==
  ASSUME CInv, Order, RepeatedOnlyByNextBus, [Next]_vars
  PROVE  Order' /\ RepeatedOnlyByNextBus'
<1>1. CASE Emit
  <2>1. Order'
    BY <1>1, OrderHears DEF Emit, linkVars
  <2> QED
    BY <1>1, <2>1 DEF Emit, RepeatedOnlyByNextBus
<1>2. CASE Vanish
  <2>1. Order'
    BY <1>2, OrderHears DEF Vanish, linkVars
  <2> QED
    BY <1>2, <2>1 DEF Vanish, RepeatedOnlyByNextBus
<1>3. CASE Read
  BY <1>3, OrderReads
<1>4. CASE ReadFresh
  <2>1. fresh \in Seq(Messages) /\ emitted \in Nat /\ since \in Nat
    BY DEF CInv, TypeOK
  <2>2. Rising(fresh', emitted) /\ Follow(fresh', since)
    BY <1>4, <2>1, RisingReads DEF ReadFresh, Order
  <2> QED
    BY <1>4, <2>2 DEF ReadFresh, Order, RepeatedOnlyByNextBus, linkVars, serviceVars
<1>5. CASE Connected
  BY <1>5, OrderAdopts DEF Connected, RepeatedOnlyByNextBus
<1>6. CASE Attempt \/ AttemptFails \/ Match \/ MatchOwner \/ Resubscribed
  BY <1>6 DEF Attempt, AttemptFails, Match, MatchOwner, Resubscribed, loopOthers, busVars,
              serviceVars, Order, RepeatedOnlyByNextBus
<1>7. CASE Appear \/ UNCHANGED vars
  BY <1>7 DEF Appear, vars, busVars, linkVars, serviceVars, Order, RepeatedOnlyByNextBus
<1>8. ASSUME NEW w \in Clients, ClientStep(w) PROVE Order' /\ RepeatedOnlyByNextBus'
  <2>1. /\ UNCHANGED <<emitted, bus, inbox, fresh, since, handled>>
        /\ loop' \in {loop, "wait"} /\ (loop' # loop => loop = "none")
    BY <1>8 DEF ClientStep, Join, Leave, Deliver, Call, CallReturns, CallErrs, CallDies,
                OnConnectionLost, worldVars, busVars, serviceVars, linkVars
  <2> QED
    BY <2>1 DEF Order, RepeatedOnlyByNextBus
<1> QED
  BY <1>1, <1>2, <1>3, <1>4, <1>5, <1>6, <1>7, <1>8 DEF Next, BusStep, LoopStep

\* A signal is handled at most twice, the second time by the next bus, and in
\* order on each bus.
THEOREM RepeatedAtMostOnce == Spec => []RepeatedOnlyByNextBus
<1>1. Init => Order /\ RepeatedOnlyByNextBus
  BY DEF Init, Order, RepeatedOnlyByNextBus, Rising, Follow
<1>2. CInv /\ Order /\ RepeatedOnlyByNextBus /\ [Next]_vars => Order' /\ RepeatedOnlyByNextBus'
  BY OrderStep
<1> QED
  BY <1>1, <1>2, Invariance, PTL DEF Spec
===========================================================================
