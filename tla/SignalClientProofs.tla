------------------------ MODULE SignalClientProofs ------------------------
(***************************************************************************)
(* The safety properties of SignalClient, for any number of buses, tasks,  *)
(* calls, accounts and clients.                                            *)
(***************************************************************************)
EXTENDS SignalClient, TLAPS

\* _run connects before it serves, and stays in serve; nothing of the bridge is
\* in use before.
Phases ==
    /\ pc[Main] \notin {"idle", "head", "resub"}
    /\ \A t \in Tasks : pc[t] # "serve"
    /\ initial <=> ~Serving
    /\ ~Serving => ~connected /\ bus = None /\ clients = {} /\ \A c \in Calls : stage[c] = "none"

\* The adopted bus can report an outage as long as its transport is open: that is
\* watched, and the match rule is in place.
AdoptedBus ==
    /\ Serving => bus \in Buses
    /\ connected /\ bus \in alive => bus \in watching /\ bus \in matched

\* connect() works on a bus of its own until it adopts it.
FreshBuses ==
    \A t \in Actors :
        /\ pc[t] \in Holding => fresh[t] \in Buses \ (watching \cup {bus})
        /\ pc[t] \notin Holding => fresh[t] = None
        /\ pc[t] = "ready" /\ fresh[t] \in alive => fresh[t] \in matched

\* The cached interfaces are bound to the adopted bus.
CacheIsCurrent == \A a \in Accounts : cache[a] \in {None, bus}

\* Nothing is left to read on a bus that is closed, and nothing arrives there.
ClosedBuses == matched \subseteq alive /\ \A b \in Buses \ alive : notices[b] = <<>>

\* Unless handlers have tasks of their own, nobody holds an interface before the
\* first call.
CallsStartAtOnce == HandlerInTask \/ \A c \in Calls : stage[c] # "bound"

\* The parts of the invariant that are not about types.
Control ==
    /\ Phases
    /\ OneReconnectLoop
    /\ LoopsWorkOnlyWhileDown
    /\ AdoptedBus
    /\ FreshBuses
    /\ CacheIsCurrent
    /\ ClosedBuses
    /\ CallsStartAtOnce

\* The inductive invariant.
IInv == TypeOK /\ Control
---------------------------------------------------------------------------
(* Types.                                                                  *)

\* Notices stay sequences of ownership changes.
LEMMA NotifyType ==
  ASSUME TypeOK, NEW change \in {"appeared", "vanished"}, Notify(change)
  PROVE  notices' \in [Buses -> Seq({"appeared", "vanished"})]
BY DEF TypeOK, Notify

\* Closing transports leaves the buses well typed.
LEMMA CloseType ==
  ASSUME TypeOK, NEW buses, Close(buses)
  PROVE /\ alive' \subseteq Buses /\ matched' \subseteq Buses
        /\ notices' \in [Buses -> Seq({"appeared", "vanished"})]
BY DEF TypeOK, Close

\* So does a report of an outage.
LEMMA LostType ==
  ASSUME TypeOK, OnConnectionLost
  PROVE /\ connected' = FALSE
        /\ UNCHANGED <<bus, cache, initial, clients>>
        /\ reconnectTask' \in Tasks \cup {None}
        /\ pc' \in [Actors -> Places]
        /\ seen' \in [Clients -> {"none", "Disconnected", "Reconnected"}]
BY DEF TypeOK, OnConnectionLost, Broadcast, Actors, Places

\* What a vanishing signal-cli leaves without an answer is a caller.
LEMMA InFlightType == InFlight \subseteq Callers
BY DEF InFlight, Callers

\* Every step preserves the type invariant.  An adopted bus is a bus because
\* connect() holds one by then.
LEMMA TypeStep ==
  ASSUME TypeOK, FreshBuses, [Next]_vars
  PROVE  TypeOK'
<1> USE ConstantsAssumption DEF TypeOK, Callers, Actors, Places, Holding,
   AwaitingService, envVars, busVars, selfVars, callVars, clientVars
<1>1. ASSUME ServiceUp PROVE TypeOK'
  BY <1>1, NotifyType DEF ServiceUp
<1>2. ASSUME ServiceDown PROVE TypeOK'
  BY <1>2, NotifyType, InFlightType DEF ServiceDown
<1>3. ASSUME ExportAccount PROVE TypeOK'
  BY <1>3 DEF ExportAccount
<1>4. ASSUME DaemonDown PROVE TypeOK'
  BY <1>4, CloseType, InFlightType DEF DaemonDown
<1>5. ASSUME DaemonUp PROVE TypeOK'
  BY <1>5 DEF DaemonUp
<1>6. ASSUME NEW b \in Buses, ReadNotice(b) PROVE TypeOK'
  <2>1. notices' \in [Buses -> Seq({"appeared", "vanished"})]
    BY <1>6 DEF ReadNotice
  <2>2. CASE b = bus /\ Head(notices[b]) = "vanished"
    BY <1>6, <2>1, <2>2, LostType DEF ReadNotice
  <2>3. CASE ~(b = bus /\ Head(notices[b]) = "vanished")
    BY <1>6, <2>1, <2>3 DEF ReadNotice, Wakes
  <2> QED BY <2>2, <2>3
<1>7. ASSUME NEW b \in Buses, WatchTransport(b) PROVE TypeOK'
  <2>1. CASE WatchReports(b) /\ b = bus
    BY <2>1, LostType DEF WatchReports
  <2>2. CASE WatchReports(b) /\ b # bus
    BY <2>2 DEF WatchReports
  <2>3. CASE WatchDies(b)
    BY <2>3 DEF WatchDies
  <2> QED BY <1>7, <2>1, <2>2, <2>3 DEF WatchTransport
<1>8. ASSUME MainRetry PROVE TypeOK'
  BY <1>8 DEF MainRetry
<1>9. ASSUME NEW t \in Tasks, LoopHead(t) PROVE TypeOK'
  BY <1>9 DEF LoopHead
<1>10. ASSUME NEW t \in Tasks, LoopRetry(t) PROVE TypeOK'
  BY <1>10 DEF LoopRetry
<1>11. ASSUME NEW t \in Actors, Open(t) PROVE TypeOK'
  BY <1>11 DEF Open, Unused, Ask
<1>12. ASSUME NEW t \in Actors, Interrogate(t) PROVE TypeOK'
  BY <1>12 DEF Interrogate, Ask
<1>13. ASSUME NEW t \in Actors, AddMatch(t) PROVE TypeOK'
  BY <1>13 DEF AddMatch
<1>14. ASSUME NEW t \in Actors, ConnectFails(t) PROVE TypeOK'
  <2>1. pc' \in [Actors -> Places] /\ fresh' \in [Actors -> Buses \cup {None}]
    BY <1>14 DEF ConnectFails, AfterFailure
  <2> QED
    BY <1>14, <2>1, CloseType DEF ConnectFails
<1>15. ASSUME NEW t \in Actors, Establish(t) PROVE TypeOK'
  <2>1. pc' \in [Actors -> Places]
    BY <1>15 DEF Establish, Resting
  <2>2. fresh' \in [Actors -> Buses \cup {None}] /\ cache' \in [Accounts -> Buses \cup {None}]
    BY <1>15 DEF Establish, Adopt
  <2>3. bus' \in Buses \cup {None} /\ watching' \subseteq Buses
    BY <1>15 DEF Establish, Adopt, FreshBuses, Holding
  <2>4. seen' \in [Clients -> {"none", "Disconnected", "Reconnected"}]
    BY <1>15 DEF Establish, Broadcast
  <2> QED
    BY <1>15, <2>1, <2>2, <2>3, <2>4, CloseType DEF Establish, Adopt
<1>16. ASSUME NEW t \in Actors, Reestablish(t) PROVE TypeOK'
  <2>1. pc' \in [Actors -> Places]
    BY <1>16 DEF Reestablish, Resting
  <2>2. fresh' \in [Actors -> Buses \cup {None}] /\ cache' \in [Accounts -> Buses \cup {None}]
    BY <1>16 DEF Reestablish, Adopt
  <2>3. bus' \in Buses \cup {None} /\ watching' \subseteq Buses
    BY <1>16 DEF Reestablish, Adopt, FreshBuses, Holding
  <2>4. seen' \in [Clients -> {"none", "Disconnected", "Reconnected"}]
    BY <1>16 DEF Reestablish, Broadcast
  <2> QED
    BY <1>16, <2>1, <2>2, <2>3, <2>4, CloseType DEF Reestablish, Adopt
<1>17. ASSUME NEW t \in Actors, Resubscribed(t) PROVE TypeOK'
  BY <1>17 DEF Resubscribed, Resting
<1>18. ASSUME NEW c \in Calls, NEW acct \in Accounts \cup {None}, NEW two \in BOOLEAN,
             Dispatch(c, acct, two)
      PROVE  TypeOK'
  <2>1. /\ on' \in [Calls -> Buses \cup {None}] /\ cache' \in [Accounts -> Buses \cup {None}]
        /\ more' \subseteq Calls
    BY <1>18 DEF Dispatch, IfaceBus
  <2>2. /\ stage' \in [Calls -> {"none", "bound", "asked", "answered"}]
        /\ doomed' \subseteq Tasks \cup {Main} \cup Calls
    <3>1. CASE HandlerInTask
      BY <1>18, <3>1 DEF Dispatch
    <3>2. CASE ~HandlerInTask
      BY <1>18, <3>2 DEF Dispatch, Issue, Ask
    <3> QED BY <3>1, <3>2
  <2> QED
    BY <1>18, <2>1, <2>2 DEF Dispatch
<1>19. ASSUME NEW c \in Calls, CallReturns(c) PROVE TypeOK'
  BY <1>19 DEF CallReturns, EndCall
<1>20. ASSUME NEW c \in Calls, CallContinues(c) PROVE TypeOK'
  BY <1>20 DEF CallContinues, Issue, Ask
<1>21. ASSUME NEW c \in Calls, CallRaises(c) PROVE TypeOK'
  <2>1. /\ on' \in [Calls -> Buses \cup {None}] /\ more' \subseteq Calls
        /\ stage' \in [Calls -> {"none", "bound", "asked", "answered"}]
        /\ doomed' \subseteq Tasks \cup {Main} \cup Calls
    BY <1>21 DEF CallRaises, EndCall
  <2> QED
    BY <1>21, <2>1, LostType DEF CallRaises
<1>22. ASSUME NEW w \in Clients, Join(w) PROVE TypeOK'
  BY <1>22 DEF Join
<1>23. ASSUME NEW w \in Clients, Leave(w) PROVE TypeOK'
  BY <1>23 DEF Leave
<1>24. ASSUME NEW c \in Calls, HandlerStarts(c) PROVE TypeOK'
  BY <1>24 DEF HandlerStarts, Issue, Ask
<1>25. ASSUME NEW c \in Calls, Reply(c) PROVE TypeOK'
  BY <1>25 DEF Reply
<1>26. CASE UNCHANGED vars
  BY <1>26 DEF vars
<1> HIDE DEF TypeOK, Callers, Actors
<1> QED BY <1>1, <1>2, <1>3, <1>4, <1>5, <1>6, <1>7, <1>8, <1>9, <1>10, <1>11,
   <1>12, <1>13, <1>14, <1>15, <1>16, <1>17, <1>18, <1>19, <1>20, <1>21,
   <1>22, <1>23, <1>24, <1>25, <1>26 DEF Next, Environment, ConnectStep, CallStep

\* Every step preserves the parts of the invariant that are not about types.
LEMMA ControlStep ==
  ASSUME IInv, [Next]_vars
  PROVE  Control'
<1> USE ConstantsAssumption DEF IInv, TypeOK, Control, Serving, Actors,
   Holding, AwaitingService, Phases, OneReconnectLoop, LoopsWorkOnlyWhileDown,
   AdoptedBus, FreshBuses, CacheIsCurrent, ClosedBuses, CallsStartAtOnce, envVars, busVars, selfVars,
   callVars, clientVars
<1>1. ASSUME ServiceUp PROVE Control'
  BY <1>1 DEF ServiceUp, Notify
<1>2. ASSUME ServiceDown PROVE Control'
  BY <1>2 DEF ServiceDown, Notify, InFlight
<1>3. ASSUME ExportAccount PROVE Control'
  BY <1>3 DEF ExportAccount
<1>4. ASSUME DaemonDown PROVE Control'
  BY <1>4 DEF DaemonDown, Close, InFlight
<1>5. ASSUME DaemonUp PROVE Control'
  BY <1>5 DEF DaemonUp
<1>6. ASSUME NEW b \in Buses, ReadNotice(b) PROVE Control'
  <2>1. CASE b = bus /\ Head(notices[b]) = "vanished"
    <3>1. ClosedBuses'
      BY <1>6 DEF ReadNotice
    <3> QED
      BY <1>6, <2>1, <3>1 DEF ReadNotice, OnConnectionLost, LoopDone
  <2>2. CASE ~(b = bus /\ Head(notices[b]) = "vanished")
    BY <1>6, <2>2 DEF ReadNotice
  <2> QED BY <2>1, <2>2
<1>7. ASSUME NEW b \in Buses, WatchTransport(b) PROVE Control'
  <2>1. CASE WatchReports(b) /\ b = bus
    BY <2>1 DEF WatchReports, OnConnectionLost, LoopDone
  <2>2. CASE WatchReports(b) /\ b # bus
    BY <2>2 DEF WatchReports
  <2>3. CASE WatchDies(b)
    BY <2>3 DEF WatchDies
  <2> QED BY <1>7, <2>1, <2>2, <2>3 DEF WatchTransport
<1>8. ASSUME MainRetry PROVE Control'
  BY <1>8 DEF MainRetry
<1>9. ASSUME NEW t \in Tasks, LoopHead(t) PROVE Control'
  BY <1>9 DEF LoopHead
<1>10. ASSUME NEW t \in Tasks, LoopRetry(t) PROVE Control'
  BY <1>10 DEF LoopRetry
<1>11. ASSUME NEW t \in Actors, Open(t) PROVE Control'
  BY <1>11 DEF Open, Unused, Ask
<1>12. ASSUME NEW t \in Actors, Interrogate(t) PROVE Control'
  BY <1>12 DEF Interrogate, Ask
<1>13. ASSUME NEW t \in Actors, AddMatch(t) PROVE Control'
  BY <1>13 DEF AddMatch
<1>14. ASSUME NEW t \in Actors, ConnectFails(t) PROVE Control'
  BY <1>14 DEF ConnectFails, Close, AfterFailure
<1>15. ASSUME NEW t \in Actors, Establish(t) PROVE Control'
  BY <1>15 DEF Establish, Adopt, Close, Resting
<1>16. ASSUME NEW t \in Actors, Reestablish(t) PROVE Control'
  BY <1>16 DEF Reestablish, Adopt, Close, Resting, Broadcast
<1>17. ASSUME NEW t \in Actors, Resubscribed(t) PROVE Control'
  BY <1>17 DEF Resubscribed, Resting
<1>18. ASSUME NEW c \in Calls, NEW acct \in Accounts \cup {None}, NEW two \in BOOLEAN,
             Dispatch(c, acct, two)
      PROVE  Control'
  BY <1>18 DEF Dispatch, IfaceBus, Issue, Ask
<1>19. ASSUME NEW c \in Calls, CallReturns(c) PROVE Control'
  BY <1>19 DEF CallReturns, EndCall
<1>20. ASSUME NEW c \in Calls, CallContinues(c) PROVE Control'
  BY <1>20 DEF CallContinues, Issue, Ask
<1>21. ASSUME NEW c \in Calls, CallRaises(c) PROVE Control'
  BY <1>21 DEF CallRaises, EndCall, OnConnectionLost, Broadcast, LoopDone
<1>22. ASSUME NEW w \in Clients, Join(w) PROVE Control'
  BY <1>22 DEF Join
<1>23. ASSUME NEW w \in Clients, Leave(w) PROVE Control'
  BY <1>23 DEF Leave
<1>24. ASSUME NEW c \in Calls, HandlerStarts(c) PROVE Control'
  BY <1>24 DEF HandlerStarts, Issue, Ask
<1>25. ASSUME NEW c \in Calls, Reply(c) PROVE Control'
  BY <1>25 DEF Reply
<1>26. CASE UNCHANGED vars
  BY <1>26 DEF vars
<1> HIDE DEF IInv, Control, Actors
<1> QED BY <1>1, <1>2, <1>3, <1>4, <1>5, <1>6, <1>7, <1>8, <1>9, <1>10, <1>11,
   <1>12, <1>13, <1>14, <1>15, <1>16, <1>17, <1>18, <1>19, <1>20, <1>21,
   <1>22, <1>23, <1>24, <1>25, <1>26 DEF Next, Environment, ConnectStep, CallStep

\* Initially nothing is connected and only _run runs.
LEMMA IInvInit == Init => IInv
<1> SUFFICES ASSUME Init PROVE IInv
  OBVIOUS
<1>1. TypeOK
  <2>1. <<>> \in Seq({"appeared", "vanished"})
    OBVIOUS
  <2> QED
    BY <2>1 DEF Init, TypeOK, Actors, Places
<1>2. Control
  BY ConstantsAssumption
     DEF Init, Control, Phases, OneReconnectLoop, LoopsWorkOnlyWhileDown, AdoptedBus,
         FreshBuses, CacheIsCurrent, ClosedBuses, CallsStartAtOnce, Serving, Actors, Holding, AwaitingService
<1> QED
  BY <1>1, <1>2 DEF IInv

\* Every step preserves the inductive invariant.
LEMMA IInvStep == IInv /\ [Next]_vars => IInv'
<1> SUFFICES ASSUME IInv, [Next]_vars PROVE IInv'
  OBVIOUS
<1>1. TypeOK'
  BY TypeStep DEF IInv, Control
<1> QED
  BY <1>1, ControlStep DEF IInv

\* Every reachable state satisfies the inductive invariant.
THEOREM Invariance == Spec => []IInv
BY IInvInit, IInvStep, PTL DEF Spec

\* The state variables keep their types.
THEOREM TypeCorrect == Spec => []TypeOK
BY Invariance, PTL DEF IInv

\* However many reports of an outage arrive, one reconnect loop runs at most.
THEOREM SingleLoop == Spec => []OneReconnectLoop
BY Invariance, PTL DEF IInv, Control

\* No loop tries to connect while the link is up.
THEOREM LoopOnlyWhileDown == Spec => []LoopsWorkOnlyWhileDown
BY Invariance, PTL DEF IInv, Control
---------------------------------------------------------------------------
(* Action properties.                                                      *)

\* Only a dispatch and the second call of a handler issue a call, on the bus
\* of the moment: the cache holds no other.
LEMMA CallStepCurrent ==
  ASSUME IInv, ~HandlerInTask, [Next]_vars,
         NEW c \in Calls, stage[c] # "asked", stage'[c] = "asked"
  PROVE  on'[c] = bus
<1> USE DEF envVars, busVars, selfVars, callVars, clientVars
<1>1. ASSUME NEW d \in Calls, NEW acct \in Accounts \cup {None}, NEW two \in BOOLEAN,
             Dispatch(d, acct, two)
      PROVE  on'[c] = bus
  BY <1>1 DEF Dispatch, Issue, IfaceBus, IInv, TypeOK, Control, CacheIsCurrent
<1>2. ASSUME NEW d \in Calls, CallContinues(d) PROVE on'[c] = bus
  BY <1>2 DEF CallContinues, Issue, IInv, TypeOK
<1>3. ASSUME NEW d \in Calls, CallReturns(d) \/ CallRaises(d) \/ Reply(d) PROVE FALSE
  BY <1>3 DEF CallReturns, CallRaises, EndCall, Reply, IInv, TypeOK
<1>4. ASSUME NEW d \in Calls, HandlerStarts(d) PROVE FALSE
  BY <1>4 DEF HandlerStarts, IInv, Control, CallsStartAtOnce
<1>5. ASSUME Environment PROVE FALSE
  BY <1>5 DEF Environment, ServiceUp, ServiceDown, ExportAccount, DaemonDown, DaemonUp
<1>6. ASSUME NEW b \in Buses, ReadNotice(b) \/ WatchTransport(b) PROVE FALSE
  BY <1>6 DEF ReadNotice, WatchTransport, WatchReports, WatchDies
<1>7. ASSUME MainRetry PROVE FALSE
  BY <1>7 DEF MainRetry
<1>8. ASSUME NEW t \in Tasks, LoopHead(t) \/ LoopRetry(t) PROVE FALSE
  BY <1>8 DEF LoopHead, LoopRetry
<1>9. ASSUME NEW t \in Actors, ConnectStep(t) PROVE FALSE
  BY <1>9 DEF ConnectStep, Open, Interrogate, AddMatch, ConnectFails, Establish, Reestablish,
              Adopt, Resubscribed
<1>10. ASSUME NEW w \in Clients, Join(w) \/ Leave(w) PROVE FALSE
  BY <1>10 DEF Join, Leave
<1>11. CASE UNCHANGED vars
  BY <1>11 DEF vars
<1> QED
  BY <1>1, <1>2, <1>3, <1>4, <1>5, <1>6, <1>7, <1>8, <1>9, <1>10, <1>11 DEF Next, CallStep

\* Where wait_for starts the handler at once (Python 3.12 and later), no call is
\* ever issued on a bus that has been replaced.
THEOREM CallsStayCurrent ==
  ASSUME ~HandlerInTask
  PROVE  Spec => CallsUseCurrentBus
<1>1. IInv /\ [Next]_vars =>
        [\A c \in Calls : stage[c] # "asked" /\ stage'[c] = "asked" => on'[c] = bus]_vars
  BY CallStepCurrent
<1> QED
  BY <1>1, Invariance, PTL DEF Spec, CallsUseCurrentBus
---------------------------------------------------------------------------
(* No outage is overlooked.                                                *)

\* A change that every matched bus is told of is told to an adopted one.
LEMMA NotifyAdds ==
  ASSUME TypeOK, NEW change \in {"appeared", "vanished"}, Notify(change), bus \in Buses
  PROVE  /\ bus \in matched => notices'[bus] = Append(notices[bus], change)
         /\ bus \notin matched => notices'[bus] = notices[bus]
BY DEF Notify, TypeOK

\* An appended notice hides none before it.
LEMMA AppendKeeps ==
  ASSUME NEW S, NEW s \in Seq(S), NEW e \in S, NEW x,
         (\E i \in 1..Len(s) : s[i] = x) \/ e = x
  PROVE  \E i \in 1..Len(Append(s, e)) : Append(s, e)[i] = x
<1>1. CASE e = x
  <2>1. Len(s) + 1 \in 1..Len(Append(s, e)) /\ Append(s, e)[Len(s) + 1] = x
    BY <1>1
  <2> QED BY <2>1
<1>2. CASE \E i \in 1..Len(s) : s[i] = x
  <2>1. PICK i \in 1..Len(s) : s[i] = x
    BY <1>2
  <2>2. i \in 1..Len(Append(s, e)) /\ Append(s, e)[i] = x
    BY <2>1
  <2> QED BY <2>2
<1> QED BY <1>1, <1>2

\* Reading a notice other than x leaves x among the rest.
LEMMA TailKeeps ==
  ASSUME NEW S, NEW s \in Seq(S), s # <<>>, NEW x, Head(s) # x,
         \E i \in 1..Len(s) : s[i] = x
  PROVE  \E i \in 1..Len(Tail(s)) : Tail(s)[i] = x
<1>1. PICK i \in 1..Len(s) : s[i] = x
  OBVIOUS
<1>2. i # 1
  BY <1>1
<1>3. i - 1 \in 1..Len(Tail(s)) /\ Tail(s)[i - 1] = x
  BY <1>1, <1>2
<1> QED BY <1>3

\* While the link stays up its bus is not replaced, and its watcher goes on unless
\* its wait raises.
LEMMA UpKeepsBus ==
  ASSUME IInv, [Next]_vars, connected, connected', bus \in watching, ~WatchDies(bus)
  PROVE  bus' = bus /\ bus \in watching'
<1> USE DEF IInv, Control, LoopsWorkOnlyWhileDown, AdoptedBus,
            envVars, busVars, selfVars, callVars, clientVars
<1>1. CASE Environment
  BY <1>1 DEF Environment, ServiceUp, ServiceDown, ExportAccount, DaemonDown, DaemonUp
<1>2. ASSUME NEW b \in Buses, ReadNotice(b) PROVE bus' = bus /\ bus \in watching'
  BY <1>2 DEF ReadNotice, OnConnectionLost
<1>3. ASSUME NEW b \in Buses, WatchTransport(b) PROVE bus' = bus /\ bus \in watching'
  BY <1>3 DEF WatchTransport, WatchReports, WatchDies, OnConnectionLost
<1>4. CASE MainRetry
  BY <1>4 DEF MainRetry
<1>5. ASSUME NEW t \in Tasks, LoopHead(t) \/ LoopRetry(t) PROVE bus' = bus /\ bus \in watching'
  BY <1>5 DEF LoopHead, LoopRetry
<1>6. ASSUME NEW t \in Actors, ConnectStep(t) PROVE bus' = bus /\ bus \in watching'
  BY <1>6 DEF ConnectStep, Open, Interrogate, AddMatch, ConnectFails, Establish, Reestablish,
              Resubscribed
<1>7. ASSUME NEW c \in Calls, CallStep(c) PROVE bus' = bus /\ bus \in watching'
  BY <1>7 DEF CallStep, Dispatch, HandlerStarts, Reply, CallReturns, CallContinues, CallRaises,
              OnConnectionLost
<1>8. ASSUME NEW w \in Clients, Join(w) \/ Leave(w) PROVE bus' = bus /\ bus \in watching'
  BY <1>8 DEF Join, Leave
<1>9. CASE UNCHANGED vars
  BY <1>9 DEF vars
<1> HIDE DEF IInv, Control, LoopsWorkOnlyWhileDown, AdoptedBus
<1> QED
  BY <1>1, <1>2, <1>3, <1>4, <1>5, <1>6, <1>7, <1>8, <1>9 DEF Next

\* What the adopted bus holds of an outage, it holds until the link is down or its
\* watcher dies.
LEMMA EvidenceStep ==
  ASSUME IInv, [Next]_vars, connected, connected', ~WatchDies(bus),
         Evidence \/ (bus \in alive /\ service /\ ~service')
  PROVE  Evidence'
<1>0. bus \in watching
  <2>1. CASE bus \in alive
    BY <2>1 DEF IInv, Control, AdoptedBus
  <2>2. CASE bus \notin alive
    <3>1. bus \in Buses
      BY ConstantsAssumption DEF IInv, Control, AdoptedBus, Phases
    <3>2. notices[bus] = <<>>
      BY <2>2, <3>1 DEF IInv, Control, ClosedBuses
    <3> QED
      BY <2>2, <3>2 DEF Evidence
  <2> QED BY <2>1, <2>2
<1>1. /\ bus' = bus /\ bus \in watching' /\ bus \in Buses
      /\ notices[bus] \in Seq({"appeared", "vanished"})
  BY <1>0, UpKeepsBus, ConstantsAssumption DEF IInv, Control, AdoptedBus, Phases, TypeOK
<1>2. ASSUME bus \notin alive' PROVE Evidence'
  BY <1>1, <1>2 DEF Evidence
<1> USE DEF envVars, busVars, selfVars, callVars, clientVars
<1>3. ASSUME ServiceUp PROVE Evidence'
  <2>1. CASE bus \notin alive
    BY <1>1, <2>1, <1>3 DEF ServiceUp, Evidence
  <2>2. CASE bus \in alive
    <3>1. notices'[bus] = Append(notices[bus], "appeared")
      BY <1>1, <1>3, <2>2, NotifyAdds DEF ServiceUp, IInv, Control, AdoptedBus
    <3>2. \E i \in 1..Len(notices[bus]) : notices[bus][i] = "vanished"
      BY <1>3, <2>2 DEF ServiceUp, Evidence
    <3> QED
      BY <1>1, <3>1, <3>2, AppendKeeps DEF Evidence
  <2> QED BY <2>1, <2>2
<1>4. ASSUME ServiceDown PROVE Evidence'
  <2>1. CASE bus \notin alive
    BY <1>1, <2>1, <1>4 DEF ServiceDown, Evidence
  <2>2. CASE bus \in alive
    <3>1. notices'[bus] = Append(notices[bus], "vanished")
      BY <1>1, <1>4, <2>2, NotifyAdds DEF ServiceDown, IInv, Control, AdoptedBus
    <3> QED
      BY <1>1, <3>1, AppendKeeps DEF Evidence
  <2> QED BY <2>1, <2>2
<1>5. ASSUME DaemonDown PROVE Evidence'
  BY <1>1, <1>2, <1>5 DEF DaemonDown, Close
<1>6. ASSUME ExportAccount \/ DaemonUp PROVE Evidence'
  BY <1>1, <1>6 DEF ExportAccount, DaemonUp, Evidence
<1>7. ASSUME NEW b \in Buses, ReadNotice(b) PROVE Evidence'
  <2>1. CASE b # bus
    BY <1>1, <1>7, <2>1 DEF ReadNotice, Evidence, IInv, TypeOK
  <2>2. CASE b = bus
    <3>1. Head(notices[bus]) # "vanished"
      BY <1>7, <2>2 DEF ReadNotice, OnConnectionLost
    <3>2. notices'[bus] = Tail(notices[bus]) /\ notices[bus] # <<>> /\ bus \in alive
      BY <1>1, <1>7, <2>2 DEF ReadNotice, IInv, TypeOK
    <3>3. \E i \in 1..Len(notices[bus]) : notices[bus][i] = "vanished"
      BY <1>7, <3>2 DEF ReadNotice, Evidence
    <3>4. \E i \in 1..Len(Tail(notices[bus])) : Tail(notices[bus])[i] = "vanished"
      BY <1>1, <3>1, <3>2, <3>3, TailKeeps
    <3> QED
      BY <1>1, <3>2, <3>4 DEF Evidence
  <2> QED BY <2>1, <2>2
<1>8. ASSUME NEW b \in Buses, WatchTransport(b) PROVE Evidence'
  BY <1>1, <1>8 DEF WatchTransport, WatchReports, WatchDies, Evidence
<1>9. ASSUME MainRetry PROVE Evidence'
  BY <1>1, <1>9 DEF MainRetry, Evidence
<1>10. ASSUME NEW t \in Tasks, LoopHead(t) \/ LoopRetry(t) PROVE Evidence'
  BY <1>1, <1>10 DEF LoopHead, LoopRetry, Evidence
<1>11. ASSUME NEW t \in Actors, ConnectStep(t) PROVE Evidence'
  <2>1. Resubscribed(t)
    BY <1>11 DEF ConnectStep, Open, Interrogate, AddMatch, ConnectFails, Establish, Reestablish,
                 IInv, Control, LoopsWorkOnlyWhileDown
  <2> QED
    BY <1>1, <2>1 DEF Resubscribed, Evidence
<1>12. ASSUME NEW c \in Calls, CallStep(c) PROVE Evidence'
  BY <1>1, <1>12 DEF CallStep, Dispatch, HandlerStarts, Reply, CallReturns, CallContinues,
                     CallRaises, OnConnectionLost, Evidence
<1>13. ASSUME NEW w \in Clients, Join(w) \/ Leave(w) PROVE Evidence'
  BY <1>1, <1>13 DEF Join, Leave, Evidence
<1>14. CASE UNCHANGED vars
  BY <1>1, <1>14 DEF vars, Evidence
<1> QED
  BY <1>3, <1>4, <1>5, <1>6, <1>7, <1>8, <1>9, <1>10, <1>11, <1>12, <1>13, <1>14
     DEF Next, Environment

\* An outage under an established link leaves a trace that lasts until the link is
\* taken down; only a watcher whose wait raises loses it.
THEOREM NoOutageOverlooked == Spec => OutagesAreNoticed
<1>1. IInv /\ [Next]_vars =>
        [connected /\ (Evidence \/ (bus \in alive /\ service /\ ~service'))
            => ~connected' \/ Evidence' \/ WatchDies(bus)]_vars
  BY EvidenceStep
<1> QED
  BY <1>1, Invariance, PTL DEF Spec, OutagesAreNoticed
---------------------------------------------------------------------------
(* SignalClient implements Link.                                           *)

\* An outage report is a loss of the link the first time and nothing after.
LEMMA LostIsDrop ==
  ASSUME TypeOK, OnConnectionLost
  PROVE  L!Drop \/ UNCHANGED L!linkVars
BY DEF TypeOK, OnConnectionLost, Broadcast, L!Drop, L!Tell, L!linkVars

\* Every step is a step of Link or changes nothing a client can see.
LEMMA LinkStep ==
  ASSUME IInv, [Next]_vars
  PROVE  L!Next \/ UNCHANGED L!linkVars
<1> USE DEF envVars, busVars, selfVars, callVars, clientVars, L!linkVars
<1> DEFINE Goal == L!Next \/ UNCHANGED L!linkVars
<1>1. ASSUME Environment PROVE Goal
  BY <1>1 DEF Environment, ServiceUp, ServiceDown, ExportAccount, DaemonDown, DaemonUp
<1>2. ASSUME NEW b \in Buses, ReadNotice(b) PROVE Goal
  BY <1>2, LostIsDrop DEF ReadNotice, IInv, L!Next
<1>3. ASSUME NEW b \in Buses, WatchTransport(b) PROVE Goal
  BY <1>3, LostIsDrop DEF WatchTransport, WatchReports, WatchDies, IInv, L!Next
<1>4. ASSUME MainRetry PROVE Goal
  BY <1>4 DEF MainRetry
<1>5. ASSUME NEW t \in Tasks, LoopHead(t) \/ LoopRetry(t) PROVE Goal
  BY <1>5 DEF LoopHead, LoopRetry
<1>6. ASSUME NEW t \in Actors, ConnectStep(t) PROVE Goal
  <2>1. CASE Open(t) \/ Interrogate(t) \/ AddMatch(t) \/ Resubscribed(t)
    BY <2>1 DEF Open, Interrogate, AddMatch, Resubscribed
  <2>2. CASE ConnectFails(t)
    <3>1. ~connected
      BY <2>2 DEF ConnectFails, IInv, Control, LoopsWorkOnlyWhileDown
    <3> QED
      BY <2>2, <3>1 DEF ConnectFails, IInv, TypeOK
  <2>3. CASE Establish(t)
    BY <2>3 DEF Establish, Adopt, L!Next, L!Establish
  <2>4. CASE Reestablish(t)
    <3>1. ~connected
      BY <2>4 DEF Reestablish, IInv, Control, LoopsWorkOnlyWhileDown
    <3>2. L!Restore
      BY <2>4, <3>1 DEF Reestablish, Adopt, Broadcast, IInv, TypeOK, L!Restore, L!Tell
    <3> QED BY <3>2 DEF L!Next
  <2> QED
    BY <1>6, <2>1, <2>2, <2>3, <2>4 DEF ConnectStep
<1>7. ASSUME NEW c \in Calls, CallStep(c) PROVE Goal
  <2>1. CASE CallRaises(c)
    BY <2>1, LostIsDrop DEF CallRaises, IInv, L!Next
  <2>2. CASE ~CallRaises(c)
    BY <1>7, <2>2 DEF CallStep, Dispatch, HandlerStarts, Reply, CallReturns, CallContinues
  <2> QED BY <2>1, <2>2
<1>8. ASSUME NEW w \in Clients, Join(w) PROVE Goal
  <2>1. L!Join(w)
    BY <1>8 DEF Join, IInv, TypeOK, Control, Phases, L!Join
  <2> QED BY <2>1 DEF L!Next
<1>9. ASSUME NEW w \in Clients, Leave(w) PROVE Goal
  <2>1. L!Leave(w)
    BY <1>9 DEF Leave, L!Leave
  <2> QED BY <2>1 DEF L!Next
<1>10. CASE UNCHANGED vars
  BY <1>10 DEF vars
<1> QED
  BY <1>1, <1>2, <1>3, <1>4, <1>5, <1>6, <1>7, <1>8, <1>9, <1>10 DEF Next

\* Clients are told of every loss and every recovery of the link, each once:
\* SignalClient is a Link.
THEOREM ImplementsLink == Spec => LinkSpec
<1>1. Init => L!Init
  BY DEF Init, L!Init
<1>2. IInv /\ [Next]_vars => [L!Next]_(L!linkVars)
  BY LinkStep
<1> QED
  BY <1>1, <1>2, Invariance, PTL DEF Spec, LinkSpec, L!Spec
---------------------------------------------------------------------------
(* A link that is down is worked on, unless a renewal was cut off.         *)

\* After a report of an outage a loop is there: the old one or a new one.
LEMMA LostIsRecovering ==
  ASSUME IInv, OnConnectionLost, Serving
  PROVE  AlwaysRecovering'
<1> USE ConstantsAssumption DEF IInv, TypeOK, Control, AlwaysRecovering, OnConnectionLost, LoopDone,
        Serving, Actors
<1>1. CASE LoopDone
  BY <1>1
<1>2. CASE ~LoopDone
  BY <1>2
<1> QED BY <1>1, <1>2

\* A step that ends no renewal does not end the recovery either.
LEMMA RecoveryStep ==
  ASSUME IInv, AlwaysRecovering, [Next]_vars,
         \A t \in Tasks : ~(pc[t] = "resub" /\ pc'[t] = "idle")
  PROVE  AlwaysRecovering'
<1> USE DEF envVars, busVars, selfVars, callVars, clientVars
<1>1. ASSUME Environment PROVE AlwaysRecovering'
  BY <1>1 DEF Environment, ServiceUp, ServiceDown, ExportAccount, DaemonDown, DaemonUp,
              AlwaysRecovering, Serving
<1>2. ASSUME NEW b \in Buses, ReadNotice(b) PROVE AlwaysRecovering'
  <2>1. CASE b = bus /\ Head(notices[b]) = "vanished"
    <3>1. Serving
      BY <2>1, ConstantsAssumption DEF IInv, Control, Phases
    <3> QED
      BY <1>2, <2>1, <3>1, LostIsRecovering DEF ReadNotice
  <2>2. CASE ~(b = bus /\ Head(notices[b]) = "vanished")
    BY <1>2, <2>2 DEF ReadNotice, AlwaysRecovering, Serving
  <2> QED BY <2>1, <2>2
<1>3. ASSUME NEW b \in Buses, WatchTransport(b) PROVE AlwaysRecovering'
  <2>1. CASE WatchReports(b) /\ b = bus
    <3>1. Serving
      BY <2>1, ConstantsAssumption DEF IInv, Control, Phases
    <3> QED
      BY <2>1, <3>1, LostIsRecovering DEF WatchReports
  <2>2. CASE WatchDies(b) \/ b # bus
    BY <1>3, <2>2 DEF WatchTransport, WatchReports, WatchDies, AlwaysRecovering, Serving
  <2> QED BY <1>3, <2>1, <2>2 DEF WatchTransport
<1>4. ASSUME MainRetry PROVE AlwaysRecovering'
  BY <1>4, ConstantsAssumption
     DEF MainRetry, AlwaysRecovering, Serving, Actors, IInv, TypeOK
<1>5. ASSUME NEW t \in Tasks, LoopHead(t) \/ LoopRetry(t) PROVE AlwaysRecovering'
  BY <1>5, ConstantsAssumption
     DEF LoopHead, LoopRetry, AlwaysRecovering, Serving, Actors, IInv, TypeOK
<1>6. ASSUME NEW t \in Actors, Open(t) \/ Interrogate(t) \/ AddMatch(t) \/ ConnectFails(t)
      PROVE  AlwaysRecovering'
  BY <1>6, ConstantsAssumption
     DEF Open, Interrogate, AddMatch, ConnectFails, AfterFailure, AlwaysRecovering, Serving, Actors,
         IInv, TypeOK
<1>7. ASSUME NEW t \in Actors, Establish(t) \/ Reestablish(t) PROVE AlwaysRecovering'
  BY <1>7 DEF Establish, Reestablish, Adopt, AlwaysRecovering
<1>8. ASSUME NEW t \in Actors, Resubscribed(t) PROVE FALSE
  BY <1>8, ConstantsAssumption DEF Resubscribed, Resting, Actors, IInv, TypeOK, Control, Phases
<1>9. ASSUME NEW c \in Calls, CallRaises(c) PROVE AlwaysRecovering'
  <2>1. Serving
    BY <1>9 DEF CallRaises, IInv, Control, Phases
  <2> QED
    BY <1>9, <2>1, LostIsRecovering DEF CallRaises
<1>10. ASSUME NEW c \in Calls, CallStep(c), ~CallRaises(c) PROVE AlwaysRecovering'
  BY <1>10 DEF CallStep, Dispatch, HandlerStarts, Reply, CallReturns, CallContinues,
               AlwaysRecovering, Serving
<1>11. ASSUME NEW w \in Clients, Join(w) \/ Leave(w) PROVE AlwaysRecovering'
  BY <1>11 DEF Join, Leave, AlwaysRecovering, Serving
<1>12. CASE UNCHANGED vars
  BY <1>12 DEF vars, AlwaysRecovering, Serving
<1> QED
  BY <1>1, <1>2, <1>3, <1>4, <1>5, <1>6, <1>7, <1>8, <1>9, <1>10, <1>11, <1>12
     DEF Next, ConnectStep

\* The link is left down without a loop only at the end of a renewal, and the next
\* call that fails brings the loop back (dbus_client.py:178-187, :249-282).
THEOREM StrandedByRenewals == Spec => OnlyRenewalsStrand
<1> DEFINE A == /\ AlwaysRecovering /\ ~AlwaysRecovering'
                     => \E t \in Tasks : pc[t] = "resub" /\ pc'[t] = "idle"
                /\ ~AlwaysRecovering /\ (\E c \in Calls : CallRaises(c)) => AlwaysRecovering'
<1>1. IInv /\ [Next]_vars => A
  <2> SUFFICES ASSUME IInv, [Next]_vars PROVE A
    OBVIOUS
  <2>1. ASSUME NEW c \in Calls, CallRaises(c) PROVE AlwaysRecovering'
    <3>1. Serving
      BY <2>1 DEF CallRaises, IInv, Control, Phases
    <3> QED BY <2>1, <3>1, LostIsRecovering DEF CallRaises
  <2> QED BY <2>1, RecoveryStep
<1> QED
  BY <1>1, Invariance, PTL DEF Spec, OnlyRenewalsStrand

NeverResubscribing == \A t \in Actors : pc[t] # "resub"

\* Nobody is there to renew a subscription for.
LEMMA NoRenewals ==
  ASSUME Clients = {}, IInv, NeverResubscribing, [Next]_vars
  PROVE  NeverResubscribing'
<1>1. clients = {}
  BY DEF IInv, TypeOK
<1> USE DEF envVars, busVars, selfVars, callVars, clientVars, NeverResubscribing
<1>2. CASE Environment \/ UNCHANGED vars
  BY <1>2 DEF Environment, ServiceUp, ServiceDown, ExportAccount, DaemonDown, DaemonUp, vars
<1>3. ASSUME NEW b \in Buses, ReadNotice(b) \/ WatchTransport(b) PROVE NeverResubscribing'
  BY <1>3 DEF ReadNotice, WatchTransport, WatchReports, WatchDies, OnConnectionLost, IInv, TypeOK
<1>4. ASSUME MainRetry \/ \E t \in Tasks : LoopHead(t) \/ LoopRetry(t) PROVE NeverResubscribing'
  BY <1>4 DEF MainRetry, LoopHead, LoopRetry, IInv, TypeOK
<1>5. ASSUME NEW t \in Actors, ConnectStep(t) PROVE NeverResubscribing'
  <2>1. CASE Open(t) \/ Interrogate(t) \/ AddMatch(t) \/ ConnectFails(t)
    BY <2>1 DEF Open, Interrogate, AddMatch, ConnectFails, AfterFailure, IInv, TypeOK
  <2>2. CASE Establish(t) \/ Reestablish(t) \/ Resubscribed(t)
    BY <1>1, <2>2 DEF Establish, Reestablish, Resubscribed, Adopt, Resting, IInv, TypeOK
  <2> QED BY <1>5, <2>1, <2>2 DEF ConnectStep
<1>6. ASSUME NEW c \in Calls, CallStep(c) PROVE NeverResubscribing'
  BY <1>6 DEF CallStep, Dispatch, HandlerStarts, Reply, CallReturns, CallContinues, CallRaises,
              OnConnectionLost, IInv, TypeOK
<1>7. ASSUME NEW w \in Clients PROVE FALSE
  OBVIOUS
<1> QED BY <1>2, <1>3, <1>4, <1>5, <1>6, <1>7 DEF Next

\* With no client to renew a subscription for, no outage is left without a
\* reconnect loop.  The assumption is needed: see AlwaysRecovering.
THEOREM NeverStranded ==
  ASSUME Clients = {}
  PROVE  Spec => []AlwaysRecovering
<1> DEFINE RInv == AlwaysRecovering /\ NeverResubscribing
<1>1. Init => RInv
  BY DEF Init, AlwaysRecovering, NeverResubscribing, Serving, Actors
<1>2. IInv /\ RInv /\ [Next]_vars => RInv'
  <2> SUFFICES ASSUME IInv, RInv, [Next]_vars PROVE RInv'
    OBVIOUS
  <2>1. NeverResubscribing'
    BY NoRenewals
  <2>2. AlwaysRecovering'
    BY RecoveryStep DEF NeverResubscribing, Actors
  <2> QED BY <2>1, <2>2
<1> QED
  BY <1>1, <1>2, Invariance, PTL DEF Spec
===========================================================================
