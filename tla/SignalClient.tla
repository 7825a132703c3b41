--------------------------- MODULE SignalClient ---------------------------
(***************************************************************************)
(* The connection lifecycle of src/swb/dbus_client.py: the initial connect *)
(* of __main__.py, connect() split at every await, outage detection by     *)
(* NameOwnerChanged, by the transport watcher and by failed calls, and the *)
(* reconnect loop.  Everything runs on one event loop, so an action is the *)
(* code between two awaits.  signal-cli, the DBus daemon and dbus-fast are *)
(* external: they are modelled by what the code asks of them.              *)
(***************************************************************************)
EXTENDS Naturals, Sequences, FiniteSets

CONSTANTS Buses,        \* identities of MessageBus objects, reused once unreferenced
          Tasks,        \* identities of reconnect-loop tasks
          Main,         \* the task that runs __main__._run
          Calls,        \* dispatches that may be in flight (one DBus call at a time each)
          Accounts,     \* values of the ?account= query parameter
          Clients,      \* WebSocket clients
          None,         \* Python's None
          HandlerInTask, \* asyncio.wait_for runs its coroutine in a new task (Python 3.11)
          MaxNotices    \* bound: unread NameOwnerChanged messages per bus

ASSUME ConstantsAssumption ==
    /\ Main \notin Tasks
    /\ (Tasks \cup {Main}) \cap Calls = {}
    /\ None \notin Buses \cup Tasks
    /\ MaxNotices \in Nat
    /\ HandlerInTask \in BOOLEAN

VARIABLES
    \* external: the DBus daemon and signal-cli
    daemon,             \* the bus daemon runs
    service,            \* signal-cli owns org.asamk.Signal
    exported,           \* it exports the account this bridge is to select
    alive,              \* buses whose transport is open
    matched,            \* buses with the NameOwnerChanged match rule
    notices,            \* per bus, ownership changes received and not yet read
    doomed,             \* callers whose destination vanished under their call
    \* attributes of SignalClient
    bus,                \* self.bus, and the bus self._signal_iface is bound to
    cache,              \* self._account_ifaces: the bus each entry is bound to
    connected,          \* self.connected
    initial,            \* self._initial_connect
    reconnectTask,      \* self._reconnect_task
    wake,               \* self._reconnect_wake
    watching,           \* buses whose _watch_transport task has not resolved
    \* coroutines
    pc,                 \* where each task stands
    fresh,              \* the local variable bus of a running connect()
    on,                 \* the bus of the interface each call in flight is made with
    stage,              \* how far it is: its interface bound, asked, answered
    more,               \* calls whose handler will make a second DBus call
    \* WebSocket clients, as the client side of the bridge sees them
    clients,            \* self._connected_clients
    seen                \* last control message scheduled to each client

envVars == <<daemon, service, exported>>
busVars == <<alive, matched, notices>>
selfVars == <<bus, cache, connected, initial, reconnectTask, wake, watching>>
callVars == <<on, stage, more>>
clientVars == <<clients, seen>>
vars == <<envVars, busVars, doomed, selfVars, pc, fresh, callVars, clientVars>>

Actors == Tasks \cup {Main}
Callers == Actors \cup Calls

\* The awaits of connect() whose reply comes from signal-cli; the places where
\* its local variable bus holds a bus that is not adopted; and all places.
AwaitingService == {"root", "probe", "node"}
Holding == AwaitingService \cup {"match1", "match2", "ready"}
Places == Holding \cup {"idle", "head", "wait", "open", "resub", "serve"}

Init ==
    /\ daemon = TRUE
    /\ service \in BOOLEAN
    /\ exported \in BOOLEAN
    /\ alive = {}
    /\ matched = {}
    /\ notices = [b \in Buses |-> <<>>]
    /\ doomed = {}
    /\ bus = None
    /\ cache = [a \in Accounts |-> None]
    /\ connected = FALSE
    /\ initial = TRUE
    /\ reconnectTask = None
    /\ wake = FALSE
    /\ watching = {}
    /\ pc = [t \in Actors |-> IF t = Main THEN "open" ELSE "idle"]
    /\ fresh = [t \in Actors |-> None]
    /\ on = [c \in Calls |-> None]
    /\ stage = [c \in Calls |-> "none"]
    /\ more = {}
    /\ clients = {}
    /\ seen = [w \in Clients |-> "none"]
---------------------------------------------------------------------------
(* External: the daemon, signal-cli and the transport.                     *)

\* Every bus with the match rule is sent the change of ownership.
Notify(change) ==
    /\ \A b \in matched : Len(notices[b]) < MaxNotices
    /\ notices' = [b \in Buses |-> IF b \in matched THEN Append(notices[b], change)
                                 ELSE notices[b]]

\* The transports of these buses close: nothing more is read from them.
Close(buses) ==
    /\ alive' = alive \ buses
    /\ matched' = matched \ buses
    /\ notices' = [b \in Buses |-> IF b \in buses THEN <<>> ELSE notices[b]]

InFlight == {c \in Calls : stage[c] = "asked"} \cup {t \in Actors : pc[t] \in AwaitingService}

ServiceUp ==
    /\ daemon /\ ~service
    /\ service' = TRUE
    /\ exported' \in BOOLEAN
    /\ Notify("appeared")
    /\ UNCHANGED <<daemon, alive, matched, doomed, selfVars, pc, fresh, callVars, clientVars>>

\* The daemon answers the calls in flight itself, with NoReply.
ServiceDown ==
    /\ service
    /\ service' = FALSE
    /\ Notify("vanished")
    /\ doomed' = doomed \cup InFlight
    /\ UNCHANGED <<daemon, exported, alive, matched, selfVars, pc, fresh, callVars, clientVars>>

ExportAccount ==
    /\ service /\ ~exported
    /\ exported' = TRUE
    /\ UNCHANGED <<daemon, service, busVars, doomed, selfVars, pc, fresh, callVars, clientVars>>

DaemonDown ==
    /\ daemon
    /\ daemon' = FALSE
    /\ service' = FALSE
    /\ Close(Buses)
    /\ doomed' = doomed \cup InFlight
    /\ UNCHANGED <<exported, selfVars, pc, fresh, callVars, clientVars>>

DaemonUp ==
    /\ ~daemon
    /\ daemon' = TRUE
    /\ UNCHANGED <<service, exported, busVars, doomed, selfVars, pc, fresh, callVars, clientVars>>

\* caller awaits a reply of signal-cli: with nobody owning the name the daemon
\* answers ServiceUnknown.
Ask(caller) == doomed' = IF service THEN doomed \ {caller} ELSE doomed \cup {caller}

Answered(caller, b) == b \in alive /\ caller \notin doomed
Failed(caller, b) == ~Answered(caller, b)
---------------------------------------------------------------------------
(* Outages.                                                                *)

\* Mutant: the last words to clients that have left are forgotten with them.
BroadcastForgets(note) == seen' = [w \in clients |-> note]

Broadcast(note) == seen' = [w \in Clients |-> IF w \in clients THEN note ELSE seen[w]]

\* Mutants: a loop that sleeps is taken for finished; no look at the old loop
\* at all; a loop is started for the first outage only.
LoopSleeping == reconnectTask = None \/ pc[reconnectTask] \in {"idle", "wait"}
LoopUnchecked == TRUE
LoopNeverStarted == reconnectTask = None

LoopDone == reconnectTask = None \/ pc[reconnectTask] = "idle"

\* Mutant: Disconnected is broadcast without a look at self.connected.
OnConnectionLostAgain ==
    /\ connected' = FALSE
    /\ Broadcast("Disconnected")
    /\ IF LoopDone
       THEN \E t \in Tasks : /\ pc[t] = "idle"
                             /\ reconnectTask' = t
                             /\ pc' = [pc EXCEPT ![t] = "head"]
       ELSE UNCHANGED <<reconnectTask, pc>>
    /\ UNCHANGED <<bus, cache, initial, clients>>

\* _on_connection_lost: the link is down, the clients are told, and unless a
\* reconnect loop is still running a new one is started.
OnConnectionLost ==
    /\ connected' = FALSE
    /\ IF connected THEN Broadcast("Disconnected") ELSE UNCHANGED seen
    /\ IF LoopDone
       THEN \E t \in Tasks : /\ pc[t] = "idle"
                             /\ reconnectTask' = t
                             /\ pc' = [pc EXCEPT ![t] = "head"]
       ELSE UNCHANGED <<reconnectTask, pc>>
    /\ UNCHANGED <<bus, cache, initial, clients>>

\* Mutant: the loop is woken only if it is already waiting.
WakesWaiting(b) == b = bus /\ ~connected /\ \E t \in Tasks : pc[t] = "wait"

\* An appearance on the adopted bus wakes the loop while the link is down.
Wakes(b) == b = bus /\ ~connected

\* A bus reads its next message: _handle_message for the adopted one; a bus
\* that is still being set up has no handler and discards it.
ReadNotice(b) ==
    /\ b \in alive
    /\ notices[b] # <<>>
    /\ \/ b = bus
       \/ \E t \in Actors : fresh[t] = b /\ pc[t] = "ready"
    /\ notices' = [notices EXCEPT ![b] = Tail(@)]
    /\ IF b = bus /\ Head(notices[b]) = "vanished"
       THEN OnConnectionLost /\ UNCHANGED wake
       ELSE /\ wake' = (wake \/ Wakes(b))
            /\ UNCHANGED <<bus, cache, connected, initial, reconnectTask, pc, clientVars>>
    /\ UNCHANGED <<envVars, alive, matched, doomed, watching, fresh, callVars>>

\* wait_for_disconnect returns.
WatchReports(b) ==
    /\ b \in watching \ alive
    /\ watching' = watching \ {b}
    /\ IF b = bus
       THEN OnConnectionLost
       ELSE UNCHANGED <<bus, cache, connected, initial, reconnectTask, pc, clientVars>>
    /\ UNCHANGED <<envVars, busVars, doomed, wake, fresh, callVars>>

\* wait_for_disconnect raises, as the transport ended with an error: there is no
\* try, and the watcher ends without a report.
WatchDies(b) ==
    /\ b \in watching \ alive
    /\ watching' = watching \ {b}
    /\ UNCHANGED <<envVars, busVars, doomed, bus, cache, connected, initial, reconnectTask, wake,
                   pc, fresh, callVars, clientVars>>

WatchTransport(b) == WatchReports(b) \/ WatchDies(b)
---------------------------------------------------------------------------
(* The retry loops and connect().                                          *)

\* __main__._run sleeps, then tries again.
MainRetry ==
    /\ pc[Main] = "wait"
    /\ pc' = [pc EXCEPT ![Main] = "open"]
    /\ UNCHANGED <<envVars, busVars, doomed, selfVars, fresh, callVars, clientVars>>

\* The first step of a new _reconnect_loop task: its while condition.
LoopHead(t) ==
    /\ pc[t] = "head"
    /\ pc' = [pc EXCEPT ![t] = IF connected THEN "idle" ELSE "wait"]
    /\ UNCHANGED <<envVars, busVars, doomed, selfVars, fresh, callVars, clientVars>>

\* The wait ends because the event is set or because the backoff has elapsed.
LoopRetry(t) ==
    /\ pc[t] = "wait"
    /\ wake' = FALSE
    /\ pc' = [pc EXCEPT ![t] = "open"]
    /\ UNCHANGED <<envVars, busVars, doomed, bus, cache, connected, initial, reconnectTask,
                   watching, fresh, callVars, clientVars>>

LoopWoken(t) == wake /\ LoopRetry(t)

Unused == {b \in Buses : /\ b \notin alive \cup watching \cup {bus}
                         /\ \A t \in Actors : fresh[t] # b
                         /\ \A c \in Calls : on[c] # b}

\* bus.connect() succeeds and the root object is introspected next.
Open(t) ==
    /\ pc[t] = "open"
    /\ daemon
    /\ \E b \in Unused :
         /\ fresh' = [fresh EXCEPT ![t] = b]
         /\ alive' = alive \cup {b}
    /\ pc' = [pc EXCEPT ![t] = "root"]
    /\ Ask(t)
    /\ UNCHANGED <<envVars, matched, notices, selfVars, callVars, clientVars>>

\* introspect -> listAccounts or version -> introspect the selected object.
Interrogate(t) ==
    /\ pc[t] \in {"root", "probe", "node"}
    /\ Answered(t, fresh[t])
    /\ pc[t] = "probe" => exported
    /\ pc' = [pc EXCEPT ![t] = CASE @ = "root" -> "probe"
                                 [] @ = "probe" -> "node"
                                 [] @ = "node" -> "match1"]
    /\ Ask(t)
    /\ UNCHANGED <<envVars, busVars, selfVars, fresh, callVars, clientVars>>

\* Mutant: the match rule for NameOwnerChanged is not registered.
AddMatchForSignals(t) ==
    /\ pc[t] \in {"match1", "match2"}
    /\ fresh[t] \in alive
    /\ pc' = [pc EXCEPT ![t] = IF @ = "match1" THEN "match2" ELSE "ready"]
    /\ UNCHANGED <<envVars, busVars, doomed, selfVars, fresh, callVars, clientVars>>

\* AddMatch for the signals, then AddMatch for NameOwnerChanged.
AddMatch(t) ==
    /\ pc[t] \in {"match1", "match2"}
    /\ fresh[t] \in alive
    /\ pc' = [pc EXCEPT ![t] = IF @ = "match1" THEN "match2" ELSE "ready"]
    /\ matched' = IF pc[t] = "match2" THEN matched \cup {fresh[t]} ELSE matched
    /\ UNCHANGED <<envVars, alive, notices, doomed, selfVars, fresh, callVars, clientVars>>

\* Mutant: the reconnect loop returns after an attempt that failed.
AfterFailureDone(t) == IF t = Main THEN "wait" ELSE "idle"

\* connect() returns False: _run sleeps, the reconnect loop waits.
AfterFailure(t) == "wait"

\* The except clause of connect(); the caller's loop then waits again.  The
\* bus of the failed attempt is nobody's any more: it has no handler.
ConnectFails(t) ==
    /\ \/ pc[t] = "open" /\ ~daemon
       \/ pc[t] \in {"root", "probe", "node"} /\ Failed(t, fresh[t])
       \/ pc[t] = "probe" /\ ~exported
       \/ pc[t] \in {"match1", "match2"} /\ fresh[t] \notin alive
    /\ connected' = FALSE
    /\ pc' = [pc EXCEPT ![t] = AfterFailure(t)]
    /\ fresh' = [fresh EXCEPT ![t] = None]
    /\ Close({fresh[t]})
    /\ doomed' = doomed \ {t}
    /\ UNCHANGED <<envVars, bus, cache, initial, reconnectTask, wake,
                   watching, callVars, clientVars>>

\* connect() returns True: _run goes on to serve, the reconnect loop is done.
Resting(t) == IF t = Main THEN "serve" ELSE "idle"

\* Mutant: the interfaces bound to the old bus stay in the cache.
AdoptKeepingCache(t) ==
    /\ bus' = fresh[t]
    /\ fresh' = [fresh EXCEPT ![t] = None]
    /\ connected' = TRUE
    /\ Close({bus})
    /\ watching' = watching \cup {fresh[t]}
    /\ UNCHANGED <<envVars, cache, doomed, reconnectTask, wake, callVars, clients>>

\* The new bus replaces the old one, which is disconnected.
Adopt(t) ==
    /\ bus' = fresh[t]
    /\ fresh' = [fresh EXCEPT ![t] = None]
    /\ cache' = [a \in Accounts |-> None]
    /\ connected' = TRUE
    /\ Close({bus})
    /\ watching' = watching \cup {fresh[t]}
    /\ UNCHANGED <<envVars, doomed, reconnectTask, wake, callVars, clients>>

Establish(t) ==
    /\ pc[t] = "ready"
    /\ initial
    /\ Adopt(t)
    /\ initial' = FALSE
    /\ pc' = [pc EXCEPT ![t] = Resting(t)]
    /\ UNCHANGED seen

\* Not the first connection: Reconnected is broadcast, and with clients there
\* the keep-alive subscription is renewed before connect() returns.
Reestablish(t) ==
    /\ pc[t] = "ready"
    /\ ~initial
    /\ Adopt(t)
    /\ Broadcast("Reconnected")
    /\ pc' = [pc EXCEPT ![t] = IF clients # {} THEN "resub" ELSE Resting(t)]
    /\ UNCHANGED initial

\* subscribeReceive returns or raises, and an error is only logged: connect()
\* returns True either way, without another look at the connection.
Resubscribed(t) ==
    /\ pc[t] = "resub"
    /\ pc' = [pc EXCEPT ![t] = Resting(t)]
    /\ UNCHANGED <<envVars, busVars, doomed, selfVars, fresh, callVars, clientVars>>
---------------------------------------------------------------------------
(* Calls of the dispatchers (dispatch.py) and their errors.                *)

Serving == pc[Main] = "serve"

\* interface(account): the bus the call will be made on, from the cache if it
\* is there.
IfaceBus(acct) == IF acct = None THEN bus
                  ELSE IF cache[acct] = None THEN bus ELSE cache[acct]

\* A call leaves for signal-cli.
Issue(c) == stage' = [stage EXCEPT ![c] = "asked"] /\ Ask(c)

\* The interface is resolved; the handler makes its first call in the same step,
\* unless it has a task of its own.
Dispatch(c, acct, two) ==
    /\ Serving
    /\ stage[c] = "none"
    /\ on' = [on EXCEPT ![c] = IfaceBus(acct)]
    /\ cache' = IF acct = None THEN cache ELSE [cache EXCEPT ![acct] = IfaceBus(acct)]
    /\ more' = IF two THEN more \cup {c} ELSE more
    /\ IF HandlerInTask
       THEN stage' = [stage EXCEPT ![c] = "bound"] /\ UNCHANGED doomed
       ELSE Issue(c)
    /\ UNCHANGED <<envVars, busVars, bus, connected, initial, reconnectTask, wake, watching,
                   pc, fresh, clientVars>>

\* The task of the handler starts, on the interface resolved before.
HandlerStarts(c) ==
    /\ stage[c] = "bound"
    /\ Issue(c)
    /\ UNCHANGED <<envVars, busVars, selfVars, pc, fresh, on, more, clientVars>>

\* The reply arrives; the handler is yet to be resumed.
Reply(c) ==
    /\ stage[c] = "asked" /\ Answered(c, on[c])
    /\ stage' = [stage EXCEPT ![c] = "answered"]
    /\ UNCHANGED <<envVars, busVars, doomed, selfVars, pc, fresh, on, more, clientVars>>

EndCall(c) ==
    /\ on' = [on EXCEPT ![c] = None]
    /\ stage' = [stage EXCEPT ![c] = "none"]
    /\ more' = more \ {c}
    /\ doomed' = doomed \ {c}

\* The handler returns, or raises what note_error leaves to the caller.
CallReturns(c) ==
    /\ stage[c] \in {"bound", "answered"}
    /\ EndCall(c)
    /\ UNCHANGED <<envVars, busVars, selfVars, pc, fresh, clientVars>>

\* Mutant: the second call is made on the bus of the first.
CallContinuesThere(c) ==
    /\ stage[c] = "answered"
    /\ c \in more
    /\ more' = more \ {c}
    /\ Issue(c)
    /\ UNCHANGED <<envVars, busVars, selfVars, pc, fresh, on, clientVars>>

\* getGroup or getIdentity has answered; sub_interface binds the second call
\* to the bus of this moment.
CallContinues(c) ==
    /\ stage[c] = "answered"
    /\ c \in more
    /\ on' = [on EXCEPT ![c] = bus]
    /\ more' = more \ {c}
    /\ Issue(c)
    /\ UNCHANGED <<envVars, busVars, selfVars, pc, fresh, clientVars>>

\* note_error with an error it takes for a lost connection: ServiceUnknown,
\* NoReply or a transport error; UnknownObject from a service that is there;
\* or the TimeoutError of CALL_TIMEOUT, however far the call is.
CallRaises(c) ==
    /\ stage[c] # "none"
    /\ EndCall(c)
    /\ OnConnectionLost
    /\ UNCHANGED <<envVars, busVars, wake, watching, fresh>>
---------------------------------------------------------------------------
(* The WebSocket server adds and discards its clients.                     *)

Join(w) ==
    /\ Serving
    /\ w \notin clients
    /\ clients' = clients \cup {w}
    /\ UNCHANGED <<envVars, busVars, doomed, selfVars, pc, fresh, callVars, seen>>

Leave(w) ==
    /\ w \in clients
    /\ clients' = clients \ {w}
    /\ seen' = [seen EXCEPT ![w] = "none"]
    /\ UNCHANGED <<envVars, busVars, doomed, selfVars, pc, fresh, callVars>>
---------------------------------------------------------------------------
Environment == ServiceUp \/ ServiceDown \/ ExportAccount \/ DaemonDown \/ DaemonUp

ConnectStep(t) ==
    \/ Open(t) \/ Interrogate(t) \/ AddMatch(t) \/ ConnectFails(t)
    \/ Establish(t) \/ Reestablish(t) \/ Resubscribed(t)

CallStep(c) ==
    \/ \E acct \in Accounts \cup {None}, two \in BOOLEAN : Dispatch(c, acct, two)
    \/ HandlerStarts(c) \/ Reply(c) \/ CallReturns(c) \/ CallContinues(c) \/ CallRaises(c)

Next ==
    \/ Environment
    \/ \E b \in Buses : ReadNotice(b) \/ WatchTransport(b)
    \/ MainRetry
    \/ \E t \in Tasks : LoopHead(t) \/ LoopRetry(t)
    \/ \E t \in Actors : ConnectStep(t)
    \/ \E c \in Calls : CallStep(c)
    \/ \E w \in Clients : Join(w) \/ Leave(w)

Spec == Init /\ [][Next]_vars
---------------------------------------------------------------------------
(* Fairness: the event loop runs every coroutine that can go on, timers     *)
(* elapse, and the daemon delivers.  Nothing is assumed of signal-cli, of   *)
(* the daemon's life, of new calls or of the clients.                       *)

Coroutines ==
    /\ \A b \in Buses : WF_vars(ReadNotice(b)) /\ WF_vars(WatchTransport(b))
    /\ \A t \in Tasks : WF_vars(LoopHead(t))
    /\ \A t \in Actors : WF_vars(ConnectStep(t))

BackoffElapses == \A t \in Tasks : WF_vars(LoopRetry(t))

\* Without the backoff timer a waiting loop goes on only when it is woken.
PromptSpec == Spec /\ Coroutines /\ WF_vars(MainRetry) /\ \A t \in Tasks : WF_vars(LoopWoken(t))

FairSpec == PromptSpec /\ BackoffElapses
---------------------------------------------------------------------------
(* Properties.                                                             *)

\* The type invariant.
TypeOK ==
    /\ {daemon, service, exported, connected, initial, wake} \subseteq BOOLEAN
    /\ alive \subseteq Buses /\ matched \subseteq Buses /\ watching \subseteq Buses
    /\ notices \in [Buses -> Seq({"appeared", "vanished"})]
    /\ doomed \subseteq Callers
    /\ bus \in Buses \cup {None}
    /\ cache \in [Accounts -> Buses \cup {None}]
    /\ reconnectTask \in Tasks \cup {None}
    /\ pc \in [Actors -> Places]
    /\ fresh \in [Actors -> Buses \cup {None}]
    /\ on \in [Calls -> Buses \cup {None}]
    /\ stage \in [Calls -> {"none", "bound", "asked", "answered"}]
    /\ more \subseteq Calls
    /\ clients \subseteq Clients
    /\ seen \in [Clients -> {"none", "Disconnected", "Reconnected"}]

\* However many outage reports arrive, from notices, the transport and failing
\* calls, at most one reconnect loop runs, it is the one _reconnect_task names,
\* and it never runs beside the initial connect of _run (dbus_client.py:256).
OneReconnectLoop ==
    \A t \in Tasks : pc[t] # "idle" => t = reconnectTask /\ Serving

\* A loop that has not connected yet runs only while the link is down: two
\* connect() can not replace each other's bus, and a failing one can not take
\* down a link that works (dbus_client.py:189).
LoopsWorkOnlyWhileDown ==
    connected => \A t \in Actors : pc[t] \in {"idle", "resub", "serve"}

\* After the first connection, a link that is down has a loop working on it.
\* It holds as long as no client is there to renew a subscription for; see
\* the run that finds it broken otherwise (dbus_client.py:250, :260).
AlwaysRecovering ==
    Serving /\ ~connected => \E t \in Tasks : pc[t] # "idle"

\* One step alone leaves the link down without a loop: the end of a renewal whose
\* subscribeReceive the outage was reported in.  A failing call brings the loop back
\* (dbus_client.py:178-187, :256-261).
OnlyRenewalsStrand ==
    [][/\ AlwaysRecovering /\ ~AlwaysRecovering'
             => \E t \in Tasks : pc[t] = "resub" /\ pc'[t] = "idle"
       /\ ~AlwaysRecovering /\ (\E c \in Calls : CallRaises(c)) => AlwaysRecovering']_vars

\* The bridge holds what it takes to find out that signal-cli has gone.
Evidence ==
    \/ bus \notin alive /\ bus \in watching
    \/ \E i \in 1..Len(notices[bus]) : notices[bus][i] = "vanished"

\* When signal-cli goes away under an established link whose transport is open,
\* that leaves a trace on the current bus, and the trace stays until the link is
\* taken down.  Only a watcher whose wait raises forgets a transport that has died
\* (dbus_client.py:153-171, :222-247).
OutagesAreNoticed ==
    [][connected /\ (Evidence \/ (bus \in alive /\ service /\ ~service'))
          => ~connected' \/ Evidence' \/ WatchDies(bus)]_vars

\* No call, first or second, is ever issued on a bus that has been replaced, also
\* when the bus is replaced between a reply and the handler that awaits it
\* (dispatch.py:97-99, "stale references are never held across a disconnect").
CallsUseCurrentBus ==
    [][\A c \in Calls : stage[c] # "asked" /\ stage'[c] = "asked" => on'[c] = bus]_vars

L == INSTANCE Link

\* Every client present is told of each loss and each recovery of the link,
\* exactly once and in that order, and of nothing else.
LinkSpec == L!Spec

\* The link is up on a bus that is open, or that nobody watches any more.
Linked == connected /\ (bus \in alive \/ bus \notin watching)

\* Once signal-cli is up and exports the account for good, the link comes up,
\* and comes up again whenever a failing call takes it down or a dead transport
\* is reported (dbus_client.py:249-282).
EventuallyConnected ==
    BackoffElapses /\ <>[](service /\ exported) => []<>Linked

\* While the daemon lives and no call fails, a reappearing signal-cli is
\* reconnected to without waiting for a backoff to elapse: no wake-up is lost
\* (dbus_client.py:232-241, :265-268).
PromptReconnect ==
    /\ [](daemon /\ (service => exported) /\ \A c \in Calls : stage[c] = "none")
    /\ <>[]service
    => <>[]connected
---------------------------------------------------------------------------
(* What the documentation says and the code does not do.                   *)

\* README.md: /health says 503 while signal-cli is gone, so a lasting outage is
\* noticed even if no call is made.  It is not if signal-cli vanishes while connect()
\* registers its rules, nor if the daemon exits and the watcher's wait raises.
LastingOutageShows == <>[]~service => <>[]~connected
===========================================================================
