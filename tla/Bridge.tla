------------------------------- MODULE Bridge -------------------------------
(***************************************************************************)
(* The bridge as one path from signal-cli to the WebSocket clients: the    *)
(* signals read from the adopted DBus bus and its replacement by another   *)
(* (src/swb/dbus_client.py), the calls of the clients and the replies they *)
(* get (src/swb/dispatch.py, src/swb/websocket_server.py), and clients     *)
(* that follow the retry rule of METHODS.md.  The steps of connect() are   *)
(* condensed to those that decide which bus hears what; SignalClient has   *)
(* the others.                                                             *)
(***************************************************************************)
EXTENDS Naturals, Sequences, FiniteSets

CONSTANTS Clients,      \* the WebSocket clients
          MaxEvents,    \* bound: signals that signal-cli emits
          MaxOutages,   \* bound: times that signal-cli stops
          MaxCalls      \* bound: calls made by all clients together

ASSUME BoundsAssumption == {MaxEvents, MaxOutages, MaxCalls} \subseteq Nat

VARIABLES
    service,            \* signal-cli owns its name
    outages,            \* times that it has stopped
    emitted,            \* signals emitted so far; they are their event_id
    bus,                \* how many buses have been adopted; the last is self.bus
    inbox,              \* what self.bus has received and not read
    fresh,              \* what the bus of a running connect() has, likewise
    loop,               \* where the reconnect loop (first, _run's loop) stands
    initial, connected, \* _initial_connect, connected
    place,              \* where each client and its handler stand
    queue,              \* per client, control messages scheduled, not written
    told,               \* per client, the last control message scheduled
    calls,              \* calls made so far
    handled,            \* the signals handled, each with the bus it was read from
    since               \* emitted when self.bus was adopted

serviceVars == <<service, outages, emitted>>
busVars == <<bus, inbox, fresh, since>>
linkVars == <<loop, initial, connected>>
noteVars == <<queue, told>>
vars == <<serviceVars, busVars, linkVars, place, noteVars, calls, handled>>

\* The entry of an inbox that stands for "signal-cli has vanished".
Gone == 0

InCall == {"calling", "doomed", "stale"}

\* connected_clients: a client is added before its handler receives, and
\* discarded when it ends.
Present == {w \in Clients : place[w] # "away"}

Init ==
    /\ service \in BOOLEAN
    /\ outages = 0 /\ emitted = 0 /\ calls = 0
    /\ bus = 0 /\ inbox = <<>> /\ fresh = <<>> /\ since = 0
    /\ loop = "wait" /\ initial = TRUE /\ connected = FALSE
    /\ place = [w \in Clients |-> "away"]
    /\ queue = [w \in Clients |-> <<>>]
    /\ told = [w \in Clients |-> "none"]
    /\ handled = <<>>
---------------------------------------------------------------------------
(* What the bridge does when the link changes.                             *)

\* note is scheduled to every client present.  That goes for those who quit in
\* the same step too, but their handler has ended, and what they are still told
\* is left out.
Broadcast(note, quitting) ==
    /\ queue' = [w \in Clients |-> IF w \in quitting THEN <<>>
                                   ELSE IF w \in Present THEN Append(queue[w], note)
                                   ELSE queue[w]]
    /\ told' = [w \in Clients |-> IF w \in quitting THEN "none"
                                  ELSE IF w \in Present THEN note
                                  ELSE told[w]]

\* Mutant: those who quit are deleted.
SilenceDeleting(quitting) ==
    /\ queue' = [w \in Clients \ quitting |-> queue[w]]
    /\ told' = [w \in Clients |-> IF w \in quitting THEN "none" ELSE told[w]]

Silence(quitting) ==
    /\ queue' = [w \in Clients |-> IF w \in quitting THEN <<>> ELSE queue[w]]
    /\ told' = [w \in Clients |-> IF w \in quitting THEN "none" ELSE told[w]]

\* Mutant: clients are told again of an outage that is known.
OnConnectionLostAgain(quitting) ==
    /\ connected' = FALSE
    /\ loop' = IF loop = "none" THEN "wait" ELSE loop
    /\ Broadcast("Disconnected", quitting)
    /\ UNCHANGED initial

\* _on_connection_lost, in a step in which the handlers of quitting end.
OnConnectionLost(quitting) ==
    /\ connected' = FALSE
    /\ loop' = IF loop = "none" THEN "wait" ELSE loop
    /\ IF connected THEN Broadcast("Disconnected", quitting) ELSE Silence(quitting)
    /\ UNCHANGED initial
---------------------------------------------------------------------------
(* signal-cli and the daemon, which are outside.                           *)

\* A bus hears signals once its first match rule is there (matched), and of
\* owners with the second (ready); an adopted bus has both, and hears on while
\* another is being set up.
Heard(message, places) ==
    /\ inbox' = IF bus > 0 THEN Append(inbox, message) ELSE inbox
    /\ fresh' = IF loop \in places THEN Append(fresh, message) ELSE fresh

Emit ==
    /\ service
    /\ emitted < MaxEvents
    /\ emitted' = emitted + 1
    /\ Heard(emitted', {"matched", "ready"})
    /\ UNCHANGED <<service, outages, bus, since, linkVars, place, noteVars, calls, handled>>

\* The daemon answers the calls that signal-cli leaves behind with an error.
Vanish ==
    /\ service
    /\ outages < MaxOutages
    /\ service' = FALSE
    /\ outages' = outages + 1
    /\ Heard(Gone, {"ready"})
    /\ place' = [w \in Clients |-> IF place[w] = "calling" THEN "doomed" ELSE place[w]]
    /\ UNCHANGED <<emitted, bus, since, linkVars, noteVars, calls, handled>>

Appear ==
    /\ ~service
    /\ service' = TRUE
    /\ UNCHANGED <<outages, emitted, busVars, linkVars, place, noteVars, calls, handled>>
---------------------------------------------------------------------------
(* Messages read from the buses.                                           *)

\* Mutant: signals are ignored while the link is down.
HandleConnected(message) ==
    IF message = Gone
    THEN OnConnectionLost({}) /\ UNCHANGED handled
    ELSE /\ handled' = IF connected THEN Append(handled, <<bus, message>>) ELSE handled
         /\ UNCHANGED <<linkVars, noteVars>>

\* _handle_message: a signal goes to the signal handler; an ownership notice
\* says that signal-cli has gone.
HandleMessage(message) ==
    IF message = Gone
    THEN OnConnectionLost({}) /\ UNCHANGED handled
    ELSE /\ handled' = Append(handled, <<bus, message>>)
         /\ UNCHANGED <<linkVars, noteVars>>

Read ==
    /\ inbox # <<>>
    /\ inbox' = Tail(inbox)
    /\ HandleMessage(Head(inbox))
    /\ UNCHANGED <<serviceVars, bus, fresh, since, place, calls>>

\* The bus of a running connect() has no handler yet.
ReadFresh ==
    /\ fresh # <<>>
    /\ fresh' = Tail(fresh)
    /\ UNCHANGED <<serviceVars, bus, inbox, since, linkVars, place, noteVars, calls, handled>>
---------------------------------------------------------------------------
(* The reconnect loop and connect().                                       *)

loopOthers == <<serviceVars, busVars, initial, connected, place, noteVars, calls, handled>>

\* The backoff elapses, or the appearance of signal-cli wakes the loop.
Attempt == loop = "wait" /\ loop' = "asked" /\ UNCHANGED loopOthers

AttemptFails == loop = "asked" /\ ~service /\ loop' = "wait" /\ UNCHANGED loopOthers

\* signal-cli has answered, and the rule for its signals is registered.
Match == loop = "asked" /\ service /\ loop' = "matched" /\ UNCHANGED loopOthers

MatchOwner == loop = "matched" /\ loop' = "ready" /\ UNCHANGED loopOthers

\* Mutant: the old bus is not disconnected.
AdoptBoth ==
    /\ bus' = bus + 1
    /\ inbox' = inbox \o fresh
    /\ fresh' = <<>>
    /\ since' = emitted
    /\ place' = [w \in Clients |-> IF place[w] \in InCall THEN "stale" ELSE place[w]]
    /\ IF initial THEN UNCHANGED noteVars ELSE Broadcast("Reconnected", {})

\* The new bus gets the handler and the old one is disconnected: what that has
\* not read is gone, and so are the replies to its calls, but for those that
\* were there when their handlers had yet to go on.
Adopt ==
    /\ bus' = bus + 1
    /\ inbox' = fresh
    /\ fresh' = <<>>
    /\ since' = emitted
    /\ place' = [w \in Clients |-> IF place[w] \in InCall THEN "stale" ELSE place[w]]
    /\ IF initial THEN UNCHANGED noteVars ELSE Broadcast("Reconnected", {})

\* With clients present, connect() goes on to wait for subscribeReceive.
Connected ==
    /\ loop = "ready"
    /\ Adopt
    /\ connected' = TRUE
    /\ initial' = FALSE
    /\ loop' = IF Present = {} THEN "none" ELSE "resub"
    /\ UNCHANGED <<serviceVars, calls, handled>>

\* Mutant: connect() tries to subscribe until it succeeds.
ResubscribedInTheEnd == loop = "resub" /\ connected /\ loop' = "none" /\ UNCHANGED loopOthers

\* The loop is done, even if the link has gone down again.
Resubscribed == loop = "resub" /\ loop' = "none" /\ UNCHANGED loopOthers
---------------------------------------------------------------------------
(* Clients.                                                                *)

worldVars == <<serviceVars, busVars, handled>>

Join(w) ==
    /\ ~initial
    /\ place[w] = "away"
    /\ place' = [place EXCEPT ![w] = "idle"]
    /\ UNCHANGED <<worldVars, linkVars, noteVars, calls>>

Leave(w) ==
    /\ place[w] \in {"idle", "waiting"}
    /\ place' = [place EXCEPT ![w] = "away"]
    /\ Silence({w})
    /\ UNCHANGED <<worldVars, linkVars, calls>>

\* A scheduled send runs.  A client that waits to retry goes on when it hears
\* that the link is back.
Deliver(w) ==
    /\ queue[w] # <<>>
    /\ queue' = [queue EXCEPT ![w] = Tail(@)]
    /\ place' = [place EXCEPT ![w] = IF @ = "waiting" /\ Head(queue[w]) = "Reconnected"
                                     THEN "idle" ELSE @]
    /\ UNCHANGED <<worldVars, linkVars, told, calls>>

\* A call goes out on self.bus whether the link is up or down.
Call(w) ==
    /\ place[w] = "idle"
    /\ calls < MaxCalls
    /\ calls' = calls + 1
    /\ place' = [place EXCEPT ![w] = IF service THEN "calling" ELSE "doomed"]
    /\ UNCHANGED <<worldVars, linkVars, noteVars>>

\* Mutant: reconnecting is said of every DBus error.
ErrorReplyAlways(w) == place' = [place EXCEPT ![w] = "waiting"]

\* The reply to a DBusError says reconnecting if the link is down, and then the
\* client waits.
ErrorReply(w) == place' = [place EXCEPT ![w] = IF connected' THEN "idle" ELSE "waiting"]

CallReturns(w) ==
    /\ place[w] \in {"calling", "stale"}
    /\ \/ place' = [place EXCEPT ![w] = "idle"] /\ UNCHANGED <<linkVars, noteVars>>
       \/ UNCHANGED <<linkVars, noteVars>> /\ ErrorReply(w)
    /\ UNCHANGED <<worldVars, calls>>

\* A connection error: signal-cli has gone, or there is no such object, say of
\* an account that it does not serve (UnknownObject).
CallErrs(w) ==
    /\ place[w] \in InCall
    /\ OnConnectionLost({})
    /\ ErrorReply(w)
    /\ UNCHANGED <<worldVars, calls>>

\* The call times out or its transport fails, and the handler ends with it.
CallDies(w) ==
    /\ place[w] \in InCall
    /\ OnConnectionLost({w})
    /\ place' = [place EXCEPT ![w] = "away"]
    /\ UNCHANGED <<worldVars, calls>>
---------------------------------------------------------------------------
BusStep == Read \/ ReadFresh
LoopStep == Attempt \/ AttemptFails \/ Match \/ MatchOwner \/ Connected \/ Resubscribed
ClientStep(w) ==
    Join(w) \/ Leave(w) \/ Deliver(w) \/ Call(w) \/ CallReturns(w) \/ CallErrs(w) \/ CallDies(w)

Next ==
    \/ Emit \/ Vanish \/ Appear
    \/ BusStep \/ LoopStep
    \/ \E w \in Clients : ClientStep(w)

Spec == Init /\ [][Next]_vars

\* signal-cli comes back, and the event loop runs what can go on.  Whether a
\* call returns, fails or dies is open, but it ends (CALL_TIMEOUT).
Fairness ==
    /\ WF_vars(Appear)
    /\ WF_vars(BusStep)
    /\ WF_vars(LoopStep)
    /\ \A w \in Clients : WF_vars(Deliver(w))
    /\ \A w \in Clients : WF_vars(CallReturns(w) \/ CallErrs(w) \/ CallDies(w))

FairSpec == Spec /\ Fairness
---------------------------------------------------------------------------
(* Properties.                                                             *)

Messages == 0..MaxEvents
Notes == {"Disconnected", "Reconnected"}

TypeOK ==
    /\ service \in BOOLEAN /\ initial \in BOOLEAN /\ connected \in BOOLEAN
    /\ outages \in 0..MaxOutages /\ emitted \in 0..MaxEvents /\ calls \in 0..MaxCalls
    /\ bus \in Nat /\ since \in 0..emitted
    /\ inbox \in Seq(Messages) /\ fresh \in Seq(Messages)
    /\ loop \in {"none", "wait", "asked", "matched", "ready", "resub"}
    /\ place \in [Clients -> InCall \cup {"away", "idle", "waiting"}]
    /\ queue \in [Clients -> Seq(Notes)]
    /\ told \in [Clients -> Notes \cup {"none"}]
    /\ handled \in Seq(Nat \X (1..MaxEvents))

\* A client that was told to wait for Reconnected has not missed it: while the
\* link is up, one is on its way to it.  The reply and the broadcast are written
\* by different tasks (websocket_server.py:151-161, dbus_client.py:173-176).
NoStuckWaiter ==
    \A w \in Clients : place[w] = "waiting" /\ connected =>
        \E i \in 1..Len(queue[w]) : queue[w][i] = "Reconnected"

\* No signal is lost on a bus: each one emitted since the bus was adopted has
\* been read from it or waits there, whatever the link went through
\* (dbus_client.py:157-168, :222-228).
StreamIsComplete ==
    bus > 0 => \A e \in since + 1 .. emitted :
        \/ \E i \in 1..Len(handled) : handled[i] = <<bus, e>>
        \/ \E i \in 1..Len(inbox) : inbox[i] = e

\* A signal is handled, and buffered and broadcast under a new event_id, at most
\* twice, the second time by the next bus; and signals are in order on each bus
\* (dbus_client.py:157-168).
RepeatedOnlyByNextBus ==
    \A i, j \in 1..Len(handled) : i < j =>
        /\ handled[i][1] <= handled[j][1]
        /\ handled[i][1] = handled[j][1] => handled[i][2] < handled[j][2]
        /\ handled[i][2] = handled[j][2] => handled[j][1] = handled[i][1] + 1

\* No reconnect loop, and no link (dbus_client.py:178-185, :256).
Stranded == loop = "none" /\ ~connected

\* A client that waits for Reconnected hears it, unless the bridge is stranded.
WaitersGoOn ==
    \A w \in Clients : place[w] = "waiting" ~> (place[w] # "waiting" \/ Stranded)

\* What clients are told about the link is what Link says: the link here is the
\* one of SignalClient, and its clients are those present.
L == INSTANCE Link WITH clients <- Present, seen <- told
LinkSpec == L!Spec
===========================================================================
