----------------------------- MODULE KeepAlive -----------------------------
(***************************************************************************)
(* The keep-alive subscription of src/swb: the first WebSocket client      *)
(* subscribes, the last one unsubscribes (websocket_server.py), and        *)
(* connect() subscribes again after an outage if clients are there         *)
(* (dbus_client.py).  The connection is taken as SignalClient leaves it:   *)
(* it drops when an outage is noticed or a call fails, and is made anew on *)
(* another bus once signal-cli has answered, whether it is still there or  *)
(* not.                                                                    *)
(***************************************************************************)
EXTENDS Naturals, Sequences

CONSTANTS Clients,      \* the WebSocket connections
          Loop,         \* the reconnect loop, as a caller of subscribeReceive
          MaxOutages    \* bound: restarts of signal-cli and failures of calls

ASSUME LoopAssumption == Loop \notin Clients /\ MaxOutages \in Nat

VARIABLES
    \* external: signal-cli and the bus
    service,            \* signal-cli runs
    tokens,             \* keep-alive subscriptions it holds
    wire,               \* calls sent and not yet seen by signal-cli, in order
    unread,             \* signal-cli has vanished, which the bridge has not read yet
    gone,               \* it has vanished since it last answered a running connect()
    outages,            \* restarts and failures so far
    \* the bridge
    connected,          \* SignalClient.connected
    clients,            \* connected_clients
    place,              \* where each handler stands, and the reconnect loop
    failed              \* history: the last subscribeReceive has failed

vars == <<service, tokens, wire, unread, gone, outages, connected, clients, place, failed>>

Sub(caller) == [op |-> "subscribe", by |-> caller]
Unsub(caller) == [op |-> "unsubscribe", by |-> caller]

\* Calls nobody has answered: the caller still waits.
Waiting(caller) == \E i \in 1..Len(wire) : wire[i].by = caller

Init ==
    /\ service = TRUE
    /\ tokens = 0
    /\ wire = <<>>
    /\ unread = FALSE /\ gone = FALSE
    /\ outages = 0
    /\ connected = TRUE
    /\ clients = {}
    /\ place = [w \in Clients \cup {Loop} |-> IF w = Loop THEN "idle" ELSE "away"]
    /\ failed = FALSE
---------------------------------------------------------------------------
(* External: signal-cli.                                                   *)

\* A call to nobody fails at once, which is only logged; otherwise it is on its way.
Send(call) == wire' = IF service THEN Append(wire, call) ELSE wire

Subscribe(caller) == Send(Sub(caller)) /\ failed' = ~service

\* signal-cli counts subscriptions, and does not count below zero.
Applied(count, call) ==
    CASE call.op = "subscribe" -> count + 1
      [] call.op = "unsubscribe" /\ count > 0 -> count - 1
      [] OTHER -> count

Handle ==
    /\ wire # <<>>
    /\ tokens' = Applied(tokens, Head(wire))
    /\ wire' = Tail(wire)
    /\ UNCHANGED <<service, unread, gone, outages, connected, clients, place, failed>>

Vanish ==
    /\ service
    /\ outages < MaxOutages
    /\ outages' = outages + 1
    /\ service' = FALSE
    /\ tokens' = 0
    /\ wire' = <<>>
    /\ unread' = TRUE
    /\ gone' = (place[Loop] = "asked")
    /\ UNCHANGED <<connected, clients, place, failed>>

Appear ==
    /\ ~service
    /\ service' = TRUE
    /\ UNCHANGED <<tokens, wire, unread, gone, outages, connected, clients, place, failed>>
---------------------------------------------------------------------------
(* The connection.                                                         *)

\* NameOwnerChanged is read.
Notice ==
    /\ unread
    /\ unread' = FALSE
    /\ connected' = FALSE
    /\ UNCHANGED <<service, tokens, wire, gone, outages, clients, place, failed>>

\* A call of some dispatcher times out: note_error.
CallFails ==
    /\ connected
    /\ outages < MaxOutages
    /\ outages' = outages + 1
    /\ connected' = FALSE
    /\ UNCHANGED <<service, tokens, wire, unread, gone, clients, place, failed>>

\* Mutant: connect() does not subscribe again.
RenewsNever == FALSE

\* With clients there connect() subscribes again.
Renews == clients # {}

\* The calls on a replaced bus are lost or still get through, in order.
InOrder(n) == {pick \in [1..n -> 1..Len(wire)] : \A i \in 2..n : pick[i - 1] < pick[i]}
Through(pick) == [i \in DOMAIN pick |-> wire[pick[i]]]

\* signal-cli answers connect() for the last time; from here on connect() talks to
\* the daemon only.
Ask ==
    /\ ~connected
    /\ service
    /\ place[Loop] = "idle"
    /\ place' = [place EXCEPT ![Loop] = "asked"]
    /\ gone' = FALSE
    /\ UNCHANGED <<service, tokens, wire, unread, outages, connected, clients, failed>>

\* connect() succeeds on a new bus, whichever calls of the old one get through.  If
\* signal-cli has gone meanwhile, the new bus may have heard of it or not, and the
\* renewal goes to whoever is there now.
Reconnect ==
    /\ place[Loop] = "asked"
    /\ connected' = TRUE
    /\ unread' \in IF gone THEN BOOLEAN ELSE {FALSE}
    /\ gone' = FALSE
    /\ \E n \in 0..Len(wire) : \E pick \in InOrder(n) :
         wire' = IF Renews /\ service THEN Append(Through(pick), Sub(Loop)) ELSE Through(pick)
    /\ failed' = IF Renews THEN ~service ELSE failed
    /\ place' = [place EXCEPT ![Loop] = IF Renews THEN "subscribe" ELSE "idle"]
    /\ UNCHANGED <<service, tokens, outages, clients>>

\* Mutant: the loop that has renewed the subscription stays a subscriber.
RenewedServes ==
    /\ place[Loop] = "subscribe"
    /\ ~Waiting(Loop)
    /\ place' = [place EXCEPT ![Loop] = "served"]
    /\ UNCHANGED <<service, tokens, wire, unread, gone, outages, connected, clients, failed>>

\* subscribeReceive returns or fails, and connect() returns.
Renewed ==
    /\ place[Loop] = "subscribe"
    /\ ~Waiting(Loop)
    /\ place' = [place EXCEPT ![Loop] = "idle"]
    /\ UNCHANGED <<service, tokens, wire, unread, gone, outages, connected, clients, failed>>
---------------------------------------------------------------------------
(* The handlers of the WebSocket clients.                                  *)

\* Mutant: every client subscribes.
JoinSubscribing(w) ==
    /\ place[w] = "away"
    /\ clients' = clients \cup {w}
    /\ Subscribe(w)
    /\ place' = [place EXCEPT ![w] = "subscribe"]
    /\ UNCHANGED <<service, tokens, unread, gone, outages, connected>>

\* The first client subscribes before it is served.
Join(w) ==
    /\ place[w] = "away"
    /\ clients' = clients \cup {w}
    /\ IF clients' = {w}
       THEN Subscribe(w) /\ place' = [place EXCEPT ![w] = "subscribe"]
       ELSE UNCHANGED <<wire, failed>> /\ place' = [place EXCEPT ![w] = "served"]
    /\ UNCHANGED <<service, tokens, unread, gone, outages, connected>>

Subscribed(w) ==
    /\ place[w] = "subscribe"
    /\ ~Waiting(w)
    /\ place' = [place EXCEPT ![w] = "served"]
    /\ UNCHANGED <<service, tokens, wire, unread, gone, outages, connected, clients, failed>>

\* Mutant: every client that leaves unsubscribes.
LeaveUnsubscribing(w) ==
    /\ place[w] = "served"
    /\ clients' = clients \ {w}
    /\ Send(Unsub(w))
    /\ place' = [place EXCEPT ![w] = "unsubscribe"]
    /\ UNCHANGED <<service, tokens, unread, gone, outages, connected, failed>>

\* The last client unsubscribes.
Leave(w) ==
    /\ place[w] = "served"
    /\ clients' = clients \ {w}
    /\ IF clients' = {}
       THEN Send(Unsub(w)) /\ place' = [place EXCEPT ![w] = "unsubscribe"]
       ELSE UNCHANGED wire /\ place' = [place EXCEPT ![w] = "away"]
    /\ UNCHANGED <<service, tokens, unread, gone, outages, connected, failed>>

Unsubscribed(w) ==
    /\ place[w] = "unsubscribe"
    /\ ~Waiting(w)
    /\ place' = [place EXCEPT ![w] = "away"]
    /\ UNCHANGED <<service, tokens, wire, unread, gone, outages, connected, clients, failed>>
---------------------------------------------------------------------------
Next ==
    \/ Handle \/ Vanish \/ Appear
    \/ Notice \/ CallFails \/ Ask \/ Reconnect \/ Renewed
    \/ \E w \in Clients : Join(w) \/ Subscribed(w) \/ Leave(w) \/ Unsubscribed(w)

Spec == Init /\ [][Next]_vars
---------------------------------------------------------------------------
(* Properties.                                                             *)

Messages == [op : {"subscribe", "unsubscribe"}, by : Clients \cup {Loop}]

TypeOK ==
    /\ {service, unread, gone, connected, failed} \subseteq BOOLEAN
    /\ tokens \in Nat
    /\ wire \in Seq(Messages)
    /\ outages \in 0..MaxOutages
    /\ clients \subseteq Clients
    /\ DOMAIN place = Clients \cup {Loop}
    /\ place[Loop] \in {"idle", "asked", "subscribe"}
    /\ \A w \in Clients : place[w] \in {"away", "subscribe", "served", "unsubscribe"}

\* The subscriptions signal-cli holds once it has handled every call on its way.
AllApplied(count, calls) ==
    LET after[n \in 0..Len(calls)] ==
            IF n = 0 THEN count ELSE Applied(after[n - 1], calls[n])
    IN  after[Len(calls)]

After == AllApplied(tokens, wire)

\* While the connection never fails there is one subscription if there are
\* clients and none if there are none, however joining and leaving overlap with
\* the calls (websocket_server.py:115-119, :171-175).
OneWhileConnected ==
    outages = 0 => After = IF clients = {} THEN 0 ELSE 1

\* After any history of restarts and reconnections, clients that are served
\* over a working connection are subscribed for or will be, unless the last
\* subscribeReceive has failed, as connect() or the first client found nobody to
\* make it to (dbus_client.py:178-183, :315-322).
NeverUnsubscribed ==
    connected /\ service /\ ~unread /\ ~failed /\ clients # {} => After >= 1

\* An outage leaves at most two subscriptions behind, the one connect() adds to
\* one that still holds and the one whose unsubscription went with the bus
\* (dbus_client.py:178-183): coming and going adds none.
LeakIsBounded ==
    After <= 2 * outages + IF clients = {} THEN 0 ELSE 1
---------------------------------------------------------------------------
(* What the documentation says and the code does not do.                   *)

\* README.md: signal-cli keeps its connection alive only while a client is
\* connected: over a working connection no subscription outlives the clients.
NoneWithoutClients ==
    connected /\ service /\ ~unread /\ clients = {} => After = 0
===========================================================================
