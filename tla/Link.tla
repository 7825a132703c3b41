------------------------------- MODULE Link -------------------------------
(***************************************************************************)
(* What SignalClient (src/swb/dbus_client.py) promises the WebSocket       *)
(* clients about its connection to signal-cli, with every DBus detail left *)
(* out: the link is up or down, and every client that is present when it   *)
(* changes is told so, once.  SignalClient.tla and Bridge.tla implement    *)
(* this module.                                                            *)
(***************************************************************************)

CONSTANT Clients        \* the WebSocket clients that may come and go

VARIABLES initial,      \* the bridge has never been connected yet
          connected,    \* the link is up
          clients,      \* the clients now connected to the bridge
          seen          \* the last control message scheduled to each client

linkVars == <<initial, connected, clients, seen>>

Notes == {"none", "Disconnected", "Reconnected"}

\* The control message note goes to every client present, and to no other.
Tell(note) == seen' = [w \in Clients |-> IF w \in clients THEN note ELSE seen[w]]

Init ==
    /\ initial = TRUE
    /\ connected = FALSE
    /\ clients = {}
    /\ seen = [w \in Clients |-> "none"]

\* The first connection of the process: it is announced to nobody.
Establish ==
    /\ initial
    /\ initial' = FALSE
    /\ connected' = TRUE
    /\ UNCHANGED <<clients, seen>>

Drop ==
    /\ connected
    /\ connected' = FALSE
    /\ Tell("Disconnected")
    /\ UNCHANGED <<initial, clients>>

\* The loss is noticed by a call of w, whose handler ends with it; what w is still
\* told is left out.
Abort(w) ==
    /\ connected
    /\ w \in clients
    /\ connected' = FALSE
    /\ clients' = clients \ {w}
    /\ seen' = [v \in Clients |-> IF v = w THEN "none"
                                 ELSE IF v \in clients THEN "Disconnected" ELSE seen[v]]
    /\ UNCHANGED initial

Restore ==
    /\ ~initial
    /\ ~connected
    /\ connected' = TRUE
    /\ Tell("Reconnected")
    /\ UNCHANGED <<initial, clients>>

Join(w) ==
    /\ ~initial
    /\ w \notin clients
    /\ clients' = clients \cup {w}
    /\ UNCHANGED <<initial, connected, seen>>

Leave(w) ==
    /\ w \in clients
    /\ clients' = clients \ {w}
    /\ seen' = [seen EXCEPT ![w] = "none"]
    /\ UNCHANGED <<initial, connected>>

Next ==
    \/ Establish
    \/ Drop
    \/ Restore
    \/ \E w \in Clients : Join(w) \/ Leave(w) \/ Abort(w)

Spec == Init /\ [][Next]_linkVars
===========================================================================
