------------------------- MODULE WebSocketSession -------------------------
(***************************************************************************)
(* The WebSocket handler of src/swb/websocket_server.py from connection to *)
(* the finally clause, together with the DBus signal handler of            *)
(* src/swb/signals.py that appends to the event buffer and schedules a     *)
(* send to every client.  An action is the code between two awaits.        *)
(***************************************************************************)
EXTENDS Naturals, Sequences, FiniteSets, SequencesExt

CONSTANTS Clients,      \* the WebSocket connections
          TokenRequired,\* config.token is set
          BufferSize,   \* config.buffer_size; 0 for no event buffer
          MaxEvents,    \* bound: signals that signal-cli emits
          MaxRequests   \* bound: requests a client sends

ASSUME BoundsAssumption ==
    /\ TokenRequired \in BOOLEAN
    /\ {BufferSize, MaxEvents, MaxRequests} \subseteq Nat

VARIABLES
    emitted,            \* signals emitted so far; they are their event_id
    buffer,             \* event_buffer
    clients,            \* connected_clients
    place,              \* where each handler stands
    open,               \* clients that have not hung up, nor been hung up on
    todo,               \* per client, the rest of the snapshot to replay
    queue,              \* per client, live sends scheduled and not yet written
    got,                \* per client, the events written to it and how
    asked, answered,    \* per client, requests sent and replies to them
    since, taken        \* emitted when it was added and at its snapshot

requestVars == <<asked, answered>>
historyVars == <<since, taken>>
vars == <<emitted, buffer, clients, place, open, todo, queue, got,
          requestVars, historyVars>>

Live(e) == <<"live", e>>
Replayed(e) == <<"replayed", e>>

Init ==
    /\ emitted = 0
    /\ buffer = <<>>
    /\ clients = {}
    /\ place = [w \in Clients |-> "away"]
    /\ open = {}
    /\ todo = [w \in Clients |-> <<>>]
    /\ queue = [w \in Clients |-> <<>>]
    /\ got = [w \in Clients |-> <<>>]
    /\ asked = [w \in Clients |-> 0]
    /\ answered = [w \in Clients |-> 0]
    /\ since = [w \in Clients |-> 0]
    /\ taken = [w \in Clients |-> 0]
---------------------------------------------------------------------------
(* Signals and their delivery.                                             *)

\* Mutant: the buffer has no maximal length.
BufferedForever(e) == IF BufferSize = 0 THEN <<>> ELSE Append(buffer, e)

\* deque(maxlen): a full buffer drops its oldest event.
Buffered(e) ==
    IF BufferSize = 0 THEN <<>>
    ELSE Append(IF Len(buffer) = BufferSize THEN Tail(buffer) ELSE buffer, e)

\* Mutants: clients that still wait or replay are passed over; the handler is
\* registered twice.
EmitToReady ==
    /\ emitted < MaxEvents
    /\ emitted' = emitted + 1
    /\ buffer' = Buffered(emitted')
    /\ queue' = [w \in Clients |-> IF w \in clients \cap open /\ place[w] = "loop"
                                   THEN Append(queue[w], emitted') ELSE queue[w]]
    /\ UNCHANGED <<clients, place, open, todo, got, requestVars, historyVars>>
EmitTwice ==
    /\ emitted < MaxEvents
    /\ emitted' = emitted + 1
    /\ buffer' = Buffered(emitted')
    /\ queue' = [w \in Clients |-> IF w \in clients \cap open
                                   THEN queue[w] \o <<emitted', emitted'>> ELSE queue[w]]
    /\ UNCHANGED <<clients, place, open, todo, got, requestVars, historyVars>>

\* handler: buffer the event, then schedule a send to every client.  A send on
\* a closed connection fails and is logged, so none is kept for one.
Emit ==
    /\ emitted < MaxEvents
    /\ emitted' = emitted + 1
    /\ buffer' = Buffered(emitted')
    /\ queue' = [w \in Clients |-> IF w \in clients \cap open
                                   THEN Append(queue[w], emitted') ELSE queue[w]]
    /\ UNCHANGED <<clients, place, open, todo, got, requestVars, historyVars>>

\* A scheduled send runs; the event loop starts tasks in their order.
Deliver(w) ==
    /\ queue[w] # <<>>
    /\ got' = [got EXCEPT ![w] = Append(@, Live(Head(queue[w])))]
    /\ queue' = [queue EXCEPT ![w] = Tail(@)]
    /\ UNCHANGED <<emitted, buffer, clients, place, open, todo, requestVars, historyVars>>
---------------------------------------------------------------------------
(* The handler of one connection.                                          *)

\* The snapshot is taken and its first event written in one step.  Writing to
\* a client that has gone raises out of the handler, past its finally clause.
Replay(w) ==
    /\ taken' = [taken EXCEPT ![w] = emitted]
    /\ IF buffer = <<>>
       THEN place' = [place EXCEPT ![w] = "loop"] /\ UNCHANGED <<todo, got>>
       ELSE IF w \in open
       THEN /\ got' = [got EXCEPT ![w] = Append(@, Replayed(Head(buffer)))]
            /\ todo' = [todo EXCEPT ![w] = Tail(buffer)]
            /\ place' = [place EXCEPT ![w] = IF Len(buffer) = 1 THEN "loop" ELSE "replay"]
       ELSE /\ todo' = [todo EXCEPT ![w] = buffer]
            /\ place' = [place EXCEPT ![w] = "ended"]
            /\ UNCHANGED got

\* The client is added; the first one waits for subscribeReceive.
Enter(w) ==
    /\ clients' = clients \cup {w}
    /\ since' = [since EXCEPT ![w] = emitted]
    /\ IF clients = {}
       THEN place' = [place EXCEPT ![w] = "subscribe"] /\ UNCHANGED <<todo, got, taken>>
       ELSE Replay(w)

Connect(w) ==
    /\ place[w] = "away"
    /\ open' = open \cup {w}
    /\ place' = [place EXCEPT ![w] = "auth"]
    /\ UNCHANGED <<emitted, buffer, clients, todo, queue, got, requestVars, historyVars>>

\* The token is right, or none is asked for.
Authorize(w) ==
    /\ place[w] = "auth"
    /\ TokenRequired => w \in open
    /\ Enter(w)
    /\ UNCHANGED <<emitted, buffer, open, queue, requestVars>>

\* Anything else, and silence for five seconds, closes the connection.
Reject(w) ==
    /\ place[w] = "auth"
    /\ TokenRequired
    /\ open' = open \ {w}
    /\ place' = [place EXCEPT ![w] = "ended"]
    /\ UNCHANGED <<emitted, buffer, clients, todo, queue, got, requestVars, historyVars>>

\* subscribe_receive returns, whatever became of the call.
Subscribed(w) ==
    /\ place[w] = "subscribe"
    /\ Replay(w)
    /\ UNCHANGED <<emitted, buffer, clients, open, queue, requestVars, since>>

\* send_str may wait for the client to drain the connection after each event.
ReplayNext(w) ==
    /\ place[w] = "replay"
    /\ IF w \in open
       THEN /\ got' = [got EXCEPT ![w] = Append(@, Replayed(Head(todo[w])))]
            /\ todo' = [todo EXCEPT ![w] = Tail(@)]
            /\ place' = [place EXCEPT ![w] = IF Len(todo[w]) = 1 THEN "loop" ELSE "replay"]
       ELSE place' = [place EXCEPT ![w] = "ended"] /\ UNCHANGED <<got, todo>>
    /\ UNCHANGED <<emitted, buffer, clients, open, queue, requestVars, historyVars>>
---------------------------------------------------------------------------
(* The receive loop.                                                       *)

\* Mutant: only a regular close discards the client.
ExitKeeping(w) ==
    /\ clients' = IF place[w] = "loop" THEN clients \ {w} ELSE clients
    /\ place' = [place EXCEPT ![w] = IF clients' = {} THEN "unsubscribe" ELSE "ended"]
    /\ open' = IF clients' = {} THEN open ELSE open \ {w}

\* finally: the client is discarded; the last one to go ends the keep-alive.
Exit(w) ==
    /\ clients' = clients \ {w}
    /\ place' = [place EXCEPT ![w] = IF clients' = {} THEN "unsubscribe" ELSE "ended"]
    /\ open' = IF clients' = {} THEN open ELSE open \ {w}

\* A reply is written, or the handler fails because the client has gone.
Answer(w) ==
    IF w \in open
    THEN /\ answered' = [answered EXCEPT ![w] = @ + 1]
         /\ place' = [place EXCEPT ![w] = "loop"]
         /\ UNCHANGED <<clients, open>>
    ELSE Exit(w) /\ UNCHANGED answered

Pending(w) == asked[w] > answered[w]

streamVars == <<emitted, buffer, todo, queue, got, historyVars>>

\* External: the client sends a request.
Ask(w) ==
    /\ w \in open
    /\ asked[w] < MaxRequests
    /\ asked' = [asked EXCEPT ![w] = @ + 1]
    /\ UNCHANGED <<clients, place, open, answered, streamVars>>

\* A request that is no JSON object or names no method is answered at once, and
\* one with params that are no object may end the handler; others are dispatched.
Receive(w) ==
    /\ place[w] = "loop"
    /\ Pending(w)
    /\ \/ Answer(w)
       \/ Exit(w) /\ UNCHANGED answered
       \/ place' = [place EXCEPT ![w] = "call"] /\ UNCHANGED <<clients, open, answered>>
    /\ UNCHANGED <<asked, streamVars>>

\* The call returns, or raises a DBus error or an error of its parameters: all
\* of these are replied to.
CallReturns(w) ==
    /\ place[w] = "call"
    /\ Answer(w)
    /\ UNCHANGED <<asked, streamVars>>

\* The transport fails, CALL_TIMEOUT elapses, or the message cannot be put
\* together: no except clause of the handler catches that.
CallDies(w) ==
    /\ place[w] = "call"
    /\ Exit(w)
    /\ UNCHANGED <<requestVars, streamVars>>

\* External: the client closes its end, or the network does.  What was written
\* to it, or was going to be, is nobody's any more.
HangUp(w) ==
    /\ w \in open
    /\ open' = open \ {w}
    /\ queue' = [queue EXCEPT ![w] = <<>>]
    /\ got' = [got EXCEPT ![w] = <<>>]
    /\ UNCHANGED <<emitted, buffer, clients, place, todo, requestVars, historyVars>>

\* Mutant: the loop reads on after CLOSE.
SeeClosedReadsOn(w) == place[w] = "loop" /\ w \notin open /\ UNCHANGED vars

\* receive() returns CLOSE or CLOSED after the last message.
SeeClosed(w) ==
    /\ place[w] = "loop"
    /\ w \notin open
    /\ ~Pending(w)
    /\ Exit(w)
    /\ UNCHANGED <<requestVars, streamVars>>

\* unsubscribe_receive returns, whatever became of the call.
Unsubscribed(w) ==
    /\ place[w] = "unsubscribe"
    /\ place' = [place EXCEPT ![w] = "ended"]
    /\ open' = open \ {w}
    /\ UNCHANGED <<clients, requestVars, streamVars>>
---------------------------------------------------------------------------
HandlerStep(w) ==
    \/ Authorize(w) \/ Reject(w) \/ Subscribed(w) \/ ReplayNext(w)
    \/ Receive(w) \/ CallReturns(w) \/ CallDies(w) \/ SeeClosed(w) \/ Unsubscribed(w)

Next ==
    \/ Emit
    \/ \E w \in Clients : Connect(w) \/ Ask(w) \/ HangUp(w) \/ Deliver(w) \/ HandlerStep(w)

Spec == Init /\ [][Next]_vars

\* The event loop runs what can go on, and signal-cli answers or the call times
\* out.  Clients and signals come as they like.
FairSpec == Spec /\ \A w \in Clients : WF_vars(HandlerStep(w)) /\ WF_vars(Deliver(w))
---------------------------------------------------------------------------
(* Properties.                                                             *)

Events == 1..MaxEvents

TypeOK ==
    /\ emitted \in 0..MaxEvents
    /\ buffer \in Seq(Events) /\ Len(buffer) <= BufferSize
    /\ clients \subseteq Clients /\ open \subseteq Clients
    /\ place \in [Clients -> {"away", "auth", "subscribe", "replay", "loop", "call",
                              "unsubscribe", "ended"}]
    /\ todo \in [Clients -> Seq(Events)]
    /\ queue \in [Clients -> Seq(Events)]
    /\ got \in [Clients -> Seq({"live", "replayed"} \X Events)]
    /\ asked \in [Clients -> 0..MaxRequests]
    /\ answered \in [Clients -> 0..MaxRequests]
    /\ since \in [Clients -> 0..MaxEvents]
    /\ taken \in [Clients -> 0..MaxEvents]

Served(w) == w \in open /\ place[w] \in {"replay", "loop", "call"}

\* The events that reached a client, or will: written, waiting or scheduled.
Reaching(w) ==
    {got[w][i][2] : i \in 1..Len(got[w])} \cup Range(todo[w]) \cup Range(queue[w])

\* Between replay and live stream no event is lost: what reaches a client is
\* every event from some point on, back to the last BufferSize ones before its
\* snapshot and to the first one after it was added (websocket_server.py:115-126,
\* signals.py:97-103).
NoGap ==
    \A w \in Clients : Served(w) =>
        Reaching(w) = {e \in 1..emitted : e > since[w] \/ e + BufferSize > taken[w]}

Times(w, e) ==
    Cardinality({i \in 1..Len(got[w]) : got[w][i][2] = e})
      + Cardinality({i \in 1..Len(todo[w]) : todo[w][i] = e})
      + Cardinality({i \in 1..Len(queue[w]) : queue[w][i] = e})

\* An event reaches a client at most twice, and twice only if it was emitted
\* while its handler waited for subscribeReceive (websocket_server.py:115-122).
RepeatsOnlyWhileSubscribing ==
    \A w \in Clients, e \in 1..emitted :
        /\ Times(w, e) <= 2
        /\ Times(w, e) = 2 => since[w] < e /\ e <= taken[w]

\* A handler that has ended has left connected_clients, unless its client hung
\* up on an unfinished replay (websocket_server.py:126, :170-175).
EndedIsDiscarded ==
    \A w \in Clients : place[w] = "ended" /\ w \in clients => todo[w] # <<>>

\* The handler of every client that hangs up ends, whatever it was doing.
HandlersEnd ==
    \A w \in Clients : (place[w] # "away" /\ w \notin open) ~> place[w] = "ended"
---------------------------------------------------------------------------
(* What the documentation says and the code does not do.                   *)

\* README.md: the keep-alive subscription is there "while a client is
\* connected": a client whose handler has ended does not count as one.
OnlyConnectedCount == \A w \in clients : place[w] # "ended"

\* METHODS.md: when the bridge loses its connection to signal-cli, "any
\* in-flight call returns an error".
InFlightCallsAnswered ==
    [][\A w \in Clients : place[w] = "call" /\ w \in open /\ place'[w] # "call"
          => answered'[w] # answered[w]]_vars
===========================================================================
