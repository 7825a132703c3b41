----------------------- MODULE WebSocketSessionProofs -----------------------
(***************************************************************************)
(* The safety properties of WebSocketSession, for any number of clients,   *)
(* signals and requests, and a buffer of any size.                         *)
(***************************************************************************)
EXTENDS WebSocketSession, TLAPS

\* The buffer holds the latest events.
BufferIsLatest ==
    /\ Len(buffer) = IF emitted < BufferSize THEN emitted ELSE BufferSize
    /\ \A i \in 1..Len(buffer) : buffer[i] = emitted - Len(buffer) + i

\* What NoGap asks, after n events, to reach a client that was added at s and whose snapshot was
\* taken at t.
Due(n, s, t) == {e \in 1..n : e > s \/ e + BufferSize > t}

\* Where the handler of w stands tells what is known of w.
Ordered(w) ==
    /\ place[w] \in {"away", "auth", "unsubscribe"} => w \notin clients
    /\ place[w] = "away" => w \notin open
    /\ place[w] \in {"away", "auth"} => got[w] = <<>> /\ todo[w] = <<>> /\ queue[w] = <<>>
    /\ place[w] = "subscribe" => todo[w] = <<>>
    /\ place[w] = "replay" => todo[w] # <<>>
    /\ w \in open /\ place[w] \in {"subscribe", "replay", "loop", "call"} => w \in clients
    /\ since[w] <= emitted /\ taken[w] <= emitted
    /\ place[w] = "ended" /\ w \in clients => todo[w] # <<>>

\* No request is answered twice.
Counted(w) ==
    /\ answered[w] <= asked[w]
    /\ place[w] = "call" => answered[w] < asked[w]

\* What reaches a client, before its snapshot and after.
Streamed(w) ==
    /\ w \in open /\ place[w] = "subscribe" => Reaching(w) = {e \in 1..emitted : e > since[w]}
    /\ Served(w) => Reaching(w) = Due(emitted, since[w], taken[w])

SInv ==
    /\ TypeOK
    /\ BufferIsLatest
    /\ \A w \in Clients : Ordered(w) /\ Counted(w) /\ Streamed(w)
---------------------------------------------------------------------------
(* Sequences.                                                              *)

\* The events of a sequence of writes.
Written(g) == {g[i][2] : i \in 1..Len(g)}

\* Append adds an element.
LEMMA RangeAppend ==
  ASSUME NEW S, NEW s \in Seq(S), NEW x \in S
  PROVE  Range(Append(s, x)) = Range(s) \cup {x}
<1>1. /\ Len(s) \in Nat /\ DOMAIN s = 1..Len(s) /\ DOMAIN Append(s, x) = 1..(Len(s) + 1)
      /\ \A i \in 1..Len(s) : Append(s, x)[i] = s[i]
      /\ Append(s, x)[Len(s) + 1] = x
  OBVIOUS
<1>2. 1..(Len(s) + 1) = 1..Len(s) \cup {Len(s) + 1}
  BY <1>1
<1> QED
  BY <1>1, <1>2 DEF Range

\* Tail takes the head away, and nothing else.
LEMMA RangeTail ==
  ASSUME NEW S, NEW s \in Seq(S), s # <<>>
  PROVE  Range(s) = {Head(s)} \cup Range(Tail(s))
<1>1. /\ Len(s) \in Nat \ {0} /\ DOMAIN s = 1..Len(s) /\ Head(s) = s[1]
      /\ DOMAIN Tail(s) = 1..(Len(s) - 1)
      /\ \A i \in 1..(Len(s) - 1) : Tail(s)[i] = s[i + 1]
  OBVIOUS
<1>2. ASSUME NEW x \in Range(s) PROVE x \in {Head(s)} \cup Range(Tail(s))
  <2>1. PICK i \in 1..Len(s) : s[i] = x
    BY <1>1 DEF Range
  <2>2. CASE i = 1
    BY <1>1, <2>1, <2>2
  <2>3. CASE i # 1
    <3>1. i - 1 \in DOMAIN Tail(s) /\ Tail(s)[i - 1] = x
      BY <1>1, <2>1, <2>3
    <3> QED BY <3>1 DEF Range
  <2> QED BY <2>2, <2>3
<1>3. ASSUME NEW x \in {Head(s)} \cup Range(Tail(s)) PROVE x \in Range(s)
  <2>1. CASE x = Head(s)
    BY <1>1, <2>1 DEF Range
  <2>2. CASE x \in Range(Tail(s))
    <3>1. PICK i \in 1..(Len(s) - 1) : Tail(s)[i] = x
      BY <1>1, <2>2 DEF Range
    <3>2. i + 1 \in DOMAIN s /\ s[i + 1] = x
      BY <1>1, <3>1
    <3> QED BY <3>2 DEF Range
  <2> QED BY <1>3, <2>1, <2>2
<1> QED BY <1>2, <1>3

\* Something follows the head of a sequence of more than one element.
LEMMA TailLeft ==
  ASSUME NEW S, NEW s \in Seq(S), s # <<>>, Len(s) # 1
  PROVE  Tail(s) # <<>>
<1>1. Len(s) \in Nat \ {0, 1} /\ Len(Tail(s)) = Len(s) - 1
  OBVIOUS
<1> QED BY <1>1

\* A write adds its event.
LEMMA WrittenAppend ==
  ASSUME NEW S, NEW g \in Seq(S), NEW x \in S
  PROVE  Written(Append(g, x)) = Written(g) \cup {x[2]}
<1>1. /\ Len(g) \in Nat /\ Len(Append(g, x)) = Len(g) + 1
      /\ \A i \in 1..Len(g) : Append(g, x)[i] = g[i]
      /\ Append(g, x)[Len(g) + 1] = x
  OBVIOUS
<1>2. 1..(Len(g) + 1) = 1..Len(g) \cup {Len(g) + 1}
  BY <1>1
<1> QED
  BY <1>1, <1>2 DEF Written

\* Nothing reaches anybody through empty sequences.
LEMMA EmptyReaches == Written(<<>>) = {} /\ Range(<<>>) = {}
BY DEF Written, Range

\* The buffer is all that is due of the past.
LEMMA BufferRange ==
  ASSUME TypeOK, BufferIsLatest
  PROVE  Range(buffer) = {e \in 1..emitted : e + BufferSize > emitted}
<1>1. /\ emitted \in Nat /\ BufferSize \in Nat /\ Len(buffer) \in Nat
      /\ DOMAIN buffer = 1..Len(buffer)
  BY BoundsAssumption DEF TypeOK
<1>2. ASSUME NEW x \in Range(buffer) PROVE x \in 1..emitted /\ x + BufferSize > emitted
  <2>1. PICK i \in 1..Len(buffer) : buffer[i] = x
    BY <1>1 DEF Range
  <2> QED
    BY <1>1, <2>1 DEF BufferIsLatest
<1>3. ASSUME NEW e \in 1..emitted, e + BufferSize > emitted PROVE e \in Range(buffer)
  <2> DEFINE i == e - (emitted - Len(buffer))
  <2>1. i \in 1..Len(buffer) /\ buffer[i] = e
    BY <1>1, <1>3 DEF BufferIsLatest
  <2> QED
    BY <1>1, <2>1 DEF Range
<1> QED BY <1>2, <1>3
---------------------------------------------------------------------------
(* Types and requests.                                                     *)

\* The first state is well typed.
LEMMA TypeInit == ASSUME Init PROVE TypeOK
<1>1. emitted \in 0..MaxEvents /\ clients \subseteq Clients /\ open \subseteq Clients
  BY BoundsAssumption DEF Init
<1>2. buffer \in Seq(Events) /\ Len(buffer) <= BufferSize
  BY BoundsAssumption DEF Init
<1>3. /\ place \in [Clients -> {"away", "auth", "subscribe", "replay", "loop", "call",
                                "unsubscribe", "ended"}]
      /\ todo \in [Clients -> Seq(Events)] /\ queue \in [Clients -> Seq(Events)]
      /\ got \in [Clients -> Seq({"live", "replayed"} \X Events)]
  BY DEF Init
<1>4. /\ asked \in [Clients -> 0..MaxRequests] /\ answered \in [Clients -> 0..MaxRequests]
      /\ since \in [Clients -> 0..MaxEvents] /\ taken \in [Clients -> 0..MaxEvents]
  BY BoundsAssumption DEF Init
<1> QED
  BY <1>1, <1>2, <1>3, <1>4 DEF TypeOK

\* A handler that ends leaves everything well typed.
LEMMA ExitType ==
  ASSUME TypeOK, NEW w \in Clients, Exit(w)
  PROVE  /\ clients' \subseteq Clients /\ open' \subseteq Clients
         /\ place' \in [Clients -> {"away", "auth", "subscribe", "replay", "loop", "call",
                                    "unsubscribe", "ended"}]
BY DEF TypeOK, Exit

\* So does a snapshot, and its first event.
LEMMA ReplayType ==
  ASSUME TypeOK, NEW w \in Clients, Replay(w), place[w] \in {"auth", "subscribe"}
  PROVE  /\ place' \in [Clients -> {"away", "auth", "subscribe", "replay", "loop", "call",
                                    "unsubscribe", "ended"}]
         /\ todo' \in [Clients -> Seq(Events)]
         /\ got' \in [Clients -> Seq({"live", "replayed"} \X Events)]
         /\ taken' \in [Clients -> 0..MaxEvents]
<1>1. taken' \in [Clients -> 0..MaxEvents]
  BY DEF TypeOK, Replay
<1>2. CASE buffer = <<>>
  BY <1>1, <1>2 DEF TypeOK, Replay
<1>3. CASE buffer # <<>>
  <2>1. Head(buffer) \in Events /\ Tail(buffer) \in Seq(Events) /\ buffer \in Seq(Events)
    BY <1>3 DEF TypeOK
  <2>2. Append(got[w], Replayed(Head(buffer))) \in Seq({"live", "replayed"} \X Events)
    BY <2>1 DEF TypeOK, Replayed
  <2>3. CASE w \in open
    <3>1. /\ got' = [got EXCEPT ![w] = Append(got[w], Replayed(Head(buffer)))]
          /\ todo' = [todo EXCEPT ![w] = Tail(buffer)]
          /\ place' = [place EXCEPT ![w] = IF Len(buffer) = 1 THEN "loop" ELSE "replay"]
      BY <1>3, <2>3 DEF Replay
    <3>2. got' \in [Clients -> Seq({"live", "replayed"} \X Events)]
      BY <2>2, <3>1 DEF TypeOK
    <3>3. todo' \in [Clients -> Seq(Events)]
      BY <2>1, <3>1 DEF TypeOK
    <3> QED
      BY <1>1, <3>1, <3>2, <3>3 DEF TypeOK
  <2>4. CASE w \notin open
    BY <1>1, <1>3, <2>1, <2>4 DEF TypeOK, Replay
  <2> QED BY <2>3, <2>4
<1> QED BY <1>2, <1>3

\* The buffer never outgrows its size.
LEMMA BufferedStep ==
  ASSUME TypeOK, BufferIsLatest, Emit
  PROVE  buffer' \in Seq(Events) /\ Len(buffer') <= BufferSize /\ BufferIsLatest'
<1>1. /\ emitted \in Nat /\ emitted' = emitted + 1 /\ emitted' \in Events /\ BufferSize \in Nat
      /\ buffer \in Seq(Events) /\ Len(buffer) \in Nat
  BY BoundsAssumption DEF TypeOK, Emit, Events
<1>2. CASE BufferSize = 0
  <2>1. buffer' = <<>>
    BY <1>2 DEF Emit, Buffered
  <2> QED
    BY <1>1, <1>2, <2>1 DEF BufferIsLatest
<1>3. CASE BufferSize # 0 /\ Len(buffer) # BufferSize
  <2>1. buffer' = Append(buffer, emitted')
    BY <1>3 DEF Emit, Buffered
  <2> QED
    BY <1>1, <1>3, <2>1 DEF BufferIsLatest
<1>4. CASE BufferSize # 0 /\ Len(buffer) = BufferSize
  <2>1. buffer' = Append(Tail(buffer), emitted')
    BY <1>4 DEF Emit, Buffered
  <2>2. /\ Tail(buffer) \in Seq(Events) /\ Len(Tail(buffer)) = Len(buffer) - 1
        /\ \A i \in 1..(Len(buffer) - 1) : Tail(buffer)[i] = buffer[i + 1]
    BY <1>1, <1>4
  <2>3. /\ Len(buffer') = BufferSize /\ buffer' \in Seq(Events)
        /\ buffer'[BufferSize] = emitted'
        /\ \A i \in 1..(BufferSize - 1) : buffer'[i] = buffer[i + 1]
    BY <1>1, <1>4, <2>1, <2>2
  <2>4. emitted >= BufferSize /\ \A i \in 1..BufferSize : buffer[i] = emitted - BufferSize + i
    BY <1>1, <1>4 DEF BufferIsLatest
  <2>5. ASSUME NEW i \in 1..BufferSize PROVE buffer'[i] = emitted' - BufferSize + i
    <3>1. CASE i = BufferSize
      BY <1>1, <2>3, <3>1
    <3>2. CASE i # BufferSize
      <4>1. i \in 1..(BufferSize - 1) /\ i + 1 \in 1..BufferSize
        BY <1>1, <3>2
      <4> QED BY <1>1, <2>3, <2>4, <4>1
    <3> QED BY <3>1, <3>2
  <2> QED
    BY <1>1, <2>3, <2>4, <2>5 DEF BufferIsLatest
<1> QED BY <1>2, <1>3, <1>4

\* What a client, the task that writes to it, or its handler does.
ClientStep(w) == Connect(w) \/ Ask(w) \/ HangUp(w) \/ Deliver(w) \/ HandlerStep(w)

\* Every step keeps the state well typed.
LEMMA TypeStep == ASSUME SInv, [Next]_vars PROVE TypeOK'
<1> USE BoundsAssumption
<1>1. TypeOK /\ \A w \in Clients : Ordered(w) /\ Counted(w)
  BY DEF SInv
<1>2. CASE Emit
  <2>1. buffer' \in Seq(Events) /\ Len(buffer') <= BufferSize
    BY <1>1, <1>2, BufferedStep DEF SInv
  <2>2. emitted' \in 0..MaxEvents /\ emitted' \in Events
    BY <1>1, <1>2 DEF Emit, TypeOK, Events
  <2>3. queue' \in [Clients -> Seq(Events)]
    BY <1>1, <1>2, <2>2 DEF Emit, TypeOK
  <2> QED
    BY <1>1, <1>2, <2>1, <2>2, <2>3 DEF Emit, TypeOK, requestVars, historyVars
<1>3. ASSUME NEW w \in Clients, Connect(w) PROVE TypeOK'
  BY <1>1, <1>3 DEF Connect, TypeOK, requestVars, historyVars
<1>4. ASSUME NEW w \in Clients, Authorize(w) PROVE TypeOK'
  <2>1. clients' \subseteq Clients /\ since' \in [Clients -> 0..MaxEvents]
    BY <1>1, <1>4 DEF Authorize, Enter, TypeOK
  <2>2. CASE clients = {}
    BY <1>1, <1>4, <2>1, <2>2 DEF Authorize, Enter, TypeOK, requestVars
  <2>3. CASE clients # {}
    <3>1. Replay(w) /\ place[w] = "auth"
      BY <1>4, <2>3 DEF Authorize, Enter
    <3> QED
      BY <1>1, <1>4, <2>1, <3>1, ReplayType DEF Authorize, TypeOK, requestVars
  <2> QED BY <2>2, <2>3
<1>5. ASSUME NEW w \in Clients, Reject(w) PROVE TypeOK'
  BY <1>1, <1>5 DEF Reject, TypeOK, requestVars, historyVars
<1>6. ASSUME NEW w \in Clients, Subscribed(w) PROVE TypeOK'
  BY <1>1, <1>6, ReplayType DEF Subscribed, TypeOK, requestVars
<1>7. ASSUME NEW w \in Clients, ReplayNext(w) PROVE TypeOK'
  <2>1. CASE w \in open
    <3>1. Head(todo[w]) \in Events /\ Tail(todo[w]) \in Seq(Events)
      BY <1>1, <1>7 DEF ReplayNext, TypeOK, Ordered
    <3>2. Append(got[w], Replayed(Head(todo[w]))) \in Seq({"live", "replayed"} \X Events)
      BY <1>1, <3>1 DEF TypeOK, Replayed
    <3>3. /\ got' = [got EXCEPT ![w] = Append(got[w], Replayed(Head(todo[w])))]
          /\ todo' = [todo EXCEPT ![w] = Tail(todo[w])]
          /\ place' = [place EXCEPT ![w] = IF Len(todo[w]) = 1 THEN "loop" ELSE "replay"]
      BY <1>7, <2>1 DEF ReplayNext
    <3>4. got' \in [Clients -> Seq({"live", "replayed"} \X Events)]
      BY <1>1, <3>2, <3>3 DEF TypeOK
    <3>5. todo' \in [Clients -> Seq(Events)]
      BY <1>1, <3>1, <3>3 DEF TypeOK
    <3> QED
      BY <1>1, <1>7, <3>3, <3>4, <3>5 DEF ReplayNext, TypeOK, requestVars, historyVars
  <2>2. CASE w \notin open
    BY <1>1, <1>7, <2>2 DEF ReplayNext, TypeOK, requestVars, historyVars
  <2> QED BY <2>1, <2>2
<1>8. ASSUME NEW w \in Clients, Deliver(w) PROVE TypeOK'
  <2>1. Head(queue[w]) \in Events /\ Tail(queue[w]) \in Seq(Events)
    BY <1>1, <1>8 DEF Deliver, TypeOK
  <2>2. Append(got[w], Live(Head(queue[w]))) \in Seq({"live", "replayed"} \X Events)
    BY <1>1, <2>1 DEF TypeOK, Live
  <2>3. got' \in [Clients -> Seq({"live", "replayed"} \X Events)]
    BY <1>1, <1>8, <2>2 DEF Deliver, TypeOK
  <2>4. queue' \in [Clients -> Seq(Events)]
    BY <1>1, <1>8, <2>1 DEF Deliver, TypeOK
  <2> QED
    BY <1>1, <1>8, <2>3, <2>4 DEF Deliver, TypeOK, requestVars, historyVars
<1>9. ASSUME NEW w \in Clients, Ask(w) PROVE TypeOK'
  <2>1. asked[w] + 1 \in 0..MaxRequests
    BY <1>1, <1>9 DEF Ask, TypeOK
  <2>2. asked' \in [Clients -> 0..MaxRequests]
    BY <1>1, <1>9, <2>1 DEF Ask, TypeOK
  <2> QED
    BY <1>1, <1>9, <2>2 DEF Ask, TypeOK, streamVars, historyVars
<1>10. ASSUME NEW w \in Clients, Answer(w), answered[w] < asked[w]
       PROVE  /\ clients' \subseteq Clients /\ open' \subseteq Clients
              /\ place' \in [Clients -> {"away", "auth", "subscribe", "replay", "loop", "call",
                                         "unsubscribe", "ended"}]
              /\ answered' \in [Clients -> 0..MaxRequests]
  <2>1. CASE w \in open
    <3>1. answered[w] + 1 \in 0..MaxRequests
      BY <1>1, <1>10 DEF TypeOK
    <3>2. answered' \in [Clients -> 0..MaxRequests]
      BY <1>1, <1>10, <2>1, <3>1 DEF Answer, TypeOK
    <3> QED
      BY <1>1, <1>10, <2>1, <3>2 DEF Answer, TypeOK
  <2>2. CASE w \notin open
    BY <1>1, <1>10, <2>2, ExitType DEF Answer, TypeOK
  <2> QED BY <2>1, <2>2
<1>11. ASSUME NEW w \in Clients, Receive(w) PROVE TypeOK'
  <2>1. CASE Answer(w)
    BY <1>1, <1>10, <1>11, <2>1 DEF Receive, Pending, TypeOK, streamVars, historyVars
  <2>2. CASE Exit(w) /\ UNCHANGED answered
    BY <1>1, <1>11, <2>2, ExitType DEF Receive, TypeOK, streamVars, historyVars
  <2>3. CASE place' = [place EXCEPT ![w] = "call"] /\ UNCHANGED <<clients, open, answered>>
    BY <1>1, <1>11, <2>3 DEF Receive, TypeOK, streamVars, historyVars
  <2> QED BY <1>11, <2>1, <2>2, <2>3 DEF Receive
<1>12. ASSUME NEW w \in Clients, CallReturns(w) PROVE TypeOK'
  BY <1>1, <1>10, <1>12 DEF CallReturns, Counted, TypeOK, streamVars, historyVars
<1>13. ASSUME NEW w \in Clients, CallDies(w) \/ SeeClosed(w) PROVE TypeOK'
  BY <1>1, <1>13, ExitType DEF CallDies, SeeClosed, TypeOK, streamVars, requestVars, historyVars
<1>14. ASSUME NEW w \in Clients, HangUp(w) PROVE TypeOK'
  <2>1. queue' \in [Clients -> Seq(Events)]
    BY <1>1, <1>14 DEF HangUp, TypeOK
  <2>2. got' \in [Clients -> Seq({"live", "replayed"} \X Events)]
    <3>1. got' = [got EXCEPT ![w] = <<>>] /\ <<>> \in Seq({"live", "replayed"} \X Events)
      BY <1>14 DEF HangUp
    <3> QED
      BY <1>1, <3>1 DEF TypeOK
  <2> QED
    BY <1>1, <1>14, <2>1, <2>2 DEF HangUp, TypeOK, requestVars, historyVars
<1>15. ASSUME NEW w \in Clients, Unsubscribed(w) PROVE TypeOK'
  BY <1>1, <1>15 DEF Unsubscribed, TypeOK, streamVars, requestVars, historyVars
<1>16. CASE UNCHANGED vars
  BY <1>1, <1>16 DEF vars, TypeOK, requestVars, historyVars
<1> QED
  BY <1>2, <1>3, <1>4, <1>5, <1>6, <1>7, <1>8, <1>9, <1>11, <1>12, <1>13, <1>14, <1>15, <1>16
     DEF Next, HandlerStep
---------------------------------------------------------------------------
(* One client at a time.                                                   *)

\* Nothing about v changes.
Untouched(v) ==
    /\ place'[v] = place[v] /\ (v \in clients' <=> v \in clients) /\ (v \in open' <=> v \in open)
    /\ todo'[v] = todo[v] /\ queue'[v] = queue[v] /\ got'[v] = got[v]
    /\ asked'[v] = asked[v] /\ answered'[v] = answered[v]
    /\ since'[v] = since[v] /\ taken'[v] = taken[v]

\* A client's step is nobody else's, and no signal.
LEMMA Elsewhere ==
  ASSUME TypeOK, NEW w \in Clients, ClientStep(w)
  PROVE  emitted' = emitted /\ buffer' = buffer /\ \A v \in Clients \ {w} : Untouched(v)
<1> USE DEF TypeOK, Untouched, requestVars, historyVars, streamVars
<1>1. CASE Connect(w)
  BY <1>1 DEF Connect
<1>2. CASE Ask(w)
  BY <1>2 DEF Ask
<1>3. CASE HangUp(w)
  BY <1>3 DEF HangUp
<1>4. CASE Deliver(w)
  BY <1>4 DEF Deliver
<1>5. CASE Authorize(w)
  <2>1. CASE clients = {}
    BY <1>5, <2>1 DEF Authorize, Enter
  <2>2. CASE clients # {}
    <3>1. Replay(w) /\ clients' = clients \cup {w} /\ since' = [since EXCEPT ![w] = emitted]
          /\ UNCHANGED <<emitted, buffer, open, queue, asked, answered>>
      BY <1>5, <2>2 DEF Authorize, Enter
    <3>2. /\ todo' = todo \/ \E t : todo' = [todo EXCEPT ![w] = t]
          /\ got' = got \/ \E g : got' = [got EXCEPT ![w] = g]
          /\ \E p : place' = [place EXCEPT ![w] = p]
          /\ taken' = [taken EXCEPT ![w] = emitted]
      BY <3>1 DEF Replay
    <3> QED BY <3>1, <3>2
  <2> QED BY <2>1, <2>2
<1>6. CASE Reject(w)
  BY <1>6 DEF Reject
<1>7. CASE Subscribed(w)
  BY <1>7 DEF Subscribed, Replay
<1>8. CASE ReplayNext(w)
  BY <1>8 DEF ReplayNext
<1>9. CASE Receive(w) \/ CallReturns(w) \/ CallDies(w) \/ SeeClosed(w) \/ Unsubscribed(w)
  BY <1>9 DEF Receive, CallReturns, CallDies, SeeClosed, Unsubscribed, Answer, Exit
<1> QED
  BY <1>1, <1>2, <1>3, <1>4, <1>5, <1>6, <1>7, <1>8, <1>9 DEF ClientStep, HandlerStep

\* What is known of a client that nothing happens to stays known.
LEMMA UntouchedKeeps ==
  ASSUME NEW v \in Clients, Untouched(v), emitted' = emitted, Ordered(v), Counted(v), Streamed(v)
  PROVE  Ordered(v)' /\ Counted(v)' /\ Streamed(v)'
<1>1. Reaching(v)' = Reaching(v)
  BY DEF Reaching, Untouched
<1>2. Ordered(v)'
  BY DEF Ordered, Untouched
<1>3. Counted(v)'
  BY DEF Counted, Untouched
<1>4. Streamed(v)'
  BY <1>1 DEF Streamed, Served, Due, Untouched
<1> QED BY <1>2, <1>3, <1>4

\* A handler that leaves the receive loop leaves nothing behind.
LEMMA ExitKeeps ==
  ASSUME TypeOK, NEW w \in Clients, Ordered(w), Exit(w), place[w] \in {"loop", "call"},
         UNCHANGED <<emitted, todo, queue, got, since, taken>>
  PROVE  Ordered(w)' /\ Streamed(w)'
<1>1. /\ w \notin clients' /\ place'[w] \in {"unsubscribe", "ended"}
      /\ todo'[w] = todo[w] /\ queue'[w] = queue[w] /\ got'[w] = got[w]
      /\ since'[w] = since[w] /\ taken'[w] = taken[w] /\ emitted' = emitted
  BY DEF TypeOK, Exit
<1>2. Ordered(w)'
  BY <1>1 DEF Ordered
<1>3. Streamed(w)'
  BY <1>1 DEF Streamed, Served
<1> QED BY <1>2, <1>3

\* The snapshot brings what is due of the past: with the events since the
\* client was added, that is all of it.
LEMMA ReplayKeeps ==
  ASSUME TypeOK, BufferIsLatest, NEW w \in Clients, Replay(w), place[w] \in {"auth", "subscribe"},
         UNCHANGED <<emitted, open, queue>>, todo[w] = <<>>, w \in clients', since'[w] <= emitted,
         since'[w] \in Nat,
         w \in open => Reaching(w) = {e \in 1..emitted : e > since'[w]}
  PROVE  Ordered(w)' /\ Streamed(w)'
<1>1. /\ taken'[w] = emitted /\ emitted' = emitted /\ queue'[w] = queue[w]
      /\ emitted \in Nat /\ BufferSize \in Nat /\ open' = open
  BY BoundsAssumption DEF TypeOK, Replay
<1>2. Range(buffer) = {e \in 1..emitted : e + BufferSize > emitted}
  BY BufferRange
<1>3. w \in open => Reaching(w) \cup Range(buffer) = Due(emitted, since'[w], emitted)
  BY <1>1, <1>2 DEF Due
<1>4. CASE buffer = <<>>
  <2>1. place'[w] = "loop" /\ todo'[w] = todo[w] /\ got'[w] = got[w]
    BY <1>4 DEF TypeOK, Replay
  <2>2. Reaching(w)' = Reaching(w) /\ Range(buffer) = {}
    <3>1. /\ Reaching(w)' = Written(got'[w]) \cup Range(todo'[w]) \cup Range(queue'[w])
          /\ Reaching(w) = Written(got[w]) \cup Range(todo[w]) \cup Range(queue[w])
      BY DEF Reaching, Written
    <3> QED
      BY <1>1, <1>4, <2>1, <3>1, EmptyReaches
  <2>3. Streamed(w)'
    BY <1>1, <1>3, <2>1, <2>2 DEF Streamed, Served, Due
  <2> QED
    BY <1>1, <2>1, <2>3 DEF Ordered
<1>5. CASE buffer # <<>> /\ w \in open
  <2>1. /\ got' = [got EXCEPT ![w] = Append(got[w], Replayed(Head(buffer)))]
        /\ todo' = [todo EXCEPT ![w] = Tail(buffer)]
        /\ place' = [place EXCEPT ![w] = IF Len(buffer) = 1 THEN "loop" ELSE "replay"]
    BY <1>5 DEF Replay
  <2>2. /\ got'[w] = Append(got[w], Replayed(Head(buffer)))
        /\ todo'[w] = Tail(buffer)
        /\ place'[w] = IF Len(buffer) = 1 THEN "loop" ELSE "replay"
    BY <2>1 DEF TypeOK
  <2>3. /\ got[w] \in Seq({"live", "replayed"} \X Events)
        /\ Replayed(Head(buffer)) \in {"live", "replayed"} \X Events
        /\ Replayed(Head(buffer))[2] = Head(buffer)
        /\ Len(buffer) # 1 => Tail(buffer) # <<>>
    <3>1. buffer \in Seq(Events) /\ Head(buffer) \in Events
      BY <1>5 DEF TypeOK
    <3>2. Len(buffer) # 1 => Tail(buffer) # <<>>
      BY <1>5, <3>1, TailLeft
    <3>3. got[w] \in Seq({"live", "replayed"} \X Events)
      BY DEF TypeOK
    <3> QED
      BY <3>1, <3>2, <3>3 DEF Replayed
  <2>4. Written(got'[w]) = Written(got[w]) \cup {Head(buffer)}
    BY <2>2, <2>3, WrittenAppend
  <2>5. Range(buffer) = {Head(buffer)} \cup Range(todo'[w])
    BY <1>5, <2>2, RangeTail DEF TypeOK
  <2>6. /\ Reaching(w)' = Written(got'[w]) \cup Range(todo'[w]) \cup Range(queue'[w])
        /\ Reaching(w) = Written(got[w]) \cup Range(todo[w]) \cup Range(queue[w])
    BY DEF Reaching, Written
  <2>7. Reaching(w)' = Reaching(w) \cup Range(buffer)
    <3>1. Range(todo[w]) = {} /\ queue'[w] = queue[w]
      BY <1>1, EmptyReaches
    <3> QED BY <2>4, <2>5, <2>6, <3>1
  <2>8. Streamed(w)'
    BY <1>1, <1>3, <1>5, <2>2, <2>7 DEF Streamed, Served, Due
  <2> QED
    BY <1>1, <2>2, <2>3, <2>8 DEF Ordered
<1>6. CASE buffer # <<>> /\ w \notin open
  <2>1. place'[w] = "ended" /\ todo'[w] = buffer
    BY <1>6 DEF TypeOK, Replay
  <2> QED
    BY <1>1, <1>6, <2>1 DEF Ordered, Streamed, Served
<1> QED BY <1>4, <1>5, <1>6

\* A signal is due to everybody, and scheduled for everybody it is due to.
LEMMA EmitKeeps ==
  ASSUME SInv, Emit, NEW w \in Clients
  PROVE  Ordered(w)' /\ Counted(w)' /\ Streamed(w)'
<1>1. /\ emitted \in Nat /\ emitted' = emitted + 1 /\ emitted' \in Events
      /\ place' = place /\ clients' = clients /\ open' = open /\ todo' = todo /\ got' = got
      /\ asked' = asked /\ answered' = answered /\ since' = since /\ taken' = taken
      /\ queue'[w] = IF w \in clients /\ w \in open THEN Append(queue[w], emitted + 1) ELSE queue[w]
  BY BoundsAssumption DEF SInv, TypeOK, Emit, Events, requestVars, historyVars
<1>2. /\ Ordered(w) /\ Counted(w) /\ Streamed(w) /\ queue[w] \in Seq(Events)
      /\ since[w] \in Nat /\ taken[w] \in Nat /\ BufferSize \in Nat
  BY BoundsAssumption DEF SInv, TypeOK
<1>3. Ordered(w)'
  <2>1. since'[w] <= emitted' /\ taken'[w] <= emitted'
    BY <1>1, <1>2 DEF Ordered
  <2> QED
    BY <1>1, <1>2, <2>1 DEF Ordered
<1>4. Counted(w)'
  BY <1>1, <1>2 DEF Counted
<1>5. Streamed(w)'
  <2>1. /\ Reaching(w)' = Written(got'[w]) \cup Range(todo'[w]) \cup Range(queue'[w])
        /\ Reaching(w) = Written(got[w]) \cup Range(todo[w]) \cup Range(queue[w])
    BY DEF Reaching, Written
  <2>2. SUFFICES ASSUME w \in open, place[w] \in {"subscribe", "replay", "loop", "call"}
                 PROVE  Streamed(w)'
    BY <1>1 DEF Streamed, Served
  <2>3. queue'[w] = Append(queue[w], emitted + 1)
    BY <1>1, <1>2, <2>2 DEF Ordered
  <2>4. Range(queue'[w]) = Range(queue[w]) \cup {emitted + 1}
    BY <1>1, <1>2, <2>3, RangeAppend
  <2>5. Reaching(w)' = Reaching(w) \cup {emitted + 1}
    BY <1>1, <2>1, <2>4
  <2>6. 1..(emitted + 1) = 1..emitted \cup {emitted + 1} /\ emitted + 1 > since[w]
    BY <1>1, <1>2 DEF Ordered
  <2>7. CASE place[w] = "subscribe"
    <3>1. Reaching(w) = {e \in 1..emitted : e > since[w]}
      BY <1>2, <2>2, <2>7 DEF Streamed
    <3>2. Reaching(w)' = {e \in 1..(emitted + 1) : e > since[w]}
      BY <2>5, <2>6, <3>1
    <3> QED
      BY <1>1, <2>7, <3>2 DEF Streamed, Served
  <2>8. CASE place[w] # "subscribe"
    <3>1. Reaching(w) = Due(emitted, since[w], taken[w])
      BY <1>2, <2>2, <2>8 DEF Streamed, Served
    <3>2. Reaching(w)' = Due(emitted + 1, since[w], taken[w])
      BY <2>5, <2>6, <3>1 DEF Due
    <3> QED
      BY <1>1, <2>8, <3>2 DEF Streamed, Served
  <2> QED BY <2>7, <2>8
<1> QED BY <1>3, <1>4, <1>5

\* A client's own step keeps what is known of it.
LEMMA OwnStep ==
  ASSUME SInv, NEW w \in Clients, ClientStep(w)
  PROVE  Ordered(w)' /\ Counted(w)' /\ Streamed(w)'
<1>1. /\ TypeOK /\ BufferIsLatest /\ Ordered(w) /\ Counted(w) /\ Streamed(w)
      /\ emitted \in Nat /\ since[w] \in Nat /\ taken[w] \in Nat
      /\ asked[w] \in Nat /\ answered[w] \in Nat
  <2>1. TypeOK /\ BufferIsLatest /\ Ordered(w) /\ Counted(w) /\ Streamed(w)
    BY DEF SInv
  <2>2. emitted \in 0..MaxEvents /\ since[w] \in 0..MaxEvents /\ taken[w] \in 0..MaxEvents
    BY <2>1 DEF TypeOK
  <2>3. asked[w] \in 0..MaxRequests /\ answered[w] \in 0..MaxRequests
    BY <2>1 DEF TypeOK
  <2> QED BY <2>1, <2>2, <2>3
<1>2. emitted' = emitted
  BY <1>1, Elsewhere
<1>3. /\ Reaching(w)' = Written(got'[w]) \cup Range(todo'[w]) \cup Range(queue'[w])
      /\ Reaching(w) = Written(got[w]) \cup Range(todo[w]) \cup Range(queue[w])
  BY DEF Reaching, Written
<1>4. CASE Connect(w)
  <2>1. /\ place[w] = "away" /\ place'[w] = "auth" /\ clients' = clients /\ w \in open'
        /\ todo' = todo /\ queue' = queue /\ got' = got /\ since' = since /\ taken' = taken
        /\ asked' = asked /\ answered' = answered
    BY <1>1, <1>4 DEF TypeOK, Connect, requestVars, historyVars
  <2> QED
    BY <1>1, <1>2, <2>1 DEF Ordered, Counted, Streamed, Served
<1>5. CASE Ask(w)
  <2>1. /\ asked'[w] = asked[w] + 1 /\ answered' = answered /\ place' = place /\ clients' = clients
        /\ open' = open /\ todo' = todo /\ queue' = queue /\ got' = got /\ since' = since
        /\ taken' = taken
    BY <1>1, <1>5 DEF TypeOK, Ask, streamVars, historyVars
  <2>2. Reaching(w)' = Reaching(w)
    BY <1>3, <2>1
  <2> QED
    BY <1>1, <1>2, <2>1, <2>2 DEF Ordered, Counted, Streamed, Served, Due
<1>6. CASE HangUp(w)
  <2>1. /\ w \notin open' /\ queue'[w] = <<>> /\ got'[w] = <<>> /\ place' = place
        /\ clients' = clients /\ todo' = todo /\ since' = since /\ taken' = taken
        /\ asked' = asked /\ answered' = answered
    BY <1>1, <1>6 DEF TypeOK, HangUp, requestVars, historyVars
  <2> QED
    BY <1>1, <1>2, <2>1 DEF Ordered, Counted, Streamed, Served
<1>7. CASE Deliver(w)
  <2>1. /\ queue[w] # <<>> /\ queue[w] \in Seq(Events) /\ Head(queue[w]) \in Events
        /\ got[w] \in Seq({"live", "replayed"} \X Events)
    BY <1>1, <1>7 DEF TypeOK, Deliver
  <2>2. /\ got'[w] = Append(got[w], Live(Head(queue[w]))) /\ queue'[w] = Tail(queue[w])
        /\ place' = place /\ clients' = clients /\ open' = open /\ todo' = todo
        /\ since' = since /\ taken' = taken /\ asked' = asked /\ answered' = answered
    BY <1>1, <1>7 DEF TypeOK, Deliver, requestVars, historyVars
  <2>3. Live(Head(queue[w])) \in {"live", "replayed"} \X Events
        /\ Live(Head(queue[w]))[2] = Head(queue[w])
    BY <2>1 DEF Live
  <2>4. Written(got'[w]) = Written(got[w]) \cup {Head(queue[w])}
    BY <2>1, <2>2, <2>3, WrittenAppend
  <2>5. Range(queue[w]) = {Head(queue[w])} \cup Range(queue'[w])
    BY <2>1, <2>2, RangeTail
  <2>6. Reaching(w)' = Reaching(w)
    BY <1>3, <2>2, <2>4, <2>5
  <2> QED
    BY <1>1, <1>2, <2>1, <2>2, <2>6 DEF Ordered, Counted, Streamed, Served, Due
<1>8. CASE Authorize(w)
  <2>1. /\ place[w] = "auth" /\ clients' = clients \cup {w} /\ since'[w] = emitted
        /\ open' = open /\ queue' = queue /\ asked' = asked /\ answered' = answered
    BY <1>1, <1>8 DEF TypeOK, Authorize, Enter, requestVars
  <2>2. got[w] = <<>> /\ todo[w] = <<>> /\ queue[w] = <<>>
    BY <1>1, <2>1 DEF Ordered
  <2>3. Reaching(w) = {}
    BY <1>3, <2>2, EmptyReaches
  <2>4. {e \in 1..emitted : e > emitted} = {}
    BY <1>1
  <2>5. CASE clients = {}
    <3>1. place'[w] = "subscribe" /\ todo' = todo /\ got' = got /\ taken' = taken
      BY <1>1, <1>8, <2>5 DEF TypeOK, Authorize, Enter
    <3>2. Reaching(w)' = {}
      BY <1>3, <2>1, <2>3, <3>1
    <3> QED
      BY <1>1, <1>2, <2>1, <2>2, <2>4, <3>1, <3>2 DEF Ordered, Counted, Streamed, Served
  <2>6. CASE clients # {}
    <3>1. Replay(w) /\ place'[w] \in {"loop", "replay", "ended"}
      BY <1>1, <1>8, <2>6 DEF TypeOK, Authorize, Enter, Replay
    <3>2. Ordered(w)' /\ Streamed(w)'
      BY <1>1, <1>2, <2>1, <2>2, <2>3, <2>4, <3>1, ReplayKeeps
    <3> QED
      BY <1>1, <2>1, <3>1, <3>2 DEF Counted
  <2> QED BY <2>5, <2>6
<1>9. CASE Reject(w)
  <2>1. /\ place[w] = "auth" /\ place'[w] = "ended" /\ w \notin open' /\ clients' = clients
        /\ since' = since /\ taken' = taken /\ asked' = asked /\ answered' = answered
    BY <1>1, <1>9 DEF TypeOK, Reject, requestVars, historyVars
  <2> QED
    BY <1>1, <1>2, <2>1 DEF Ordered, Counted, Streamed, Served
<1>10. CASE Subscribed(w)
  <2>1. /\ place[w] = "subscribe" /\ Replay(w) /\ clients' = clients /\ since' = since
        /\ open' = open /\ queue' = queue /\ asked' = asked /\ answered' = answered
        /\ place'[w] \in {"loop", "replay", "ended"}
    BY <1>1, <1>10 DEF TypeOK, Subscribed, Replay, requestVars
  <2>2. /\ todo[w] = <<>> /\ since[w] <= emitted
        /\ w \in open => w \in clients /\ Reaching(w) = {e \in 1..emitted : e > since[w]}
    BY <1>1, <2>1 DEF Ordered, Streamed
  <2>3. CASE w \in clients
    <3>1. Ordered(w)' /\ Streamed(w)'
      BY <1>1, <1>2, <2>1, <2>2, <2>3, ReplayKeeps
    <3> QED
      BY <1>1, <2>1, <3>1 DEF Counted
  <2>4. CASE w \notin clients
    <3>1. w \notin open'
      BY <2>1, <2>2, <2>4
    <3>2. place'[w] = "replay" => todo'[w] # <<>>
      BY <1>1, <2>1, <3>1 DEF TypeOK, Replay
    <3>3. taken'[w] = emitted
      BY <1>1, <2>1 DEF TypeOK, Replay
    <3> QED
      BY <1>1, <1>2, <2>1, <2>2, <2>4, <3>1, <3>2, <3>3 DEF Ordered, Counted, Streamed, Served
  <2> QED BY <2>3, <2>4
<1>11. CASE ReplayNext(w)
  <2>1. /\ place[w] = "replay" /\ todo[w] # <<>> /\ todo[w] \in Seq(Events)
        /\ Head(todo[w]) \in Events /\ got[w] \in Seq({"live", "replayed"} \X Events)
        /\ clients' = clients /\ open' = open /\ queue' = queue
        /\ since' = since /\ taken' = taken /\ asked' = asked /\ answered' = answered
    BY <1>1, <1>11 DEF TypeOK, Ordered, ReplayNext, requestVars, historyVars
  <2>2. CASE w \in open
    <3>1. /\ got'[w] = Append(got[w], Replayed(Head(todo[w]))) /\ todo'[w] = Tail(todo[w])
          /\ place'[w] = IF Len(todo[w]) = 1 THEN "loop" ELSE "replay"
      BY <1>1, <1>11, <2>2 DEF TypeOK, ReplayNext
    <3>2. Len(todo[w]) # 1 => Tail(todo[w]) # <<>>
      BY <2>1, TailLeft
    <3>3. place'[w] = "replay" => todo'[w] # <<>>
      BY <3>1, <3>2
    <3>4. Replayed(Head(todo[w])) \in {"live", "replayed"} \X Events
          /\ Replayed(Head(todo[w]))[2] = Head(todo[w])
      BY <2>1 DEF Replayed
    <3>5. Written(got'[w]) = Written(got[w]) \cup {Head(todo[w])}
      BY <2>1, <3>1, <3>4, WrittenAppend
    <3>6. Range(todo[w]) = {Head(todo[w])} \cup Range(todo'[w])
      BY <2>1, <3>1, RangeTail
    <3>7. Reaching(w)' = Reaching(w)
      BY <1>3, <2>1, <3>5, <3>6
    <3> QED
      BY <1>1, <1>2, <2>1, <2>2, <3>1, <3>3, <3>7 DEF Ordered, Counted, Streamed, Served, Due
  <2>3. CASE w \notin open
    <3>1. place'[w] = "ended" /\ todo' = todo
      BY <1>1, <1>11, <2>3 DEF TypeOK, ReplayNext
    <3> QED
      BY <1>1, <1>2, <2>1, <2>3, <3>1 DEF Ordered, Counted, Streamed, Served
  <2> QED BY <2>2, <2>3
<1>12. ASSUME Exit(w), place[w] \in {"loop", "call"},
              UNCHANGED <<todo, queue, got, since, taken, asked, answered>>
       PROVE  Ordered(w)' /\ Counted(w)' /\ Streamed(w)'
  <2>1. Ordered(w)' /\ Streamed(w)'
    BY <1>1, <1>2, <1>12, ExitKeeps
  <2>2. place'[w] # "call"
    BY <1>1, <1>12 DEF TypeOK, Exit
  <2> QED
    BY <1>1, <1>12, <2>1, <2>2 DEF Counted
<1>13. ASSUME Answer(w), place[w] \in {"loop", "call"}, answered[w] < asked[w],
              UNCHANGED <<todo, queue, got, since, taken, asked>>
       PROVE  Ordered(w)' /\ Counted(w)' /\ Streamed(w)'
  <2>1. CASE w \in open
    <3>1. /\ answered'[w] = answered[w] + 1 /\ place'[w] = "loop"
          /\ clients' = clients /\ open' = open
      BY <1>1, <1>13, <2>1 DEF TypeOK, Answer
    <3>2. Reaching(w)' = Reaching(w)
      BY <1>3, <1>13
    <3> QED
      BY <1>1, <1>2, <1>13, <2>1, <3>1, <3>2 DEF Ordered, Counted, Streamed, Served, Due
  <2>2. CASE w \notin open
    BY <1>12, <1>13, <2>2 DEF Answer
  <2> QED BY <2>1, <2>2
<1>14. CASE Receive(w)
  <2>1. /\ place[w] = "loop" /\ answered[w] < asked[w]
        /\ UNCHANGED <<todo, queue, got, since, taken, asked>>
    BY <1>1, <1>14 DEF Receive, Pending, streamVars, historyVars
  <2>2. CASE Answer(w)
    BY <1>13, <2>1, <2>2
  <2>3. CASE Exit(w) /\ UNCHANGED answered
    BY <1>12, <2>1, <2>3
  <2>4. CASE place' = [place EXCEPT ![w] = "call"] /\ UNCHANGED <<clients, open, answered>>
    <3>1. place'[w] = "call"
      BY <1>1, <2>4 DEF TypeOK
    <3>2. Reaching(w)' = Reaching(w)
      BY <1>3, <2>1
    <3> QED
      BY <1>1, <1>2, <2>1, <2>4, <3>1, <3>2 DEF Ordered, Counted, Streamed, Served, Due
  <2> QED BY <1>14, <2>2, <2>3, <2>4 DEF Receive
<1>15. CASE CallReturns(w)
  <2>1. /\ place[w] = "call" /\ answered[w] < asked[w] /\ Answer(w)
        /\ UNCHANGED <<todo, queue, got, since, taken, asked>>
    BY <1>1, <1>15 DEF CallReturns, Counted, streamVars, historyVars
  <2> QED BY <1>13, <2>1
<1>16. CASE CallDies(w) \/ SeeClosed(w)
  <2>1. /\ place[w] \in {"loop", "call"} /\ Exit(w)
        /\ UNCHANGED <<todo, queue, got, since, taken, asked, answered>>
    BY <1>16 DEF CallDies, SeeClosed, streamVars, requestVars, historyVars
  <2> QED BY <1>12, <2>1
<1>17. CASE Unsubscribed(w)
  <2>1. /\ place[w] = "unsubscribe" /\ place'[w] = "ended" /\ clients' = clients /\ w \notin open'
        /\ todo' = todo /\ since' = since /\ taken' = taken
        /\ asked' = asked /\ answered' = answered
    BY <1>1, <1>17 DEF TypeOK, Unsubscribed, streamVars, requestVars, historyVars
  <2> QED
    BY <1>1, <1>2, <2>1 DEF Ordered, Counted, Streamed, Served
<1> QED
  BY <1>4, <1>5, <1>6, <1>7, <1>8, <1>9, <1>10, <1>11, <1>14, <1>15, <1>16, <1>17
     DEF ClientStep, HandlerStep
---------------------------------------------------------------------------
(* The invariant.                                                          *)

\* The invariant holds at first, is kept by every step and is enough.
LEMMA Invariance ==
  /\ Init => SInv
  /\ SInv /\ [Next]_vars => SInv'
  /\ SInv => TypeOK /\ NoGap /\ EndedIsDiscarded
<1>1. ASSUME Init PROVE SInv
  <2>1. TypeOK
    BY <1>1, TypeInit
  <2>2. BufferIsLatest
    BY <1>1, BoundsAssumption DEF Init, BufferIsLatest
  <2>3. ASSUME NEW w \in Clients PROVE Ordered(w) /\ Counted(w) /\ Streamed(w)
    BY <1>1 DEF Init, Ordered, Counted, Streamed, Served
  <2> QED BY <2>1, <2>2, <2>3 DEF SInv
<1>2. ASSUME SInv, [Next]_vars PROVE SInv'
  <2>1. TypeOK'
    BY <1>2, TypeStep
  <2>2. CASE Emit
    <3>1. BufferIsLatest'
      BY <1>2, <2>2, BufferedStep DEF SInv
    <3>2. \A w \in Clients : Ordered(w)' /\ Counted(w)' /\ Streamed(w)'
      BY <1>2, <2>2, EmitKeeps
    <3> QED BY <2>1, <3>1, <3>2 DEF SInv
  <2>3. ASSUME NEW w \in Clients, ClientStep(w) PROVE SInv'
    <3>1. emitted' = emitted /\ buffer' = buffer /\ \A v \in Clients \ {w} : Untouched(v)
      BY <1>2, <2>3, Elsewhere DEF SInv
    <3>2. BufferIsLatest'
      BY <1>2, <3>1 DEF SInv, BufferIsLatest
    <3>3. ASSUME NEW v \in Clients PROVE Ordered(v)' /\ Counted(v)' /\ Streamed(v)'
      <4>1. CASE v = w
        BY <1>2, <2>3, <4>1, OwnStep
      <4>2. CASE v # w
        BY <1>2, <3>1, <4>2, UntouchedKeeps DEF SInv
      <4> QED BY <4>1, <4>2
    <3> QED BY <2>1, <3>2, <3>3 DEF SInv
  <2>4. CASE UNCHANGED vars
    <3>1. ASSUME NEW v \in Clients PROVE Ordered(v)' /\ Counted(v)' /\ Streamed(v)'
      <4>1. Untouched(v) /\ emitted' = emitted
        BY <2>4 DEF vars, requestVars, historyVars, Untouched
      <4> QED BY <1>2, <4>1, UntouchedKeeps DEF SInv
    <3>2. BufferIsLatest'
      BY <1>2, <2>4 DEF vars, SInv, BufferIsLatest
    <3> QED BY <2>1, <3>1, <3>2 DEF SInv
  <2> QED BY <1>2, <2>2, <2>3, <2>4 DEF Next, ClientStep
<1>3. ASSUME SInv PROVE TypeOK /\ NoGap /\ EndedIsDiscarded
  BY <1>3 DEF SInv, NoGap, EndedIsDiscarded, Ordered, Streamed, Due
<1> QED BY <1>1, <1>2, <1>3

\* The state of the connections is well typed, and the event buffer never
\* outgrows its size.
THEOREM TypeCorrect == Spec => []TypeOK
BY Invariance, PTL DEF Spec

\* No client misses an event between its replay and its live stream
\* (websocket_server.py:115-126, signals.py:97-103).
THEOREM NothingMissed == Spec => []NoGap
BY Invariance, PTL DEF Spec

\* A handler that has ended has left connected_clients, but for a client that
\* hung up on an unfinished replay (websocket_server.py:126, :170-175).
THEOREM EndedAreDiscarded == Spec => []EndedIsDiscarded
BY Invariance, PTL DEF Spec
===========================================================================
