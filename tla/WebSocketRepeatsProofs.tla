----------------------- MODULE WebSocketRepeatsProofs -----------------------
(***************************************************************************)
(* How often an event reaches a client.  Counting is avoided: what is      *)
(* written live and then waits in the queue is in ascending order, and so  *)
(* is what is written by the replay and then is left of the snapshot.      *)
(***************************************************************************)
EXTENDS WebSocketSessionProofs, FiniteSetTheorems

Writes == {"live", "replayed"} \X Events

\* The writes of one kind in g, and then the events of s, ascend from lo to hi.
Ascending(g, kind, s, lo, hi) ==
    /\ \A i, j \in 1..Len(g) : i < j /\ g[i][1] = kind /\ g[j][1] = kind => g[i][2] < g[j][2]
    /\ \A i, j \in 1..Len(s) : i < j => s[i] < s[j]
    /\ \A i \in 1..Len(g), j \in 1..Len(s) : g[i][1] = kind => g[i][2] < s[j]
    /\ \A i \in 1..Len(g) : g[i][1] = kind => lo < g[i][2] /\ g[i][2] <= hi
    /\ \A j \in 1..Len(s) : lo < s[j] /\ s[j] <= hi

NoReplay(g) == \A i \in 1..Len(g) : g[i][1] # "replayed"

\* The live events come after the client was added; those of the snapshot were there.
Repeats(w) ==
    /\ Ascending(got[w], "live", queue[w], since[w], emitted)
    /\ Ascending(got[w], "replayed", todo[w], 0, taken[w])
    /\ place[w] \in {"away", "auth", "subscribe"} => NoReplay(got[w])

RInv == SInv /\ \A w \in Clients : Repeats(w)
---------------------------------------------------------------------------
(* Ascending sequences.                                                    *)

\* The event that is next is written.
LEMMA AscendingMoves ==
  ASSUME NEW g \in Seq(Writes), NEW s \in Seq(Events), NEW kind \in {"live", "replayed"},
         NEW lo, NEW hi, s # <<>>, Ascending(g, kind, s, lo, hi)
  PROVE  Ascending(Append(g, <<kind, Head(s)>>), kind, Tail(s), lo, hi)
<1> DEFINE h == Append(g, <<kind, Head(s)>>)
           t == Tail(s)
<1>1. /\ Len(g) \in Nat /\ Len(h) = Len(g) + 1 /\ \A i \in 1..Len(g) : h[i] = g[i]
      /\ h[Len(g) + 1] = <<kind, s[1]>>
  <2>1. Head(s) = s[1] /\ Head(s) \in Events
    OBVIOUS
  <2>2. <<kind, Head(s)>> \in Writes
    BY <2>1 DEF Writes
  <2> QED BY <2>1, <2>2
<1>2. /\ Len(s) \in Nat /\ Len(s) # 0 /\ Len(t) = Len(s) - 1
      /\ \A j \in 1..(Len(s) - 1) : t[j] = s[j + 1]
  OBVIOUS
<1>3. h[Len(g) + 1][1] = kind /\ h[Len(g) + 1][2] = s[1]
  BY <1>1
<1> HIDE DEF h, t
<1>4. ASSUME NEW i \in 1..Len(h), NEW j \in 1..Len(h), i < j, h[i][1] = kind, h[j][1] = kind
      PROVE  h[i][2] < h[j][2]
  <2>1. CASE j = Len(g) + 1
    <3>1. i \in 1..Len(g) /\ 1 \in 1..Len(s)
      BY <1>1, <1>2, <1>4, <2>1
    <3>2. g[i][2] < s[1]
      BY <1>1, <1>4, <3>1 DEF Ascending
    <3> QED BY <1>1, <1>3, <2>1, <3>1, <3>2
  <2>2. CASE j # Len(g) + 1
    <3>1. i \in 1..Len(g) /\ j \in 1..Len(g)
      BY <1>1, <1>4, <2>2
    <3> QED BY <1>1, <1>4, <3>1 DEF Ascending
  <2> QED BY <2>1, <2>2
<1>5. ASSUME NEW i \in 1..Len(t), NEW j \in 1..Len(t), i < j PROVE t[i] < t[j]
  <2>1. i + 1 \in 1..Len(s) /\ j + 1 \in 1..Len(s) /\ i + 1 < j + 1
    BY <1>2, <1>5
  <2>2. s[i + 1] < s[j + 1]
    BY <2>1 DEF Ascending
  <2> QED BY <1>2, <2>2
<1>6. ASSUME NEW i \in 1..Len(h), NEW j \in 1..Len(t), h[i][1] = kind PROVE h[i][2] < t[j]
  <2>1. j + 1 \in 1..Len(s) /\ 1 \in 1..Len(s) /\ 1 < j + 1 /\ t[j] = s[j + 1]
    BY <1>2
  <2>2. CASE i = Len(g) + 1
    BY <1>3, <2>1, <2>2 DEF Ascending
  <2>3. CASE i # Len(g) + 1
    <3>1. i \in 1..Len(g) /\ h[i] = g[i]
      BY <1>1, <2>3
    <3> QED BY <1>6, <2>1, <3>1 DEF Ascending
  <2> QED BY <2>2, <2>3
<1>7. ASSUME NEW i \in 1..Len(h), h[i][1] = kind PROVE lo < h[i][2] /\ h[i][2] <= hi
  <2>1. CASE i = Len(g) + 1
    BY <1>2, <1>3, <2>1 DEF Ascending
  <2>2. CASE i # Len(g) + 1
    BY <1>1, <1>7, <2>2 DEF Ascending
  <2> QED BY <2>1, <2>2
<1>8. ASSUME NEW j \in 1..Len(t) PROVE lo < t[j] /\ t[j] <= hi
  <2>1. j + 1 \in 1..Len(s) /\ t[j] = s[j + 1]
    BY <1>2
  <2> QED BY <2>1 DEF Ascending
<1> QED BY <1>4, <1>5, <1>6, <1>7, <1>8 DEF Ascending, h, t

\* A write of the other kind does not matter.
LEMMA AscendingOther ==
  ASSUME NEW g \in Seq(Writes), NEW s \in Seq(Events), NEW kind, NEW lo, NEW hi,
         NEW x \in Writes, x[1] # kind, Ascending(g, kind, s, lo, hi)
  PROVE  Ascending(Append(g, x), kind, s, lo, hi)
<1> DEFINE h == Append(g, x)
<1>1. /\ Len(g) \in Nat /\ Len(h) = Len(g) + 1 /\ \A i \in 1..Len(g) : h[i] = g[i]
      /\ h[Len(g) + 1] = x
  OBVIOUS
<1> HIDE DEF h
<1>2. ASSUME NEW i \in 1..Len(h), h[i][1] = kind PROVE i \in 1..Len(g) /\ h[i] = g[i]
  <2>1. i # Len(g) + 1
    BY <1>1, <1>2
  <2> QED BY <1>1, <2>1
<1> QED BY <1>2 DEF Ascending, h

\* A later event comes last.
LEMMA AscendingAppend ==
  ASSUME NEW g, NEW s \in Seq(Events), NEW kind, NEW lo \in Nat, NEW hi \in Nat,
         hi + 1 \in Events, lo <= hi, Ascending(g, kind, s, lo, hi),
         \A i \in 1..Len(g) : g[i][1] = kind => g[i][2] \in Nat
  PROVE  Ascending(g, kind, Append(s, hi + 1), lo, hi + 1)
<1> DEFINE t == Append(s, hi + 1)
<1>1. /\ Len(s) \in Nat /\ Len(t) = Len(s) + 1 /\ \A j \in 1..Len(s) : t[j] = s[j] /\ s[j] \in Nat
      /\ t[Len(s) + 1] = hi + 1
  <2>1. /\ Len(s) \in Nat /\ Len(t) = Len(s) + 1 /\ \A j \in 1..Len(s) : t[j] = s[j] /\ s[j] \in Events
        /\ t[Len(s) + 1] = hi + 1
    OBVIOUS
  <2>2. Events \subseteq Nat
    BY DEF Events
  <2> QED BY <2>1, <2>2
<1> HIDE DEF t
<1>2. ASSUME NEW i \in 1..Len(t), NEW j \in 1..Len(t), i < j PROVE t[i] < t[j]
  <2>1. i \in 1..Len(s) /\ (j \in 1..Len(s) \/ j = Len(s) + 1)
    BY <1>1, <1>2
  <2> QED BY <1>1, <1>2, <2>1 DEF Ascending
<1>3. ASSUME NEW j \in 1..Len(t) PROVE lo < t[j] /\ t[j] <= hi + 1
  <2>1. j \in 1..Len(s) \/ j = Len(s) + 1
    BY <1>1
  <2> QED BY <1>1, <2>1 DEF Ascending
<1>4. ASSUME NEW i \in 1..Len(g), g[i][1] = kind
      PROVE  lo < g[i][2] /\ g[i][2] <= hi + 1 /\ g[i][2] < hi + 1
  BY <1>4 DEF Ascending
<1>5. ASSUME NEW i \in 1..Len(g), NEW j \in 1..Len(t), g[i][1] = kind PROVE g[i][2] < t[j]
  <2>1. j \in 1..Len(s) \/ j = Len(s) + 1
    BY <1>1
  <2> QED BY <1>1, <1>4, <1>5, <2>1 DEF Ascending
<1> QED BY <1>2, <1>3, <1>4, <1>5 DEF Ascending, t

\* The upper bound may be higher.
LEMMA AscendingWider ==
  ASSUME NEW g, NEW s \in Seq(Events), NEW kind, NEW lo \in Nat, NEW hi \in Nat,
         Ascending(g, kind, s, lo, hi),
         \A i \in 1..Len(g) : g[i][1] = kind => g[i][2] \in Nat
  PROVE  Ascending(g, kind, s, lo, hi + 1)
<1>1. ASSUME NEW i \in 1..Len(g), g[i][1] = kind PROVE lo < g[i][2] /\ g[i][2] <= hi + 1
  <2>1. g[i][2] \in Nat /\ lo < g[i][2] /\ g[i][2] <= hi
    BY <1>1 DEF Ascending
  <2> QED BY <2>1
<1>2. ASSUME NEW j \in 1..Len(s) PROVE lo < s[j] /\ s[j] <= hi + 1
  <2>1. s[j] \in Events
    OBVIOUS
  <2>2. s[j] \in Nat /\ lo < s[j] /\ s[j] <= hi
    BY <2>1 DEF Ascending, Events
  <2> QED BY <2>2
<1> QED BY <1>1, <1>2 DEF Ascending

\* A set whose elements are all the same has at most one.
LEMMA OneOrNone ==
  ASSUME NEW S, \A x, y \in S : x = y
  PROVE  IsFiniteSet(S) /\ (S = {} \/ Cardinality(S) = 1) /\ Cardinality(S) \in Nat
<1>1. CASE S = {}
  BY <1>1, FS_EmptySet
<1>2. CASE S # {}
  <2>1. PICK x \in S : S = {x}
    BY <1>2
  <2>2. IsFiniteSet({x}) /\ Cardinality({x}) = 1
    BY FS_Singleton
  <2> QED BY <2>1, <2>2
<1> QED BY <1>1, <1>2

\* Where e was written as a write of that kind, and where it is ahead.
Done(g, kind, e) == {i \in 1..Len(g) : g[i][1] = kind /\ g[i][2] = e}
Ahead(s, e) == {j \in 1..Len(s) : s[j] = e}

\* An event is once in an ascending sequence, if at all, and within its bounds.
LEMMA AtMostOnce ==
  ASSUME NEW g \in Seq(Writes), NEW s \in Seq(Events), NEW kind, NEW lo, NEW hi,
         NEW e \in Nat, Ascending(g, kind, s, lo, hi)
  PROVE  /\ IsFiniteSet(Done(g, kind, e)) /\ IsFiniteSet(Ahead(s, e))
         /\ Cardinality(Done(g, kind, e)) \in Nat /\ Cardinality(Ahead(s, e)) \in Nat
         /\ Cardinality(Done(g, kind, e)) + Cardinality(Ahead(s, e)) <= 1
         /\ Cardinality(Done(g, kind, e)) + Cardinality(Ahead(s, e)) = 1 => lo < e /\ e <= hi
<1> DEFINE K == Done(g, kind, e)
           S == Ahead(s, e)
<1> USE DEF Done, Ahead
<1>1. ASSUME NEW i \in K, NEW j \in K PROVE i = j
  <2>1. /\ i \in 1..Len(g) /\ j \in 1..Len(g) /\ g[i][1] = kind /\ g[j][1] = kind
        /\ g[i][2] = e /\ g[j][2] = e /\ Len(g) \in Nat
    OBVIOUS
  <2>2. ~ (i < j) /\ ~ (j < i)
    BY <2>1 DEF Ascending
  <2> QED BY <2>1, <2>2
<1>2. ASSUME NEW i \in S, NEW j \in S PROVE i = j
  <2>1. i \in 1..Len(s) /\ j \in 1..Len(s) /\ s[i] = e /\ s[j] = e /\ Len(s) \in Nat
    OBVIOUS
  <2>2. ~ (i < j) /\ ~ (j < i)
    BY <2>1 DEF Ascending
  <2> QED BY <2>1, <2>2
<1>3. ASSUME NEW i \in K, NEW j \in S PROVE FALSE
  <2>1. i \in 1..Len(g) /\ g[i][1] = kind /\ g[i][2] = e /\ j \in 1..Len(s) /\ s[j] = e
    OBVIOUS
  <2>2. g[i][2] < s[j]
    BY <2>1 DEF Ascending
  <2> QED BY <2>1, <2>2
<1>4. ASSUME NEW i, i \in K \/ i \in S PROVE lo < e /\ e <= hi
  <2>1. CASE i \in K
    BY <2>1 DEF Ascending
  <2>2. CASE i \in S
    BY <2>2 DEF Ascending
  <2> QED BY <1>4, <2>1, <2>2
<1> HIDE DEF K, S, Done, Ahead
<1>5. IsFiniteSet(K) /\ (K = {} \/ Cardinality(K) = 1) /\ Cardinality(K) \in Nat
  BY <1>1, OneOrNone
<1>6. IsFiniteSet(S) /\ (S = {} \/ Cardinality(S) = 1) /\ Cardinality(S) \in Nat
  BY <1>2, OneOrNone
<1>7. Cardinality({}) = 0
  BY FS_EmptySet
<1>8. K = {} \/ S = {}
  BY <1>3
<1>9. Cardinality(K) + Cardinality(S) <= 1
  <2>1. CASE K = {}
    <3>1. Cardinality(K) = 0
      BY <1>7, <2>1
    <3>2. Cardinality(S) = 0 \/ Cardinality(S) = 1
      BY <1>6, <1>7
    <3> QED BY <3>1, <3>2
  <2>2. CASE S = {}
    <3>1. Cardinality(S) = 0
      BY <1>7, <2>2
    <3>2. Cardinality(K) = 0 \/ Cardinality(K) = 1
      BY <1>5, <1>7
    <3> QED BY <3>1, <3>2
  <2> QED BY <1>8, <2>1, <2>2
<1>10. Cardinality(K) + Cardinality(S) = 1 => lo < e /\ e <= hi
  <2>1. SUFFICES ASSUME Cardinality(K) + Cardinality(S) = 1 PROVE \E i : i \in K \/ i \in S
    BY <1>4
  <2>2. K # {} \/ S # {}
    <3>1. SUFFICES ASSUME K = {}, S = {} PROVE FALSE
      OBVIOUS
    <3>2. Cardinality(K) = 0 /\ Cardinality(S) = 0
      BY <1>7, <3>1
    <3> QED BY <2>1, <3>2
  <2> QED BY <2>2
<1> QED BY <1>5, <1>6, <1>9, <1>10 DEF K, S
---------------------------------------------------------------------------
(* The steps.                                                              *)

\* The buffer ascends.
LEMMA BufferAscends ==
  ASSUME TypeOK, BufferIsLatest
  PROVE  /\ \A i, j \in 1..Len(buffer) : i < j => buffer[i] < buffer[j]
         /\ \A j \in 1..Len(buffer) : 0 < buffer[j] /\ buffer[j] <= emitted
<1>1. /\ emitted \in Nat /\ BufferSize \in Nat /\ Len(buffer) \in Nat /\ Len(buffer) <= emitted
  <2>1. emitted \in Nat /\ BufferSize \in Nat /\ Len(buffer) \in Nat
    BY BoundsAssumption DEF TypeOK
  <2> QED BY <2>1 DEF BufferIsLatest
<1>2. \A i \in 1..Len(buffer) : buffer[i] = emitted - Len(buffer) + i
  BY DEF BufferIsLatest
<1> QED BY <1>1, <1>2

\* Nothing was replayed before the snapshot.
LEMMA SnapshotAscends ==
  ASSUME TypeOK, BufferIsLatest, NEW g \in Seq(Writes), NoReplay(g)
  PROVE  Ascending(g, "replayed", buffer, 0, emitted)
BY BufferAscends DEF Ascending, NoReplay

\* The snapshot, and its first event if the client is there.
LEMMA ReplayAscends ==
  ASSUME TypeOK, BufferIsLatest, NEW w \in Clients, Replay(w), place[w] \in {"auth", "subscribe"},
         todo[w] = <<>>, NoReplay(got[w]), NEW lo, Ascending(got[w], "live", queue[w], lo, emitted)
  PROVE  /\ Ascending(got'[w], "live", queue[w], lo, emitted)
         /\ Ascending(got'[w], "replayed", todo'[w], 0, taken'[w])
<1>1. taken'[w] = emitted
  BY DEF TypeOK, Replay
<1>2. /\ got[w] \in Seq(Writes) /\ queue[w] \in Seq(Events) /\ buffer \in Seq(Events)
      /\ got \in [Clients -> Seq(Writes)] /\ todo \in [Clients -> Seq(Events)]
  BY DEF TypeOK, Writes
<1>3. Ascending(got[w], "replayed", buffer, 0, emitted)
  BY <1>2, SnapshotAscends
<1>4. CASE buffer = <<>>
  <2>1. got' = got /\ todo'[w] = buffer
    BY <1>4 DEF Replay
  <2> QED BY <1>1, <1>3, <2>1
<1>5. CASE buffer # <<>> /\ w \in open
  <2>1. got'[w] = Append(got[w], <<"replayed", Head(buffer)>>) /\ todo'[w] = Tail(buffer)
    BY <1>2, <1>5 DEF Replay, Replayed
  <2>2. Ascending(got'[w], "replayed", todo'[w], 0, emitted)
    BY <1>2, <1>3, <1>5, <2>1, AscendingMoves
  <2>3. <<"replayed", Head(buffer)>> \in Writes /\ <<"replayed", Head(buffer)>>[1] # "live"
    BY <1>2, <1>5 DEF Writes
  <2>4. Ascending(got'[w], "live", queue[w], lo, emitted)
    BY <1>2, <2>1, <2>3, AscendingOther
  <2> QED BY <1>1, <2>2, <2>4
<1>6. CASE buffer # <<>> /\ w \notin open
  <2>1. got' = got /\ todo'[w] = buffer
    BY <1>2, <1>6 DEF Replay
  <2> QED BY <1>1, <1>3, <2>1
<1> QED BY <1>4, <1>5, <1>6

\* A signal is later than all before.
LEMMA EmitRepeats ==
  ASSUME RInv, Emit, NEW w \in Clients
  PROVE  Repeats(w)'
<1>1. TypeOK /\ Ordered(w) /\ Repeats(w)
  BY DEF RInv, SInv
<1>2. /\ emitted \in Nat /\ since[w] \in Nat /\ emitted' = emitted + 1 /\ emitted + 1 \in Events
      /\ since[w] <= emitted /\ queue[w] \in Seq(Events) /\ got[w] \in Seq(Writes)
  <2>1. emitted \in Nat /\ emitted' = emitted + 1 /\ emitted + 1 \in Events
    BY <1>1, BoundsAssumption DEF TypeOK, Emit, Events
  <2>2. since[w] \in Nat /\ queue[w] \in Seq(Events) /\ got[w] \in Seq(Writes)
    BY <1>1, BoundsAssumption DEF TypeOK, Writes
  <2> QED BY <1>1, <2>1, <2>2 DEF Ordered
<1>3. UNCHANGED <<place, todo, got, since, taken>>
  BY DEF Emit, historyVars
<1>4. \A i \in 1..Len(got[w]) : got[w][i][2] \in Nat
  <2>1. \A i \in 1..Len(got[w]) : got[w][i] \in Writes
    BY <1>2
  <2>2. \A x \in Writes : x[2] \in Nat
    BY DEF Writes, Events
  <2> QED BY <2>1, <2>2
<1>5. Ascending(got[w], "live", queue[w], since[w], emitted)
  BY <1>1 DEF Repeats
<1>6. Ascending(got'[w], "live", queue'[w], since'[w], emitted')
  <2>1. CASE w \in clients \cap open
    <3>1. queue'[w] = Append(queue[w], emitted + 1)
      BY <1>2, <2>1 DEF Emit
    <3> QED BY <1>2, <1>3, <1>4, <1>5, <3>1, AscendingAppend
  <2>2. CASE w \notin clients \cap open
    <3>1. queue'[w] = queue[w]
      BY <2>2 DEF Emit
    <3>2. Ascending(got[w], "live", queue[w], since[w], emitted + 1)
      BY <1>2, <1>4, <1>5, AscendingWider
    <3> QED BY <1>2, <1>3, <3>1, <3>2
  <2> QED BY <2>1, <2>2
<1> QED BY <1>1, <1>3, <1>6 DEF Repeats

\* A client's own step keeps the order.
LEMMA OwnRepeats ==
  ASSUME RInv, NEW w \in Clients, ClientStep(w)
  PROVE  Repeats(w)'
<1>1. TypeOK /\ BufferIsLatest /\ Ordered(w) /\ Repeats(w) /\ emitted' = emitted
  BY Elsewhere DEF RInv, SInv
<1>2. /\ got[w] \in Seq(Writes) /\ queue[w] \in Seq(Events) /\ todo[w] \in Seq(Events)
      /\ got \in [Clients -> Seq(Writes)] /\ w \in DOMAIN place
  BY <1>1 DEF TypeOK, Writes
<1>3. /\ Ascending(got[w], "live", queue[w], since[w], emitted)
      /\ Ascending(got[w], "replayed", todo[w], 0, taken[w])
      /\ place[w] \in {"away", "auth", "subscribe"} => NoReplay(got[w])
  BY <1>1 DEF Repeats
<1>4. ASSUME UNCHANGED <<got, queue, todo, since, taken>>,
             place'[w] \in {"away", "auth", "subscribe"} => place[w] \in {"away", "auth", "subscribe"}
      PROVE  Repeats(w)'
  BY <1>1, <1>3, <1>4 DEF Repeats
<1>5. CASE Connect(w) \/ Ask(w) \/ Reject(w)
  BY <1>1, <1>4, <1>5 DEF TypeOK, Connect, Ask, Reject, historyVars, streamVars
<1>6. CASE Receive(w) \/ CallReturns(w) \/ CallDies(w) \/ SeeClosed(w) \/ Unsubscribed(w)
  <2>1. UNCHANGED <<got, queue, todo, since, taken>>
    BY <1>6 DEF Receive, CallReturns, CallDies, SeeClosed, Unsubscribed, streamVars, historyVars
  <2>2. place'[w] \notin {"away", "auth", "subscribe"}
    BY <1>1, <1>2, <1>6
       DEF TypeOK, Receive, CallReturns, CallDies, SeeClosed, Unsubscribed, Answer, Exit
  <2> QED BY <1>4, <2>1, <2>2
<1>7. CASE HangUp(w)
  <2>1. /\ got'[w] = <<>> /\ queue'[w] = <<>> /\ UNCHANGED <<todo, place, since, taken>>
    BY <1>1, <1>7 DEF TypeOK, HangUp, historyVars
  <2>2. Len(<<>>) = 0
    OBVIOUS
  <2>3. Ascending(<<>>, "live", <<>>, since[w], emitted) /\ NoReplay(<<>>)
    BY <2>2 DEF Ascending, NoReplay
  <2>4. Ascending(<<>>, "replayed", todo[w], 0, taken[w])
    BY <1>3, <2>2 DEF Ascending
  <2> QED BY <1>1, <2>1, <2>3, <2>4 DEF Repeats
<1>8. CASE Deliver(w)
  <2>1. /\ queue[w] # <<>> /\ got'[w] = Append(got[w], <<"live", Head(queue[w])>>)
        /\ queue'[w] = Tail(queue[w]) /\ UNCHANGED <<todo, place, since, taken>>
    BY <1>1, <1>8 DEF TypeOK, Deliver, Live, historyVars
  <2>2. Ascending(got'[w], "live", queue'[w], since[w], emitted)
    BY <1>2, <1>3, <2>1, AscendingMoves
  <2>3. <<"live", Head(queue[w])>> \in Writes /\ <<"live", Head(queue[w])>>[1] = "live"
    BY <1>2, <2>1 DEF Writes
  <2>4. Ascending(got'[w], "replayed", todo[w], 0, taken[w])
    BY <1>2, <1>3, <2>1, <2>3, AscendingOther
  <2>5. NoReplay(got[w]) => NoReplay(got'[w])
    <3>1. SUFFICES ASSUME NoReplay(got[w]), NEW i \in 1..Len(got'[w]) PROVE got'[w][i][1] # "replayed"
      BY DEF NoReplay
    <3>2. CASE i = Len(got[w]) + 1
      BY <1>2, <2>1, <2>3, <3>2
    <3>3. CASE i # Len(got[w]) + 1
      BY <1>2, <2>1, <2>3, <3>1, <3>3 DEF NoReplay
    <3> QED BY <3>2, <3>3
  <2> QED BY <1>1, <1>3, <2>1, <2>2, <2>4, <2>5 DEF Repeats
<1>9. CASE Authorize(w)
  <2>1. /\ place[w] = "auth" /\ since'[w] = emitted /\ queue' = queue
        /\ got[w] = <<>> /\ todo[w] = <<>> /\ queue[w] = <<>>
    BY <1>1, <1>9 DEF TypeOK, Authorize, Enter, Ordered
  <2>2. Len(<<>>) = 0
    OBVIOUS
  <2>3. Ascending(got[w], "live", queue[w], emitted, emitted) /\ NoReplay(got[w])
    BY <2>1, <2>2 DEF Ascending, NoReplay
  <2>4. CASE clients = {}
    <3>1. UNCHANGED <<todo, got, taken>>
      BY <1>9, <2>4 DEF Authorize, Enter
    <3> QED BY <1>1, <1>3, <2>1, <2>3, <3>1 DEF Repeats
  <2>5. CASE clients # {}
    <3>1. Replay(w)
      BY <1>9, <2>5 DEF Authorize, Enter
    <3>2. place'[w] \notin {"away", "auth", "subscribe"}
      BY <1>1, <3>1 DEF TypeOK, Replay
    <3>3. /\ Ascending(got'[w], "live", queue[w], emitted, emitted)
          /\ Ascending(got'[w], "replayed", todo'[w], 0, taken'[w])
      BY <1>1, <2>1, <2>3, <3>1, ReplayAscends
    <3> QED BY <1>1, <2>1, <3>2, <3>3 DEF Repeats
  <2> QED BY <2>4, <2>5
<1>10. CASE Subscribed(w)
  <2>1. Replay(w) /\ place[w] = "subscribe" /\ UNCHANGED <<queue, since>> /\ todo[w] = <<>>
    BY <1>1, <1>10 DEF Subscribed, Ordered
  <2>2. place'[w] \notin {"away", "auth", "subscribe"}
    BY <1>1, <2>1 DEF TypeOK, Replay
  <2>3. /\ Ascending(got'[w], "live", queue[w], since[w], emitted)
        /\ Ascending(got'[w], "replayed", todo'[w], 0, taken'[w])
    BY <1>1, <1>3, <2>1, ReplayAscends
  <2> QED BY <1>1, <2>1, <2>2, <2>3 DEF Repeats
<1>11. CASE ReplayNext(w)
  <2>1. place[w] = "replay" /\ todo[w] # <<>> /\ UNCHANGED <<queue, since, taken>>
    BY <1>1, <1>11 DEF ReplayNext, Ordered, historyVars
  <2>2. place'[w] \notin {"away", "auth", "subscribe"}
    BY <1>1, <1>11 DEF TypeOK, ReplayNext
  <2>3. CASE w \in open
    <3>1. got'[w] = Append(got[w], <<"replayed", Head(todo[w])>>) /\ todo'[w] = Tail(todo[w])
      BY <1>1, <1>11, <2>3 DEF TypeOK, ReplayNext, Replayed
    <3>2. Ascending(got'[w], "replayed", todo'[w], 0, taken[w])
      BY <1>2, <1>3, <2>1, <3>1, AscendingMoves
    <3>3. <<"replayed", Head(todo[w])>> \in Writes /\ <<"replayed", Head(todo[w])>>[1] # "live"
      BY <1>2, <2>1 DEF Writes
    <3>4. Ascending(got'[w], "live", queue[w], since[w], emitted)
      BY <1>2, <1>3, <3>1, <3>3, AscendingOther
    <3> QED BY <1>1, <2>1, <2>2, <3>2, <3>4 DEF Repeats
  <2>4. CASE w \notin open
    <3>1. UNCHANGED <<got, todo>>
      BY <1>11, <2>4 DEF ReplayNext
    <3> QED BY <1>4, <2>1, <2>2, <3>1
  <2> QED BY <2>3, <2>4
<1> QED BY <1>5, <1>6, <1>7, <1>8, <1>9, <1>10, <1>11 DEF ClientStep, HandlerStep
---------------------------------------------------------------------------
(* The invariant.                                                          *)

\* With the order an event is live at most once and replayed at most once.
LEMMA OrderSuffices == ASSUME RInv PROVE RepeatsOnlyWhileSubscribing
<1>1. SUFFICES ASSUME NEW w \in Clients, NEW e \in 1..emitted
               PROVE  Times(w, e) <= 2 /\ (Times(w, e) = 2 => since[w] < e /\ e <= taken[w])
  BY DEF RepeatsOnlyWhileSubscribing
<1>2. TypeOK /\ Repeats(w)
  BY DEF RInv, SInv
<1>3. /\ got[w] \in Seq(Writes) /\ queue[w] \in Seq(Events) /\ todo[w] \in Seq(Events)
      /\ emitted \in Nat
  BY <1>2, BoundsAssumption DEF TypeOK, Writes
<1>4. e \in Nat
  BY <1>3
<1> DEFINE G == {i \in 1..Len(got[w]) : got[w][i][2] = e}
           L == Done(got[w], "live", e)
           R == Done(got[w], "replayed", e)
           T == Ahead(todo[w], e)
           Q == Ahead(queue[w], e)
<1>5. /\ IsFiniteSet(L) /\ IsFiniteSet(Q) /\ Cardinality(L) \in Nat /\ Cardinality(Q) \in Nat
      /\ Cardinality(L) + Cardinality(Q) <= 1
      /\ Cardinality(L) + Cardinality(Q) = 1 => since[w] < e /\ e <= emitted
  <2>1. Ascending(got[w], "live", queue[w], since[w], emitted)
    BY <1>2 DEF Repeats
  <2> QED BY <1>3, <1>4, <2>1, AtMostOnce
<1>6. /\ IsFiniteSet(R) /\ IsFiniteSet(T) /\ Cardinality(R) \in Nat /\ Cardinality(T) \in Nat
      /\ Cardinality(R) + Cardinality(T) <= 1
      /\ Cardinality(R) + Cardinality(T) = 1 => 0 < e /\ e <= taken[w]
  <2>1. Ascending(got[w], "replayed", todo[w], 0, taken[w])
    BY <1>2 DEF Repeats
  <2> QED BY <1>3, <1>4, <2>1, AtMostOnce
<1>7. G = L \cup R
  <2>1. \A i \in 1..Len(got[w]) : got[w][i] \in Writes
    BY <1>3
  <2>2. \A x \in Writes : x[1] = "live" \/ x[1] = "replayed"
    BY DEF Writes
  <2> QED BY <2>1, <2>2 DEF Done
<1>8. Times(w, e) = Cardinality(G) + Cardinality(T) + Cardinality(Q)
  BY DEF Times, Ahead
<1> HIDE DEF G, L, R, T, Q
<1>9. /\ Cardinality(L \cup R) = Cardinality(L) + Cardinality(R) - Cardinality(L \cap R)
      /\ Cardinality(L \cap R) \in Nat /\ Cardinality(L \cup R) \in Nat
  BY <1>5, <1>6, FS_Union, FS_Intersection, FS_CardinalityType
<1>10. Cardinality(G) <= Cardinality(L) + Cardinality(R) /\ Cardinality(G) \in Nat
  BY <1>5, <1>6, <1>7, <1>9
<1> QED BY <1>5, <1>6, <1>8, <1>10

\* The order holds at first and is kept by every step.
LEMMA RInvariance == Spec => []RInv
<1>1. Init => RInv
  <2>1. SUFFICES ASSUME Init, NEW w \in Clients PROVE Repeats(w)
    BY Invariance DEF RInv
  <2>2. got[w] = <<>> /\ queue[w] = <<>> /\ todo[w] = <<>> /\ Len(<<>>) = 0
    BY <2>1 DEF Init
  <2> QED BY <2>2 DEF Repeats, Ascending, NoReplay
<1>2. ASSUME RInv, [Next]_vars PROVE RInv'
  <2>1. SInv'
    BY <1>2, Invariance DEF RInv
  <2>2. ASSUME NEW v \in Clients, Untouched(v), emitted' = emitted PROVE Repeats(v)'
    BY <1>2, <2>2 DEF RInv, Repeats, Untouched
  <2>3. CASE Emit
    BY <1>2, <2>1, <2>3, EmitRepeats DEF RInv
  <2>4. ASSUME NEW w \in Clients, ClientStep(w) PROVE RInv'
    <3>1. emitted' = emitted /\ \A v \in Clients \ {w} : Untouched(v)
      BY <1>2, <2>4, Elsewhere DEF RInv, SInv
    <3>2. Repeats(w)'
      BY <1>2, <2>4, OwnRepeats
    <3>3. \A v \in Clients \ {w} : Repeats(v)'
      BY <2>2, <3>1
    <3> QED BY <2>1, <3>2, <3>3 DEF RInv
  <2>5. CASE UNCHANGED vars
    <3>1. emitted' = emitted /\ \A v \in Clients : Untouched(v)
      BY <2>5 DEF vars, requestVars, historyVars, Untouched
    <3> QED BY <2>1, <2>2, <3>1 DEF RInv
  <2> QED BY <1>2, <2>3, <2>4, <2>5 DEF Next, ClientStep
<1> QED BY <1>1, <1>2, PTL DEF Spec

\* An event reaches a client at most twice, and twice only if it was emitted while
\* the handler of that client waited for subscribeReceive
\* (websocket_server.py:115-122).
THEOREM RepeatsAreExplained == Spec => []RepeatsOnlyWhileSubscribing
BY OrderSuffices, RInvariance, PTL
=============================================================================
