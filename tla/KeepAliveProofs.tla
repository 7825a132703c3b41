--------------------------- MODULE KeepAliveProofs ---------------------------
(***************************************************************************)
(* The safety properties of KeepAlive, for any number of clients and       *)
(* outages.  What is on the wire is summed up by a recursive function, so  *)
(* that the first part is about how it changes with the wire.              *)
(***************************************************************************)
EXTENDS KeepAlive, SequenceInduction, FiniteSets, FiniteSetTheorems, FunctionTheorems, TLAPS

\* Who is in connected_clients is what the handlers say.
ClientsAreThere == \A w \in Clients : w \in clients <=> place[w] \in {"subscribe", "served"}

\* A vanished signal-cli is known of, or will be, or the last call to it has failed.
OutageShows == ~service /\ connected /\ ~unread /\ clients # {} => failed

\* connect() runs while the link is down, and what it misses is an outage of its own.
AskedWhileDown ==
    /\ place[Loop] = "asked" => ~connected
    /\ gone => place[Loop] = "asked" /\ outages >= 2

\* Before the first outage nothing has happened to the connection.
Unbroken == outages = 0 => service /\ connected /\ ~unread

KInv ==
    /\ TypeOK
    /\ ClientsAreThere
    /\ OutageShows
    /\ AskedWhileDown
    /\ Unbroken
    /\ OneWhileConnected
    /\ NeverUnsubscribed
---------------------------------------------------------------------------
(* The count after a sequence of calls.                                    *)

\* f counts from count over calls.
Counts(f, count, calls) ==
    f = [n \in 0..Len(calls) |-> IF n = 0 THEN count ELSE Applied(f[n - 1], calls[n])]

\* A call changes a count into a count.
LEMMA AppliedType == ASSUME NEW count \in Nat, NEW call PROVE Applied(count, call) \in Nat
BY DEF Applied

\* There is a count.
LEMMA CountExists ==
  ASSUME NEW count \in Nat, NEW calls \in Seq(Messages)
  PROVE  \E f : Counts(f, count, calls)
<1> DEFINE n == Len(calls)
           step == [i \in 1..n |-> [c \in Nat |-> Applied(c, calls[i])]]
<1>1. n \in Nat
  OBVIOUS
<1>2. step \in [1..n -> [Nat -> Nat]]
  BY AppliedType
<1> HIDE DEF step, n
<1>3. PICK f \in [0..n -> Nat] : f[0] = count /\ \A i \in 1..n : f[i] = step[i][f[i - 1]]
  <2> DEFINE Numbers == Nat
             start == count
  <2>1. start \in Numbers
    OBVIOUS
  <2>3. step \in [1..n -> [Numbers -> Numbers]]
    BY <1>2
  <2> HIDE DEF Numbers, start
  <2>2. \E f \in [0..n -> Numbers] : f[0] = start /\ \A i \in 1..n : f[i] = step[i][f[i - 1]]
    BY <1>1, <2>1, <2>3, Recursion
  <2> QED BY <2>2 DEF Numbers, start
<1>4. ASSUME NEW i \in 1..n PROVE f[i] = Applied(f[i - 1], calls[i])
  <2>1. f[i] = step[i][f[i - 1]] /\ f[i - 1] \in Nat
    BY <1>1, <1>3
  <2> QED BY <2>1 DEF step
<1>5. ASSUME NEW i \in 0..n PROVE f[i] = IF i = 0 THEN count ELSE Applied(f[i - 1], calls[i])
  <2>1. i = 0 \/ (i \in 1..n /\ i # 0)
    BY <1>1
  <2> QED BY <1>3, <1>4, <2>1
<1>6. Counts(f, count, calls)
  BY <1>3, <1>5 DEF Counts, n
<1> QED BY <1>6

\* A count starts at count and goes on by Applied.
LEMMA CountSteps ==
  ASSUME NEW count \in Nat, NEW calls \in Seq(Messages), NEW f, Counts(f, count, calls)
  PROVE  /\ f[0] = count
         /\ \A i \in 1..Len(calls) : f[i] = Applied(f[i - 1], calls[i])
         /\ \A i \in 0..Len(calls) : f[i] \in Nat
<1>1. Len(calls) \in Nat
  OBVIOUS
<1>2. \A i \in 0..Len(calls) : f[i] = IF i = 0 THEN count ELSE Applied(f[i - 1], calls[i])
  BY DEF Counts
<1>3. f[0] = count /\ \A i \in 1..Len(calls) : f[i] = Applied(f[i - 1], calls[i])
  BY <1>1, <1>2
<1>4. \A i \in 0..Len(calls) : f[i] \in Nat
  <2>1. f[0] \in Nat /\ \A i \in 1..Len(calls) : f[i - 1] \in Nat => f[i] \in Nat
    BY <1>3, AppliedType
  <2> QED BY <1>1, <2>1, RecursionKeeps
<1> QED BY <1>3, <1>4

\* AllApplied is where any count ends.
LEMMA CountEnds ==
  ASSUME NEW count \in Nat, NEW calls \in Seq(Messages), NEW f, Counts(f, count, calls)
  PROVE  AllApplied(count, calls) = f[Len(calls)] /\ f[Len(calls)] \in Nat
<1> DEFINE g == CHOOSE h : Counts(h, count, calls)
<1>1. Counts(g, count, calls)
  BY CountExists
<1>2. AllApplied(count, calls) = g[Len(calls)]
  BY DEF AllApplied, Counts
<1> HIDE DEF g
<1>3. Len(calls) \in Nat
  OBVIOUS
<1>4. f[0] = g[0] /\ \A i \in 1..Len(calls) : f[i - 1] = g[i - 1] => f[i] = g[i]
  BY <1>1, CountSteps
<1>5. f[Len(calls)] = g[Len(calls)]
  <2>1. \A i \in 0..Len(calls) : f[i] = g[i]
    BY <1>3, <1>4, RecursionIsUnique, ZenonT(30)
  <2> QED BY <1>3, <2>1
<1> QED BY <1>2, <1>3, <1>5, CountSteps

\* No call leaves the count alone.
LEMMA CountEmpty == ASSUME NEW count \in Nat PROVE AllApplied(count, <<>>) = count
<1>1. <<>> \in Seq(Messages) /\ Len(<<>>) = 0
  OBVIOUS
<1>2. PICK f : Counts(f, count, <<>>)
  BY <1>1, CountExists
<1>3. f[0] = count
  BY <1>1, <1>2, CountSteps
<1>4. AllApplied(count, <<>>) = f[Len(<<>>)]
  BY <1>1, <1>2, CountEnds
<1> QED BY <1>1, <1>3, <1>4

\* A call that is sent is applied last.
LEMMA CountAppend ==
  ASSUME NEW count \in Nat, NEW calls \in Seq(Messages), NEW call \in Messages
  PROVE  AllApplied(count, Append(calls, call)) = Applied(AllApplied(count, calls), call)
<1> DEFINE n == Len(calls)
           longer == Append(calls, call)
<1>1. PICK f : Counts(f, count, calls)
  BY CountExists
<1>2. n \in Nat /\ longer \in Seq(Messages) /\ Len(longer) = n + 1
      /\ longer[n + 1] = call /\ \A i \in 1..n : longer[i] = calls[i]
  OBVIOUS
<1> DEFINE g == [i \in 0..(n + 1) |-> IF i = n + 1 THEN Applied(f[n], call) ELSE f[i]]
<1>3. \A i \in 0..(n + 1) : g[i] = IF i = 0 THEN count ELSE Applied(g[i - 1], longer[i])
  <2>1. g[0] = count
    BY <1>1, <1>2, CountSteps
  <2>2. ASSUME NEW i \in 1..n PROVE g[i] = Applied(g[i - 1], longer[i])
    <3>1. g[i] = f[i] /\ g[i - 1] = f[i - 1]
      BY <1>2
    <3> QED BY <1>1, <1>2, <3>1, CountSteps
  <2>3. g[n + 1] = Applied(g[(n + 1) - 1], longer[n + 1])
    BY <1>2
  <2>4. TAKE i \in 0..(n + 1)
  <2>5. i = 0 \/ i \in 1..n \/ (i = n + 1 /\ i # 0)
    BY <1>2
  <2> HIDE DEF g, n, longer
  <2> QED BY <2>1, <2>2, <2>3, <2>5
<1>4. Counts(g, count, longer)
  BY <1>2, <1>3 DEF Counts
<1>5. g[n + 1] = Applied(f[n], call)
  BY <1>2
<1> HIDE DEF g
<1>6. AllApplied(count, longer) = g[n + 1]
  BY <1>2, <1>4, CountEnds
<1>7. AllApplied(count, calls) = f[n]
  BY <1>1, CountEnds
<1> QED BY <1>5, <1>6, <1>7

\* A call that is handled was applied first.
LEMMA CountTail ==
  ASSUME NEW count \in Nat, NEW calls \in Seq(Messages), calls # <<>>
  PROVE  AllApplied(Applied(count, Head(calls)), Tail(calls)) = AllApplied(count, calls)
<1> DEFINE n == Len(calls)
           rest == Tail(calls)
           next == Applied(count, Head(calls))
<1>1. PICK f : Counts(f, count, calls)
  BY CountExists
<1>2. n \in Nat /\ n # 0 /\ rest \in Seq(Messages) /\ Len(rest) = n - 1
      /\ Head(calls) = calls[1] /\ \A i \in 1..(n - 1) : rest[i] = calls[i + 1]
  OBVIOUS
<1>3. next \in Nat
  BY AppliedType
<1> DEFINE g == [i \in 0..(n - 1) |-> f[i + 1]]
<1>4. \A i \in 0..(n - 1) : g[i] = IF i = 0 THEN next ELSE Applied(g[i - 1], rest[i])
  <2>1. g[0] = next
    <3>1. f[1] = Applied(f[0], calls[1]) /\ f[0] = count
      BY <1>1, <1>2, CountSteps
    <3> QED BY <1>2, <3>1
  <2>2. ASSUME NEW i \in 1..(n - 1) PROVE g[i] = Applied(g[i - 1], rest[i])
    <3>1. g[i] = f[i + 1] /\ g[i - 1] = f[i] /\ i + 1 \in 1..n /\ (i + 1) - 1 = i
      BY <1>2
    <3>2. f[i + 1] = Applied(f[(i + 1) - 1], calls[i + 1])
      BY <1>1, <3>1, CountSteps
    <3> QED BY <1>2, <3>1, <3>2
  <2>3. TAKE i \in 0..(n - 1)
  <2>4. i = 0 \/ (i \in 1..(n - 1) /\ i # 0)
    BY <1>2
  <2> HIDE DEF g, n, rest, next
  <2> QED BY <2>1, <2>2, <2>4
<1>5. Counts(g, next, rest)
  BY <1>2, <1>4 DEF Counts
<1>6. g[n - 1] = f[n]
  BY <1>2
<1> HIDE DEF g, next
<1>7. AllApplied(next, rest) = g[n - 1]
  BY <1>2, <1>3, <1>5, CountEnds
<1>8. AllApplied(count, calls) = f[n]
  BY <1>1, CountEnds
<1> QED BY <1>6, <1>7, <1>8 DEF next
---------------------------------------------------------------------------
(* What each step does to the count.                                       *)

\* Steps that leave signal-cli and the wire alone leave the count alone.
LEMMA CallsAreMessages ==
  ASSUME NEW w \in Clients \cup {Loop} PROVE Sub(w) \in Messages /\ Unsub(w) \in Messages
BY DEF Sub, Unsub, Messages

\* What gets through of the old wire is a sequence of calls.
LEMMA ThroughType ==
  ASSUME wire \in Seq(Messages), NEW n \in 0..Len(wire), NEW pick \in InOrder(n)
  PROVE  Through(pick) \in Seq(Messages)
<1>1. n \in Nat /\ pick \in [1..n -> 1..Len(wire)]
  BY DEF InOrder
<1>2. \A i \in 1..n : wire[pick[i]] \in Messages
  BY <1>1
<1> QED BY <1>1, <1>2 DEF Through

\* Subscribing adds a subscription, unsubscribing takes one away if there is one.
LEMMA Effects ==
  ASSUME NEW count \in Nat, NEW w
  PROVE  /\ Applied(count, Sub(w)) = count + 1
         /\ Applied(count, Unsub(w)) = IF count > 0 THEN count - 1 ELSE 0
<1>1. Sub(w).op = "subscribe" /\ Unsub(w).op = "unsubscribe"
  BY DEF Sub, Unsub
<1> QED BY <1>1 DEF Applied

\* The count of subscriptions to come is a number.
LEMMA AfterType == ASSUME NEW count \in Nat, NEW calls \in Seq(Messages)
                   PROVE  AllApplied(count, calls) \in Nat
<1>1. PICK f : Counts(f, count, calls)
  BY CountExists
<1> QED BY <1>1, CountEnds
---------------------------------------------------------------------------
(* The invariant.                                                          *)

\* The types are kept.
LEMMA TypeStep == ASSUME TypeOK, [Next]_vars PROVE TypeOK'
<1> USE LoopAssumption DEF TypeOK
<1>1. CASE Handle
  <2>1. tokens' \in Nat
    BY <1>1, AppliedType DEF Handle
  <2> QED BY <1>1, <2>1 DEF Handle
<1>2. CASE Vanish
  <2>1. outages' \in 0..MaxOutages
    BY <1>2 DEF Vanish
  <2>2. wire' \in Seq(Messages) /\ tokens' \in Nat
    BY <1>2 DEF Vanish
  <2> QED BY <1>2, <2>1, <2>2 DEF Vanish
<1>3. CASE Appear
  BY <1>3 DEF Appear
<1>4. CASE Notice
  BY <1>4 DEF Notice
<1>5. CASE CallFails
  <2>1. outages' \in 0..MaxOutages
    BY <1>5 DEF CallFails
  <2> QED BY <1>5, <2>1 DEF CallFails
<1>6. CASE Reconnect
  <2>1. wire' \in Seq(Messages)
    <3>1. PICK n \in 0..Len(wire) : \E pick \in InOrder(n) :
            wire' = IF Renews /\ service THEN Append(Through(pick), Sub(Loop))
                                      ELSE Through(pick)
      BY <1>6 DEF Reconnect
    <3>2. PICK pick \in InOrder(n) :
            wire' = IF Renews /\ service THEN Append(Through(pick), Sub(Loop))
                                      ELSE Through(pick)
      BY <3>1
    <3>3. Through(pick) \in Seq(Messages) /\ Sub(Loop) \in Messages
      BY ThroughType, CallsAreMessages
    <3> QED BY <3>2, <3>3
  <2> QED BY <1>6, <2>1 DEF Reconnect
<1>7. CASE Renewed
  BY <1>7 DEF Renewed
<1>8. ASSUME NEW w \in Clients, Join(w) PROVE TypeOK'
  <2>1. wire' \in Seq(Messages)
    BY <1>8, CallsAreMessages DEF Join, Subscribe, Send
  <2> QED BY <1>8, <2>1 DEF Join, Subscribe
<1>9. ASSUME NEW w \in Clients, Subscribed(w) PROVE TypeOK'
  BY <1>9 DEF Subscribed
<1>10. ASSUME NEW w \in Clients, Leave(w) PROVE TypeOK'
  <2>1. wire' \in Seq(Messages)
    BY <1>10, CallsAreMessages DEF Leave, Send
  <2> QED BY <1>10, <2>1 DEF Leave
<1>11. ASSUME NEW w \in Clients, Unsubscribed(w) PROVE TypeOK'
  BY <1>11 DEF Unsubscribed
<1>12. CASE UNCHANGED vars
  BY <1>12 DEF vars
<1>13. CASE Ask
  BY <1>13 DEF Ask
<1> QED BY <1>1, <1>2, <1>3, <1>4, <1>5, <1>6, <1>7, <1>8, <1>9, <1>10, <1>11, <1>12, <1>13 DEF Next

\* What is known of the connection and of who is there is kept.
LEMMA ConnectionStep ==
  ASSUME TypeOK, ClientsAreThere, OutageShows, AskedWhileDown, Unbroken, [Next]_vars
  PROVE  ClientsAreThere' /\ OutageShows' /\ AskedWhileDown' /\ Unbroken'
<1> USE LoopAssumption DEF TypeOK, ClientsAreThere, OutageShows, AskedWhileDown, Unbroken
<1> DEFINE Kept == ClientsAreThere /\ OutageShows /\ AskedWhileDown /\ Unbroken
<1>1. CASE Handle
  BY <1>1 DEF Handle
<1>2. CASE Vanish
  BY <1>2 DEF Vanish
<1>3. CASE Appear
  BY <1>3 DEF Appear
<1>4. CASE Notice
  BY <1>4 DEF Notice
<1>5. CASE CallFails
  BY <1>5 DEF CallFails
<1>6. CASE Reconnect
  BY <1>6 DEF Reconnect, Renews
<1>7. CASE Renewed
  BY <1>7 DEF Renewed
<1>8. ASSUME NEW w \in Clients, Join(w) PROVE Kept'
  BY <1>8 DEF Join, Subscribe
<1>9. ASSUME NEW w \in Clients, Subscribed(w) PROVE Kept'
  BY <1>9 DEF Subscribed
<1>10. ASSUME NEW w \in Clients, Leave(w) PROVE Kept'
  BY <1>10 DEF Leave
<1>11. ASSUME NEW w \in Clients, Unsubscribed(w) PROVE Kept'
  BY <1>11 DEF Unsubscribed
<1>12. CASE UNCHANGED vars
  BY <1>12 DEF vars
<1>13. CASE Ask
  BY <1>13 DEF Ask
<1> QED BY <1>1, <1>2, <1>3, <1>4, <1>5, <1>6, <1>7, <1>8, <1>9, <1>10, <1>11, <1>12, <1>13 DEF Next

\* The subscriptions to come are kept right: only a handler that joins first or
\* leaves last, the loop, and the end of signal-cli change their number.
LEMMA CountStep ==
  ASSUME KInv, [Next]_vars
  PROVE  OneWhileConnected' /\ NeverUnsubscribed'
<1> DEFINE Right == OneWhileConnected /\ NeverUnsubscribed
<1>0. tokens \in Nat /\ wire \in Seq(Messages) /\ After \in Nat /\ outages \in Nat
      /\ clients \subseteq Clients
  BY AfterType, LoopAssumption DEF KInv, TypeOK, After
<1>1. CASE Handle
  <2>1. After' = After
    <3>1. AllApplied(Applied(tokens, Head(wire)), Tail(wire)) = AllApplied(tokens, wire)
      BY <1>0, <1>1, CountTail DEF Handle
    <3> QED BY <1>1, <3>1 DEF Handle, After
  <2> QED BY <1>1, <2>1 DEF Handle, KInv, OneWhileConnected, NeverUnsubscribed
<1>2. CASE Vanish
  BY <1>0, <1>2 DEF Vanish, OneWhileConnected, NeverUnsubscribed
<1>3. CASE Appear
  <2>1. After' = After
    BY <1>3 DEF Appear, After
  <2> QED BY <1>3, <2>1 DEF Appear, KInv, OneWhileConnected, NeverUnsubscribed, OutageShows
<1>4. CASE Notice
  <2>1. After' = After
    BY <1>4 DEF Notice, After
  <2> QED BY <1>4, <2>1 DEF Notice, KInv, OneWhileConnected, NeverUnsubscribed
<1>5. CASE CallFails
  BY <1>0, <1>5 DEF CallFails, OneWhileConnected, NeverUnsubscribed
<1>6. CASE Reconnect
  <2>1. outages' # 0
    BY <1>6 DEF Reconnect, KInv, AskedWhileDown, Unbroken
  <2>2. PICK n \in 0..Len(wire) : \E pick \in InOrder(n) :
          wire' = IF Renews /\ service THEN Append(Through(pick), Sub(Loop))
                                    ELSE Through(pick)
    BY <1>6 DEF Reconnect
  <2>3. PICK pick \in InOrder(n) :
          wire' = IF Renews /\ service THEN Append(Through(pick), Sub(Loop))
                                    ELSE Through(pick)
    BY <2>2
  <2>4. ASSUME clients # {}, service PROVE After' >= 1
    <3>1. wire' = Append(Through(pick), Sub(Loop)) /\ tokens' = tokens
      BY <1>6, <2>3, <2>4 DEF Renews, Reconnect
    <3>2. Through(pick) \in Seq(Messages) /\ Sub(Loop) \in Messages
      BY <1>0, ThroughType, CallsAreMessages
    <3>3. After' = Applied(AllApplied(tokens, Through(pick)), Sub(Loop))
      BY <1>0, <3>1, <3>2, CountAppend DEF After
    <3>4. AllApplied(tokens, Through(pick)) \in Nat
      BY <1>0, <3>2, AfterType
    <3> QED BY <3>3, <3>4, Effects
  <2> QED BY <1>6, <2>1, <2>4 DEF Reconnect, OneWhileConnected, NeverUnsubscribed
<1>7. CASE Renewed
  <2>1. After' = After
    BY <1>7 DEF Renewed, After
  <2> QED BY <1>7, <2>1 DEF Renewed, KInv, OneWhileConnected, NeverUnsubscribed
<1>8. ASSUME NEW w \in Clients, Join(w) PROVE Right'
  <2>1. w \notin clients
    BY <1>8 DEF Join, KInv, ClientsAreThere
  <2>2. CASE clients = {} /\ service
    <3>1. wire' = Append(wire, Sub(w)) /\ tokens' = tokens /\ clients' = {w}
      BY <1>8, <2>2 DEF Join, Subscribe, Send
    <3>2. After' = After + 1
      BY <1>0, <3>1, CallsAreMessages, CountAppend, Effects DEF After
    <3> QED BY <1>0, <1>8, <2>2, <3>1, <3>2
            DEF Join, Subscribe, KInv, OneWhileConnected, NeverUnsubscribed
  <2>3. CASE clients = {} /\ ~service
    BY <1>8, <2>3 DEF Join, Subscribe, KInv, OneWhileConnected, NeverUnsubscribed, Unbroken
  <2>4. CASE clients # {}
    <3>1. clients' # {w} /\ clients' # {}
      BY <1>8, <2>1, <2>4 DEF Join
    <3>2. After' = After
      BY <1>8, <3>1 DEF Join, After
    <3> QED BY <1>8, <2>4, <3>1, <3>2 DEF Join, KInv, OneWhileConnected, NeverUnsubscribed
  <2> QED BY <2>2, <2>3, <2>4
<1>9. ASSUME NEW w \in Clients, Subscribed(w) PROVE Right'
  <2>1. After' = After
    BY <1>9 DEF Subscribed, After
  <2> QED BY <1>9, <2>1 DEF Subscribed, KInv, OneWhileConnected, NeverUnsubscribed
<1>10. ASSUME NEW w \in Clients, Leave(w) PROVE Right'
  <2>1. w \in clients
    BY <1>10 DEF Leave, KInv, ClientsAreThere
  <2>2. CASE clients' = {} /\ service
    <3>1. wire' = Append(wire, Unsub(w)) /\ tokens' = tokens
      BY <1>10, <2>2 DEF Leave, Send
    <3>2. After' = Applied(After, Unsub(w))
      BY <1>0, <3>1, CallsAreMessages, CountAppend DEF After
    <3>3. outages = 0 => After' = 0
      BY <1>0, <2>1, <3>2, Effects DEF KInv, OneWhileConnected
    <3> QED BY <1>10, <2>2, <3>3 DEF Leave, OneWhileConnected, NeverUnsubscribed
  <2>3. CASE clients' = {} /\ ~service
    BY <1>10, <2>3 DEF Leave, KInv, OneWhileConnected, NeverUnsubscribed, Unbroken
  <2>4. CASE clients' # {}
    <3>1. After' = After
      BY <1>10, <2>4 DEF Leave, After
    <3> QED BY <1>10, <2>1, <2>4, <3>1 DEF Leave, KInv, OneWhileConnected, NeverUnsubscribed
  <2> QED BY <2>2, <2>3, <2>4
<1>11. ASSUME NEW w \in Clients, Unsubscribed(w) PROVE Right'
  <2>1. After' = After
    BY <1>11 DEF Unsubscribed, After
  <2> QED BY <1>11, <2>1 DEF Unsubscribed, KInv, OneWhileConnected, NeverUnsubscribed
<1>12. CASE UNCHANGED vars
  BY <1>12 DEF vars, KInv, OneWhileConnected, NeverUnsubscribed, After
<1>13. CASE Ask
  BY <1>13 DEF Ask, KInv, OneWhileConnected, NeverUnsubscribed, After
<1> QED BY <1>1, <1>2, <1>3, <1>4, <1>5, <1>6, <1>7, <1>8, <1>9, <1>10, <1>11, <1>12, <1>13 DEF Next

\* KInv is an invariant.
LEMMA KInvariance == Spec => []KInv
<1>1. Init => KInv
  <2> SUFFICES ASSUME Init PROVE KInv
    OBVIOUS
  <2>1. TypeOK
    <3>1. <<>> \in Seq(Messages) /\ 0 \in 0..MaxOutages
      BY LoopAssumption
    <3> QED BY <3>1, LoopAssumption DEF Init, TypeOK
  <2>2. ClientsAreThere /\ OutageShows /\ AskedWhileDown /\ Unbroken
    BY LoopAssumption DEF Init, ClientsAreThere, OutageShows, AskedWhileDown, Unbroken
  <2>3. After = 0
    BY CountEmpty DEF Init, After
  <2> QED BY <2>1, <2>2, <2>3 DEF Init, KInv, OneWhileConnected, NeverUnsubscribed
<1>2. KInv /\ [Next]_vars => KInv'
  BY TypeStep, ConnectionStep, CountStep DEF KInv
<1> QED BY <1>1, <1>2, PTL DEF Spec
---------------------------------------------------------------------------
(* Subscriptions left behind.                                              *)

\* The subscriptions among calls.
Subs(calls) == {i \in 1..Len(calls) : calls[i].op = "subscribe"}

\* Subscriptions that come if no unsubscription takes one away.
Coming(count, calls) == count + Cardinality(Subs(calls))

\* Calls are finitely many.
LEMMA SubsFinite ==
  ASSUME NEW calls \in Seq(Messages)
  PROVE  IsFiniteSet(Subs(calls)) /\ Cardinality(Subs(calls)) \in Nat
<1>1. Len(calls) \in Nat
  OBVIOUS
<1>2. IsFiniteSet(1..Len(calls))
  BY <1>1, FS_Interval
<1>3. IsFiniteSet(Subs(calls))
  BY <1>2, FS_Subset DEF Subs
<1> QED BY <1>3, FS_CardinalityType

\* A subscription sent is one more, an unsubscription none.
LEMMA SubsAppend ==
  ASSUME NEW calls \in Seq(Messages), NEW call \in Messages
  PROVE  Cardinality(Subs(Append(calls, call))) =
           Cardinality(Subs(calls)) + IF call.op = "subscribe" THEN 1 ELSE 0
<1> DEFINE n == Len(calls)
           longer == Append(calls, call)
<1>1. n \in Nat /\ Len(longer) = n + 1 /\ longer[n + 1] = call
      /\ \A i \in 1..n : longer[i] = calls[i]
  OBVIOUS
<1>2. n + 1 \notin Subs(calls)
  BY <1>1 DEF Subs
<1>3. CASE call.op = "subscribe"
  <2>1. Subs(longer) = Subs(calls) \cup {n + 1}
    <3> HIDE DEF longer
    <3> QED BY <1>1, <1>3 DEF Subs
  <2> QED BY <1>2, <1>3, <2>1, SubsFinite, FS_AddElement
<1>4. CASE call.op # "subscribe"
  <2>1. Subs(longer) = Subs(calls)
    <3> HIDE DEF longer
    <3> QED BY <1>1, <1>4 DEF Subs
  <2> QED BY <1>4, <2>1, SubsFinite
<1> QED BY <1>3, <1>4

\* A subscription handled is one less on its way, an unsubscription none.
LEMMA SubsTail ==
  ASSUME NEW calls \in Seq(Messages), calls # <<>>
  PROVE  Cardinality(Subs(Tail(calls))) =
           Cardinality(Subs(calls)) - IF Head(calls).op = "subscribe" THEN 1 ELSE 0
<1> DEFINE n == Len(calls)
           rest == Tail(calls)
<1>1. n \in Nat /\ n # 0 /\ rest \in Seq(Messages) /\ Len(rest) = n - 1
      /\ Head(calls) = calls[1] /\ \A i \in 1..(n - 1) : rest[i] = calls[i + 1]
  OBVIOUS
<1> DEFINE S == Subs(rest)
           T == Subs(calls) \ {1}
           f == [i \in S |-> i + 1]
<1>2. f \in Bijection(S, T)
  <2>0. \A i \in S : i \in 1..(n - 1) /\ rest[i].op = "subscribe"
    BY <1>1 DEF Subs
  <2>1. \A i \in S : i + 1 \in T
    <3> SUFFICES ASSUME NEW i \in S PROVE i + 1 \in T
      OBVIOUS
    <3>1. i \in 1..(n - 1) /\ calls[i + 1].op = "subscribe"
      BY <1>1, <2>0
    <3>2. i + 1 \in 1..n /\ i + 1 # 1
      BY <1>1, <3>1
    <3> QED BY <3>1, <3>2 DEF Subs
  <2>2. f \in Injection(S, T)
    <3>1. f \in [S -> T]
      BY <2>1
    <3>2. \A a, b \in S : f[a] = f[b] => a = b
      BY <1>1, <2>0
    <3> HIDE DEF f, S, T
    <3> QED BY <3>1, <3>2 DEF Injection, IsInjective
  <2>3. \A t \in T : \E i \in S : f[i] = t
    <3> SUFFICES ASSUME NEW t \in T PROVE \E i \in S : f[i] = t
      OBVIOUS
    <3>1. t \in 1..n /\ t # 1 /\ calls[t].op = "subscribe"
      BY DEF Subs
    <3>2. t - 1 \in 1..(n - 1) /\ (t - 1) + 1 = t
      BY <1>1, <3>1
    <3>3. rest[t - 1].op = "subscribe"
      BY <1>1, <3>1, <3>2
    <3>4. t - 1 \in S
      BY <1>1, <3>2, <3>3 DEF Subs
    <3> QED BY <3>2, <3>4
  <2>4. f \in Surjection(S, T)
    <3>1. f \in [S -> T]
      BY <2>1
    <3> HIDE DEF f, S, T
    <3> QED BY <2>3, <3>1 DEF Surjection
  <2> QED BY <2>2, <2>4 DEF Bijection
<1>3. IsFiniteSet(S) /\ Cardinality(S) \in Nat
  BY <1>1, SubsFinite
<1>4. Cardinality(S) = Cardinality(T)
  <2> HIDE DEF f, S, T
  <2> QED BY <1>2, <1>3, FS_Bijection DEF ExistsBijection
<1>5. Cardinality(T) = IF 1 \in Subs(calls) THEN Cardinality(Subs(calls)) - 1
                                             ELSE Cardinality(Subs(calls))
  BY SubsFinite, FS_RemoveElement
<1>6. 1 \in Subs(calls) <=> Head(calls).op = "subscribe"
  BY <1>1 DEF Subs
<1>7. Cardinality(Subs(calls)) \in Nat
  BY SubsFinite
<1> HIDE DEF S, T, f
<1> QED BY <1>4, <1>5, <1>6, <1>7 DEF S

\* Subscriptions come at most if no unsubscription takes one away,
\* and all of them if there is none.
LEMMA AtMostComing ==
  ASSUME NEW count \in Nat, NEW calls \in Seq(Messages)
  PROVE  /\ AllApplied(count, calls) <= Coming(count, calls)
         /\ (\A i \in 1..Len(calls) : calls[i].op = "subscribe") =>
              AllApplied(count, calls) = Coming(count, calls)
<1> DEFINE Fits(c, s) ==
             /\ AllApplied(c, s) <= Coming(c, s)
             /\ (\A i \in 1..Len(s) : s[i].op = "subscribe") => AllApplied(c, s) = Coming(c, s)
           Fitting == {n \in Nat : \A c \in Nat, s \in Seq(Messages) : Len(s) = n => Fits(c, s)}
<1>1. 0 \in Fitting
  <2> SUFFICES ASSUME NEW c \in Nat, NEW s \in Seq(Messages), Len(s) = 0 PROVE Fits(c, s)
    BY Zenon
  <2>1. s = <<>>
    OBVIOUS
  <2>2. Subs(s) = {}
    BY DEF Subs
  <2>3. AllApplied(c, s) = c
    BY <2>1, CountEmpty
  <2>4. Coming(c, s) = c
    BY <2>2, FS_EmptySet DEF Coming
  <2> QED BY <2>3, <2>4
<1>2. ASSUME NEW n \in Nat, n \in Fitting PROVE n + 1 \in Fitting
  <2>0. n + 1 \in Nat
    OBVIOUS
  <2> SUFFICES ASSUME NEW c \in Nat, NEW s \in Seq(Messages), Len(s) = n + 1 PROVE Fits(c, s)
    BY <2>0, Zenon
  <2> DEFINE rest == Tail(s)
             next == Applied(c, Head(s))
  <2>1. s # <<>> /\ rest \in Seq(Messages) /\ Len(rest) = n /\ Head(s) = s[1]
        /\ \A i \in 1..n : rest[i] = s[i + 1]
    OBVIOUS
  <2>2. next \in Nat
    BY AppliedType
  <2>3. AllApplied(c, s) = AllApplied(next, rest)
    BY <2>1, CountTail
  <2>4. Cardinality(Subs(rest)) = Cardinality(Subs(s)) - IF Head(s).op = "subscribe" THEN 1 ELSE 0
    BY <2>1, SubsTail
  <2>5. Cardinality(Subs(rest)) \in Nat /\ Cardinality(Subs(s)) \in Nat
    BY <2>1, SubsFinite
  <2>6. AllApplied(next, rest) \in Nat
    BY <2>1, <2>2, AfterType
  <2>7. Fits(next, rest)
    BY <1>2, <2>1, <2>2
  <2>8. next <= c + IF Head(s).op = "subscribe" THEN 1 ELSE 0
    BY DEF Applied
  <2>9. Head(s).op = "subscribe" => next = c + 1
    BY DEF Applied
  <2> HIDE DEF next, rest
  <2>10. AllApplied(c, s) <= Coming(c, s)
    BY <2>2, <2>3, <2>4, <2>5, <2>6, <2>7, <2>8 DEF Coming
  <2>11. ASSUME \A i \in 1..Len(s) : s[i].op = "subscribe" PROVE AllApplied(c, s) = Coming(c, s)
    <3>1. Head(s).op = "subscribe" /\ \A i \in 1..Len(rest) : rest[i].op = "subscribe"
      BY <2>1, <2>11
    <3>2. AllApplied(next, rest) = Coming(next, rest)
      BY <2>7, <3>1
    <3> QED BY <2>2, <2>3, <2>4, <2>5, <2>9, <3>1, <3>2 DEF Coming
  <2> QED BY <2>10, <2>11
<1>3. Nat \subseteq Fitting
  <2> HIDE DEF Fitting
  <2> QED BY <1>1, <1>2, Induction
<1>4. Len(calls) \in Nat
  OBVIOUS
<1>5. Fits(count, calls)
  BY <1>3, <1>4
<1> QED BY <1>5

\* What gets through keeps its order.
LEMMA PickIsOrdered ==
  ASSUME wire \in Seq(Messages), NEW n \in 0..Len(wire), NEW pick \in InOrder(n)
  PROVE  /\ \A i \in 1..n : pick[i] \in 1..Len(wire)
         /\ \A j \in 1..n : \A i \in 1..n : i < j => pick[i] < pick[j]
<1>0. n \in Nat /\ Len(wire) \in Nat
  OBVIOUS
<1>1. \A i \in 1..n : pick[i] \in 1..Len(wire)
  BY DEF InOrder
<1>2. \A j \in 2..n : pick[j - 1] < pick[j]
  BY DEF InOrder
<1> DEFINE Above == {j \in Nat : j <= n => \A i \in 1..n : i < j => pick[i] < pick[j]}
<1>3. 0 \in Above
  BY <1>0
<1>4. ASSUME NEW j \in Nat, j \in Above PROVE j + 1 \in Above
  <2> SUFFICES ASSUME j + 1 <= n, NEW i \in 1..n, i < j + 1 PROVE pick[i] < pick[j + 1]
    OBVIOUS
  <2>1. j + 1 \in 2..n /\ (j + 1) - 1 = j /\ j \in 1..n /\ j + 1 \in 1..n
    BY <1>0
  <2>2. pick[j] < pick[j + 1]
    BY <1>2, <2>1
  <2>3. pick[i] \in Nat /\ pick[j] \in Nat /\ pick[j + 1] \in Nat
    BY <1>0, <1>1, <2>1
  <2>4. i = j \/ pick[i] < pick[j]
    BY <1>0, <1>4, <2>1
  <2> QED BY <2>2, <2>3, <2>4
<1>5. Nat \subseteq Above
  <2> HIDE DEF Above
  <2> QED BY <1>3, <1>4, Induction
<1>6. \A j \in 1..n : \A i \in 1..n : i < j => pick[i] < pick[j]
  BY <1>0, <1>5
<1> QED BY <1>1, <1>6

\* No more subscriptions get through than were sent.
LEMMA SubsThrough ==
  ASSUME wire \in Seq(Messages), NEW n \in 0..Len(wire), NEW pick \in InOrder(n)
  PROVE  Cardinality(Subs(Through(pick))) <= Cardinality(Subs(wire))
<1> DEFINE some == Through(pick)
           S == Subs(some)
           T == Subs(wire)
           f == [i \in S |-> pick[i]]
<1>1. n \in Nat /\ DOMAIN pick = 1..n
  BY DEF InOrder
<1>2. Len(some) = n /\ \A i \in 1..n : some[i] = wire[pick[i]]
  BY <1>1 DEF Through
<1> HIDE DEF some
<1>3. \A i \in S : i \in 1..n /\ pick[i] \in T
  <2> SUFFICES ASSUME NEW i \in S PROVE i \in 1..n /\ pick[i] \in T
    OBVIOUS
  <2>1. i \in 1..n /\ some[i].op = "subscribe"
    BY <1>2 DEF Subs
  <2>2. pick[i] \in 1..Len(wire)
    BY <2>1, PickIsOrdered
  <2>3. wire[pick[i]].op = "subscribe"
    BY <1>2, <2>1
  <2> QED BY <2>1, <2>2, <2>3 DEF Subs
<1>4. f \in [S -> T]
  BY <1>3
<1>5. \A i, j \in S : f[i] = f[j] => i = j
  <2> SUFFICES ASSUME NEW i \in S, NEW j \in S, pick[i] = pick[j] PROVE i = j
    BY <1>4
  <2>1. i \in 1..n /\ j \in 1..n /\ pick[i] \in 1..Len(wire)
    BY <1>3, PickIsOrdered
  <2>2. ~ (i < j) /\ ~ (j < i)
    BY <2>1, PickIsOrdered
  <2> QED BY <2>1, <2>2
<1>6. IsFiniteSet(T)
  BY SubsFinite
<1> HIDE DEF f, S, T
<1>7. f \in Injection(S, T)
  BY <1>4, <1>5 DEF Injection, IsInjective
<1>8. Cardinality(S) <= Cardinality(T)
  BY <1>6, <1>7, FS_Injection
<1> QED BY <1>8 DEF S, T, some

\* One subscription is right while clients are there, none otherwise.
Here == IF clients = {} THEN 0 ELSE 1

\* Outages that a connection has followed; the one that connect() misses is not one.
Past == (IF connected /\ ~unread THEN outages ELSE outages - 1) - IF gone THEN 1 ELSE 0

\* The first client waits for its subscription.
FirstWaits == \E w \in Clients : place[w] = "subscribe" /\ Waiting(w)
Awaited == IF FirstWaits THEN 1 ELSE 0

\* No call reaches a signal-cli that is not there.
NothingHeld == ~service => tokens = 0 /\ wire = <<>>

\* Only a handler that subscribes or unsubscribes waits.
OthersDoNotWait == \A w \in Clients : place[w] \in {"away", "served"} => ~Waiting(w)

\* Nobody unsubscribes after a client whose subscription is on its way.
FirstIsLast ==
    \A w \in Clients : place[w] = "subscribe" =>
        \A i \in 1..Len(wire) : wire[i].by = w =>
            \A j \in 1..Len(wire) : i <= j => wire[j].op = "subscribe"

\* The outages gone by bound the subscriptions to come, and those that come if
\* every unsubscription on its way is lost.
Bounded(after, coming, past, here, awaited) ==
    /\ after <= 2 * past + here
    /\ coming <= 2 * past + 1 + awaited

\* The bound of what outages have left behind.
LeftBehind == Bounded(After, Coming(tokens, wire), Past, Here, Awaited)

\* The part of the invariant that bounds the leak.
LInv ==
    /\ NothingHeld
    /\ OthersDoNotWait
    /\ FirstIsLast
    /\ LeftBehind

\* What waits for whom is kept: the calls on the wire are handled in order.
LEMMA WaitStep ==
  ASSUME KInv, NothingHeld, OthersDoNotWait, FirstIsLast, [Next]_vars
  PROVE  NothingHeld' /\ OthersDoNotWait' /\ FirstIsLast'
<1> DEFINE Kept == NothingHeld /\ OthersDoNotWait /\ FirstIsLast
<1>0. wire \in Seq(Messages) /\ Len(wire) \in Nat /\ clients \subseteq Clients
      /\ DOMAIN place = Clients \cup {Loop} /\ Loop \notin Clients
  <2>1. wire \in Seq(Messages) /\ clients \subseteq Clients /\ DOMAIN place = Clients \cup {Loop}
    BY DEF KInv, TypeOK
  <2>2. Len(wire) \in Nat
    BY <2>1
  <2> QED BY <2>1, <2>2, LoopAssumption
<1>1. CASE Handle
  <2>1. wire' = Tail(wire) /\ UNCHANGED <<service, place>> /\ service
    BY <1>1 DEF Handle, NothingHeld
  <2>2. Len(wire') = Len(wire) - 1 /\ Len(wire) # 0 /\ \A i \in 1..Len(wire') : wire'[i] = wire[i + 1]
    BY <1>0, <1>1, <2>1 DEF Handle
  <2>3. \A i \in 1..Len(wire') : i + 1 \in 1..Len(wire)
    BY <1>0, <2>2
  <2>4. OthersDoNotWait'
    BY <2>1, <2>2, <2>3 DEF OthersDoNotWait, Waiting
  <2>5. FirstIsLast'
    <3> SUFFICES ASSUME NEW w \in Clients, place'[w] = "subscribe",
                        NEW i \in 1..Len(wire'), wire'[i].by = w,
                        NEW j \in 1..Len(wire'), i <= j
                 PROVE  wire'[j].op = "subscribe"
      BY DEF FirstIsLast
    <3>1. wire[i + 1].by = w /\ place[w] = "subscribe" /\ i + 1 <= j + 1
      BY <1>0, <2>1, <2>2
    <3>2. wire[j + 1].op = "subscribe"
      BY <2>3, <3>1 DEF FirstIsLast
    <3> QED BY <2>2, <3>2
  <2> QED BY <2>1, <2>4, <2>5 DEF NothingHeld
<1>2. CASE Vanish
  BY <1>2 DEF Vanish, NothingHeld, OthersDoNotWait, FirstIsLast, Waiting
<1>3. CASE Appear
  BY <1>3 DEF Appear, NothingHeld, OthersDoNotWait, FirstIsLast, Waiting
<1>4. CASE Notice
  BY <1>4 DEF Notice, NothingHeld, OthersDoNotWait, FirstIsLast, Waiting
<1>5. CASE CallFails
  BY <1>5 DEF CallFails, NothingHeld, OthersDoNotWait, FirstIsLast, Waiting
<1>6. CASE Reconnect
  <2>1. PICK n \in 0..Len(wire) : \E pick \in InOrder(n) :
          wire' = IF Renews /\ service THEN Append(Through(pick), Sub(Loop))
                                    ELSE Through(pick)
    BY <1>6 DEF Reconnect
  <2>2. PICK pick \in InOrder(n) :
          wire' = IF Renews /\ service THEN Append(Through(pick), Sub(Loop))
                                    ELSE Through(pick)
    BY <2>1
  <2>3. \A w \in Clients : place'[w] = place[w]
    BY <1>0, <1>6 DEF Reconnect
  <2>4. n \in Nat /\ Len(Through(pick)) = n /\ \A i \in 1..n : Through(pick)[i] = wire[pick[i]]
    BY <1>0 DEF InOrder, Through
  <2>5. Through(pick) \in Seq(Messages)
    BY <1>0, ThroughType
  <2>6. \/ Len(wire') = n /\ \A i \in 1..n : wire'[i] = wire[pick[i]]
        \/ Len(wire') = n + 1 /\ wire'[n + 1] = Sub(Loop) /\ \A i \in 1..n : wire'[i] = wire[pick[i]]
    <3> DEFINE some == Through(pick)
    <3> HIDE DEF some
    <3>1. some \in Seq(Messages) /\ Len(some) = n /\ \A i \in 1..n : some[i] = wire[pick[i]]
      BY <2>4, <2>5 DEF some
    <3>2. wire' = some \/ wire' = Append(some, Sub(Loop))
      BY <2>2 DEF some
    <3> QED BY <2>4, <3>1, <3>2
  <2>7. Sub(Loop).by = Loop /\ Sub(Loop).op = "subscribe"
    BY DEF Sub
  <2>8. \A i \in 1..Len(wire') : (i \in 1..n /\ wire'[i] = wire[pick[i]]) \/ wire'[i] = Sub(Loop)
    BY <2>4, <2>6
  <2>9. OthersDoNotWait'
    <3> SUFFICES ASSUME NEW w \in Clients, place'[w] \in {"away", "served"}, NEW i \in 1..Len(wire')
                 PROVE  wire'[i].by # w
      BY DEF OthersDoNotWait, Waiting
    <3>1. ~Waiting(w)
      BY <2>3 DEF OthersDoNotWait
    <3> QED BY <1>0, <2>7, <2>8, <3>1, PickIsOrdered DEF Waiting
  <2>10. FirstIsLast'
    <3> SUFFICES ASSUME NEW w \in Clients, place'[w] = "subscribe",
                        NEW i \in 1..Len(wire'), wire'[i].by = w,
                        NEW j \in 1..Len(wire'), i <= j, wire'[j] # Sub(Loop)
                 PROVE  wire'[j].op = "subscribe"
      BY <2>7 DEF FirstIsLast
    <3>1. i \in 1..n /\ wire'[i] = wire[pick[i]] /\ j \in 1..n /\ wire'[j] = wire[pick[j]]
      BY <1>0, <2>7, <2>8
    <3>2. pick[i] \in 1..Len(wire) /\ pick[j] \in 1..Len(wire)
      BY <1>0, <3>1, PickIsOrdered
    <3>3. i = j \/ i < j
      BY <2>4, <3>1
    <3>4. pick[i] <= pick[j]
      BY <1>0, <3>1, <3>2, <3>3, PickIsOrdered
    <3> QED BY <2>3, <3>1, <3>2, <3>4 DEF FirstIsLast
  <2>11. NothingHeld'
    <3> SUFFICES ASSUME ~service PROVE tokens' = 0 /\ wire' = <<>>
      BY <1>6 DEF Reconnect, NothingHeld
    <3>1. tokens = 0 /\ wire = <<>> /\ n = 0
      BY <1>0 DEF NothingHeld
    <3>2. wire' = Through(pick)
      BY <2>2
    <3> QED BY <1>6, <2>4, <2>5, <3>1, <3>2 DEF Reconnect
  <2> QED BY <2>9, <2>10, <2>11
<1>7. CASE Renewed
  <2>1. UNCHANGED <<service, tokens, wire>> /\ \A w \in Clients : place'[w] = place[w]
    BY <1>0, <1>7 DEF Renewed
  <2> QED BY <2>1 DEF NothingHeld, OthersDoNotWait, FirstIsLast, Waiting
<1>8. ASSUME NEW w \in Clients, Join(w) PROVE Kept'
  <2>1. UNCHANGED <<service, tokens>> /\ place[w] = "away" /\ clients' = clients \cup {w}
        /\ \A x \in Clients : x # w => place'[x] = place[x]
    BY <1>0, <1>8 DEF Join
  <2>2. CASE clients' # {w}
    <3>1. UNCHANGED wire /\ place'[w] = "served"
      BY <1>0, <1>8, <2>2 DEF Join
    <3> QED BY <2>1, <3>1 DEF NothingHeld, OthersDoNotWait, FirstIsLast, Waiting
  <2>3. CASE clients' = {w} /\ ~service
    <3>1. wire' = <<>> /\ tokens' = 0
      BY <1>8, <2>1, <2>3 DEF Join, Subscribe, Send, NothingHeld
    <3> QED BY <3>1 DEF NothingHeld, OthersDoNotWait, FirstIsLast, Waiting
  <2>4. CASE clients' = {w} /\ service
    <3>1. wire' = Append(wire, Sub(w)) /\ place'[w] = "subscribe"
      BY <1>0, <1>8, <2>4 DEF Join, Subscribe, Send
    <3>2. Len(wire') = Len(wire) + 1 /\ \A i \in 1..Len(wire) : wire'[i] = wire[i]
      BY <1>0, <3>1
    <3>3. wire'[Len(wire) + 1].by = w /\ wire'[Len(wire) + 1].op = "subscribe"
      BY <1>0, <3>1 DEF Sub
    <3>4. \A i \in 1..Len(wire') : i \in 1..Len(wire) \/ i = Len(wire) + 1
      BY <1>0, <3>2
    <3>5. ~Waiting(w)
      BY <2>1 DEF OthersDoNotWait
    <3>6. \A x \in Clients : x # w => place[x] # "subscribe"
      BY <2>1, <2>4, <1>0 DEF KInv, ClientsAreThere
    <3>7. OthersDoNotWait'
      BY <2>1, <3>1, <3>2, <3>3, <3>4 DEF OthersDoNotWait, Waiting
    <3>8. FirstIsLast'
      <4> SUFFICES ASSUME NEW x \in Clients, place'[x] = "subscribe",
                          NEW i \in 1..Len(wire'), wire'[i].by = x,
                          NEW j \in 1..Len(wire'), i <= j
                   PROVE  wire'[j].op = "subscribe"
        BY DEF FirstIsLast
      <4>1. x = w
        BY <2>1, <3>6
      <4>2. i = Len(wire) + 1
        BY <3>2, <3>4, <3>5, <4>1 DEF Waiting
      <4>3. j = Len(wire) + 1
        BY <1>0, <3>2, <4>2
      <4> QED BY <3>3, <4>3
    <3> QED BY <2>1, <2>4, <3>7, <3>8 DEF NothingHeld
  <2> QED BY <2>2, <2>3, <2>4
<1>9. ASSUME NEW w \in Clients, Subscribed(w) PROVE Kept'
  <2>1. UNCHANGED <<service, tokens, wire>> /\ ~Waiting(w) /\ place'[w] = "served"
        /\ \A x \in Clients : x # w => place'[x] = place[x]
    BY <1>0, <1>9 DEF Subscribed
  <2> QED BY <2>1 DEF NothingHeld, OthersDoNotWait, FirstIsLast, Waiting
<1>10. ASSUME NEW w \in Clients, Leave(w) PROVE Kept'
  <2>1. UNCHANGED <<service, tokens>> /\ place[w] = "served" /\ clients' = clients \ {w}
        /\ \A x \in Clients : x # w => place'[x] = place[x]
    BY <1>0, <1>10 DEF Leave
  <2>2. CASE clients' # {}
    <3>1. UNCHANGED wire /\ place'[w] = "away"
      BY <1>0, <1>10, <2>2 DEF Leave
    <3> QED BY <2>1, <3>1 DEF NothingHeld, OthersDoNotWait, FirstIsLast, Waiting
  <2>3. CASE clients' = {} /\ ~service
    <3>1. wire' = <<>> /\ tokens' = 0
      BY <1>10, <2>1, <2>3 DEF Leave, Send, NothingHeld
    <3> QED BY <3>1 DEF NothingHeld, OthersDoNotWait, FirstIsLast, Waiting
  <2>4. CASE clients' = {} /\ service
    <3>1. wire' = Append(wire, Unsub(w)) /\ place'[w] = "unsubscribe"
      BY <1>0, <1>10, <2>4 DEF Leave, Send
    <3>2. Len(wire') = Len(wire) + 1 /\ \A i \in 1..Len(wire) : wire'[i] = wire[i]
      BY <1>0, <3>1
    <3>3. wire'[Len(wire) + 1].by = w
      BY <1>0, <3>1 DEF Unsub
    <3>4. \A i \in 1..Len(wire') : i \in 1..Len(wire) \/ i = Len(wire) + 1
      BY <1>0, <3>2
    <3>5. \A x \in Clients : x # w => place[x] # "subscribe"
      BY <2>1, <2>4, <1>0 DEF KInv, ClientsAreThere
    <3>6. OthersDoNotWait'
      BY <2>1, <3>1, <3>2, <3>3, <3>4 DEF OthersDoNotWait, Waiting
    <3>7. FirstIsLast'
      BY <2>1, <3>1, <3>5 DEF FirstIsLast
    <3> QED BY <2>1, <2>4, <3>6, <3>7 DEF NothingHeld
  <2> QED BY <2>2, <2>3, <2>4
<1>11. ASSUME NEW w \in Clients, Unsubscribed(w) PROVE Kept'
  <2>1. UNCHANGED <<service, tokens, wire>> /\ ~Waiting(w) /\ place'[w] = "away"
        /\ \A x \in Clients : x # w => place'[x] = place[x]
    BY <1>0, <1>11 DEF Unsubscribed
  <2> QED BY <2>1 DEF NothingHeld, OthersDoNotWait, FirstIsLast, Waiting
<1>12. CASE UNCHANGED vars
  BY <1>12 DEF vars, NothingHeld, OthersDoNotWait, FirstIsLast, Waiting
<1>13. CASE Ask
  <2>1. UNCHANGED <<service, tokens, wire>> /\ \A w \in Clients : place'[w] = place[w]
    BY <1>0, <1>13 DEF Ask
  <2> QED BY <2>1 DEF NothingHeld, OthersDoNotWait, FirstIsLast, Waiting
<1> QED BY <1>1, <1>2, <1>3, <1>4, <1>5, <1>6, <1>7, <1>8, <1>9, <1>10, <1>11, <1>12, <1>13 DEF Next

\* How the numbers change that bound each other.
LEMMA BoundedNumbers ==
  ASSUME NEW after \in Nat, NEW coming \in Nat, NEW past \in Nat,
         NEW here \in {0, 1}, NEW awaited \in {0, 1},
         after <= coming, Bounded(after, coming, past, here, awaited)
  PROVE  /\ \A c \in Nat : c <= coming => Bounded(after, c, past, here, awaited)
         /\ \A c \in Nat : after = coming /\ c <= coming => Bounded(after, c, past, here, 0)
         /\ \A p \in Nat : past <= p => Bounded(after, coming, p, here, awaited)
         /\ here = 0 /\ awaited = 0 => Bounded(after + 1, coming + 1, past, 1, 1)
         /\ \A a \in Nat : awaited = 0 /\ here = 1 /\ (a = 0 \/ a = after - 1)
              => Bounded(a, coming, past, 0, 0)
BY DEF Bounded

\* A new connection may add a subscription to all that may come.
LEMMA RenewalIsBounded ==
  ASSUME NEW after \in Nat, NEW coming \in Nat, NEW past \in Nat,
         NEW here \in {0, 1}, NEW awaited \in {0, 1},
         Bounded(after, coming, past, here, awaited),
         NEW a \in Nat, NEW c \in Nat, NEW p \in Nat, NEW w \in {0, 1},
         a <= c, c <= coming + here, past + 1 <= p
  PROVE  Bounded(a, c, p, here, w)
BY DEF Bounded

\* Nothing is left behind when there is nothing.
LEMMA NothingLeft ==
  ASSUME NEW past \in Nat, NEW here \in {0, 1}, NEW awaited \in {0, 1}
  PROVE  Bounded(0, 0, past, here, awaited)
BY DEF Bounded

\* Sending and handling change the subscriptions that may come.
LEMMA ComingChanges ==
  ASSUME NEW count \in Nat, NEW calls \in Seq(Messages)
  PROVE  /\ Coming(count, calls) \in Nat
         /\ \A w \in Clients \cup {Loop} :
              /\ Coming(count, Append(calls, Sub(w))) = Coming(count, calls) + 1
              /\ Coming(count, Append(calls, Unsub(w))) = Coming(count, calls)
         /\ calls # <<>> => Coming(Applied(count, Head(calls)), Tail(calls)) <= Coming(count, calls)
<1> DEFINE n == Cardinality(Subs(calls))
<1>1. n \in Nat
  BY SubsFinite
<1>2. ASSUME NEW w \in Clients \cup {Loop}
      PROVE  /\ Coming(count, Append(calls, Sub(w))) = Coming(count, calls) + 1
             /\ Coming(count, Append(calls, Unsub(w))) = Coming(count, calls)
  <2>1. Sub(w).op = "subscribe" /\ Unsub(w).op # "subscribe"
    BY DEF Sub, Unsub
  <2>2. Cardinality(Subs(Append(calls, Sub(w)))) = n + 1
    BY <2>1, CallsAreMessages, SubsAppend
  <2>3. Cardinality(Subs(Append(calls, Unsub(w)))) = n
    BY <1>1, <2>1, CallsAreMessages, SubsAppend
  <2> HIDE DEF n
  <2> QED BY <1>1, <2>2, <2>3 DEF Coming, n
<1>3. ASSUME calls # <<>>
      PROVE  Coming(Applied(count, Head(calls)), Tail(calls)) <= Coming(count, calls)
  <2> DEFINE m == Cardinality(Subs(Tail(calls)))
             next == Applied(count, Head(calls))
  <2>1. m = n - IF Head(calls).op = "subscribe" THEN 1 ELSE 0
    BY <1>3, SubsTail
  <2>2. m \in Nat
    <3>1. Tail(calls) \in Seq(Messages)
      BY <1>3
    <3> QED BY <3>1, SubsFinite
  <2>3. next <= count + IF Head(calls).op = "subscribe" THEN 1 ELSE 0
    BY DEF Applied
  <2>4. next \in Nat
    BY AppliedType
  <2>5. \A a, b, c, d \in Nat, e \in {0, 1} : a <= c + e /\ b = d - e => a + b <= c + d
    OBVIOUS
  <2> HIDE DEF m, n, next
  <2>6. next + m <= count + n
    BY <1>1, <2>1, <2>2, <2>3, <2>4, <2>5
  <2> QED BY <2>6 DEF Coming, m, n, next
<1>4. Coming(count, calls) \in Nat
  BY <1>1 DEF Coming
<1> QED BY <1>2, <1>3, <1>4

\* Only an outage adds to what is left behind, and at most two subscriptions:
\* coming and going adds none, and no call that is handled does.
LEMMA LeakStep ==
  ASSUME KInv, LInv, [Next]_vars
  PROVE  LeftBehind'
<1> DEFINE coming == Coming(tokens, wire)
<1>0. /\ tokens \in Nat /\ wire \in Seq(Messages) /\ outages \in Nat
      /\ clients \subseteq Clients /\ {connected, unread, gone} \subseteq BOOLEAN
      /\ DOMAIN place = Clients \cup {Loop} /\ Loop \notin Clients
  BY LoopAssumption DEF KInv, TypeOK
<1>1. /\ After \in Nat /\ coming \in Nat /\ Past \in Nat
      /\ Here \in {0, 1} /\ Awaited \in {0, 1} /\ After <= coming
  <2>1. After \in Nat /\ coming \in Nat /\ After <= coming
    BY <1>0, AfterType, ComingChanges, AtMostComing DEF After
  <2>2. Past \in Nat
    BY <1>0 DEF Past, KInv, AskedWhileDown, Unbroken
  <2> QED BY <2>1, <2>2 DEF Here, Awaited
<1>2. Bounded(After, coming, Past, Here, Awaited)
  BY DEF LInv, LeftBehind
<1>3. TypeOK'
  BY TypeStep DEF KInv
<1>4. tokens' \in Nat /\ wire' \in Seq(Messages)
  BY <1>3 DEF TypeOK
<1>5. After' \in Nat /\ coming' \in Nat /\ After' <= coming' /\ Here' \in {0, 1} /\ Awaited' \in {0, 1}
  <2>1. After' \in Nat /\ coming' \in Nat /\ After' <= coming'
    BY <1>4, AfterType, ComingChanges, AtMostComing DEF After
  <2> QED BY <2>1 DEF Here, Awaited
<1>6. SUFFICES Bounded(After', coming', Past', Here', Awaited')
  BY DEF LeftBehind
<1> DEFINE Kept == Bounded(After', coming', Past', Here', Awaited')
<1>7. ASSUME UNCHANGED <<tokens, wire, clients>>, FirstWaits' = FirstWaits,
             Past' \in Nat, Past <= Past'
      PROVE  Kept
  <2>1. After' = After /\ coming' = coming /\ Here' = Here /\ Awaited' = Awaited
    BY <1>7 DEF After, Here, Awaited
  <2> HIDE DEF coming
  <2>2. Bounded(After, coming, Past', Here, Awaited)
    BY <1>1, <1>2, <1>7, BoundedNumbers
  <2> QED BY <2>1, <2>2
<1>8. CASE Handle
  <2>1. wire # <<>> /\ wire' = Tail(wire) /\ tokens' = Applied(tokens, Head(wire))
        /\ UNCHANGED <<outages, connected, unread, gone, clients, place>>
    BY <1>8 DEF Handle
  <2>2. After' = After
    BY <1>0, <2>1, CountTail DEF After
  <2>3. Past' = Past /\ Here' = Here
    BY <2>1 DEF Past, Here
  <2>4. Len(wire') = Len(wire) - 1 /\ Len(wire) \in Nat /\ Len(wire) # 0
        /\ \A i \in 1..Len(wire') : wire'[i] = wire[i + 1]
    BY <1>0, <2>1
  <2>5. coming' <= coming
    BY <1>0, <2>1, ComingChanges
  <2>6. FirstWaits' => FirstWaits
    <3>1. \A i \in 1..Len(wire') : i + 1 \in 1..Len(wire)
      BY <2>4
    <3> QED BY <2>1, <2>4, <3>1 DEF FirstWaits, Waiting
  <2>7. CASE FirstWaits' = FirstWaits
    <3>1. Awaited' = Awaited
      BY <2>7 DEF Awaited
    <3> HIDE DEF coming
    <3>2. Bounded(After, coming', Past, Here, Awaited)
      BY <1>1, <1>2, <1>5, <2>5, BoundedNumbers
    <3> QED BY <2>2, <2>3, <3>1, <3>2
  <2>8. CASE FirstWaits /\ ~FirstWaits'
    <3>1. PICK w \in Clients : place[w] = "subscribe" /\ Waiting(w)
      BY <2>8 DEF FirstWaits
    <3>2. PICK i \in 1..Len(wire) : wire[i].by = w
      BY <3>1 DEF Waiting
    <3>3. i = 1
      <4> SUFFICES ASSUME i # 1 PROVE FALSE
        OBVIOUS
      <4>1. i - 1 \in 1..Len(wire') /\ wire'[i - 1] = wire[(i - 1) + 1] /\ (i - 1) + 1 = i
        BY <2>4
      <4>2. place'[w] = "subscribe" /\ Waiting(w)'
        BY <2>1, <3>1, <3>2, <4>1 DEF Waiting
      <4> QED BY <2>8, <4>2 DEF FirstWaits
    <3>4. \A j \in 1..Len(wire) : wire[j].op = "subscribe"
      <4>1. \A j \in 1..Len(wire) : i <= j => wire[j].op = "subscribe"
        BY <3>1, <3>2 DEF LInv, FirstIsLast
      <4> QED BY <2>4, <3>3, <4>1
    <3>5. After = coming
      BY <1>0, <3>4, AtMostComing DEF After
    <3>6. Awaited' = 0
      BY <2>8 DEF Awaited
    <3> HIDE DEF coming
    <3>7. Bounded(After, coming', Past, Here, 0)
      BY <1>1, <1>2, <1>5, <2>5, <3>5, BoundedNumbers
    <3> QED BY <2>2, <2>3, <3>6, <3>7
  <2>9. (FirstWaits' <=> FirstWaits) => FirstWaits' = FirstWaits
    BY DEF FirstWaits
  <2> QED BY <2>6, <2>7, <2>8, <2>9
<1>9. CASE Vanish
  <2>1. wire' = <<>> /\ tokens' = 0 /\ outages' = outages + 1 /\ unread' = TRUE
    BY <1>9 DEF Vanish
  <2>2. After' = 0
    BY <2>1, CountEmpty DEF After
  <2>3. coming' = 0
    <3>1. Subs(wire') = {}
      BY <2>1 DEF Subs
    <3> QED BY <2>1, <3>1, FS_EmptySet DEF Coming
  <2>4. Past' \in Nat
    BY <1>0, <1>9, <2>1 DEF Vanish, Past, KInv, AskedWhileDown, Unbroken
  <2> HIDE DEF coming
  <2> QED BY <1>5, <2>2, <2>3, <2>4, NothingLeft
<1>10. CASE Appear
  BY <1>1, <1>7, <1>10 DEF Appear, Past, FirstWaits, Waiting
<1>11. CASE Notice
  <2>1. Past' = Past
    BY <1>11 DEF Notice, Past
  <2> QED BY <1>1, <1>7, <1>11, <2>1 DEF Notice, FirstWaits, Waiting
<1>12. CASE CallFails
  <2>1. Past' \in Nat /\ Past <= Past'
    BY <1>0, <1>12 DEF CallFails, Past, KInv, AskedWhileDown
  <2> QED BY <1>7, <1>12, <2>1 DEF CallFails, FirstWaits, Waiting
<1>13. CASE Reconnect
  <2>1. tokens' = tokens /\ clients' = clients /\ Here' = Here
    BY <1>13 DEF Reconnect, Here
  <2>2. Past' \in Nat /\ Past + 1 <= Past'
    <3>1. ~connected /\ outages # 0 /\ (gone => outages >= 2)
      BY <1>13 DEF Reconnect, KInv, AskedWhileDown, Unbroken
    <3>2. connected' /\ ~gone' /\ outages' = outages /\ (~gone => ~unread')
      BY <1>13 DEF Reconnect
    <3>3. Past = outages - 1 - (IF gone THEN 1 ELSE 0)
      BY <3>1 DEF Past
    <3>4. Past' = IF ~unread' THEN outages ELSE outages - 1
      BY <1>0, <3>2 DEF Past
    <3>5. CASE gone
      BY <1>0, <3>1, <3>3, <3>4, <3>5
    <3>6. CASE ~gone
      BY <1>0, <3>1, <3>2, <3>3, <3>4, <3>6
    <3> QED BY <3>5, <3>6
  <2>3. PICK n \in 0..Len(wire) : \E pick \in InOrder(n) :
          wire' = IF Renews /\ service THEN Append(Through(pick), Sub(Loop))
                                    ELSE Through(pick)
    BY <1>13 DEF Reconnect
  <2>4. PICK pick \in InOrder(n) :
          wire' = IF Renews /\ service THEN Append(Through(pick), Sub(Loop))
                                    ELSE Through(pick)
    BY <2>3
  <2> DEFINE some == Coming(tokens, Through(pick))
  <2>5. Through(pick) \in Seq(Messages)
    BY <1>0, ThroughType
  <2>6. some \in Nat
    BY <1>0, <2>5, ComingChanges
  <2>7. some <= coming
    <3>1. Cardinality(Subs(Through(pick))) <= Cardinality(Subs(wire))
      BY <1>0, SubsThrough
    <3>2. Cardinality(Subs(Through(pick))) \in Nat /\ Cardinality(Subs(wire)) \in Nat
      BY <1>0, <2>5, SubsFinite
    <3>3. \A a, b, c \in Nat : b <= c => a + b <= a + c
      OBVIOUS
    <3> QED BY <1>0, <3>1, <3>2, <3>3 DEF Coming
  <2>8. coming' = some \/ coming' = some + Here
    <3>1. CASE clients = {}
      <4>1. coming' = some
        BY <2>1, <2>4, <3>1 DEF Renews
      <4> QED BY <2>6, <3>1, <4>1 DEF Here
    <3>2. CASE clients # {} /\ service
      <4>1. coming' = some + 1
        BY <1>0, <2>1, <2>4, <2>5, <3>2, ComingChanges DEF Renews
      <4> QED BY <3>2, <4>1 DEF Here
    <3>3. CASE ~service
      BY <2>1, <2>4, <3>3
    <3> QED BY <3>1, <3>2, <3>3
  <2> HIDE DEF some, coming
  <2>9. coming' <= coming + Here
    <3>1. \A a, b \in Nat, c \in {0, 1} : a <= b => a + c <= b + c /\ a <= b + c
      OBVIOUS
    <3> QED BY <1>1, <2>6, <2>7, <2>8, <3>1
  <2>10. Bounded(After', coming', Past', Here, Awaited')
    BY <1>1, <1>2, <1>5, <2>2, <2>9, RenewalIsBounded
  <2> QED BY <2>1, <2>10
<1>14. CASE Renewed
  <2>1. UNCHANGED <<tokens, wire, clients, outages, connected, unread, gone>>
        /\ \A w \in Clients : place'[w] = place[w]
    BY <1>0, <1>14 DEF Renewed
  <2>2. Past' = Past /\ FirstWaits' = FirstWaits
    BY <2>1 DEF Past, FirstWaits, Waiting
  <2>3. Past <= Past
    BY <1>1
  <2> QED BY <1>1, <1>7, <2>1, <2>2, <2>3
<1>15. ASSUME NEW w \in Clients, Join(w) PROVE Kept
  <2>1. UNCHANGED <<tokens, outages, connected, unread, gone>> /\ place[w] = "away"
        /\ clients' = clients \cup {w} /\ \A x \in Clients : x # w => place'[x] = place[x]
    BY <1>0, <1>15 DEF Join
  <2>2. Past' = Past /\ Here' = 1
    BY <2>1 DEF Past, Here
  <2>3. w \notin clients
    BY <2>1 DEF KInv, ClientsAreThere
  <2>4. CASE clients # {}
    <3>1. UNCHANGED wire /\ place'[w] = "served"
      BY <1>0, <1>15, <2>1, <2>3, <2>4 DEF Join
    <3>2. Awaited' = Awaited
      BY <2>1, <3>1 DEF Awaited, FirstWaits, Waiting
    <3>3. After' = After /\ coming' = coming /\ Here = 1
      BY <2>1, <2>4, <3>1 DEF After, Here
    <3> QED BY <1>2, <2>2, <3>2, <3>3
  <2>5. CASE clients = {} /\ ~service
    <3>1. wire' = <<>> /\ tokens' = 0
      BY <1>15, <2>1, <2>5 DEF Join, Subscribe, Send, LInv, NothingHeld
    <3>2. After' = 0
      BY <3>1, CountEmpty DEF After
    <3>3. coming' = 0
      <4>1. Subs(wire') = {}
        BY <3>1 DEF Subs
      <4> QED BY <3>1, <4>1, FS_EmptySet DEF Coming
    <3> HIDE DEF coming
    <3> QED BY <1>1, <1>5, <2>2, <3>2, <3>3, NothingLeft
  <2>6. CASE clients = {} /\ service
    <3>1. wire' = Append(wire, Sub(w)) /\ place'[w] = "subscribe" /\ Sub(w).by = w
      BY <1>0, <1>15, <2>1, <2>6 DEF Join, Subscribe, Send, Sub
    <3>2. After' = After + 1
      BY <1>0, <2>1, <3>1, CallsAreMessages, CountAppend, Effects, AfterType DEF After
    <3>3. coming' = coming + 1
      BY <1>0, <2>1, <3>1, ComingChanges
    <3>4. Awaited = 0 /\ Here = 0
      BY <2>6 DEF KInv, ClientsAreThere, FirstWaits, Awaited, Here
    <3>5. Awaited' = 1
      <4>1. Len(wire') \in 1..Len(wire') /\ wire'[Len(wire')] = Sub(w)
        BY <1>0, <3>1
      <4> QED BY <3>1, <4>1 DEF FirstWaits, Waiting, Awaited
    <3> HIDE DEF coming
    <3>6. Bounded(After + 1, coming + 1, Past, 1, 1)
      BY <1>1, <1>2, <3>4, BoundedNumbers
    <3> QED BY <2>2, <3>2, <3>3, <3>5, <3>6
  <2> QED BY <2>4, <2>5, <2>6
<1>16. ASSUME NEW w \in Clients, Subscribed(w) PROVE Kept
  <2>1. UNCHANGED <<tokens, wire, clients, outages, connected, unread, gone>> /\ ~Waiting(w)
        /\ place'[w] = "served" /\ \A x \in Clients : x # w => place'[x] = place[x]
    BY <1>0, <1>16 DEF Subscribed
  <2>2. Past' = Past /\ FirstWaits' = FirstWaits
    BY <2>1 DEF Past, FirstWaits, Waiting
  <2>3. Past <= Past
    BY <1>1
  <2> QED BY <1>1, <1>7, <2>1, <2>2, <2>3
<1>17. ASSUME NEW w \in Clients, Leave(w) PROVE Kept
  <2>1. UNCHANGED <<tokens, outages, connected, unread, gone>> /\ place[w] = "served"
        /\ clients' = clients \ {w} /\ \A x \in Clients : x # w => place'[x] = place[x]
    BY <1>0, <1>17 DEF Leave
  <2>2. Past' = Past /\ w \in clients /\ Here = 1
    BY <2>1 DEF Past, KInv, ClientsAreThere, Here
  <2>3. CASE clients' # {}
    <3>1. UNCHANGED wire /\ place'[w] = "away" /\ Here' = 1
      BY <1>0, <1>17, <2>3 DEF Leave, Here
    <3>2. Awaited' = Awaited
      BY <2>1, <3>1 DEF Awaited, FirstWaits, Waiting
    <3>3. After' = After /\ coming' = coming
      BY <2>1, <3>1 DEF After
    <3> QED BY <1>2, <2>2, <3>1, <3>2, <3>3
  <2>4. CASE clients' = {} /\ ~service
    <3>1. wire' = <<>> /\ tokens' = 0
      BY <1>17, <2>1, <2>4 DEF Leave, Send, LInv, NothingHeld
    <3>2. After' = 0
      BY <3>1, CountEmpty DEF After
    <3>3. coming' = 0
      <4>1. Subs(wire') = {}
        BY <3>1 DEF Subs
      <4> QED BY <3>1, <4>1, FS_EmptySet DEF Coming
    <3> HIDE DEF coming
    <3> QED BY <1>1, <1>5, <2>2, <3>2, <3>3, NothingLeft
  <2>5. CASE clients' = {} /\ service
    <3>1. wire' = Append(wire, Unsub(w)) /\ Here' = 0
      BY <1>0, <1>17, <2>5 DEF Leave, Send, Here
    <3>2. After' = 0 \/ After' = After - 1
      <4>1. After' = Applied(After, Unsub(w))
        BY <1>0, <2>1, <3>1, CallsAreMessages, CountAppend DEF After
      <4> QED BY <1>1, <4>1, Effects
    <3>3. coming' = coming
      BY <1>0, <2>1, <3>1, ComingChanges
    <3>4. Awaited = 0 /\ Awaited' = 0
      <4>1. \A x \in Clients : place[x] # "subscribe"
        BY <2>1, <2>5 DEF KInv, ClientsAreThere
      <4>2. place'[w] = "unsubscribe"
        BY <1>0, <1>17, <2>5 DEF Leave
      <4>3. \A x \in Clients : place'[x] # "subscribe"
        BY <2>1, <4>1, <4>2
      <4> QED BY <4>1, <4>3 DEF FirstWaits, Awaited
    <3> HIDE DEF coming
    <3>5. Bounded(After', coming, Past, 0, 0)
      BY <1>1, <1>2, <1>5, <2>2, <3>2, <3>4, BoundedNumbers
    <3> QED BY <2>2, <3>1, <3>3, <3>4, <3>5
  <2> QED BY <2>3, <2>4, <2>5
<1>18. ASSUME NEW w \in Clients, Unsubscribed(w) PROVE Kept
  <2>1. UNCHANGED <<tokens, wire, clients, outages, connected, unread, gone>> /\ place[w] = "unsubscribe"
        /\ place'[w] = "away" /\ \A x \in Clients : x # w => place'[x] = place[x]
    BY <1>0, <1>18 DEF Unsubscribed
  <2>2. Past' = Past /\ FirstWaits' = FirstWaits
    BY <2>1 DEF Past, FirstWaits, Waiting
  <2>3. Past <= Past
    BY <1>1
  <2> QED BY <1>1, <1>7, <2>1, <2>2, <2>3
<1>19. CASE UNCHANGED vars
  BY <1>1, <1>7, <1>19 DEF vars, Past, FirstWaits, Waiting
<1>20. CASE Ask
  <2>1. UNCHANGED <<tokens, wire, clients, outages, connected, unread>> /\ gone' = FALSE
        /\ \A w \in Clients : place'[w] = place[w]
    BY <1>0, <1>20 DEF Ask
  <2>2. Past' \in Nat /\ Past <= Past' /\ FirstWaits' = FirstWaits
    BY <1>0, <1>1, <2>1 DEF Past, FirstWaits, Waiting
  <2> QED BY <1>7, <2>1, <2>2
<1> QED BY <1>8, <1>9, <1>10, <1>11, <1>12, <1>13, <1>14, <1>15, <1>16, <1>17, <1>18, <1>19, <1>20 DEF Next

\* LInv is an invariant.
LEMMA LInvariance == Spec => []LInv
<1>1. Init => LInv
  <2> SUFFICES ASSUME Init PROVE LInv
    OBVIOUS
  <2>1. wire = <<>> /\ tokens = 0 /\ outages = 0 /\ connected /\ ~unread /\ ~gone
        /\ clients = {} /\ service
    BY DEF Init
  <2>2. After = 0
    BY <2>1, CountEmpty DEF After
  <2>3. Coming(tokens, wire) = 0
    <3>1. Subs(wire) = {}
      BY <2>1 DEF Subs
    <3> QED BY <2>1, <3>1, FS_EmptySet DEF Coming
  <2>4. Past = 0 /\ Here = 0 /\ Awaited \in {0, 1}
    BY <2>1 DEF Past, Here, Awaited
  <2>5. \A w : ~Waiting(w)
    BY <2>1 DEF Waiting
  <2>6. NothingHeld /\ OthersDoNotWait /\ FirstIsLast
    BY <2>1, <2>5 DEF NothingHeld, OthersDoNotWait, FirstIsLast, Waiting
  <2>7. LeftBehind
    BY <2>2, <2>3, <2>4, NothingLeft DEF LeftBehind
  <2> QED BY <2>6, <2>7 DEF LInv
<1>2. KInv /\ LInv /\ [Next]_vars => LInv'
  BY WaitStep, LeakStep DEF LInv
<1> QED BY <1>1, <1>2, KInvariance, PTL DEF Spec
---------------------------------------------------------------------------
(* The theorems.                                                           *)

\* Every variable keeps its type.
THEOREM TypeCorrect == Spec => []TypeOK
<1>1. KInv => TypeOK
  BY DEF KInv
<1> QED BY <1>1, KInvariance, PTL

\* Any number of clients that join and leave over a connection that lasts leave
\* one subscription while one is there, and none when none is
\* (websocket_server.py:115-119, :171-175).
THEOREM OneSubscription == Spec => []OneWhileConnected
<1>1. KInv => OneWhileConnected
  BY DEF KInv
<1> QED BY <1>1, KInvariance, PTL

\* After any number of outages the clients there are subscribed for, or will be
\* when signal-cli has handled what was sent, unless the last subscribeReceive found
\* nobody to subscribe to (dbus_client.py:178-183, :315-322).
THEOREM ClientsAreSubscribedFor == Spec => []NeverUnsubscribed
<1>1. KInv => NeverUnsubscribed
  BY DEF KInv
<1> QED BY <1>1, KInvariance, PTL

\* After any number of outages signal-cli holds, or will hold, at most two
\* subscriptions more per outage than clients need: one that connect() adds, one
\* whose unsubscription was lost (dbus_client.py:178-183).
THEOREM LeakBounded == Spec => []LeakIsBounded
<1>1. KInv /\ LInv => LeakIsBounded
  <2> SUFFICES ASSUME KInv, LInv PROVE LeakIsBounded
    OBVIOUS
  <2>1. After \in Nat /\ outages \in Nat /\ Here \in {0, 1}
    BY AfterType, LoopAssumption DEF KInv, TypeOK, After, Here
  <2>2. Past \in Int /\ Past <= outages
    BY <2>1 DEF Past
  <2>3. After <= 2 * Past + Here
    BY DEF LInv, LeftBehind, Bounded
  <2>4. \A a, p, o \in Int, h \in {0, 1} : a <= 2 * p + h /\ p <= o => a <= 2 * o + h
    OBVIOUS
  <2>5. After <= 2 * outages + Here
    BY <2>1, <2>2, <2>3, <2>4
  <2> QED BY <2>5 DEF LeakIsBounded, Here
<1> QED BY <1>1, KInvariance, LInvariance, PTL
=============================================================================
