--------------------------- MODULE AccountsProofs ---------------------------
(***************************************************************************)
(* Requests and events are for the right account, for any phone numbers,   *)
(* restarts and changes of signal-cli.                                     *)
(***************************************************************************)
EXTENDS Accounts, FiniteSetTheorems, TLAPS

\* With SIGNAL_ACCOUNT, connect() chooses its object or the root, and nothing else.
ChoiceIsConfigured ==
    account # None =>
        /\ path \in {Root, ObjectPath(account)}
        /\ default \in {Unbound, Root, ObjectPath(account)}

AInv ==
    /\ account \in {None} \cup ({"+"} \X Numbers)
    /\ ChoiceIsConfigured
    /\ NeverAnotherAccount
    /\ EventsNameTheirAccount

\* The parts of a pair.
LEMMA Pair == ASSUME NEW q, NEW n PROVE <<q, n>>[1] = q /\ <<q, n>>[2] = n
OBVIOUS

\* Replacing the plus, and decoding, leave the number alone.
LEMMA SameNumber ==
  ASSUME NEW a
  PROVE  ObjectPath(a)[2] = a[2] /\ (a # None => Decoded(a)[2] = a[2])
<1>1. ObjectPath(a)[2] = a[2]
  <2> DEFINE q == IF a[1] = "+" THEN "_" ELSE a[1]
  <2>1. ObjectPath(a) = <<q, a[2]>>
    BY DEF ObjectPath
  <2> HIDE DEF q
  <2> QED BY <2>1, Pair
<1>2. ASSUME a # None PROVE Decoded(a)[2] = a[2]
  <2> DEFINE q == CASE a[1] = "+" -> " " [] a[1] = "%2B" -> "+" [] OTHER -> a[1]
  <2>1. Decoded(a) = <<q, a[2]>>
    BY <1>2 DEF Decoded
  <2> HIDE DEF q
  <2> QED BY <2>1, Pair
<1> QED BY <1>1, <1>2

\* What is written names the number of the object that is called.
LEMMA NamedObject ==
  ASSUME NEW written \in Written, written # None
  PROVE  /\ Interface(Decoded(written)) # Root
         /\ Interface(Decoded(written))[2] = written[2]
<1>1. written[2] \in Numbers
  BY DEF Written
<1>2. Decoded(written)[2] = written[2]
  BY SameNumber
<1>3. None[2] = Unset /\ Root[2] = Unset
  BY Pair DEF None, Root
<1>4. Decoded(written) # None
  BY <1>1, <1>2, <1>3, BoundsAssumption
<1>5. Interface(Decoded(written))[2] = Decoded(written)[2]
  BY <1>4, SameNumber DEF Interface
<1> QED
  BY <1>1, <1>2, <1>3, <1>5, BoundsAssumption

\* An event of an account carries the name that leads back to it.
LEMMA NameLeadsBack ==
  ASSUME NEW n
  PROVE  /\ PathToAccount(<<"_", n>>) = <<"+", n>>
         /\ PathToAccount(<<"_", n>>) # None
         /\ ObjectPath(PathToAccount(<<"_", n>>)) = <<"_", n>>
<1>1. PathToAccount(<<"_", n>>) = <<"+", n>>
  <2>1. <<"_", n>>[1] = "_" /\ <<"_", n>>[2] = n /\ Root[1] = "root"
    BY Pair DEF Root
  <2>2. <<"_", n>> # Root
    BY <2>1
  <2> QED
    BY <2>1, <2>2 DEF PathToAccount
<1>2. <<"+", n>>[1] = "+" /\ <<"+", n>>[2] = n /\ None[1] = "none"
  BY Pair DEF None
<1>3. <<"+", n>> # None
  BY <1>2
<1> QED
  BY <1>1, <1>2, <1>3 DEF ObjectPath

\* connect() chooses as it is told to.
LEMMA ConnectKeeps ==
  ASSUME AInv, ConnectStep \/ Notice
  PROVE  /\ account' = account /\ last' = last
         /\ ChoiceIsConfigured'
<1> USE DEF AInv, ChoiceIsConfigured, cliVars, connectOthers
<1>1. CASE Attempt
  BY <1>1 DEF Attempt
<1>2. CASE IntrospectRoot
  BY <1>2 DEF IntrospectRoot
<1>3. CASE Control
  <2>1. account' = account /\ last' = last /\ default' = default
    BY <1>3 DEF Control
  <2>2. path' = path \/ path' = Root \/ path' = Select
    BY <1>3 DEF Control
  <2>3. account # None => Select = ObjectPath(account)
    BY DEF Select
  <2> QED BY <2>1, <2>2, <2>3
<1>4. CASE Introspect
  BY <1>4 DEF Introspect
<1>5. CASE AddMatch
  BY <1>5 DEF AddMatch
<1>6. CASE Adopt
  BY <1>6 DEF Adopt
<1>7. CASE Resubscribed
  BY <1>7 DEF Resubscribed
<1>8. CASE Notice
  BY <1>8 DEF Notice
<1> QED
  BY <1>1, <1>2, <1>3, <1>4, <1>5, <1>6, <1>7, <1>8 DEF ConnectStep

\* A request is carried out by the account it is for.
LEMMA RequestKeeps ==
  ASSUME AInv, NEW written \in Written, Request(written)
  PROVE  NeverAnotherAccount' /\ EventsNameTheirAccount'
<1> DEFINE p == Interface(Decoded(written))
<1>1. PICK outcome \in Outcomes(p) :
        last' = [what |-> outcome, account |-> written, mode |-> mode,
                 by |-> IF outcome # "served" THEN Unset
                        ELSE IF p = Root THEN exported[1] ELSE p[2]]
  BY DEF Request
<1>2. outcome # "event"
  BY <1>1 DEF Outcomes
<1>3. account' = account /\ default # Unbound
  BY DEF Request
<1>4. CASE outcome # "served"
  BY <1>1, <1>2, <1>4 DEF NeverAnotherAccount, EventsNameTheirAccount
<1>5. CASE outcome = "served" /\ written # None
  <2>1. p # Root /\ p[2] = written[2]
    BY <1>5, NamedObject
  <2> QED
    BY <1>1, <1>2, <1>5, <2>1 DEF NeverAnotherAccount, EventsNameTheirAccount
<1>6. CASE outcome = "served" /\ written = None
  <2>1. p = default
    BY <1>6 DEF Interface, Decoded
  <2>2. SUFFICES ASSUME mode = "multi", account # None PROVE last'.by = account[2]
    BY <1>1, <1>2, <1>3, <1>6 DEF NeverAnotherAccount, EventsNameTheirAccount
  <2>3. p # Root
    BY <1>1, <1>6, <2>2 DEF Outcomes
  <2>4. p = ObjectPath(account)
    BY <1>3, <2>1, <2>2, <2>3 DEF AInv, ChoiceIsConfigured
  <2>5. p[2] = account[2]
    BY <2>4, SameNumber
  <2> QED
    BY <1>1, <1>6, <2>3, <2>5
<1> QED BY <1>4, <1>5, <1>6

\* The invariant holds at first, is kept by every step and is enough.
LEMMA Invariance ==
  /\ Init => AInv
  /\ AInv /\ [Next]_vars => AInv'
  /\ AInv => NeverAnotherAccount /\ EventsNameTheirAccount
<1>1. ASSUME Init PROVE AInv
  <2>1. account \in {None} \cup ({"+"} \X Numbers)
    BY <1>1 DEF Init
  <2>2. ChoiceIsConfigured
    BY <1>1 DEF Init, ChoiceIsConfigured
  <2>3. last.what = "nothing"
    BY <1>1 DEF Init, Nothing
  <2> QED
    BY <2>1, <2>2, <2>3 DEF AInv, NeverAnotherAccount, EventsNameTheirAccount
<1>2. ASSUME AInv, [Next]_vars PROVE AInv'
  <2>1. ASSUME account' = account, last' = last, ChoiceIsConfigured' PROVE AInv'
    BY <1>2, <2>1 DEF AInv, NeverAnotherAccount, EventsNameTheirAccount
  <2>2. CASE Start \/ Change
    <3>1. UNCHANGED <<account, last, path, default>>
      BY <2>2 DEF Start, Change, linkVars
    <3> QED
      BY <1>2, <2>1, <3>1 DEF AInv, ChoiceIsConfigured
  <2>3. CASE Stop
    <3>1. UNCHANGED <<account, last, path, default>>
      BY <2>3 DEF Stop
    <3> QED
      BY <1>2, <2>1, <3>1 DEF AInv, ChoiceIsConfigured
  <2>4. CASE ConnectStep \/ Notice
    BY <1>2, <2>1, <2>4, ConnectKeeps
  <2>5. ASSUME NEW written \in Written, Request(written) PROVE AInv'
    <3>1. UNCHANGED <<account, path, default>>
      BY <2>5 DEF Request
    <3>2. NeverAnotherAccount' /\ EventsNameTheirAccount'
      BY <1>2, <2>5, RequestKeeps
    <3> QED
      BY <1>2, <3>1, <3>2 DEF AInv, ChoiceIsConfigured
  <2>6. CASE Emit
    <3>1. UNCHANGED <<account, path, default>>
      BY <2>6 DEF Emit, linkVars
    <3>2. PICK n \in Range(exported) :
            last' = [what |-> "event",
                     account |-> PathToAccount(IF mode = "single" THEN Root ELSE <<"_", n>>),
                     mode |-> mode, by |-> n]
      BY <2>6 DEF Emit
    <3>3. last'.what = "event" /\ last'.mode = mode /\ last'.by = n
      BY <3>2
    <3>4. last'.account = PathToAccount(IF mode = "single" THEN Root ELSE <<"_", n>>)
      BY <3>2
    <3>5. NeverAnotherAccount'
      BY <3>3 DEF NeverAnotherAccount
    <3>6. EventsNameTheirAccount'
      <4>1. CASE mode = "single"
        BY <3>3, <3>4, <4>1 DEF EventsNameTheirAccount, PathToAccount
      <4>2. CASE mode # "single"
        <5>1. last'.account = PathToAccount(<<"_", n>>)
          BY <3>4, <4>2
        <5> QED
          BY <3>3, <4>2, <5>1, NameLeadsBack DEF EventsNameTheirAccount
      <4> QED BY <4>1, <4>2
    <3> QED
      BY <1>2, <3>1, <3>5, <3>6 DEF AInv, ChoiceIsConfigured
  <2>7. CASE UNCHANGED vars
    BY <1>2, <2>1, <2>7 DEF vars, linkVars, AInv, ChoiceIsConfigured
  <2> QED BY <1>2, <2>2, <2>3, <2>4, <2>5, <2>6, <2>7 DEF Next
<1>3. AInv => NeverAnotherAccount /\ EventsNameTheirAccount
  BY DEF AInv
<1> QED BY <1>1, <1>2, <1>3

\* No request is carried out by another account than the one it is for
\* (dbus_client.py:127-146, :296-307).
THEOREM RequestsReachTheirAccount == Spec => []NeverAnotherAccount
BY Invariance, PTL DEF Spec

\* The account of an event is the one that ?account= finds again
\* (signals.py:15-26, dbus_client.py:305).
THEOREM EventsAreRoutable == Spec => []EventsNameTheirAccount
BY Invariance, PTL DEF Spec
---------------------------------------------------------------------------
(* Types.                                                                  *)

Paths == {Root, Unbound} \cup ({"_"} \X Numbers)

\* signal-cli has a list of different accounts, of one in single-account mode.
AccountsOK ==
    /\ exported \in Seq(Numbers) /\ IsInjective(exported)
    /\ mode = "single" => Len(exported) = 1

ATypes == TypeOK /\ AccountsOK

\* A permutation of some numbers is a list of different numbers.
LEMMA PermutationsAreLists ==
  ASSUME NEW s \in SetToAllKPermutations(Numbers)
  PROVE  s \in Seq(Numbers) /\ IsInjective(s)
<1>1. PICK S \in SUBSET Numbers : s \in SetToSeqs(S)
  BY DEF SetToAllKPermutations
<1>2. Cardinality(S) \in Nat
  BY BoundsAssumption, FS_Subset, FS_CardinalityType
<1>3. s \in [1..Cardinality(S) -> S] /\ IsInjective(s)
  BY <1>1 DEF SetToSeqs, IsInjective
<1> QED BY <1>2, <1>3

\* An account that is new, or that goes, leaves a list of different accounts.
LEMMA ListChanges ==
  ASSUME NEW s \in Seq(Numbers), IsInjective(s)
  PROVE  /\ \A n \in Numbers \ Range(s) : Append(s, n) \in Seq(Numbers) /\ IsInjective(Append(s, n))
         /\ \A i \in 1..Len(s) : RemoveAt(s, i) \in Seq(Numbers) /\ IsInjective(RemoveAt(s, i))
<1>1. ASSUME NEW n \in Numbers \ Range(s)
      PROVE  Append(s, n) \in Seq(Numbers) /\ IsInjective(Append(s, n))
  <2>1. \A i \in 1..Len(s) : s[i] # n
    BY DEF Range
  <2> QED BY <2>1 DEF IsInjective
<1>2. ASSUME NEW i \in 1..Len(s)
      PROVE  RemoveAt(s, i) \in Seq(Numbers) /\ IsInjective(RemoveAt(s, i))
  <2> DEFINE before == SubSeq(s, 1, i - 1)
             after == SubSeq(s, i + 1, Len(s))
  <2>1. /\ before \in Seq(Numbers) /\ Len(before) = i - 1
        /\ \A k \in 1..(i - 1) : before[k] = s[k]
    OBVIOUS
  <2>2. /\ after \in Seq(Numbers) /\ Len(after) = Len(s) - i
        /\ \A k \in 1..(Len(s) - i) : after[k] = s[i + k]
    OBVIOUS
  <2> HIDE DEF before, after
  <2> DEFINE rest == before \o after
  <2>3. Len(s) \in Nat /\ i \in Nat /\ i >= 1 /\ i <= Len(s)
    OBVIOUS
  <2>4. rest \in Seq(Numbers) /\ Len(rest) = Len(s) - 1
    <3>1. before \in Seq(Numbers) /\ after \in Seq(Numbers)
      BY <2>1, <2>2
    <3>2. rest \in Seq(Numbers) /\ Len(rest) = Len(before) + Len(after)
      BY <3>1
    <3>3. Len(before) = i - 1 /\ Len(after) = Len(s) - i
      BY <2>1, <2>2
    <3> QED BY <2>3, <3>2, <3>3
  <2>5. ASSUME NEW k \in 1..(Len(s) - 1)
        PROVE  rest[k] = s[IF k < i THEN k ELSE k + 1]
    <3>1. CASE k < i
      <4>1. k \in 1..Len(before)
        BY <2>1, <2>3, <3>1
      <4>2. rest[k] = before[k]
        BY <2>1, <2>2, <4>1
      <4> QED BY <2>1, <2>3, <3>1, <4>2
    <3>2. CASE ~ (k < i)
      <4>1. k - Len(before) \in 1..Len(after) /\ k - Len(before) = k - (i - 1)
        BY <2>1, <2>2, <2>3, <3>2
      <4>2. rest[k] = after[k - Len(before)]
        BY <2>1, <2>2, <2>3, <3>2
      <4>3. after[k - (i - 1)] = s[i + (k - (i - 1))] /\ i + (k - (i - 1)) = k + 1
        BY <2>2, <2>3, <4>1
      <4> QED BY <3>2, <4>1, <4>2, <4>3
    <3> QED BY <3>1, <3>2
  <2> HIDE DEF rest
  <2>6. ASSUME NEW k \in 1..Len(rest), NEW m \in 1..Len(rest), rest[k] = rest[m] PROVE k = m
    <3> DEFINE at(j) == IF j < i THEN j ELSE j + 1
    <3>1. at(k) \in 1..Len(s) /\ at(m) \in 1..Len(s)
      BY <2>3, <2>4
    <3>2. rest[k] = s[at(k)] /\ rest[m] = s[at(m)]
      BY <2>4, <2>5
    <3>3. at(k) = at(m)
      <4> HIDE DEF at
      <4>1. DOMAIN s = 1..Len(s)
        OBVIOUS
      <4>2. s[at(k)] = s[at(m)]
        BY <2>6, <3>2
      <4> QED BY <3>1, <4>1, <4>2 DEF IsInjective
    <3> QED BY <2>3, <2>4, <3>3
  <2>7. DOMAIN rest = 1..Len(rest)
    BY <2>4
  <2>8. IsInjective(rest)
    BY <2>6, <2>7 DEF IsInjective
  <2> QED BY <2>4, <2>8 DEF RemoveAt, rest, before, after
<1> QED BY <1>1, <1>2

\* What connect() may choose is a path.
LEMMA SelectIsPath == ASSUME ATypes PROVE Select \in Paths
<1>1. CASE account # None
  <2>1. account \in {"+"} \X Numbers
    BY <1>1 DEF ATypes, TypeOK
  <2>2. account[1] = "+" /\ account[2] \in Numbers
    BY <2>1
  <2>3. ObjectPath(account) = <<"_", account[2]>>
    BY <2>2 DEF ObjectPath
  <2>4. <<"_", account[2]>> \in {"_"} \X Numbers
    BY <2>2
  <2> QED BY <1>1, <2>3, <2>4 DEF Select, Paths
<1>2. CASE account = None /\ exported = <<>>
  BY <1>2 DEF Select, Paths
<1>3. CASE account = None /\ exported # <<>>
  <2>1. Head(exported) \in Numbers
    BY <1>3 DEF ATypes, AccountsOK
  <2> QED BY <1>3, <2>1 DEF Select, Paths
<1> QED BY <1>1, <1>2, <1>3

\* Who answers a request is an account.
LEMMA ServedByAccount ==
  ASSUME ATypes, NEW p, "served" \in Outcomes(p)
  PROVE  IF p = Root THEN exported[1] \in Numbers ELSE p[2] \in Numbers
<1>1. p \in Objects /\ (p = Root => mode # "multi")
  BY DEF Outcomes
<1>2. CASE p = Root
  <2>1. mode = "single"
    BY <1>1, <1>2 DEF Objects, ATypes, TypeOK
  <2> QED BY <1>2, <2>1 DEF ATypes, AccountsOK
<1>3. CASE p # Root
  <2>1. PICK n \in Range(exported) : p = <<"_", n>>
    BY <1>1, <1>3 DEF Objects
  <2>2. n \in Numbers
    BY <2>1 DEF ATypes, TypeOK
  <2> QED BY <1>3, <2>1, <2>2
<1> QED BY <1>2, <1>3

\* The types are there at first.
LEMMA TypeInit == Init => ATypes
<1> SUFFICES ASSUME Init PROVE ATypes
  OBVIOUS
<1>1. exported \in Seq(Numbers) /\ IsInjective(exported) /\ Range(exported) \subseteq Numbers
  BY DEF Init, IsInjective, Range
<1>2. account \in {None} \cup ({"+"} \X Numbers)
  BY DEF Init
<1>3. last.what = "nothing" /\ last.account = None /\ last.by = Unset
  BY DEF Init, Nothing
<1>4. restarts \in 0..MaxRestarts /\ changes \in 0..MaxChanges
  BY BoundsAssumption DEF Init
<1> QED BY <1>1, <1>2, <1>3, <1>4 DEF Init, ATypes, TypeOK, AccountsOK, Written

\* Every step keeps them.
LEMMA TypeStep == ASSUME ATypes, [Next]_vars PROVE ATypes'
<1>1. TypeOK /\ AccountsOK
  BY DEF ATypes
<1>2. ASSUME exported' \in Seq(Numbers), IsInjective(exported')
      PROVE  Range(exported') \subseteq Numbers
  BY <1>2 DEF Range
<1>3. CASE Start
  <2>1. exported' \in Seq(Numbers) /\ IsInjective(exported')
        /\ (mode' = "single" => Len(exported') = 1) /\ mode' \in {"single", "multi"}
    <3>1. CASE mode' = "single" /\ exported' \in {<<n>> : n \in Numbers}
      <4>1. PICK n \in Numbers : exported' = <<n>>
        BY <3>1
      <4>2. exported' \in Seq(Numbers) /\ Len(exported') = 1 /\ DOMAIN exported' = {1}
        BY <4>1
      <4> QED BY <3>1, <4>2 DEF IsInjective
    <3>2. CASE mode' = "multi" /\ exported' \in SetToAllKPermutations(Numbers)
      BY <3>2, PermutationsAreLists
    <3> QED BY <1>3, <3>1, <3>2 DEF Start
  <2> QED BY <1>1, <1>2, <1>3, <2>1 DEF Start, linkVars, ATypes, TypeOK, AccountsOK
<1>4. CASE Stop
  <2>1. exported' \in Seq(Numbers) /\ IsInjective(exported')
    BY <1>4 DEF Stop, IsInjective
  <2>2. restarts' \in 0..MaxRestarts
    <3>1. restarts \in 0..MaxRestarts /\ MaxRestarts \in Nat
      BY <1>1, BoundsAssumption DEF TypeOK
    <3>2. restarts < MaxRestarts /\ restarts' = restarts + 1
      BY <1>4 DEF Stop
    <3> QED BY <3>1, <3>2
  <2>3. notice' \in BOOLEAN /\ fresh' \in BOOLEAN
    BY <1>1, <1>4 DEF Stop, TypeOK
  <2> QED BY <1>1, <1>2, <1>4, <2>1, <2>2, <2>3 DEF Stop, ATypes, TypeOK, AccountsOK
<1>5. CASE Change
  <2>1. exported' \in Seq(Numbers) /\ IsInjective(exported')
    BY <1>1, <1>5, ListChanges DEF Change, AccountsOK
  <2>2. changes' \in 0..MaxChanges
    <3>1. changes \in 0..MaxChanges /\ MaxChanges \in Nat
      BY <1>1, BoundsAssumption DEF TypeOK
    <3>2. changes < MaxChanges /\ changes' = changes + 1
      BY <1>5 DEF Change
    <3> QED BY <3>1, <3>2
  <2> QED BY <1>1, <1>2, <1>5, <2>1, <2>2 DEF Change, linkVars, ATypes, TypeOK, AccountsOK
<1> USE DEF cliVars, connectOthers
<1>6. CASE Attempt
  BY <1>1, <1>6 DEF Attempt, ATypes, TypeOK, AccountsOK
<1>7. CASE IntrospectRoot
  BY <1>1, <1>7 DEF IntrospectRoot, ATypes, TypeOK, AccountsOK
<1>8. CASE Control
  <2>1. path' \in Paths
    BY <1>1, <1>8, SelectIsPath DEF Control, Paths, TypeOK
  <2> QED BY <1>1, <1>8, <2>1 DEF Control, ATypes, TypeOK, AccountsOK, Paths
<1>9. CASE Introspect
  BY <1>1, <1>9 DEF Introspect, ATypes, TypeOK, AccountsOK
<1>10. CASE AddMatch
  BY <1>1, <1>10 DEF AddMatch, ATypes, TypeOK, AccountsOK
<1>11. CASE Adopt
  BY <1>1, <1>11 DEF Adopt, ATypes, TypeOK, AccountsOK
<1>12. CASE Notice
  BY <1>1, <1>12 DEF Notice, OnConnectionLost, ATypes, TypeOK, AccountsOK
<1>13. ASSUME NEW written \in Written, Request(written) PROVE ATypes'
  <2> DEFINE p == Interface(Decoded(written))
  <2>1. PICK outcome \in Outcomes(p) :
          /\ last' = [what |-> outcome, account |-> written, mode |-> mode,
                      by |-> IF outcome # "served" THEN Unset
                             ELSE IF p = Root THEN exported[1] ELSE p[2]]
          /\ NoteError(outcome)
    BY <1>13 DEF Request
  <2>2. outcome # "event"
    BY <2>1 DEF Outcomes
  <2>3. last'.by \in Numbers \cup {Unset}
    BY <2>1, ServedByAccount
  <2>4. last'.what = outcome /\ last'.account = written
    BY <2>1
  <2>5. connected' \in BOOLEAN
        /\ loop' \in {"none", "wait", "root", "control", "account", "match", "matched", "resub"}
    BY <1>1, <2>1 DEF NoteError, OnConnectionLost, TypeOK
  <2> QED BY <1>1, <1>13, <2>2, <2>3, <2>4, <2>5 DEF Request, ATypes, TypeOK, AccountsOK
<1>14. CASE Emit
  <2>1. PICK n \in Range(exported) :
          last' = [what |-> "event",
                   account |-> PathToAccount(IF mode = "single" THEN Root ELSE <<"_", n>>),
                   mode |-> mode, by |-> n]
    BY <1>14 DEF Emit
  <2>2. last'.what = "event" /\ last'.by = n /\ n \in Numbers
        /\ last'.account = PathToAccount(IF mode = "single" THEN Root ELSE <<"_", n>>)
    BY <1>1, <2>1 DEF TypeOK
  <2>3. last'.account \in {None} \cup ({"+"} \X Numbers)
    <3>1. PathToAccount(Root) = None
      BY DEF PathToAccount
    <3>2. PathToAccount(<<"_", n>>) = <<"+", n>>
      BY NameLeadsBack
    <3>3. <<"+", n>> \in {"+"} \X Numbers
      BY <2>2
    <3> QED BY <2>2, <3>1, <3>2, <3>3
  <2> QED BY <1>1, <1>14, <2>2, <2>3 DEF Emit, linkVars, ATypes, TypeOK, AccountsOK
<1>15. CASE Resubscribed
  BY <1>1, <1>15 DEF Resubscribed, ATypes, TypeOK, AccountsOK
<1>16. CASE UNCHANGED vars
  BY <1>1, <1>16 DEF vars, linkVars, ATypes, TypeOK, AccountsOK
<1> QED BY <1>3, <1>4, <1>5, <1>6, <1>7, <1>8, <1>9, <1>10, <1>11, <1>12, <1>13, <1>14, <1>15, <1>16
        DEF Next, ConnectStep

\* Every variable keeps its type; the accounts of signal-cli are a list of
\* different numbers.
THEOREM TypeCorrect == Spec => []TypeOK
<1>1. ATypes => TypeOK
  BY DEF ATypes
<1> QED BY <1>1, TypeInit, TypeStep, PTL DEF Spec
---------------------------------------------------------------------------
(* The default account and the link.                                       *)

\* While signal-cli stays as connect() has found it, the object that it looks at,
\* and then the default one, is there, and no outage has been heard of.
LinkInv ==
    /\ connected => loop \in {"none", "resub"}
    /\ fresh => disturbed
    /\ connected /\ notice => disturbed
    /\ ~disturbed =>
         /\ loop = "control" => mode # "gone"
         /\ loop \in {"account", "match", "matched"} => path \in Objects
         /\ connected => default \in Objects

\* It is kept by every step.
LEMMA LinkStep == ASSUME ATypes, LinkInv, [Next]_vars PROVE LinkInv'
<1> USE DEF cliVars, connectOthers
<1>0. {connected, single, notice, fresh, disturbed} \subseteq BOOLEAN
  BY DEF ATypes, TypeOK
<1>1. CASE Start
  <2>1. Objects = {}
    BY <1>1 DEF Start, Objects
  <2> QED BY <1>1, <2>1 DEF Start, linkVars, LinkInv
<1>2. CASE Stop
  BY <1>0, <1>2 DEF Stop, LinkInv
<1>3. CASE Change
  BY <1>3 DEF Change, linkVars, LinkInv
<1>4. CASE Attempt
  BY <1>4 DEF Attempt, LinkInv
<1>5. CASE IntrospectRoot
  BY <1>5 DEF IntrospectRoot, LinkInv
<1>6. CASE Control
  <2>1. Objects' = Objects
    BY <1>6 DEF Control, Objects
  <2>2. mode # "gone" => Root \in Objects
    BY DEF Objects
  <2> QED BY <1>6, <2>1, <2>2 DEF Control, LinkInv
<1>7. CASE Introspect
  <2>1. Objects' = Objects
    BY <1>7 DEF Introspect, Objects
  <2> QED BY <1>7, <2>1 DEF Introspect, LinkInv
<1>8. CASE AddMatch
  <2>1. Objects' = Objects
    BY <1>8 DEF AddMatch, Objects
  <2> QED BY <1>8, <2>1 DEF AddMatch, LinkInv
<1>9. CASE Adopt
  <2>1. Objects' = Objects
    BY <1>9 DEF Adopt, Objects
  <2> QED BY <1>9, <2>1 DEF Adopt, LinkInv
<1>10. CASE Notice
  <2>1. Objects' = Objects
    BY <1>10 DEF Notice, Objects
  <2> QED BY <1>10, <2>1 DEF Notice, OnConnectionLost, LinkInv
<1>11. ASSUME NEW written \in Written, Request(written) PROVE LinkInv'
  <2>1. Objects' = Objects
    BY <1>11 DEF Request, Objects
  <2>2. UNCHANGED <<loop, connected>> \/ OnConnectionLost
    BY <1>11 DEF Request, NoteError
  <2> QED BY <1>11, <2>1, <2>2 DEF Request, OnConnectionLost, LinkInv
<1>12. CASE Emit
  <2>1. Objects' = Objects
    BY <1>12 DEF Emit, Objects
  <2> QED BY <1>12, <2>1 DEF Emit, linkVars, LinkInv
<1>13. CASE Resubscribed
  <2>1. Objects' = Objects
    BY <1>13 DEF Resubscribed, Objects
  <2> QED BY <1>13, <2>1 DEF Resubscribed, LinkInv
<1>14. CASE UNCHANGED vars
  <2>1. Objects' = Objects
    BY <1>14 DEF vars, Objects
  <2> QED BY <1>14, <2>1 DEF vars, linkVars, LinkInv
<1> QED BY <1>1, <1>2, <1>3, <1>4, <1>5, <1>6, <1>7, <1>8, <1>9, <1>10, <1>11, <1>12, <1>13, <1>14
        DEF Next, ConnectStep

\* Only Notice, a transport error and a request for an object that is not there
\* end a connection.
LEMMA LinkEnds ==
  ASSUME ATypes, LinkInv, [Next]_vars, connected, ~connected', ~disturbed
  PROVE  \E written \in Written :
            Request(written) /\ (written # None \/ last'.what = "transport")
<1> USE DEF cliVars, connectOthers
<1>1. ASSUME Start \/ Stop \/ Change \/ Emit \/ UNCHANGED vars PROVE connected' = connected
  BY <1>1 DEF Start, Stop, Change, Emit, vars, linkVars
<1>2. ASSUME Attempt \/ IntrospectRoot \/ Control \/ Introspect \/ AddMatch \/ Resubscribed
      PROVE  connected' = connected
  BY <1>2 DEF Attempt, IntrospectRoot, Control, Introspect, AddMatch, Resubscribed
<1>3. ~ Adopt
  BY DEF Adopt
<1>4. ~ Notice
  BY DEF Notice, LinkInv
<1>5. ASSUME Request(None) PROVE last'.what = "transport"
  <2>1. Interface(Decoded(None)) = default
    BY DEF Interface, Decoded
  <2>2. default \in Objects
    BY DEF LinkInv
  <2>3. "lost" \notin Outcomes(default)
    BY <2>2 DEF Outcomes
  <2>4. PICK outcome \in Outcomes(default) : last'.what = outcome /\ NoteError(outcome)
    BY <1>5, <2>1 DEF Request
  <2>5. outcome \in {"lost", "transport"}
    BY <2>4 DEF NoteError
  <2> QED BY <2>3, <2>4, <2>5
<1>6. \E written \in Written : Request(written)
  BY <1>1, <1>2, <1>3, <1>4 DEF Next, ConnectStep
<1> QED BY <1>5, <1>6

\* As long as signal-cli stays as connect() has found it, only a request that
\* names an account, or one that lapses, has an attachment that cannot be reached
\* or is from before connect(), takes the link down (dbus_client.py:122-149,
\* :274-282, dispatch.py:187-192).
THEOREM DefaultIsSafe == Spec => DefaultKeepsLink
<1>1. Init => LinkInv
  BY DEF Init, LinkInv
<1>2. ATypes /\ LinkInv /\ [Next]_vars =>
        ATypes' /\ LinkInv'
        /\ [connected /\ ~connected' /\ ~disturbed =>
             \E written \in Written :
                Request(written) /\ (written # None \/ last'.what = "transport")]_vars
  BY TypeStep, LinkStep, LinkEnds
<1> QED BY <1>1, <1>2, TypeInit, PTL DEF Spec, DefaultKeepsLink
=============================================================================
