------------------------------ MODULE Accounts ------------------------------
(***************************************************************************)
(* Which account a request is for, and an event is of: the choice of an    *)
(* object in connect(), the interface of an account                        *)
(* (src/swb/dbus_client.py), ?account= (src/swb/websocket_server.py) and   *)
(* the account of an event (src/swb/signals.py), while signal-cli restarts *)
(* in either mode and its accounts come and go.  Buses, calls in flight    *)
(* and clients are in SignalClient and Bridge.                             *)
(***************************************************************************)
EXTENDS Naturals, Sequences, SequencesExt

CONSTANTS Numbers,      \* the phone numbers, without the plus
          Unset,        \* no SIGNAL_ACCOUNT
          MaxRestarts,  \* bound: times that signal-cli stops
          MaxChanges    \* bound: accounts that come or go meanwhile

ASSUME BoundsAssumption ==
    Unset \notin Numbers /\ IsFiniteSet(Numbers) /\ {MaxRestarts, MaxChanges} \subseteq Nat

VARIABLES
    mode,               \* of signal-cli: gone, single- or multi-account
    exported,           \* its accounts, in the order of listAccounts
    restarts, changes,
    account,            \* config.account
    loop,               \* where the reconnect loop (first, _run's loop) stands
    connected,
    single, path,       \* of connect(): single_account_mode and object_path
    default,            \* the path of _signal_iface
    notice, fresh,      \* self.bus, the bus of connect(), heard of an outage
    disturbed,          \* signal-cli has changed since connect() began to look
    last                \* the last request or event

cliVars == <<mode, exported, restarts, changes>>
linkVars == <<loop, connected, single, path, default, notice, fresh>>
vars == <<cliVars, account, linkVars, disturbed, last>>

(* An account is written, and a path ends, with a prefix and a number.      *)
Root == <<"root", Unset>>
None == <<"none", Unset>>
Unbound == <<"unbound", Unset>>

Nothing == [what |-> "nothing", account |-> None, mode |-> "gone", by |-> Unset]

Init ==
    /\ mode = "gone" /\ exported = <<>>
    /\ restarts = 0 /\ changes = 0
    /\ account \in {None} \cup {<<"+", n>> : n \in Numbers}
    /\ loop = "wait" /\ connected = FALSE
    /\ single = FALSE /\ path = Root /\ default = Unbound
    /\ notice = FALSE /\ fresh = FALSE
    /\ disturbed = FALSE
    /\ last = Nothing
---------------------------------------------------------------------------
(* Names.                                                                  *)

\* "+" is replaced by "_".
ObjectPath(a) == <<IF a[1] = "+" THEN "_" ELSE a[1], a[2]>>

\* Mutants: the number goes without its plus, or as it is in the path.
PathToAccountKeeping(p) == p
PathToAccountBare(p) == IF p = Root THEN None ELSE <<"", p[2]>>

\* _path_to_account: the object of an account begins with "_".
PathToAccount(p) ==
    IF p = Root THEN None ELSE <<IF p[1] = "_" THEN "+" ELSE p[1], p[2]>>

\* External: the query of a URL, in which "+" stands for a blank.
Decoded(a) ==
    IF a = None THEN None
    ELSE <<CASE a[1] = "+" -> " " [] a[1] = "%2B" -> "+" [] OTHER -> a[1], a[2]>>

\* External: the objects of signal-cli, the root always and one per account.
Objects ==
    CASE mode = "gone" -> {}
      [] mode = "single" -> {Root}
      [] OTHER -> {Root} \cup {<<"_", n>> : n \in Range(exported)}
---------------------------------------------------------------------------
(* signal-cli, which is outside.                                           *)

Start ==
    /\ mode = "gone"
    /\ \/ mode' = "single" /\ exported' \in {<<n>> : n \in Numbers}
       \/ mode' = "multi" /\ exported' \in SetToAllKPermutations(Numbers)
    /\ UNCHANGED <<restarts, changes, account, linkVars, disturbed, last>>

\* The bus of a running connect() hears of it once its rules are registered.
Stop ==
    /\ mode # "gone"
    /\ restarts < MaxRestarts
    /\ restarts' = restarts + 1
    /\ mode' = "gone" /\ exported' = <<>>
    /\ notice' = (notice \/ default # Unbound)
    /\ fresh' = (fresh \/ loop = "matched")
    /\ disturbed' = TRUE
    /\ UNCHANGED <<changes, account, loop, connected, single, path, default, last>>

\* An account is exported, or no longer.
Change ==
    /\ mode = "multi"
    /\ changes < MaxChanges
    /\ changes' = changes + 1
    /\ \/ \E i \in 1..Len(exported) : exported' = RemoveAt(exported, i)
       \/ \E n \in Numbers \ Range(exported) : exported' = Append(exported, n)
    /\ disturbed' = TRUE
    /\ UNCHANGED <<mode, restarts, account, linkVars, last>>
---------------------------------------------------------------------------
(* connect().                                                              *)

OnConnectionLost == connected' = FALSE /\ loop' = IF loop = "none" THEN "wait" ELSE loop

connectOthers == <<cliVars, account, connected, default, notice, last>>

Attempt ==
    /\ loop = "wait"
    /\ loop' = "root"
    /\ fresh' = FALSE
    /\ disturbed' = FALSE
    /\ UNCHANGED <<connectOthers, single, path>>

\* Only the root of multi-account mode has SignalControl.
IntrospectRoot ==
    /\ loop = "root"
    /\ loop' = IF mode = "gone" THEN "wait" ELSE "control"
    /\ single' = (mode = "single")
    /\ UNCHANGED <<connectOthers, path, fresh, disturbed>>

\* Mutants: SIGNAL_ACCOUNT is not looked at; an account that is not exported yet
\* is replaced by the root.
SelectFirst == IF exported = <<>> THEN Root ELSE <<"_", Head(exported)>>
SelectOrRoot ==
    IF account # None /\ account[2] \in Range(exported) THEN ObjectPath(account) ELSE Root

\* _object_path_for and _autodiscover_object_path: the account asked for, or the
\* first, or the root if there is none.
Select ==
    IF account # None THEN ObjectPath(account)
    ELSE IF exported = <<>> THEN Root ELSE <<"_", Head(exported)>>

\* version() or listAccounts().  A restart in the other mode since makes either
\* fail, but a root with SignalControl has a version too.
Control ==
    /\ loop = "control"
    /\ \/ /\ IF single THEN mode # "gone" ELSE mode = "multi" /\ Select \in Objects
          /\ path' = IF single THEN Root ELSE Select
          /\ loop' = "account"
       \/ /\ IF single THEN mode # "single" ELSE mode # "multi" \/ Select \notin Objects
          /\ loop' = "wait"
          /\ UNCHANGED path
    /\ UNCHANGED <<connectOthers, single, fresh, disturbed>>

\* The chosen object is introspected.
Introspect ==
    /\ loop = "account"
    /\ loop' = IF path \in Objects THEN "match" ELSE "wait"
    /\ UNCHANGED <<connectOthers, single, path, fresh, disturbed>>

AddMatch ==
    /\ loop = "match"
    /\ loop' = "matched"
    /\ UNCHANGED <<connectOthers, single, path, fresh, disturbed>>

\* With clients there, the loop goes on to await subscribeReceive; not at start-up.
Adopt ==
    /\ loop = "matched"
    /\ loop' \in IF default = Unbound THEN {"none"} ELSE {"none", "resub"}
    /\ connected' = TRUE
    /\ default' = path
    /\ notice' = fresh
    /\ UNCHANGED <<cliVars, account, single, path, fresh, disturbed, last>>

\* connect() returns TRUE, also if the link has gone down meanwhile.
Resubscribed ==
    /\ loop = "resub"
    /\ loop' = "none"
    /\ UNCHANGED <<connectOthers, single, path, fresh, disturbed>>

\* _on_name_owner_changed: signal-cli has vanished.
Notice ==
    /\ notice
    /\ notice' = FALSE
    /\ OnConnectionLost
    /\ UNCHANGED <<cliVars, account, single, path, default, fresh, disturbed, last>>
---------------------------------------------------------------------------
(* Requests and events.                                                    *)

\* interface()
Interface(a) == IF a = None THEN default ELSE ObjectPath(a)

\* What becomes of a call to p, seen at its end: a blank is not allowed in a path;
\* any call may lapse, have an attachment that cannot be reached, or have been lost
\* with a bus that is given up by now.
Outcomes(p) ==
    {"transport"} \cup
        IF p # Root /\ p[1] = " " THEN {"bad params"}
        ELSE CASE p \notin Objects -> {"lost"}
               [] p = Root /\ mode = "multi" -> {"nobody", "error"}
               [] OTHER -> {"served", "error"}

\* Mutant: an error of the application is taken for a lost connection.
NoteErrorAlways(outcome) ==
    IF outcome \in {"lost", "transport", "error"} THEN OnConnectionLost
    ELSE UNCHANGED <<loop, connected>>

\* note_error: ServiceUnknown or UnknownObject, and TimeoutError or OSError.
NoteError(outcome) ==
    IF outcome \in {"lost", "transport"} THEN OnConnectionLost ELSE UNCHANGED <<loop, connected>>

\* A request, with ?account= as written or without.
Request(written) ==
    /\ default # Unbound
    /\ LET p == Interface(Decoded(written))
       IN  \E outcome \in Outcomes(p) :
              /\ last' = [what |-> outcome, account |-> written, mode |-> mode,
                          by |-> IF outcome # "served" THEN Unset
                                 ELSE IF p = Root THEN exported[1] ELSE p[2]]
              /\ NoteError(outcome)
    /\ UNCHANGED <<cliVars, account, single, path, default, notice, fresh, disturbed>>

\* External: how clients write accounts.
Written == {None} \cup ({"+", "%2B", "_", ""} \X Numbers)

\* signal-cli emits a signal from the object of an account.
Emit ==
    /\ default # Unbound
    /\ \E n \in Range(exported) :
          LET p == IF mode = "single" THEN Root ELSE <<"_", n>>
          IN  last' = [what |-> "event", account |-> PathToAccount(p), mode |-> mode, by |-> n]
    /\ UNCHANGED <<cliVars, account, linkVars, disturbed>>
---------------------------------------------------------------------------
ConnectStep ==
    Attempt \/ IntrospectRoot \/ Control \/ Introspect \/ AddMatch \/ Adopt \/ Resubscribed

Next ==
    \/ Start \/ Stop \/ Change
    \/ ConnectStep \/ Notice
    \/ \E written \in Written : Request(written)
    \/ Emit

Spec == Init /\ [][Next]_vars

\* The event loop runs what can go on.
FairSpec == Spec /\ WF_vars(ConnectStep) /\ WF_vars(Notice)
---------------------------------------------------------------------------
(* Properties.                                                             *)

TypeOK ==
    /\ mode \in {"gone", "single", "multi"}
    /\ Range(exported) \subseteq Numbers /\ IsInjective(exported)
    /\ restarts \in 0..MaxRestarts /\ changes \in 0..MaxChanges
    /\ account \in {None} \cup ({"+"} \X Numbers)
    /\ loop \in {"none", "wait", "root", "control", "account", "match", "matched", "resub"}
    /\ {connected, single, notice, fresh, disturbed} \subseteq BOOLEAN
    /\ {path, default} \subseteq {Root, Unbound} \cup ({"_"} \X Numbers)
    /\ last.account \in IF last.what = "event" THEN {None} \cup ({"+"} \X Numbers) ELSE Written
    /\ last.by \in Numbers \cup {Unset}

\* No request is carried out by another account than the one it names, nor, in
\* multi-account mode, by another than SIGNAL_ACCOUNT, also while signal-cli changes
\* its mode and its accounts (dbus_client.py:127-146, :296-307).
NeverAnotherAccount ==
    last.what = "served" =>
        IF last.account # None THEN last.by = last.account[2]
        ELSE last.mode = "multi" /\ account # None => last.by = account[2]

\* In multi-account mode every event names its account, so that ?account= finds the
\* account again; in single-account mode none does (signals.py:15-26, :87-89,
\* dbus_client.py:305).
EventsNameTheirAccount ==
    last.what = "event" =>
        IF last.mode = "single" THEN last.account = None
        ELSE last.account # None /\ ObjectPath(last.account) = <<"_", last.by>>

\* As long as signal-cli stays as connect() has found it, and keeps its accounts,
\* only a request takes the link down: one that names an account, or one that
\* lapses, has an attachment that cannot be reached or is from before connect()
\* (dbus_client.py:122-149, :274-282, dispatch.py:187-192).
DefaultKeepsLink ==
    [][connected /\ ~connected' /\ ~disturbed =>
          \E written \in Written :
             Request(written) /\ (written # None \/ last'.what = "transport")]_vars

\* SIGNAL_ACCOUNT becomes the default once signal-cli exports it for good, if
\* only later, or after single-account mode; but for a restart that connect()
\* overlooks, and takes the mode for the old one, and for a bridge stranded by an
\* outage while it renews the subscription (dbus_client.py:138-146, :178-185,
\* :256-272).
ConfiguredInTheEnd ==
    <>[](mode = "multi" /\ account # None /\ account[2] \in Range(exported))
        => \/ <>[](account # None /\ default = ObjectPath(account))
           \/ <>[](connected /\ single)
           \/ <>[](~connected /\ loop = "none")
============================================================================
