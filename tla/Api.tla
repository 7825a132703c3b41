-------------------------------- MODULE Api --------------------------------
(***************************************************************************)
(* One request through WebSocket or POST /send: the dispatcher chooses the *)
(* handler, the handler prepares and makes its calls, and the endpoint     *)
(* turns what comes of them into a reply (src/swb/dispatch.py,             *)
(* src/swb/websocket_server.py, note_error of src/swb/dbus_client.py).     *)
(* Beside it, one signal on its way to the clients (src/swb/signals.py).   *)
(***************************************************************************)
EXTENDS Methods, AsyncApi

CONSTANTS MaxOutages,   \* bound: times that others take the link down
          MaxVariants,  \* bound: the variants of a method that are introspected
          OddKinds      \* bound: the values of the second odd parameter

ASSUME BoundsAssumption ==
    MaxOutages \in Nat /\ MaxVariants \in Nat /\ OddKinds \subseteq Kinds \cup {Missing}

VARIABLES
    connected, outages, \* the link, and how often others have taken it down
    channel,            \* "ws" or "http"
    method, params,     \* the request, each parameter of the method with its kind
    shape,              \* "object", or what params are instead
    variants,           \* the variants of the method as introspected
    place,              \* where the handler stands
    made,               \* the calls made, in order
    reply,              \* what the client gets, or "none" so far
    event               \* a signal that was emitted, [signal, args], or Quiet

requestVars == <<channel, method, shape, params, variants>>
linkVars == <<connected, outages>>
vars == <<linkVars, requestVars, place, made, reply, event>>

Quiet == [signal |-> "none", args |-> <<>>]

Init ==
    /\ connected = TRUE /\ outages = 0
    /\ channel = "none" /\ method = "none" /\ shape = "none" /\ params = <<>> /\ variants = <<>>
    /\ place = "idle"
    /\ made = <<>>
    /\ reply = "none"
    /\ event = Quiet
---------------------------------------------------------------------------
(* Requests and what signal-cli publishes of their methods.                *)

DBusType(name) == Type(IF name \in {"as", "ay", "ax"} THEN 1 ELSE 0,
                       [s |-> "s", b |-> "b", x |-> "x", i |-> "i", as |-> "s", ay |-> "y",
                        ax |-> "x"][name])

\* A call as a variant of the introspected method.
Variant(call) ==
    [i \in 1..Len(call.body) |->
        [name |-> call.body[i].param, type |-> DBusType(call.signature[i])]]

\* The variant for one recipient, which the dispatcher does not call.
ForOneRecipient(variant) ==
    [i \in DOMAIN variant |->
        IF variant[i].name = "recipients" THEN [name |-> "recipient", type |-> DBusType("s")]
        ELSE variant[i]]

Unnamed(variant) == [i \in DOMAIN variant |-> [name |-> "", type |-> variant[i].type]]

Overloads(m) ==
    LET called == {Variant(form.calls[1]) : form \in Range(Method[m])}
    IN  called \cup {ForOneRecipient(variant) : variant \in called}

\* External: signal-cli lists some variants in some order, with the names of their
\* arguments or without.  The methods of groups and identities belong to other
\* objects, which are not introspected.
Introspections(m) ==
    IF \E form \in Range(Method[m]) : Len(form.calls) > 1 THEN {<<>>}
    ELSE UNION {{list \in [1..n -> listed] : IsInjective(list)} :
                   n \in 1..MaxVariants,
                   listed \in {Overloads(m), {Unnamed(variant) : variant \in Overloads(m)}}}

Proper(arg, type) ==
    IF arg.conv = "files" THEN "files"
    ELSE [s |-> "text", as |-> "strings", x |-> "int", i |-> "int", ax |-> "ints",
          b |-> "bool", ay |-> "base64"][type]

\* The parameters of a form, all of them given and of the right kind.
ProperParams(m, form) ==
    LET given == UNION {{<<call, i>> : i \in DOMAIN call.body} : call \in Range(form.calls)}
    IN  [p \in ParamsOf(m) |->
            IF \E g \in given : g[1].body[g[2]].param = p
            THEN LET g == CHOOSE g \in given : g[1].body[g[2]].param = p
                 IN  Proper(g[1].body[g[2]], g[1].signature[g[2]])
            ELSE Missing]

\* External: requests with up to two odd parameters.
Requests(m) ==
    LET proper == {ProperParams(m, f) : f \in Range(Method[m])}
    IN  proper
          \cup {[r EXCEPT ![p] = k, ![q] = l] :
                   r \in proper, p \in ParamsOf(m), q \in ParamsOf(m),
                   k \in Kinds \cup {Missing}, l \in OddKinds}
---------------------------------------------------------------------------
(* Replies.                                                                *)

\* Mutant: every exception but an application error is a lost connection.
AllLoseLink(exc) == exc # "app"

\* note_error: a connection error, a transport error or timeout, an OSError.
LosesLink(exc) == exc \in {"connection", "lapse", "os"}

\* Mutant: /send replies as the WebSocket does.
ReplyAlike(exc) ==
    CASE exc \in {"app", "connection"} -> IF connected' THEN "error" ELSE "reconnecting"
      [] exc = "bad" -> "bad params"
      [] OTHER -> "closed"

\* The except clauses of the two endpoints.  An exception that they do not
\* catch ends the WebSocket handler, and is answered with 500 by aiohttp.
Reply(exc) ==
    IF channel' = "ws"
    THEN CASE exc \in {"app", "connection"} -> IF connected' THEN "error" ELSE "reconnecting"
           [] exc = "bad" -> "bad params"
           [] OTHER -> "closed"
    ELSE IF exc = "bad" THEN "400" ELSE "500"

Raise(exc) ==
    /\ connected' = IF LosesLink(exc) THEN FALSE ELSE connected
    /\ reply' = Reply(exc)
    /\ place' = "done"
    /\ UNCHANGED <<outages, made>>

Succeed ==
    /\ reply' = IF channel = "ws" THEN "result" ELSE "200"
    /\ place' = "done"
    /\ UNCHANGED <<linkVars, made>>

\* The next call is prepared, and made if that succeeds.
Make(call, outcomes) ==
    \/ /\ "ok" \in outcomes
       /\ made' = Append(made, call)
       /\ place' = "calling"
       /\ UNCHANGED <<linkVars, reply>>
    \/ \E exc \in outcomes \ {"ok"} : Raise(exc)

Calls == IF shape = "object" THEN Chosen(method, params).calls
         ELSE Method[method][Len(Method[method])].calls
---------------------------------------------------------------------------
(* Actions.                                                                *)

\* A request for one of the methods.
Receive(m) ==
    /\ place = "idle"
    /\ channel' \in {"ws", "http"}
    /\ method' = m
    /\ \/ shape' = "object" /\ params' \in Requests(m)
       \/ shape' \in {"array", "null"} /\ params' = [p \in ParamsOf(m) |-> Missing]
    /\ variants' \in Introspections(m)
    /\ LET call == Calls'[1]
       IN  Make(call, IF shape' = "object" THEN Preparation(call, params')
                      ELSE {WithoutObject(m, shape')})
    /\ UNCHANGED event

\* A request that is no JSON object, or names no method or an unknown one, is
\* refused, in words of its own.
ReceiveOther ==
    /\ place = "idle"
    /\ channel' \in {"ws", "http"}
    /\ Raise("bad")
    /\ UNCHANGED <<method, shape, params, variants, event>>

\* A call returns.  It may have found the object of the next one.
Return ==
    /\ place = "calling"
    /\ IF Len(made) = Len(Calls) THEN Succeed /\ UNCHANGED requestVars
       ELSE LET call == Calls[Len(made) + 1]
            IN  UNCHANGED requestVars /\ Make(call, Preparation(call, params))
    /\ UNCHANGED event

\* A call raises: an error of the application or the connection, or none from
\* DBus in time.
Fail ==
    /\ place = "calling"
    /\ UNCHANGED requestVars
    /\ \E exc \in {"app", "connection", "lapse"} : Raise(exc)
    /\ UNCHANGED event

\* The link, as others change it.
LinkDown ==
    /\ connected
    /\ outages < MaxOutages
    /\ connected' = FALSE
    /\ outages' = outages + 1
    /\ UNCHANGED <<requestVars, place, made, reply, event>>

LinkUp ==
    /\ ~connected
    /\ connected' = TRUE
    /\ UNCHANGED <<outages, requestVars, place, made, reply, event>>

Types == {Type(depth, leaf) : depth \in 0..2, leaf \in
              {"s", "o", "i", "x", "t", "y", "u", "b", "d", "v", "struct", "dict"}}

\* External: what signal-cli sends with the known signals.
KnownArgs == [
    MessageReceived |-> <<DBusType("x"), DBusType("s"), DBusType("ay"), DBusType("s"),
                          DBusType("as"), Type(1, "dict")>>,
    SyncMessageReceived |-> <<DBusType("x"), DBusType("s"), DBusType("s"), DBusType("ay"),
                              DBusType("s"), DBusType("as"), Type(0, "v")>>,
    ReceiptReceived |-> <<DBusType("x"), DBusType("s"), DBusType("s")>>]

\* External: the known signals, with as many of their arguments as may be, and
\* another with any.
Signals ==
    {[signal |-> "Other", args |-> args] : args \in {<<>>} \cup {<<t>> : t \in Types}
                                                       \cup {<<t, u>> : t \in Types, u \in Types}}
    \cup UNION {{[signal |-> name, args |-> SubSeq(KnownArgs[name], 1, n)] :
                     n \in 0..Len(KnownArgs[name])} : name \in DOMAIN KnownArgs}

Emit ==
    /\ place = "idle"
    /\ event' \in Signals
    /\ place' = "done"
    /\ UNCHANGED <<linkVars, requestVars, made, reply>>

Next ==
    \/ \E m \in MethodNames : Receive(m)
    \/ ReceiveOther \/ Return \/ Fail \/ LinkDown \/ LinkUp \/ Emit

Spec == Init /\ [][Next]_vars
---------------------------------------------------------------------------
(* Properties.                                                             *)

Refused == {"bad params", "400"}
Unexpected == {"closed", "500"}

TypeOK ==
    /\ connected \in BOOLEAN /\ outages \in 0..MaxOutages
    /\ channel \in {"none", "ws", "http"}
    /\ method \in MethodNames \cup {"none"}
    /\ shape \in {"none", "object", "array", "null"}
    /\ place \in {"idle", "calling", "done"}
    /\ reply \in {"none", "result", "error", "reconnecting", "200"} \cup Refused \cup Unexpected
    /\ reply # "none" => channel = IF reply \in {"200", "400", "500"} THEN "http" ELSE "ws"
    /\ Len(made) <= Len(IF method = "none" THEN <<>> ELSE Calls)

\* A client that is told "bad params" can correct its request and send it again:
\* signal-cli has been asked for the group or the identity, and for nothing else
\* (websocket_server.py:162, dispatch.py:300-343, :471-482).
RefusedIsUndone == reply \in Refused => Range(made) \subseteq {GroupLookup, IdentityLookup}

\* A request that is refused, or fails before its first call, leaves the link to
\* all others alone, unless it names an attachment that the operating system
\* refuses to look up (dispatch.py:187-192, types.py:45-54).
UnsentKeepsLink ==
    [][(reply' # reply /\ made' = <<>> /\ connected /\ ~connected')
          => "attachments" \in DOMAIN params' /\ params'["attachments"] = "unreachable"]_vars

\* Without a call to blame, a WebSocket handler ends without a reply, or /send
\* fails with 500, only for an infinite number, an attachment that cannot be looked
\* up, a value that DBus cannot carry, or params that are no object
\* (websocket_server.py:148-163, :215-221).
SilenceHasCause ==
    (reply \in Unexpected /\ made = <<>>) =>
        \/ shape # "object"
        \/ \E p \in DOMAIN params : params[p] \in {"infinity", "unreachable"}
        \/ \E i \in DOMAIN Calls[1].body : LET arg == Calls[1].body[i] IN
              ~Carries(Calls[1].signature[i], arg, params[arg.param])

\* The values that satisfy a published schema.
Satisfying(schema) ==
    CASE schema = Shape(0, "string") -> {"text", "base64", "digits"}
      [] schema = Shape(1, "string") -> ListsOfStrings
      [] schema = Shape(0, "base64") -> {"base64"}
      [] schema = Shape(0, "int64") -> {"int", "long"}
      [] schema = Shape(0, "integer") -> {"int", "long", "huge"}
      [] schema = Shape(1, "int64") -> {"ints"}
      [] schema = Shape(0, "boolean") -> {"bool"}

Valid(args) ==
    /\ shape = "object"
    /\ \A name \in Required(args) : params[name] # Missing
    /\ \A p \in DOMAIN params \ {args[i].name : i \in DOMAIN args} : params[p] = Missing
    /\ \A i \in DOMAIN args :
          params[args[i].name] \in Satisfying(Schema(args[i].type)) \cup {Missing}

\* Published arguments that the dispatcher does not read: one that goes by its
\* position, and one recipient where it wants several.
Foreign(args) ==
    \E i \in DOMAIN args :
        \/ args[i].name \in Range(Positional)
        \/ args[i].name = "recipient" /\ "recipients" \in DOMAIN params

\* Whichever variants signal-cli lists, a request that is valid as published in
\* /asyncapi.json reaches signal-cli, if no argument of the published variant is
\* foreign to the dispatcher, and but for what the schema does not say: the two
\* reactions need remove, attachments are files, and the seconds of
\* setExpirationTimer have 32 bits (asyncapi.py:52-53, :67-75, :133-156,
\* dispatch.py:198-459).
ValidIsAccepted ==
    (/\ variants # <<>> /\ place # "idle"
     /\ ~Foreign(Published(variants)) /\ Valid(Published(variants))) =>
        \/ made # <<>>
        \/ method \in {"sendMessageReaction", "sendGroupMessageReaction"}
              /\ params["remove"] = Missing
        \/ "attachments" \in DOMAIN params /\ params["attachments"] \in {"strings", "unreachable"}
        \/ method = "setExpirationTimer" /\ params["expiration"] \in {"long", "huge"}

\* Whatever the order in which signal-cli lists overloaded variants, the one with
\* most parameters is published (asyncapi.py:67-75).
WidestIsPublished ==
    variants # <<>> => \A i \in DOMAIN variants : Len(variants[i]) <= Len(Published(variants))

\* The types whose values look as their schema says.
Described(type) ==
    \/ type.depth = 0 /\ type.leaf \notin {"u", "d", "v"}
    \/ type.depth = 1 /\ type.leaf \notin {"u", "d", "v", "o", "dict"}

\* An event looks as published in /asyncapi.json, unless it is a known signal
\* with too few arguments, or another one with a type that the schema has no
\* words for (signals.py:37-73, asyncapi.py:10-42, :173-194, types.py:57-98).
EventsLookAsPublished ==
    event # Quiet =>
        LET known == event.signal \in DOMAIN KnownSignalSchemas
            fits == /\ known <=> Named(event.signal, event.args)
                    /\ Event(event.signal, event.args) = EventSchema(event.signal, event.args)
        IN  fits <=> IF known THEN Len(event.args) >= Len(Positions[event.signal])
                     ELSE \A i \in DOMAIN event.args : Described(event.args[i])
============================================================================
