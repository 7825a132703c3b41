------------------------------ MODULE AsyncApi ------------------------------
(***************************************************************************)
(* What /asyncapi.json publishes (src/swb/asyncapi.py), from the DBus      *)
(* introspection of the account object and the schema of a DBus type       *)
(* (src/swb/types.py); and how the events of src/swb/signals.py look,      *)
(* which it describes.                                                     *)
(***************************************************************************)
EXTENDS Naturals, Sequences, SequencesExt, Functions

(* A DBus type is how many arrays are around a leaf: ay is Type(1, "y").    *)
(* "struct" and "dict" stand for all structs and all dictionaries.          *)
Type(depth, leaf) == [depth |-> depth, leaf |-> leaf]

(* A JSON shape, likewise: how many arrays are around a class of values.    *)
(* The formats base64 and int64 are classes of their own.                   *)
Shape(depth, class) == [depth |-> depth, class |-> class]

\* Mutant: byte arrays stay lists of integers.
IsBytesNever(type) == FALSE
IsBytes(type) == type.leaf = "y" /\ type.depth > 0

(* dbus_to_native: bytes become a base64 string, structs lists, and a       *)
(* variant whatever is in it.                                               *)
Native(type) ==
    LET class == [s |-> "string", o |-> "string", i |-> "integer", x |-> "int64", t |-> "int64",
                  y |-> "integer", u |-> "integer", b |-> "boolean", d |-> "number",
                  v |-> "unknown"]
    IN  IF IsBytes(type) THEN Shape(type.depth - 1, "base64")
        ELSE IF type.leaf = "struct" THEN Shape(type.depth + 1, "any")
        ELSE IF type.leaf = "dict" THEN Shape(type.depth, "object")
        ELSE Shape(type.depth, class[type.leaf])

(* dbus_signature_to_json_schema: a type that is not listed is an object.   *)
Schema(type) ==
    LET class == [s |-> "string", i |-> "integer", x |-> "int64", b |-> "boolean",
                  y |-> "integer", t |-> "int64"]
    IN  CASE type = Type(1, "y") -> Shape(0, "base64")
          [] type.leaf \in DOMAIN class /\ type.depth <= 1 /\ type # Type(1, "y") ->
                 Shape(type.depth, class[type.leaf])
          [] type.leaf = "struct" /\ type.depth <= 1 -> Shape(type.depth + 1, "any")
          [] type = Type(0, "o") -> Shape(0, "string")
          [] OTHER -> Shape(0, "object")
---------------------------------------------------------------------------
(* Requests.  A variant of a method is the sequence of its introspected     *)
(* arguments [name, type]; the name may be empty.                           *)

(* _parse_method_args: an argument without a name goes by its position.     *)
Positional == <<"arg0", "arg1", "arg2", "arg3", "arg4", "arg5">>
ParseArgs(variant) ==
    [i \in DOMAIN variant |->
        [name |-> IF variant[i].name = "" THEN Positional[i] ELSE variant[i].name,
         type |-> variant[i].type]]

\* Mutant: the last variant is kept.
RegisterLast(existing, args) == args

(* _register_method: the variant with most parameters, the first of these.  *)
Register(existing, args) == IF Len(args) > Len(existing) THEN args ELSE existing

Registered(variants) ==
    LET kept[n \in 0..Len(variants)] ==
            IF n = 0 THEN <<>> ELSE Register(kept[n - 1], variants[n])
    IN  kept[Len(variants)]

(* What is published of the variants of a method.                           *)
Published(variants) == Registered([i \in DOMAIN variants |-> ParseArgs(variants[i])])

Optional == {"avatar", "members", "attachments", "stop", "remove", "familyName"}

Required(args) == {args[i].name : i \in 1..Len(args)} \ Optional

---------------------------------------------------------------------------
(* Events.  A known signal has named fields, all of them required.          *)

KnownSignalSchemas ==
    [MessageReceived |->
         [timestamp |-> Shape(0, "int64"), sender |-> Shape(0, "string"),
          groupId |-> Shape(0, "base64"), message |-> Shape(0, "string"),
          attachments |-> Shape(1, "string")],
     SyncMessageReceived |->
         [timestamp |-> Shape(0, "int64"), sender |-> Shape(0, "string"),
          destination |-> Shape(0, "string"), groupId |-> Shape(0, "base64"),
          message |-> Shape(0, "string"), attachments |-> Shape(1, "string")],
     ReceiptReceived |-> [timestamp |-> Shape(0, "int64"), sender |-> Shape(0, "string")]]

Positions == [
    MessageReceived |-> <<"timestamp", "sender", "groupId", "message", "attachments">>,
    SyncMessageReceived |-> <<"timestamp", "sender", "destination", "groupId", "message",
                              "attachments">>,
    ReceiptReceived |-> <<"timestamp", "sender">>]

(* serialize_signal: with too few arguments, a known signal is generic too. *)
Named(signal, args) == signal \in DOMAIN Positions /\ Len(args) >= Len(Positions[signal])

(* The shape of each named field, or of each element of args.               *)
Event(signal, args) ==
    IF Named(signal, args)
    THEN [name \in Range(Positions[signal]) |->
             Native(args[CHOOSE i \in DOMAIN Positions[signal] : Positions[signal][i] = name])]
    ELSE [i \in 1..Len(args) |-> Native(args[i])]

EventSchema(signal, args) ==
    IF signal \in DOMAIN KnownSignalSchemas
    THEN KnownSignalSchemas[signal]
    ELSE [i \in 1..Len(args) |-> Schema(args[i])]
=============================================================================
