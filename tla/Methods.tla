------------------------------ MODULE Methods ------------------------------
(***************************************************************************)
(* The methods of MethodDispatcher (src/swb/dispatch.py): for each, the    *)
(* calls its handler makes, and in each call the DBus types it announces   *)
(* and the arguments it makes of the parameters with the conversions of    *)
(* src/swb/types.py.  A JSON value is a kind: what the conversions and     *)
(* DBus tell apart.                                                        *)
(***************************************************************************)
EXTENDS Naturals, Sequences, SequencesExt

(* Strings that are neither base64 nor a number, that are base64, and that  *)
(* are a number; integers of 32 bits, of 64 bits, and beyond; Infinity;     *)
(* lists of strings, some of which name readable files, or files that the   *)
(* operating system refuses to look up.                                     *)
Kinds == {"text", "base64", "digits", "int", "long", "huge", "infinity", "bool", "null",
          "strings", "files", "unreachable", "ints", "object"}
ListsOfStrings == {"strings", "files", "unreachable"}

(* A parameter the request does not have.                                   *)
Missing == "missing"
---------------------------------------------------------------------------
(* Arguments: params["p"] is needed, params.get("p", default) is not.       *)

Arg(conv, param, needed) == [conv |-> conv, param |-> param, needed |-> needed]
Raw(param) == Arg("raw", param, TRUE)
OptRaw(param) == Arg("raw", param, FALSE)
Bytes(param) == Arg("bytes", param, TRUE)
Int64(param) == Arg("int", param, TRUE)
Int64Array(param) == Arg("ints", param, TRUE)
Flag(param) == Arg("flag", param, TRUE)

\* Mutant: params["p"] where the code says params.get("p").
OptFlagNeeded(param) == Arg("flag", param, TRUE)
OptFlag(param) == Arg("flag", param, FALSE)
Attachments == Arg("files", "attachments", FALSE)

(* A handler chooses the first of its forms whose parameter is given; "" is *)
(* always given.  A form is the calls it makes, one after the other.        *)
Call(signature, body) == [signature |-> signature, body |-> body]
Form(given, calls) == [given |-> given, calls |-> calls]
Plain(signature, body) == <<Form("", <<Call(signature, body)>>)>>
Nothing == Plain(<<>>, <<>>)
OneString(param) == Plain(<<"s">>, <<Raw(param)>>)

Messaging == [
    sendMessage |-> Plain(<<"s", "as", "as">>, <<Raw("message"), Attachments, Raw("recipients")>>),
    sendNoteToSelfMessage |-> Plain(<<"s", "as">>, <<Raw("message"), Attachments>>),
    sendMessageReaction |-> Plain(<<"s", "b", "s", "x", "as">>,
        <<Raw("emoji"), Flag("remove"), Raw("targetAuthor"), Int64("targetSentTimestamp"),
          Raw("recipients")>>),
    sendReadReceipt |-> Plain(<<"s", "ax">>, <<Raw("recipient"), Int64Array("targetSentTimestamps")>>),
    sendViewedReceipt |-> Plain(<<"s", "ax">>, <<Raw("recipient"), Int64Array("targetSentTimestamps")>>),
    sendTyping |-> Plain(<<"s", "b">>, <<Raw("recipient"), OptFlag("stop")>>),
    sendRemoteDeleteMessage |-> Plain(<<"x", "as">>, <<Int64("targetSentTimestamp"), Raw("recipients")>>),
    sendEndSessionMessage |-> Plain(<<"as">>, <<Raw("recipients")>>),
    sendPaymentNotification |-> Plain(<<"ay", "s", "s">>, <<Bytes("receipt"), Raw("note"), Raw("recipient")>>)]

Groups == [
    sendGroupMessage |-> Plain(<<"s", "as", "ay">>, <<Raw("message"), Attachments, Bytes("groupId")>>),
    sendGroupMessageReaction |-> Plain(<<"s", "b", "s", "x", "ay">>,
        <<Raw("emoji"), Flag("remove"), Raw("targetAuthor"), Int64("targetSentTimestamp"),
          Bytes("groupId")>>),
    sendGroupRemoteDeleteMessage |-> Plain(<<"x", "ay">>, <<Int64("targetSentTimestamp"), Bytes("groupId")>>),
    sendGroupTyping |-> Plain(<<"ay", "b">>, <<Bytes("groupId"), OptFlag("stop")>>),
    createGroup |-> Plain(<<"s", "as", "s">>, <<Raw("groupName"), OptRaw("members"), OptRaw("avatar")>>),
    listGroups |-> Nothing,
    getGroupMembers |-> Plain(<<"ay">>, <<Bytes("groupId")>>),
    joinGroup |-> OneString("inviteURI")]

(* getGroup and getIdentity.                                                *)
GroupLookup == Call(<<"ay">>, <<Bytes("groupId")>>)
IdentityLookup == Call(<<"s">>, <<Raw("number")>>)

\* Mutant: the group is looked up after the call.
InGroupAtOnce(signature, body) == <<Form("", <<Call(signature, body), GroupLookup>>)>>

(* First the object to call is looked up.                                   *)
InGroup(signature, body) == <<Form("", <<GroupLookup, Call(signature, body)>>)>>
OfIdentity(signature, body) == <<Form("", <<IdentityLookup, Call(signature, body)>>)>>

GroupManagement == [
    quitGroup |-> InGroup(<<>>, <<>>),
    addGroupMembers |-> InGroup(<<"as">>, <<Raw("recipients")>>),
    removeGroupMembers |-> InGroup(<<"as">>, <<Raw("recipients")>>),
    addGroupAdmins |-> InGroup(<<"as">>, <<Raw("recipients")>>),
    removeGroupAdmins |-> InGroup(<<"as">>, <<Raw("recipients")>>),
    enableGroupLink |-> InGroup(<<"b">>, <<Flag("requiresApproval")>>),
    disableGroupLink |-> InGroup(<<>>, <<>>),
    resetGroupLink |-> InGroup(<<>>, <<>>)]

Contacts == [
    getSelfNumber |-> Nothing,
    getContactName |-> OneString("number"),
    getContactNumber |-> OneString("name"),
    setContactName |-> Plain(<<"s", "s">>, <<Raw("number"), Raw("name")>>),
    isContactBlocked |-> OneString("number"),
    setContactBlocked |-> Plain(<<"s", "b">>, <<Raw("number"), Flag("block")>>),
    deleteContact |-> OneString("number"),
    deleteRecipient |-> OneString("number"),
    isRegistered |-> <<Form("numbers", <<Call(<<"as">>, <<Raw("numbers")>>)>>),
                       Form("number", <<Call(<<"s">>, <<Raw("number")>>)>>),
                       Form("", <<Call(<<>>, <<>>)>>)>>,
    listNumbers |-> Nothing,
    setExpirationTimer |-> Plain(<<"s", "i">>, <<Raw("number"), Int64("expiration")>>)]

Profile == [
    updateProfile |->
        <<Form("givenName", <<Call(<<"s", "s", "s", "s", "s", "b">>,
              <<Raw("givenName"), OptRaw("familyName"), OptRaw("about"), OptRaw("aboutEmoji"),
                OptRaw("avatar"), OptFlag("remove")>>)>>),
          Form("", <<Call(<<"s", "s", "s", "s", "b">>,
              <<Raw("name"), OptRaw("about"), OptRaw("aboutEmoji"), OptRaw("avatar"),
                OptFlag("remove")>>)>>)>>]

Devices == [
    addDevice |-> OneString("deviceUri"),
    listDevices |-> Nothing,
    sendContacts |-> Nothing,
    sendSyncRequest |-> Nothing,
    version |-> Nothing,
    submitRateLimitChallenge |-> Plain(<<"s", "s">>, <<Raw("challenge"), Raw("captcha")>>),
    uploadStickerPack |-> OneString("stickerPackPath")]

Identities == [
    listIdentities |-> Nothing,
    trustIdentity |-> OfIdentity(<<>>, <<>>),
    trustIdentityVerified |-> OfIdentity(<<"s">>, <<Raw("safetyNumber")>>)]

Tables == {Messaging, Groups, GroupManagement, Contacts, Profile, Devices, Identities}
Method == [m \in UNION {DOMAIN table : table \in Tables} |->
              (CHOOSE table \in Tables : m \in DOMAIN table)[m]]
MethodNames == DOMAIN Method
---------------------------------------------------------------------------
(* Conversions.  The outcome is "ok"; "bad", an exception that is answered  *)
(* with bad params; "dies", one that no except clause catches; or "os", an      *)
(* OSError, which is not caught either and counts as a lost connection.     *)

\* Mutant: a KeyError is not caught.
AbsentDies(arg) == IF arg.needed THEN "dies" ELSE "ok"

Absent(arg) == IF arg.needed THEN "bad" ELSE "ok"

(* A stat that fails is an OSError and int(inf) an OverflowError; a string  *)
(* of digits is a list of them; bool() and the raw value never fail.        *)
Conversion(arg, kind) ==
    IF kind = Missing THEN Absent(arg)
    ELSE CASE arg.conv = "files" -> IF kind = "files" THEN "ok"
                                    ELSE IF kind = "unreachable" THEN "os" ELSE "bad"
           [] arg.conv = "bytes" -> IF kind = "base64" THEN "ok" ELSE "bad"
           [] arg.conv = "ints" -> IF kind \in {"ints", "digits"} THEN "ok" ELSE "bad"
           [] arg.conv = "int" -> IF kind \in {"digits", "int", "long", "huge", "bool"} THEN "ok"
                                  ELSE IF kind = "infinity" THEN "dies" ELSE "bad"
           [] OTHER -> "ok"

(* Whether DBus can carry the converted argument as type.                   *)
Carries(type, arg, kind) ==
    IF kind = Missing THEN TRUE
    ELSE CASE arg.conv = "raw" -> kind \in (IF type = "s" THEN {"text", "base64", "digits"}
                                            ELSE ListsOfStrings)
           [] arg.conv = "int" -> kind # "huge" /\ (type = "i" => kind # "long")
           [] OTHER -> type = [files |-> "as", bytes |-> "ay", ints |-> "ax", flag |-> "b"][arg.conv]

(* What becomes of a call whose body DBus cannot carry: an error, of a kind *)
(* that is answered or not; but a string passes for a list of characters.   *)
Marshalling(type, arg, kind) ==
    IF Carries(type, arg, kind) THEN {"ok"}
    ELSE {"bad", "dies"} \cup (IF type = "as" /\ kind \in {"text", "base64", "digits"}
                               THEN {"ok"} ELSE {})

(* Attachments are validated before anything else is looked at.             *)
EvaluatedFirst(body, i, j) ==
    IF (body[i].conv = "files") = (body[j].conv = "files") THEN i <= j ELSE body[i].conv = "files"

(* The first conversion to fail decides; then the message is put together.  *)
Preparation(call, params) ==
    LET converted(i) == Conversion(call.body[i], params[call.body[i].param])
        failing == {i \in DOMAIN call.body : converted(i) # "ok"}
        carried == [i \in 1..Len(call.body) |->
                       Marshalling(call.signature[i], call.body[i], params[call.body[i].param])]
    IN  IF failing # {}
        THEN {converted(i) : i \in {i \in failing : \A j \in failing : EvaluatedFirst(call.body, i, j)}}
        ELSE {r \in {"ok", "bad", "dies"} :
                 IF r = "ok" THEN \A i \in DOMAIN carried : "ok" \in carried[i]
                 ELSE \E i \in DOMAIN carried : r \in carried[i]}

(* The form a handler chooses.                                              *)
Chosen(method, params) ==
    LET forms == Method[method]
        given == {i \in 1..Len(forms) : forms[i].given = "" \/ params[forms[i].given] # Missing}
    IN  forms[Min(given)]

(* params that are no object have no parameters, and no get either.         *)
WithoutObject(method, shape) ==
    LET forms == Method[method]
        body == forms[Len(forms)].calls[1].body
    IN  IF Len(forms) > 1 /\ shape = "null" THEN "bad"
        ELSE IF body = <<>> THEN "ok"
        ELSE IF \E i \in 1..Len(body) : body[i].conv = "files" THEN "dies" ELSE "bad"

ParamsOf(method) ==
    UNION {{call.body[i].param : i \in 1..Len(call.body)} :
              call \in UNION {Range(f.calls) : f \in Range(Method[method])}}
============================================================================
