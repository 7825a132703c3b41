------------------------------ MODULE ApiProofs ------------------------------
(***************************************************************************)
(* What holds of Api for every request and every number of outages.  The   *)
(* table of the methods is gone through once (MethodsSound); the proofs    *)
(* about the handlers need little more of it than that.                    *)
(***************************************************************************)
EXTENDS Api, SequenceInduction, SequenceTheorems, TLAPS

(* What the handlers have in common.                                       *)

IsSequence(s) == Len(s) \in Nat /\ DOMAIN s = 1..Len(s)

Reactions == {"sendMessageReaction", "sendGroupMessageReaction"}

\* Only attachments are looked up as files.
Harmless(arg) == arg.conv = "files" => arg.param = "attachments"

\* An argument that method m announces as type: what it needs is published as
\* required, and a parameter that looks as published is converted and carried, but
\* for what ValidIsAccepted excepts.
Fits(m, type, arg) ==
    /\ Harmless(arg)
    /\ arg.needed /\ arg.param \in Optional => arg.param = "remove" /\ m \in Reactions
    /\ \A kind \in Satisfying(Schema(DBusType(type))) :
          \/ Conversion(arg, kind) = "ok" /\ Carries(type, arg, kind)
          \/ arg.conv = "files" /\ kind \in {"strings", "unreachable"}
          \/ arg.param = "expiration" /\ m = "setExpirationTimer" /\ kind \in {"long", "huge"}

SoundCall(m, signature, body) ==
    /\ IsSequence(body) /\ Len(body) <= 6
    /\ \A i \in 1..Len(body) : Fits(m, signature[i], body[i])

\* The calls of a form are one, or a lookup and one.
SoundCalls(m, calls) ==
    /\ IsSequence(calls)
    /\ Len(calls) = 1 \/ (Len(calls) = 2 /\ calls[1] \in {GroupLookup, IdentityLookup})
    /\ \A k \in 1..Len(calls) : SoundCall(m, calls[k].signature, calls[k].body)

\* A handler always has a form to choose.
Always(form) == form.given = ""
SoundForms(m, forms) ==
    /\ IsSequence(forms)
    /\ Len(forms) # 0
    /\ Always(forms[Len(forms)])
    /\ \A i \in 1..Len(forms) : SoundCalls(m, forms[i].calls)
---------------------------------------------------------------------------
(* What is published of the arguments.                                     *)

LEMMA Schemas ==
  /\ Satisfying(Schema(DBusType("s"))) = {"text", "base64", "digits"}
  /\ Satisfying(Schema(DBusType("as"))) = ListsOfStrings
  /\ Satisfying(Schema(DBusType("ay"))) = {"base64"}
  /\ Satisfying(Schema(DBusType("x"))) = {"int", "long"}
  /\ Satisfying(Schema(DBusType("i"))) = {"int", "long", "huge"}
  /\ Satisfying(Schema(DBusType("ax"))) = {"ints"}
  /\ Satisfying(Schema(DBusType("b"))) = {"bool"}
<1>0. ASSUME NEW d, NEW l, NEW e, NEW k PROVE Type(d, l) = Type(e, k) <=> d = e /\ l = k
  BY DEF Type
<1>1. ASSUME NEW d, NEW l, NEW e, NEW k PROVE Shape(d, l) = Shape(e, k) <=> d = e /\ l = k
  BY DEF Shape
<1>2. \A d, l : Type(d, l).depth = d /\ Type(d, l).leaf = l
  BY DEF Type
<1>10. /\ DBusType("s") = Type(0, "s") /\ DBusType("as") = Type(1, "s") /\ DBusType("ay") = Type(1, "y")
       /\ DBusType("x") = Type(0, "x") /\ DBusType("i") = Type(0, "i") /\ DBusType("ax") = Type(1, "x")
       /\ DBusType("b") = Type(0, "b")
  BY DEF DBusType
<1>3. /\ Schema(Type(0, "s")) = Shape(0, "string") /\ Schema(Type(1, "s")) = Shape(1, "string")
      /\ Schema(Type(1, "y")) = Shape(0, "base64") /\ Schema(Type(0, "x")) = Shape(0, "int64")
      /\ Schema(Type(0, "i")) = Shape(0, "integer") /\ Schema(Type(1, "x")) = Shape(1, "int64")
      /\ Schema(Type(0, "b")) = Shape(0, "boolean")
  BY <1>0, <1>2 DEF Schema
<1>4. /\ Satisfying(Shape(0, "string")) = {"text", "base64", "digits"}
      /\ Satisfying(Shape(1, "string")) = ListsOfStrings
      /\ Satisfying(Shape(0, "base64")) = {"base64"}
      /\ Satisfying(Shape(0, "int64")) = {"int", "long"}
  BY <1>1 DEF Satisfying
<1>5. /\ Satisfying(Shape(0, "integer")) = {"int", "long", "huge"}
      /\ Satisfying(Shape(1, "int64")) = {"ints"}
      /\ Satisfying(Shape(0, "boolean")) = {"bool"}
  BY <1>1 DEF Satisfying
<1> QED BY <1>10, <1>3, <1>4, <1>5

LEMMA FittingArgs ==
  ASSUME NEW m, NEW p, p \notin Optional
  PROVE  /\ Fits(m, "s", Raw(p)) /\ Fits(m, "as", Raw(p))
         /\ Fits(m, "ay", Bytes(p)) /\ Fits(m, "x", Int64(p)) /\ Fits(m, "ax", Int64Array(p))
         /\ Fits(m, "b", Flag(p))
<1>1. Fits(m, "s", Raw(p)) /\ Fits(m, "as", Raw(p))
  BY Schemas DEF Fits, Harmless, Conversion, Carries, Missing, ListsOfStrings, Arg, Raw
<1>2. Fits(m, "ay", Bytes(p)) /\ Fits(m, "x", Int64(p)) /\ Fits(m, "ax", Int64Array(p))
  BY Schemas DEF Fits, Harmless, Conversion, Carries, Missing, Arg, Bytes, Int64, Int64Array
<1>3. Fits(m, "b", Flag(p))
  BY Schemas DEF Fits, Harmless, Conversion, Carries, Missing, Arg, Flag
<1> QED BY <1>1, <1>2, <1>3

LEMMA FittingOptions ==
  ASSUME NEW m, NEW p
  PROVE  /\ Fits(m, "s", OptRaw(p)) /\ Fits(m, "as", OptRaw(p)) /\ Fits(m, "b", OptFlag(p))
         /\ Fits(m, "as", Attachments) /\ Fits("setExpirationTimer", "i", Int64("expiration"))
         /\ m \in Reactions => Fits(m, "b", Flag("remove"))
<1>1. Fits(m, "s", OptRaw(p)) /\ Fits(m, "as", OptRaw(p))
  BY Schemas DEF Fits, Harmless, Conversion, Carries, Missing, ListsOfStrings, Arg, OptRaw
<1>2. Fits(m, "b", OptFlag(p)) /\ Fits(m, "as", Attachments)
  BY Schemas DEF Fits, Harmless, Conversion, Carries, Missing, Arg, OptFlag, Attachments, ListsOfStrings
<1>3. Fits("setExpirationTimer", "i", Int64("expiration"))
  BY Schemas DEF Fits, Harmless, Conversion, Carries, Missing, Arg, Int64, Optional
<1>4. m \in Reactions => Fits(m, "b", Flag("remove"))
  BY Schemas DEF Fits, Harmless, Conversion, Carries, Missing, Arg, Flag
<1> QED BY <1>1, <1>2, <1>3, <1>4
---------------------------------------------------------------------------
(* The table.                                                              *)

LEMMA Mandatory ==
  /\ "message" \notin Optional /\ "recipients" \notin Optional /\ "emoji" \notin Optional
  /\ "targetAuthor" \notin Optional /\ "targetSentTimestamp" \notin Optional
  /\ "recipient" \notin Optional
  /\ "targetSentTimestamps" \notin Optional /\ "receipt" \notin Optional /\ "note" \notin Optional
  /\ "groupId" \notin Optional /\ "groupName" \notin Optional /\ "inviteURI" \notin Optional
  /\ "requiresApproval" \notin Optional /\ "number" \notin Optional /\ "name" \notin Optional
  /\ "block" \notin Optional /\ "numbers" \notin Optional /\ "givenName" \notin Optional
  /\ "deviceUri" \notin Optional /\ "challenge" \notin Optional /\ "captcha" \notin Optional
  /\ "stickerPackPath" \notin Optional /\ "safetyNumber" \notin Optional
BY DEF Optional

LEMMA ShortCalls ==
  ASSUME NEW m
  PROVE  /\ SoundCall(m, <<>>, <<>>)
         /\ \A s, a : Fits(m, s, a) => SoundCall(m, <<s>>, <<a>>)
         /\ \A s, t, a, b : Fits(m, s, a) /\ Fits(m, t, b) => SoundCall(m, <<s, t>>, <<a, b>>)
         /\ \A s, t, u, a, b, c :
               Fits(m, s, a) /\ Fits(m, t, b) /\ Fits(m, u, c)
               => SoundCall(m, <<s, t, u>>, <<a, b, c>>)
BY DEF SoundCall, IsSequence

LEMMA LongCalls ==
  ASSUME NEW m, NEW a, NEW b, NEW c, NEW d, NEW e, NEW f,
         NEW s, NEW t, NEW u, NEW v, NEW w, NEW x,
         Fits(m, s, a), Fits(m, t, b), Fits(m, u, c), Fits(m, v, d), Fits(m, w, e)
  PROVE  /\ SoundCall(m, <<s, t, u, v, w>>, <<a, b, c, d, e>>)
         /\ Fits(m, x, f) => SoundCall(m, <<s, t, u, v, w, x>>, <<a, b, c, d, e, f>>)
BY DEF SoundCall, IsSequence

LEMMA OneCall ==
  ASSUME NEW m, NEW given, NEW signature, NEW body, SoundCall(m, signature, body)
  PROVE  SoundCalls(m, Form(given, <<Call(signature, body)>>).calls)
<1> DEFINE calls == <<[signature |-> signature, body |-> body]>>
<1>1. Form(given, <<Call(signature, body)>>).calls = calls
  BY DEF Form, Call
<1>2. IsSequence(calls) /\ Len(calls) = 1
  BY DEF IsSequence
<1>3. calls[1].body = body /\ calls[1].signature = signature
  OBVIOUS
<1> HIDE DEF calls
<1>4. \A k \in 1..Len(calls) : SoundCall(m, calls[k].signature, calls[k].body)
  BY <1>2, <1>3
<1>5. SoundCalls(m, calls)
  BY <1>2, <1>4 DEF SoundCalls
<1> QED BY <1>1, <1>5

LEMMA TwoCalls ==
  ASSUME NEW m, NEW given, NEW lookup \in {GroupLookup, IdentityLookup}, NEW signature, NEW body,
         SoundCall(m, signature, body)
  PROVE  SoundCalls(m, Form(given, <<lookup, Call(signature, body)>>).calls)
<1> DEFINE calls == <<lookup, [signature |-> signature, body |-> body]>>
<1>1. Form(given, <<lookup, Call(signature, body)>>).calls = calls
  BY DEF Form, Call
<1>2. IsSequence(calls) /\ Len(calls) = 2 /\ calls[1] = lookup
  BY DEF IsSequence
<1>3. calls[2].body = body /\ calls[2].signature = signature
  OBVIOUS
<1> HIDE DEF calls
<1>4. SoundCall(m, lookup.signature, lookup.body)
  <2>1. /\ SoundCall(m, <<"ay">>, <<Bytes("groupId")>>)
        /\ SoundCall(m, <<"s">>, <<Raw("number")>>)
    BY FittingArgs, Mandatory, ShortCalls, Zenon
  <2>2. lookup = [signature |-> <<"ay">>, body |-> <<Bytes("groupId")>>]
          \/ lookup = [signature |-> <<"s">>, body |-> <<Raw("number")>>]
    BY DEF GroupLookup, IdentityLookup, Call
  <2> QED BY <2>1, <2>2
<1>5. \A k \in 1..Len(calls) : SoundCall(m, calls[k].signature, calls[k].body)
  BY <1>2, <1>3, <1>4
<1>6. SoundCalls(m, calls)
  BY <1>2, <1>5 DEF SoundCalls
<1> QED BY <1>1, <1>6

\* Lists of forms of which the last one is always given.
LEMMA Forms ==
  ASSUME NEW m
  PROVE  /\ \A f : SoundCalls(m, f.calls) /\ Always(f) => SoundForms(m, <<f>>)
         /\ \A f, g : SoundCalls(m, f.calls) /\ SoundCalls(m, g.calls) /\ Always(g)
                       => SoundForms(m, <<f, g>>)
         /\ \A f, g, h : /\ SoundCalls(m, f.calls) /\ SoundCalls(m, g.calls)
                         /\ SoundCalls(m, h.calls) /\ Always(h)
                         => SoundForms(m, <<f, g, h>>)
<1>1. ASSUME NEW f, SoundCalls(m, f.calls), Always(f) PROVE SoundForms(m, <<f>>)
  <2> DEFINE forms == <<f>>
  <2>1. IsSequence(forms) /\ Len(forms) = 1 /\ forms[1] = f
    BY DEF IsSequence
  <2> HIDE DEF forms
  <2>2. /\ Always(forms[Len(forms)]) /\ Len(forms) # 0
        /\ \A i \in 1..Len(forms) : SoundCalls(m, forms[i].calls)
    BY <1>1, <2>1
  <2>3. SoundForms(m, forms)
    BY <2>1, <2>2 DEF SoundForms
  <2> QED BY <2>3 DEF forms
<1>2. ASSUME NEW f, NEW g, SoundCalls(m, f.calls), SoundCalls(m, g.calls), Always(g)
      PROVE  SoundForms(m, <<f, g>>)
  <2> DEFINE forms == <<f, g>>
  <2>1. IsSequence(forms) /\ Len(forms) = 2 /\ forms[1] = f /\ forms[2] = g
    BY DEF IsSequence
  <2> HIDE DEF forms
  <2>2. /\ Always(forms[Len(forms)]) /\ Len(forms) # 0
        /\ \A i \in 1..Len(forms) : SoundCalls(m, forms[i].calls)
    BY <1>2, <2>1
  <2>3. SoundForms(m, forms)
    BY <2>1, <2>2 DEF SoundForms
  <2> QED BY <2>3 DEF forms
<1>3. ASSUME NEW f, NEW g, NEW h, SoundCalls(m, f.calls), SoundCalls(m, g.calls),
             SoundCalls(m, h.calls), Always(h)
      PROVE  SoundForms(m, <<f, g, h>>)
  <2> DEFINE forms == <<f, g, h>>
  <2>1. IsSequence(forms) /\ Len(forms) = 3 /\ forms[1] = f /\ forms[2] = g /\ forms[3] = h
    BY DEF IsSequence
  <2> HIDE DEF forms
  <2>2. /\ Always(forms[Len(forms)]) /\ Len(forms) # 0
        /\ \A i \in 1..Len(forms) : SoundCalls(m, forms[i].calls)
    BY <1>3, <2>1
  <2>3. SoundForms(m, forms)
    BY <2>1, <2>2 DEF SoundForms
  <2> QED BY <2>3 DEF forms
<1> QED BY <1>1, <1>2, <1>3

LEMMA Patterns ==
  ASSUME NEW m, NEW signature, NEW body, SoundCall(m, signature, body)
  PROVE  /\ SoundForms(m, Plain(signature, body))
         /\ SoundForms(m, InGroup(signature, body))
         /\ SoundForms(m, OfIdentity(signature, body))
<1>1. /\ Always(Form("", <<Call(signature, body)>>))
      /\ Always(Form("", <<GroupLookup, Call(signature, body)>>))
      /\ Always(Form("", <<IdentityLookup, Call(signature, body)>>))
  BY DEF Form, Always
<1>2. /\ SoundCalls(m, Form("", <<Call(signature, body)>>).calls)
      /\ SoundCalls(m, Form("", <<GroupLookup, Call(signature, body)>>).calls)
      /\ SoundCalls(m, Form("", <<IdentityLookup, Call(signature, body)>>).calls)
  BY OneCall, TwoCalls
<1> QED BY <1>1, <1>2, Forms DEF Plain, InGroup, OfIdentity

LEMMA SimplePatterns ==
  ASSUME NEW m
  PROVE  SoundForms(m, Nothing) /\ \A p : p \notin Optional => SoundForms(m, OneString(p))
BY FittingArgs, ShortCalls, Patterns, Zenon DEF Nothing, OneString

LEMMA MessagingSound == \A m \in DOMAIN Messaging : SoundForms(m, Messaging[m])
<1>1. SoundForms("sendMessage", Messaging["sendMessage"])
  BY FittingArgs, FittingOptions, Mandatory, ShortCalls, Patterns, SimplePatterns, Zenon
  DEF Messaging
<1>2. /\ SoundForms("sendNoteToSelfMessage", Messaging["sendNoteToSelfMessage"])
      /\ SoundForms("sendReadReceipt", Messaging["sendReadReceipt"])
  BY FittingArgs, FittingOptions, Mandatory, ShortCalls, Patterns, SimplePatterns, Zenon
  DEF Messaging
<1>3. /\ SoundForms("sendViewedReceipt", Messaging["sendViewedReceipt"])
      /\ SoundForms("sendTyping", Messaging["sendTyping"])
      /\ SoundForms("sendRemoteDeleteMessage", Messaging["sendRemoteDeleteMessage"])
  BY FittingArgs, FittingOptions, Mandatory, ShortCalls, Patterns, SimplePatterns, Zenon
  DEF Messaging
<1>4. SoundForms("sendEndSessionMessage", Messaging["sendEndSessionMessage"])
  BY FittingArgs, FittingOptions, Mandatory, ShortCalls, Patterns, SimplePatterns, Zenon
  DEF Messaging
<1>5. SoundForms("sendPaymentNotification", Messaging["sendPaymentNotification"])
  BY FittingArgs, FittingOptions, Mandatory, ShortCalls, Patterns, SimplePatterns, Zenon
  DEF Messaging
<1>6. SoundForms("sendMessageReaction", Messaging["sendMessageReaction"])
  <2>1. SoundCall("sendMessageReaction", <<"s", "b", "s", "x", "as">>,
          <<Raw("emoji"), Flag("remove"), Raw("targetAuthor"), Int64("targetSentTimestamp"),
            Raw("recipients")>>)
    BY FittingArgs, FittingOptions, Mandatory, LongCalls DEF Reactions
  <2> QED BY <2>1, Patterns, Zenon DEF Messaging
<1> QED BY <1>1, <1>2, <1>3, <1>4, <1>5, <1>6 DEF Messaging

LEMMA GroupsSound == \A m \in DOMAIN Groups : SoundForms(m, Groups[m])
<1>1. SoundForms("sendGroupMessage", Groups["sendGroupMessage"])
  BY FittingArgs, FittingOptions, Mandatory, ShortCalls, Patterns, SimplePatterns, Zenon
  DEF Groups
<1>2. /\ SoundForms("sendGroupRemoteDeleteMessage", Groups["sendGroupRemoteDeleteMessage"])
      /\ SoundForms("sendGroupTyping", Groups["sendGroupTyping"])
  BY FittingArgs, FittingOptions, Mandatory, ShortCalls, Patterns, SimplePatterns, Zenon
  DEF Groups
<1>3. SoundForms("createGroup", Groups["createGroup"])
  BY FittingArgs, FittingOptions, Mandatory, ShortCalls, Patterns, SimplePatterns, Zenon
  DEF Groups
<1>4. /\ SoundForms("listGroups", Groups["listGroups"])
      /\ SoundForms("getGroupMembers", Groups["getGroupMembers"])
      /\ SoundForms("joinGroup", Groups["joinGroup"])
  BY FittingArgs, FittingOptions, Mandatory, ShortCalls, Patterns, SimplePatterns, Zenon
  DEF Groups
<1>5. SoundForms("sendGroupMessageReaction", Groups["sendGroupMessageReaction"])
  <2>1. SoundCall("sendGroupMessageReaction", <<"s", "b", "s", "x", "ay">>,
          <<Raw("emoji"), Flag("remove"), Raw("targetAuthor"), Int64("targetSentTimestamp"),
            Bytes("groupId")>>)
    BY FittingArgs, FittingOptions, Mandatory, LongCalls DEF Reactions
  <2> QED BY <2>1, Patterns, Zenon DEF Groups
<1> QED BY <1>1, <1>2, <1>3, <1>4, <1>5 DEF Groups

LEMMA GroupManagementSound == \A m \in DOMAIN GroupManagement : SoundForms(m, GroupManagement[m])
<1>1. /\ SoundForms("quitGroup", GroupManagement["quitGroup"])
      /\ SoundForms("addGroupMembers", GroupManagement["addGroupMembers"])
      /\ SoundForms("removeGroupMembers", GroupManagement["removeGroupMembers"])
      /\ SoundForms("addGroupAdmins", GroupManagement["addGroupAdmins"])
  BY FittingArgs, FittingOptions, Mandatory, ShortCalls, Patterns, SimplePatterns, Zenon
  DEF GroupManagement
<1>2. /\ SoundForms("removeGroupAdmins", GroupManagement["removeGroupAdmins"])
      /\ SoundForms("enableGroupLink", GroupManagement["enableGroupLink"])
      /\ SoundForms("disableGroupLink", GroupManagement["disableGroupLink"])
      /\ SoundForms("resetGroupLink", GroupManagement["resetGroupLink"])
  BY FittingArgs, FittingOptions, Mandatory, ShortCalls, Patterns, SimplePatterns, Zenon
  DEF GroupManagement
<1> QED BY <1>1, <1>2 DEF GroupManagement

LEMMA ContactsSound == \A m \in DOMAIN Contacts : SoundForms(m, Contacts[m])
<1>1. /\ SoundForms("getSelfNumber", Contacts["getSelfNumber"])
      /\ SoundForms("getContactName", Contacts["getContactName"])
      /\ SoundForms("getContactNumber", Contacts["getContactNumber"])
      /\ SoundForms("setContactName", Contacts["setContactName"])
  BY FittingArgs, FittingOptions, Mandatory, ShortCalls, Patterns, SimplePatterns, Zenon
  DEF Contacts
<1>2. /\ SoundForms("isContactBlocked", Contacts["isContactBlocked"])
      /\ SoundForms("setContactBlocked", Contacts["setContactBlocked"])
      /\ SoundForms("deleteContact", Contacts["deleteContact"])
      /\ SoundForms("deleteRecipient", Contacts["deleteRecipient"])
  BY FittingArgs, FittingOptions, Mandatory, ShortCalls, Patterns, SimplePatterns, Zenon
  DEF Contacts
<1>3. /\ SoundForms("listNumbers", Contacts["listNumbers"])
      /\ SoundForms("setExpirationTimer", Contacts["setExpirationTimer"])
  BY FittingArgs, FittingOptions, Mandatory, ShortCalls, Patterns, SimplePatterns, Zenon
  DEF Contacts
<1>4. SoundForms("isRegistered", Contacts["isRegistered"])
  <2>1. /\ SoundCall("isRegistered", <<"as">>, <<Raw("numbers")>>)
        /\ SoundCall("isRegistered", <<"s">>, <<Raw("number")>>)
        /\ SoundCall("isRegistered", <<>>, <<>>)
    BY FittingArgs, Mandatory, ShortCalls, Zenon
  <2>2. Always(Form("", <<Call(<<>>, <<>>)>>))
    BY DEF Form, Always
  <2> QED BY <2>1, <2>2, OneCall, Forms, Zenon DEF Contacts
<1> QED BY <1>1, <1>2, <1>3, <1>4 DEF Contacts

LEMMA ProfileSound == \A m \in DOMAIN Profile : SoundForms(m, Profile[m])
<1>1. SoundForms("updateProfile", Profile["updateProfile"])
  <2> DEFINE m == "updateProfile"
             first == <<Raw("givenName"), OptRaw("familyName"), OptRaw("about"),
                        OptRaw("aboutEmoji"), OptRaw("avatar"), OptFlag("remove")>>
             second == <<Raw("name"), OptRaw("about"), OptRaw("aboutEmoji"), OptRaw("avatar"),
                         OptFlag("remove")>>
  <2>1. /\ Fits(m, "s", Raw("givenName")) /\ Fits(m, "s", Raw("name"))
        /\ \A p : Fits(m, "s", OptRaw(p)) /\ Fits(m, "b", OptFlag(p))
    BY FittingArgs, FittingOptions, Mandatory
  <2>2. SoundCall(m, <<"s", "s", "s", "s", "s", "b">>, first)
    BY <2>1, LongCalls
  <2>3. SoundCall(m, <<"s", "s", "s", "s", "b">>, second)
    BY <2>1, LongCalls
  <2>4. /\ SoundCalls(m, Form("givenName", <<Call(<<"s", "s", "s", "s", "s", "b">>, first)>>).calls)
        /\ SoundCalls(m, Form("", <<Call(<<"s", "s", "s", "s", "b">>, second)>>).calls)
    BY <2>2, <2>3, OneCall
  <2>5. Always(Form("", <<Call(<<"s", "s", "s", "s", "b">>, second)>>))
    BY DEF Form, Always
  <2> QED BY <2>4, <2>5, Forms, Zenon DEF Profile
<1> QED BY <1>1 DEF Profile

LEMMA DevicesSound == \A m \in DOMAIN Devices : SoundForms(m, Devices[m])
<1>1. /\ SoundForms("addDevice", Devices["addDevice"])
      /\ SoundForms("listDevices", Devices["listDevices"])
      /\ SoundForms("sendContacts", Devices["sendContacts"])
      /\ SoundForms("sendSyncRequest", Devices["sendSyncRequest"])
  BY FittingArgs, FittingOptions, Mandatory, ShortCalls, Patterns, SimplePatterns, Zenon
  DEF Devices
<1>2. /\ SoundForms("version", Devices["version"])
      /\ SoundForms("submitRateLimitChallenge", Devices["submitRateLimitChallenge"])
      /\ SoundForms("uploadStickerPack", Devices["uploadStickerPack"])
  BY FittingArgs, FittingOptions, Mandatory, ShortCalls, Patterns, SimplePatterns, Zenon
  DEF Devices
<1> QED BY <1>1, <1>2 DEF Devices

LEMMA IdentitiesSound == \A m \in DOMAIN Identities : SoundForms(m, Identities[m])
<1>1. /\ SoundForms("listIdentities", Identities["listIdentities"])
      /\ SoundForms("trustIdentity", Identities["trustIdentity"])
      /\ SoundForms("trustIdentityVerified", Identities["trustIdentityVerified"])
  BY FittingArgs, FittingOptions, Mandatory, ShortCalls, Patterns, SimplePatterns, Zenon
  DEF Identities
<1> QED BY <1>1 DEF Identities

\* Every method has forms, the last of which is always given; all of them make one
\* call, or a lookup and one, with arguments that fit what is published of them.
LEMMA MethodsSound == \A m \in MethodNames : SoundForms(m, Method[m])
<1>1. \A table \in Tables : \A m \in DOMAIN table : SoundForms(m, table[m])
  BY MessagingSound, GroupsSound, GroupManagementSound, ContactsSound, ProfileSound, DevicesSound,
     IdentitiesSound, Zenon DEF Tables
<1> QED BY <1>1, Zenon DEF MethodNames, Method

LEMMA NoneIsNoMethod == "none" \notin MethodNames
<1>1. "none" \notin DOMAIN Messaging
  BY DEF Messaging
<1>2. "none" \notin DOMAIN Groups
  BY DEF Groups
<1>3. "none" \notin DOMAIN GroupManagement
  BY DEF GroupManagement
<1>4. "none" \notin DOMAIN Contacts
  BY DEF Contacts
<1>5. /\ "none" \notin DOMAIN Profile /\ "none" \notin DOMAIN Devices
      /\ "none" \notin DOMAIN Identities
  BY DEF Profile, Devices, Identities
<1>6. \A table \in Tables : "none" \notin DOMAIN table
  BY <1>1, <1>2, <1>3, <1>4, <1>5, Zenon DEF Tables
<1> QED BY <1>6, Zenon DEF MethodNames, Method
---------------------------------------------------------------------------
(* What a handler calls.                                                   *)

CallsOf(m, s, p) ==
    IF s = "object" THEN Chosen(m, p).calls ELSE Method[m][Len(Method[m])].calls

LEMMA ChosenIsAForm ==
  ASSUME NEW m \in MethodNames, NEW p
  PROVE  \E i \in 1..Len(Method[m]) : Chosen(m, p) = Method[m][i]
<1> DEFINE forms == Method[m]
           IsGiven(i) == forms[i].given = "" \/ p[forms[i].given] # Missing
           given == {i \in 1..Len(forms) : IsGiven(i)}
<1>1. Len(forms) \in Nat /\ Len(forms) # 0 /\ IsGiven(Len(forms))
  BY MethodsSound DEF SoundForms, IsSequence, Always
<1>2. Chosen(m, p) = forms[Min(given)]
  BY DEF Chosen
<1> HIDE DEF forms, IsGiven
<1>3. given \in SUBSET Nat /\ Len(forms) \in given
  BY <1>1
<1>4. given \subseteq 1..Len(forms)
  OBVIOUS
<1> HIDE DEF given
<1>5. \E n \in given : \A k \in given : n <= k
  BY <1>3, Least
<1>6. Min(given) \in given
  BY <1>5 DEF Min
<1> QED BY <1>2, <1>4, <1>6 DEF forms

\* The arguments of a form are parameters of the method.
LEMMA ArgumentsAreParameters ==
  ASSUME NEW m \in MethodNames, NEW i \in 1..Len(Method[m]),
         NEW k \in 1..Len(Method[m][i].calls), NEW j \in DOMAIN Method[m][i].calls[k].body
  PROVE  Method[m][i].calls[k].body[j].param \in ParamsOf(m)
<1> DEFINE calls == Method[m][i].calls
           call == calls[k]
<1>1. IsSequence(Method[m]) /\ SoundCalls(m, calls)
  BY MethodsSound DEF SoundForms
<1>2. Method[m][i] \in Range(Method[m])
  BY <1>1 DEF IsSequence, Range
<1>3. call \in Range(calls)
  BY <1>1 DEF SoundCalls, IsSequence, Range
<1>4. j \in 1..Len(call.body)
  <2>1. SoundCall(m, call.signature, call.body)
    BY <1>1 DEF SoundCalls
  <2> QED BY <2>1 DEF SoundCall, IsSequence
<1>5. call \in UNION {Range(f.calls) : f \in Range(Method[m])}
  BY <1>2, <1>3
<1>6. call.body[j].param \in {call.body[n].param : n \in 1..Len(call.body)}
  BY <1>4
<1> HIDE DEF call
<1>7. call.body[j].param \in ParamsOf(m)
  BY <1>5, <1>6, Zenon DEF ParamsOf
<1> QED BY <1>7 DEF call

\* Whatever form is chosen, it is sound.
LEMMA CallsAreSound ==
  ASSUME NEW m \in MethodNames, NEW s, NEW p
  PROVE  /\ SoundCalls(m, CallsOf(m, s, p))
         /\ \A k \in 1..Len(CallsOf(m, s, p)) : \A i \in DOMAIN CallsOf(m, s, p)[k].body :
               CallsOf(m, s, p)[k].body[i].param \in ParamsOf(m)
<1> DEFINE forms == Method[m]
           calls == CallsOf(m, s, p)
<1>1. IsSequence(forms) /\ Len(forms) # 0 /\ \A i \in 1..Len(forms) : SoundCalls(m, forms[i].calls)
  BY MethodsSound DEF SoundForms
<1>2. PICK i \in 1..Len(forms) : calls = forms[i].calls
  <2>1. CASE s = "object"
    BY <2>1, ChosenIsAForm DEF CallsOf
  <2>2. CASE s # "object"
    BY <1>1, <2>2 DEF CallsOf, IsSequence
  <2> QED BY <2>1, <2>2
<1> HIDE DEF calls
<1> QED BY <1>1, <1>2, ArgumentsAreParameters DEF calls
---------------------------------------------------------------------------
(* What the conversions of a call may come to.                             *)

LEMMA Conversions ==
  ASSUME NEW arg, NEW kind
  PROVE  /\ Conversion(arg, kind) \in {"ok", "bad", "dies", "os"}
         /\ Conversion(arg, kind) = "dies" => kind = "infinity"
         /\ Conversion(arg, kind) = "os" => arg.conv = "files" /\ kind = "unreachable"
BY DEF Conversion, Absent, Missing

LEMMA Preparations ==
  ASSUME NEW m, NEW call, SoundCall(m, call.signature, call.body), NEW p,
         NEW exc \in Preparation(call, p), exc # "ok"
  PROVE  /\ exc \in {"bad", "dies", "os"}
         /\ exc = "os" => \E i \in DOMAIN call.body :
                call.body[i].param = "attachments" /\ p["attachments"] = "unreachable"
         /\ exc # "bad" => \E i \in DOMAIN call.body :
                \/ p[call.body[i].param] \in {"infinity", "unreachable"}
                \/ ~Carries(call.signature[i], call.body[i], p[call.body[i].param])
         /\ \E i \in DOMAIN call.body :
                \/ Conversion(call.body[i], p[call.body[i].param]) # "ok"
                \/ ~Carries(call.signature[i], call.body[i], p[call.body[i].param])
<1> DEFINE converted(i) == Conversion(call.body[i], p[call.body[i].param])
           failing == {i \in DOMAIN call.body : converted(i) # "ok"}
           carried == [i \in 1..Len(call.body) |->
                         Marshalling(call.signature[i], call.body[i], p[call.body[i].param])]
<1>1. CASE failing # {}
  <2>1. PICK i \in failing : exc = converted(i)
    BY <1>1 DEF Preparation
  <2>2. i \in DOMAIN call.body /\ converted(i) # "ok"
    OBVIOUS
  <2>3. /\ exc \in {"bad", "dies", "os"}
        /\ exc = "dies" => p[call.body[i].param] = "infinity"
        /\ exc = "os" => call.body[i].conv = "files" /\ p[call.body[i].param] = "unreachable"
    BY <2>1, Conversions
  <2>4. call.body[i].conv = "files" => call.body[i].param = "attachments"
    BY <2>2 DEF SoundCall, IsSequence, Fits, Harmless
  <2> QED BY <2>2, <2>3, <2>4
<1>2. CASE failing = {}
  <2>1. exc \in {"bad", "dies"} /\ \E i \in DOMAIN carried : exc \in carried[i]
    BY <1>2 DEF Preparation
  <2>2. PICK i \in 1..Len(call.body) :
           exc \in Marshalling(call.signature[i], call.body[i], p[call.body[i].param])
    BY <2>1
  <2>3. ~Carries(call.signature[i], call.body[i], p[call.body[i].param])
    BY <2>1, <2>2 DEF Marshalling
  <2>4. i \in DOMAIN call.body
    BY DEF SoundCall, IsSequence
  <2> QED BY <2>1, <2>3, <2>4
<1> QED BY <1>1, <1>2

LEMMA WithoutObjects == \A m, s : WithoutObject(m, s) \in {"ok", "bad", "dies"}
BY DEF WithoutObject

\* A request has the parameters of its method.
LEMMA RequestsAreComplete == ASSUME NEW m, NEW r \in Requests(m) PROVE DOMAIN r = ParamsOf(m)
<1>1. \A f : DOMAIN ProperParams(m, f) = ParamsOf(m)
  BY DEF ProperParams
<1> QED BY <1>1 DEF Requests
---------------------------------------------------------------------------
(* The inductive invariant: how far a handler is, and what it has called.  *)

Lookups == {GroupLookup, IdentityLookup}
Exceptions == {"app", "connection", "lapse", "bad", "dies", "os"}

Ranges ==
    /\ connected \in BOOLEAN /\ outages \in 0..MaxOutages
    /\ channel \in {"none", "ws", "http"}
    /\ method \in MethodNames \cup {"none"}
    /\ shape \in {"none", "object", "array", "null"}
    /\ place \in {"idle", "calling", "done"}

Answered ==
    /\ reply \in {"none", "result", "error", "reconnecting", "200"} \cup Refused \cup Unexpected
    /\ reply # "none" => channel = IF reply \in {"200", "400", "500"} THEN "http" ELSE "ws"

\* The first call, or a lookup and the call.
MadeOf(calls) ==
    \/ made = <<calls[1]>>
    \/ Len(calls) = 2 /\ made = <<calls[1], calls[2]>>

Progress ==
    /\ place = "idle" => reply = "none" /\ made = <<>>
    /\ place = "calling" => reply = "none" /\ made # <<>> /\ channel # "none"
    /\ made # <<>> => method \in MethodNames /\ MadeOf(CallsOf(method, shape, params))

\* The causes that SilenceHasCause allows.
Cause ==
    \/ shape # "object"
    \/ \E p \in DOMAIN params : params[p] \in {"infinity", "unreachable"}
    \/ \E i \in DOMAIN Calls[1].body : LET arg == Calls[1].body[i] IN
          ~Carries(Calls[1].signature[i], arg, params[arg.param])

Caused == reply \in Unexpected /\ made = <<>> => Cause

AInv == Ranges /\ Answered /\ Progress /\ RefusedIsUndone /\ Caused

LEMMA CallsAreTheirs ==
  /\ Calls = CallsOf(method, shape, params)
  /\ Calls' = CallsOf(method', shape', params')
BY DEF Calls, CallsOf

\* A handler that is not done yet has looked something up.
LEMMA HalfDone ==
  ASSUME Progress, made # <<>>, Len(made) # Len(Calls)
  PROVE  Len(Calls) = 2 /\ Calls[1] \in Lookups /\ made = <<Calls[1]>>
<1>1. SoundCalls(method, Calls) /\ MadeOf(Calls)
  BY CallsAreSound, CallsAreTheirs DEF Progress
<1>2. Len(Calls) = 1 \/ (Len(Calls) = 2 /\ Calls[1] \in Lookups)
  BY <1>1 DEF SoundCalls, Lookups
<1> DEFINE calls == Calls
<1> HIDE DEF calls
<1>3. made = <<calls[1]>> \/ (Len(calls) = 2 /\ made = <<calls[1], calls[2]>>)
  BY <1>1 DEF MadeOf, calls
<1>4. Len(<<calls[1]>>) = 1 /\ Len(<<calls[1], calls[2]>>) = 2
  OBVIOUS
<1> QED BY <1>2, <1>3, <1>4 DEF calls

\* There are no more calls than the handler makes.
LEMMA MadeIsBounded ==
  ASSUME Progress
  PROVE  Len(made) <= Len(IF method = "none" THEN <<>> ELSE Calls)
<1>1. CASE made = <<>>
  <2>1. Len(made) = 0
    BY <1>1
  <2>2. CASE method = "none"
    BY <2>1, <2>2
  <2>3. CASE method # "none"
    BY <2>1, <2>3
  <2> QED BY <2>2, <2>3
<1>2. CASE made # <<>>
  <2>1. SoundCalls(method, Calls) /\ MadeOf(Calls) /\ method # "none"
    BY <1>2, CallsAreSound, CallsAreTheirs, NoneIsNoMethod DEF Progress
  <2> DEFINE calls == Calls
  <2>2. Len(calls) = 1 \/ Len(calls) = 2
    BY <2>1 DEF SoundCalls
  <2>3. made = <<calls[1]>> \/ (Len(calls) = 2 /\ made = <<calls[1], calls[2]>>)
    BY <2>1 DEF MadeOf
  <2> HIDE DEF calls
  <2>4. Len(<<calls[1]>>) = 1 /\ Len(<<calls[1], calls[2]>>) = 2
    OBVIOUS
  <2>5. Len(made) <= Len(calls)
    BY <2>2, <2>3, <2>4
  <2> QED BY <2>1, <2>5 DEF calls
<1> QED BY <1>1, <1>2

LEMMA Replies ==
  ASSUME NEW exc \in Exceptions, channel' \in {"ws", "http"}, reply' = Reply(exc)
  PROVE  Answered' /\ reply' # "none" /\ (reply' \in Refused <=> exc = "bad")
         /\ (exc = "bad" => reply' \notin Unexpected)
<1>1. reply' \in {"error", "reconnecting", "bad params", "closed", "400", "500"}
  BY DEF Reply
<1>2. reply' \in {"400", "500"} <=> channel' = "http"
  BY DEF Reply, Exceptions
<1>3. reply' \in Refused <=> exc = "bad"
  BY DEF Reply, Exceptions, Refused
<1>4. exc = "bad" => reply' \notin Unexpected
  BY DEF Reply, Unexpected
<1> QED BY <1>1, <1>2, <1>3, <1>4 DEF Answered, Refused, Unexpected
---------------------------------------------------------------------------
(* The steps.                                                              *)

\* A request makes its first call, or raises an exception that has its cause.
LEMMA Received ==
  ASSUME AInv, NEW m \in MethodNames, Receive(m)
  PROVE  /\ method' = m /\ channel' \in {"ws", "http"} /\ shape' \in {"object", "array", "null"}
         /\ \/ made' = <<Calls'[1]>> /\ place' = "calling" /\ UNCHANGED <<linkVars, reply>>
            \/ \E exc \in {"bad", "dies", "os"} :
                  /\ Raise(exc)
                  /\ exc = "os" => /\ "attachments" \in DOMAIN params'
                                   /\ params'["attachments"] = "unreachable"
                  /\ exc # "bad" => Cause'
<1>1. /\ method' = m /\ channel' \in {"ws", "http"} /\ shape' \in {"object", "array", "null"}
      /\ shape' = "object" => params' \in Requests(m)
  BY DEF Receive
<1> DEFINE call == Calls'[1]
           outcomes == IF shape' = "object" THEN Preparation(call, params')
                       ELSE {WithoutObject(m, shape')}
<1>2. Make(call, outcomes)
  BY DEF Receive
<1>3. /\ SoundCall(m, call.signature, call.body)
      /\ \A i \in DOMAIN call.body : call.body[i].param \in ParamsOf(m)
  <2>1. Calls' = CallsOf(m, shape', params')
    BY <1>1, CallsAreTheirs
  <2>2. 1 \in 1..Len(Calls')
    BY <2>1, CallsAreSound DEF SoundCalls
  <2> QED BY <2>1, <2>2, CallsAreSound DEF SoundCalls
<1>4. shape' = "object" => DOMAIN params' = ParamsOf(m)
  BY <1>1, RequestsAreComplete
<1>5. ASSUME NEW exc \in outcomes \ {"ok"}
      PROVE  /\ exc \in {"bad", "dies", "os"}
             /\ exc = "os" => /\ "attachments" \in DOMAIN params'
                              /\ params'["attachments"] = "unreachable"
             /\ exc # "bad" => Cause'
  <2>1. CASE shape' # "object"
    BY <2>1, WithoutObjects DEF Cause
  <2>2. CASE shape' = "object"
    <3>1. exc \in Preparation(call, params') /\ exc # "ok"
      BY <2>2
    <3>2. /\ exc \in {"bad", "dies", "os"}
          /\ exc = "os" => \E i \in DOMAIN call.body :
                call.body[i].param = "attachments" /\ params'["attachments"] = "unreachable"
          /\ exc # "bad" => \E i \in DOMAIN call.body :
                \/ params'[call.body[i].param] \in {"infinity", "unreachable"}
                \/ ~Carries(call.signature[i], call.body[i], params'[call.body[i].param])
      BY <1>3, <3>1, Preparations
    <3>3. \A i \in DOMAIN call.body : call.body[i].param \in DOMAIN params'
      BY <1>3, <1>4, <2>2
    <3> QED BY <3>2, <3>3 DEF Cause
  <2> QED BY <2>1, <2>2
<1>6. CASE /\ made' = Append(made, call) /\ place' = "calling" /\ UNCHANGED <<linkVars, reply>>
  <2>1. made = <<>>
    BY DEF AInv, Progress, Receive
  <2>2. made' = <<call>>
    BY <1>6, <2>1
  <2> QED BY <1>1, <1>6, <2>2
<1>7. CASE \E exc \in outcomes \ {"ok"} : Raise(exc)
  BY <1>1, <1>5, <1>7
<1> QED BY <1>2, <1>6, <1>7 DEF Make

\* Appending to a sequence of one.
LEMMA Appended ==
  ASSUME NEW a, NEW b
  PROVE  Append(<<a>>, b) = <<a, b>>
<1> DEFINE S == {a, b}
           s == <<a>>
           t == Append(s, b)
           u == <<a, b>>
<1>1. s \in Seq(S) /\ Len(s) = 1 /\ s[1] = a /\ b \in S
  OBVIOUS
<1>3. u \in Seq(S) /\ Len(u) = 2 /\ u[1] = a /\ u[2] = b
  OBVIOUS
<1> HIDE DEF s, S, u
<1>2. t \in Seq(S) /\ Len(t) = 2 /\ t[1] = a /\ t[2] = b
  <2>1. t \in Seq(S) /\ Len(t) = Len(s) + 1
    BY <1>1, AppendProperties
  <2>2. Len(t) = 2
    BY <1>1, <2>1
  <2>3. t[1] = s[1]
    BY <1>1, AppendProperties
  <2>4. t[2] = b
    <3>1. t[Len(s) + 1] = b
      BY <1>1, AppendProperties
    <3>2. Len(s) + 1 = 2
      BY <1>1
    <3> HIDE DEF t
    <3> QED BY <3>1, <3>2
  <2> QED BY <1>1, <2>1, <2>2, <2>3, <2>4
<1> HIDE DEF t
<1>4. \A i \in 1..Len(t) : t[i] = u[i]
  BY <1>2, <1>3
<1>5. t = u
  BY <1>2, <1>3, <1>4, SeqEqual
<1> QED BY <1>5 DEF t, s, u

\* A call that succeeds is the last one, or a lookup, after which the next is made or
\* an exception raised that is no fault of the link's.
LEMMA Returned ==
  ASSUME AInv, Return
  PROVE  /\ place = "calling" /\ UNCHANGED requestVars
         /\ \/ Succeed
            \/ /\ Len(Calls) = 2 /\ Calls[1] \in Lookups /\ made = <<Calls[1]>>
               /\ \/ /\ made' = <<Calls[1], Calls[2]>> /\ place' = "calling"
                     /\ UNCHANGED <<linkVars, reply>>
                  \/ \E exc \in {"bad", "dies", "os"} : Raise(exc)
<1>1. place = "calling" /\ UNCHANGED requestVars /\ made # <<>>
  BY DEF Return, AInv, Progress
<1>2. CASE Succeed
  BY <1>1, <1>2
<1>3. CASE Len(made) # Len(Calls)
  <2> DEFINE call == Calls[Len(made) + 1]
  <2>1. Len(Calls) = 2 /\ Calls[1] \in Lookups /\ made = <<Calls[1]>>
    BY <1>1, <1>3, HalfDone DEF AInv
  <2>2. call = Calls[2]
    BY <2>1
  <2>3. SoundCall(method, call.signature, call.body)
    <3>1. SoundCalls(method, Calls)
      BY <1>1, CallsAreSound, CallsAreTheirs DEF AInv, Progress
    <3>2. 2 \in 1..Len(Calls)
      BY <2>1
    <3> QED BY <2>2, <3>1, <3>2 DEF SoundCalls
  <2>4. Make(call, Preparation(call, params))
    BY <1>3 DEF Return
  <2>5. CASE made' = Append(made, call) /\ place' = "calling" /\ UNCHANGED <<linkVars, reply>>
    <3> DEFINE first == Calls[1]
    <3>1. made = <<first>> /\ made' = Append(made, call)
      BY <2>1, <2>5
    <3> HIDE DEF first, call
    <3>2. Append(<<first>>, call) = <<first, call>>
      BY Appended
    <3>3. made' = <<Calls[1], Calls[2]>>
      BY <2>2, <3>1, <3>2 DEF first
    <3> QED BY <1>1, <2>1, <2>5, <3>3
  <2>6. CASE \E exc \in Preparation(call, params) \ {"ok"} : Raise(exc)
    <3>1. \A exc \in Preparation(call, params) \ {"ok"} : exc \in {"bad", "dies", "os"}
      BY <2>3, Preparations
    <3> QED BY <1>1, <2>1, <2>6, <3>1
  <2> QED BY <2>4, <2>5, <2>6 DEF Make
<1> QED BY <1>2, <1>3 DEF Return

LEMMA Initially == Init => AInv
BY BoundsAssumption DEF Init, AInv, Ranges, Answered, Progress, RefusedIsUndone, Caused, Refused,
                        Unexpected

\* An exception ends a handler that has made its lookup at most, or is not refused.
LEMMA Raised ==
  ASSUME AInv, NEW exc \in Exceptions, Raise(exc), channel' \in {"ws", "http"},
         method' \in MethodNames \cup {"none"}, shape' \in {"none", "object", "array", "null"},
         made # <<>> => UNCHANGED requestVars,
         exc = "bad" => Range(made) \subseteq Lookups,
         made = <<>> /\ exc # "bad" => Cause'
  PROVE  AInv'
<1>1. /\ connected' \in BOOLEAN /\ outages' = outages /\ made' = made /\ place' = "done"
      /\ reply' = Reply(exc)
  BY DEF Raise, AInv, Ranges
<1>2. Ranges'
  BY <1>1 DEF AInv, Ranges
<1>3. Answered' /\ reply' # "none" /\ (reply' \in Refused <=> exc = "bad")
      /\ (exc = "bad" => reply' \notin Unexpected)
  BY <1>1, Replies
<1>4. Progress'
  <2>1. made' # <<>> => method' \in MethodNames /\ MadeOf(CallsOf(method, shape, params))
    BY <1>1 DEF AInv, Progress, requestVars
  <2> QED BY <1>1, <2>1 DEF Progress, MadeOf, requestVars
<1>5. RefusedIsUndone'
  BY <1>1, <1>3 DEF RefusedIsUndone, Lookups
<1>6. Caused'
  BY <1>1, <1>3 DEF Caused
<1> QED BY <1>2, <1>3, <1>4, <1>5, <1>6 DEF AInv

LEMMA Steps == AInv /\ [Next]_vars => AInv'
<1> SUFFICES ASSUME AInv, [Next]_vars PROVE AInv'
  OBVIOUS
<1>1. ASSUME NEW m \in MethodNames, Receive(m) PROVE AInv'
  <2>1. place = "idle" /\ made = <<>> /\ reply = "none"
    BY <1>1 DEF Receive, AInv, Progress
  <2>2. /\ method' = m /\ channel' \in {"ws", "http"} /\ shape' \in {"object", "array", "null"}
    BY <1>1, Received
  <2>3. CASE made' = <<Calls'[1]>> /\ place' = "calling" /\ UNCHANGED <<linkVars, reply>>
    <3>1. Ranges'
      BY <2>2, <2>3 DEF AInv, Ranges, linkVars
    <3>2. Progress'
      BY <2>1, <2>2, <2>3, CallsAreTheirs DEF Progress, MadeOf
    <3> QED BY <2>1, <2>3, <3>1, <3>2 DEF AInv, Answered, RefusedIsUndone, Caused, Refused, Unexpected
  <2>4. CASE \E exc \in {"bad", "dies", "os"} : Raise(exc) /\ (exc # "bad" => Cause')
    <3>1. PICK exc \in {"bad", "dies", "os"} : Raise(exc) /\ (exc # "bad" => Cause')
      BY <2>4
    <3>2. Range(made) \subseteq Lookups
      BY <2>1 DEF Range
    <3> QED BY <2>1, <2>2, <3>1, <3>2, Raised DEF Exceptions
  <2> QED BY <1>1, <2>3, <2>4, Received
<1>2. CASE ReceiveOther
  <2>1. made = <<>> /\ Range(made) \subseteq Lookups
    BY <1>2 DEF ReceiveOther, AInv, Progress, Range
  <2>2. /\ Raise("bad") /\ channel' \in {"ws", "http"} /\ "bad" \in Exceptions
        /\ method' \in MethodNames \cup {"none"} /\ shape' \in {"none", "object", "array", "null"}
    BY <1>2 DEF ReceiveOther, AInv, Ranges, Exceptions
  <2> QED BY <2>1, <2>2, Raised
<1>3. CASE Return
  <2>1. /\ place = "calling" /\ UNCHANGED requestVars /\ made # <<>> /\ channel \in {"ws", "http"}
        /\ reply = "none"
    BY <1>3, Returned DEF AInv, Progress, Ranges
  <2>2. CASE Succeed
    BY <2>1, <2>2 DEF Succeed, AInv, Ranges, Answered, Progress, MadeOf, RefusedIsUndone, Caused, Refused,
                      Unexpected, linkVars, requestVars
  <2>3. CASE /\ Len(Calls) = 2 /\ made' = <<Calls[1], Calls[2]>> /\ place' = "calling"
             /\ UNCHANGED <<linkVars, reply>>
    <3>1. Ranges' /\ Answered'
      BY <2>1, <2>3 DEF AInv, Ranges, Answered, linkVars, requestVars
    <3>2. Progress'
      <4>1. /\ CallsOf(method', shape', params') = Calls
            /\ made' = <<Calls[1], Calls[2]>> /\ Len(Calls) = 2
        BY <2>1, <2>3, CallsAreTheirs DEF requestVars
      <4>2. method' \in MethodNames /\ made' # <<>>
        BY <2>1, <2>3 DEF AInv, Progress, requestVars
      <4>3. MadeOf(CallsOf(method, shape, params))'
        BY <4>1 DEF MadeOf
      <4> QED BY <2>1, <2>3, <4>2, <4>3 DEF Progress, requestVars
    <3> QED BY <2>1, <2>3, <3>1, <3>2 DEF AInv, RefusedIsUndone, Caused, Refused, Unexpected
  <2>4. CASE /\ Calls[1] \in Lookups /\ made = <<Calls[1]>>
             /\ \E exc \in {"bad", "dies", "os"} : Raise(exc)
    <3>1. PICK exc \in {"bad", "dies", "os"} : Raise(exc)
      BY <2>4
    <3>2. Range(made) \subseteq Lookups
      BY <2>4 DEF Range
    <3> QED BY <2>1, <3>1, <3>2, Raised DEF Exceptions, AInv, Ranges, requestVars
  <2> QED BY <1>3, <2>2, <2>3, <2>4, Returned
<1>4. CASE Fail
  <2>1. /\ made # <<>> /\ channel \in {"ws", "http"} /\ UNCHANGED requestVars
    BY <1>4 DEF Fail, AInv, Progress, Ranges
  <2>2. PICK exc \in {"app", "connection", "lapse"} : Raise(exc)
    BY <1>4 DEF Fail
  <2> QED BY <2>1, <2>2, Raised DEF Exceptions, AInv, Ranges, requestVars
<1>5. CASE LinkDown \/ LinkUp \/ UNCHANGED vars
  <2>1. UNCHANGED <<requestVars, place, made, reply>>
    BY <1>5 DEF LinkDown, LinkUp, vars
  <2>2. Ranges'
    <3>1. connected' \in BOOLEAN
      BY <1>5 DEF LinkDown, LinkUp, vars, linkVars, AInv, Ranges
    <3>2. outages' \in 0..MaxOutages
      BY <1>5, BoundsAssumption DEF LinkDown, LinkUp, vars, linkVars, AInv, Ranges
    <3> QED BY <2>1, <3>1, <3>2 DEF AInv, Ranges, requestVars
  <2>3. Answered' /\ Progress' /\ RefusedIsUndone'
    BY <2>1 DEF AInv, Answered, Progress, MadeOf, RefusedIsUndone, requestVars
  <2>4. Caused'
    <3>1. Calls' = Calls
      BY <2>1, CallsAreTheirs DEF requestVars
    <3> QED BY <2>1, <3>1 DEF AInv, Caused, Cause, requestVars
  <2> QED BY <2>2, <2>3, <2>4 DEF AInv
<1>6. CASE Emit
  <2>1. /\ UNCHANGED <<linkVars, requestVars, made, reply>> /\ place' = "done"
        /\ reply = "none" /\ made = <<>>
    BY <1>6 DEF Emit, AInv, Progress
  <2> QED BY <2>1 DEF AInv, Ranges, Answered, Progress, RefusedIsUndone, Caused, Refused, Unexpected,
                      linkVars, requestVars
<1> QED BY <1>1, <1>2, <1>3, <1>4, <1>5, <1>6, Zenon DEF Next

LEMMA Invariance == Spec => []AInv
BY Initially, Steps, PTL DEF Spec
---------------------------------------------------------------------------
(* Theorems.                                                               *)

\* Every state has its type, a reply is one of its channel, and a handler makes no
\* more calls than its method has (dispatch.py, websocket_server.py:138-221).
THEOREM TypeCorrect == Spec => []TypeOK
<1>1. AInv => TypeOK
  BY MadeIsBounded DEF AInv, Ranges, Answered, TypeOK
<1> QED BY <1>1, Invariance, PTL

\* A client that is told "bad params" can correct its request and send it again: all
\* that was asked of signal-cli is where the group or the identity is
\* (websocket_server.py:162, dispatch.py:300-343, :471-482).
THEOREM RefusalsAreUndone == Spec => []RefusedIsUndone
<1>1. AInv => RefusedIsUndone
  BY DEF AInv
<1> QED BY <1>1, Invariance, PTL

\* A client that gets no reply, or 500, before any call was made asked for what no
\* except clause and no DBus type provides for (websocket_server.py:148-163, :215-221).
THEOREM SilenceIsExplained == Spec => []SilenceHasCause
<1>1. AInv => SilenceHasCause
  BY DEF AInv, Caused, Cause, SilenceHasCause
<1> QED BY <1>1, Invariance, PTL

\* A request takes the link down for all others before its first call only by naming
\* an attachment that cannot be looked up (dispatch.py:187-192, types.py:45-54).
THEOREM UnsentIsHarmless == Spec => UnsentKeepsLink
<1> DEFINE Kept == (reply' # reply /\ made' = <<>> /\ connected /\ ~connected')
                      => "attachments" \in DOMAIN params' /\ params'["attachments"] = "unreachable"
<1>1. AInv /\ [Next]_vars => [Kept]_vars
  <2> SUFFICES ASSUME AInv, Next, reply' # reply, made' = <<>>, connected, ~connected'
               PROVE  "attachments" \in DOMAIN params' /\ params'["attachments"] = "unreachable"
    OBVIOUS
  <2>1. ASSUME NEW m \in MethodNames, Receive(m)
        PROVE  "attachments" \in DOMAIN params' /\ params'["attachments"] = "unreachable"
    <3>1. ~ UNCHANGED linkVars
      BY DEF linkVars
    <3>2. PICK exc \in {"bad", "dies", "os"} :
             /\ Raise(exc)
             /\ exc = "os" => /\ "attachments" \in DOMAIN params'
                              /\ params'["attachments"] = "unreachable"
      BY <2>1, <3>1, Received
    <3>3. exc = "os"
      BY <3>2 DEF Raise, LosesLink
    <3> QED BY <3>2, <3>3
  <2>2. ~ ReceiveOther
    BY DEF ReceiveOther, Raise, LosesLink
  <2>3. ~ Return
    <3>1. SUFFICES ASSUME Return PROVE FALSE
      OBVIOUS
    <3>2. made # <<>> /\ ~ UNCHANGED linkVars
      BY <3>1 DEF Return, AInv, Progress, linkVars
    <3>3. PICK exc \in {"bad", "dies", "os"} : Raise(exc)
      BY <3>1, <3>2, Returned DEF Succeed
    <3> QED BY <3>2, <3>3 DEF Raise
  <2>4. ~ Fail
    BY DEF Fail, Raise, AInv, Progress
  <2>5. ~ (LinkDown \/ LinkUp \/ Emit)
    BY DEF LinkDown, LinkUp, Emit
  <2> QED BY <2>1, <2>2, <2>3, <2>4, <2>5, Zenon DEF Next
<1> QED BY <1>1, Invariance, PTL DEF Spec, UnsentKeepsLink
---------------------------------------------------------------------------
(* The published variant.                                                  *)

LEMMA RegistrationRuns ==
  ASSUME NEW n \in Nat, NEW S, NEW none \in S, NEW list \in [1..n -> S]
  PROVE  \E f \in [0..n -> S] :
            f[0] = none /\ \A i \in 1..n : f[i] = Register(f[i - 1], list[i])
<1> DEFINE step == [i \in 1..n |-> [v \in S |-> Register(v, list[i])]]
<1>1. step \in [1..n -> [S -> S]]
  BY DEF Register
<1> HIDE DEF step
<1>2. PICK f \in [0..n -> S] : f[0] = none /\ \A i \in 1..n : f[i] = step[i][f[i - 1]]
  <2>1. \E f \in [0..n -> S] : f[0] = none /\ \A i \in 1..n : f[i] = step[i][f[i - 1]]
    BY <1>1, Recursion
  <2> QED BY <2>1
<1>3. ASSUME NEW i \in 1..n PROVE f[i] = Register(f[i - 1], list[i])
  <2>1. f[i] = step[i][f[i - 1]] /\ f[i - 1] \in S
    BY <1>2
  <2> QED BY <2>1 DEF step
<1> QED BY <1>2, <1>3

\* Of any number of variants, none is wider than the one that is registered in the end.
LEMMA WidestIsRegistered ==
  ASSUME NEW n \in Nat, NEW S, NEW none \in S, NEW list \in [1..n -> S]
  PROVE  none = <<>> /\ (\A v \in S : Len(v) \in Nat)
            => /\ Registered(list) \in S
               /\ \A i \in 1..n : Len(list[i]) <= Len(Registered(list))
<1>1. PICK f \in [0..n -> S] :
         f[0] = none /\ \A i \in 1..n : f[i] = Register(f[i - 1], list[i])
  BY RegistrationRuns, SMTT(30)
<1> SUFFICES ASSUME none = <<>>, \A v \in S : Len(v) \in Nat
             PROVE  /\ Registered(list) \in S
                    /\ \A i \in 1..n : Len(list[i]) <= Len(Registered(list))
  OBVIOUS
<1>2. Len(list) = n
  OBVIOUS
<1> DEFINE Registers(g) == g = [k \in 0..n |-> IF k = 0 THEN <<>> ELSE Register(g[k - 1], list[k])]
           kept == CHOOSE g : Registers(g)
<1>3. Registers(f)
  BY <1>1
<1>4. Registers(kept)
  BY <1>3
<1>5. Registered(list) = kept[n]
  BY <1>2 DEF Registered
<1> HIDE DEF kept
<1>6. kept[0] = <<>> /\ \A i \in 1..n : kept[i] = Register(kept[i - 1], list[i])
  BY <1>4
<1> DEFINE Wide == {k \in 0..n : kept[k] \in S /\ \A i \in 1..k : Len(list[i]) <= Len(kept[k])}
           Reached == {k \in Nat : k <= n => k \in Wide}
<1>7. 0 \in Reached
  BY <1>6
<1>8. ASSUME NEW k \in Nat, k \in Reached PROVE k + 1 \in Reached
  <2>1. SUFFICES ASSUME k + 1 <= n PROVE k + 1 \in Wide
    OBVIOUS
  <2>2. k \in Wide
    BY <1>8, <2>1
  <2>3. kept[k + 1] = Register(kept[k], list[k + 1]) /\ list[k + 1] \in S
    BY <1>6, <2>1
  <2>4. /\ kept[k + 1] \in S /\ Len(kept[k]) <= Len(kept[k + 1])
        /\ Len(list[k + 1]) <= Len(kept[k + 1])
    BY <2>2, <2>3 DEF Register
  <2>5. ASSUME NEW i \in 1..(k + 1) PROVE Len(list[i]) <= Len(kept[k + 1])
    <3>1. CASE i = k + 1
      BY <2>4, <3>1
    <3>2. CASE i # k + 1
      <4>1. i \in 1..k /\ Len(list[i]) \in Nat /\ Len(kept[k]) \in Nat /\ Len(kept[k + 1]) \in Nat
        BY <2>1, <2>2, <2>4, <3>2
      <4> QED BY <2>2, <2>4, <4>1
    <3> QED BY <3>1, <3>2
  <2> QED BY <2>1, <2>4, <2>5
<1>9. n \in Wide
  <2> HIDE DEF Reached
  <2>1. Nat \subseteq Reached
    BY <1>7, <1>8, Induction
  <2> QED BY <2>1 DEF Reached
<1> QED BY <1>5, <1>9

\* A variant is published of a call: its parameters and their types.
Publishes(args, call) ==
    /\ Len(args) = Len(call.body) /\ DOMAIN args = 1..Len(call.body)
    /\ \A i \in 1..Len(call.body) :
          args[i].name = call.body[i].param /\ args[i].type = DBusType(call.signature[i])

LEMMA VariantsPublish ==
  ASSUME NEW call, Len(call.body) \in Nat
  PROVE  Publishes(Variant(call), call)
BY DEF Publishes, Variant

\* What signal-cli lists of a form: its variant or the one for one recipient, with
\* names or without.
Lists(variant, call) ==
    LET called == Variant(call)
        one == ForOneRecipient(called)
    IN  variant \in {called, one, Unnamed(called), Unnamed(one)}

\* A listed variant has an argument for each of the form's.
LEMMA ListedLength ==
  ASSUME NEW call, Len(call.body) \in Nat, NEW variant, Lists(variant, call)
  PROVE  /\ Len(variant) = Len(call.body) /\ DOMAIN variant = 1..Len(call.body)
         /\ Len(ParseArgs(variant)) = Len(variant) /\ DOMAIN ParseArgs(variant) = DOMAIN variant
<1> DEFINE n == Len(call.body)
           called == Variant(call)
           one == ForOneRecipient(called)
<1>1. \A v : DOMAIN v = 1..n =>
          /\ DOMAIN ForOneRecipient(v) = 1..n /\ DOMAIN Unnamed(v) = 1..n
          /\ DOMAIN ParseArgs(v) = 1..n
  BY DEF ForOneRecipient, Unnamed, ParseArgs
<1>2. DOMAIN called = 1..n
  BY DEF Variant
<1> HIDE DEF called
<1>3. DOMAIN one = 1..n
  BY <1>1, <1>2
<1> HIDE DEF one
<1>4. variant \in {called, one, Unnamed(called), Unnamed(one)}
  BY DEF Lists, called, one
<1>5. DOMAIN variant = 1..n
  BY <1>1, <1>2, <1>3, <1>4
<1>6. DOMAIN ParseArgs(variant) = 1..n
  BY <1>1, <1>5
<1>7. variant = [i \in 1..n |-> variant[i]] /\ ParseArgs(variant) = [i \in 1..n |-> ParseArgs(variant)[i]]
  <2>1. variant = [i \in 1..n |-> variant[i]]
    BY <1>4, <1>5 DEF called, one, Variant, ForOneRecipient, Unnamed
  <2>2. ParseArgs(variant) = [i \in 1..n |-> ParseArgs(variant)[i]]
    BY <1>5, <1>6 DEF ParseArgs
  <2> QED BY <2>1, <2>2
<1>8. \A f : Len([i \in 1..n |-> f[i]]) = n
  OBVIOUS
<1> QED BY <1>5, <1>6, <1>7, <1>8, Zenon

\* Of no arguments, none is published.
LEMMA NoArgs == ASSUME NEW variant, DOMAIN variant = {} PROVE ParseArgs(variant) = <<>>
BY DEF ParseArgs

\* A form makes a call, and the first is sound.
LEMMA FirstCallIsSound ==
  ASSUME NEW m, NEW calls, SoundCalls(m, calls)
  PROVE  1 \in 1..Len(calls) /\ SoundCall(m, calls[1].signature, calls[1].body)
<1>1. Len(calls) = 1 \/ Len(calls) = 2
  BY Zenon DEF SoundCalls
<1>2. 1 \in 1..Len(calls)
  BY <1>1
<1> QED BY <1>2 DEF SoundCalls

\* Whatever signal-cli lists of a method, a variant of some form is published, and
\* none is wider.
LEMMA PublishedForms ==
  ASSUME NEW m \in MethodNames, NEW list \in Introspections(m), list # <<>>
  PROVE  /\ \A i \in DOMAIN list : Len(list[i]) <= Len(Published(list))
         /\ \E k \in 1..Len(Method[m]) : \E variant :
               /\ Lists(variant, Method[m][k].calls[1])
               /\ Published(list) = ParseArgs(variant)
<1> DEFINE forms == Method[m]
           call(k) == forms[k].calls[1]
           Listed(v) == \E k \in 1..Len(forms) : Lists(v, call(k))
<1>1. \A k \in 1..Len(forms) : Len(call(k).body) \in Nat
  <2> SUFFICES ASSUME NEW k \in 1..Len(forms) PROVE Len(call(k).body) \in Nat
    OBVIOUS
  <2>1. SoundCalls(m, forms[k].calls)
    BY MethodsSound DEF SoundForms
  <2>2. SoundCall(m, call(k).signature, call(k).body)
    BY <2>1 DEF SoundCalls
  <2> QED BY <2>2 DEF SoundCall, IsSequence
<1>2. PICK n \in 1..MaxVariants :
         /\ list \in [1..n -> Overloads(m)]
            \/ list \in [1..n -> {Unnamed(variant) : variant \in Overloads(m)}]
  BY DEF Introspections
<1>3. ASSUME NEW v \in Overloads(m) PROVE Listed(v) /\ Listed(Unnamed(v))
  <2>1. PICK form \in Range(forms) :
           v = Variant(form.calls[1]) \/ v = ForOneRecipient(Variant(form.calls[1]))
    BY <1>3 DEF Overloads
  <2>2. PICK k \in 1..Len(forms) : form = forms[k]
    BY MethodsSound DEF SoundForms, IsSequence, Range
  <2>3. Lists(v, call(k)) /\ Lists(Unnamed(v), call(k))
    BY <2>1, <2>2 DEF Lists
  <2> QED BY <2>3
<1>4. n \in Nat /\ n # 0 /\ DOMAIN list = 1..n /\ \A i \in 1..n : Listed(list[i])
  <2>1. n \in Nat /\ n # 0 /\ DOMAIN list = 1..n
    BY <1>2, BoundsAssumption
  <2> SUFFICES ASSUME NEW i \in 1..n PROVE Listed(list[i])
    BY <2>1
  <2>2. list[i] \in Overloads(m) \/ \E v \in Overloads(m) : list[i] = Unnamed(v)
    BY <1>2
  <2> HIDE DEF Listed
  <2> QED BY <1>3, <2>2
<1>5. \A v : Listed(v) => /\ Len(v) \in Nat /\ Len(ParseArgs(v)) = Len(v)
                          /\ DOMAIN ParseArgs(v) = 1..Len(v)
  BY <1>1, ListedLength
<1> DEFINE parsed == [i \in 1..n |-> ParseArgs(list[i])]
           S == {<<>>} \cup {parsed[i] : i \in 1..n}
           none == <<>>
<1> HIDE DEF Listed
<1>6. parsed \in [1..n -> S] /\ none \in S /\ none = <<>> /\ Published(list) = Registered(parsed)
  BY <1>4 DEF Published
<1>7. \A i \in 1..n : Len(parsed[i]) = Len(list[i]) /\ Len(list[i]) \in Nat
  BY <1>4, <1>5
<1>8. \A v \in S : Len(v) \in Nat
  BY <1>7
<1>9. \A v \in S : v = <<>> \/ \E i \in 1..n : v = ParseArgs(list[i])
  OBVIOUS
<1>10. \A i \in 1..n : parsed[i] = ParseArgs(list[i])
  OBVIOUS
<1> HIDE DEF S, none, parsed
<1>11. Registered(parsed) \in S /\ \A i \in 1..n : Len(parsed[i]) <= Len(Registered(parsed))
  BY <1>4, <1>6, <1>8, WidestIsRegistered
<1>12. \E i \in 1..n : Registered(parsed) = ParseArgs(list[i])
  <2>1. CASE Registered(parsed) = <<>>
    <3>1. 1 \in 1..n /\ Len(list[1]) \in Nat /\ Len(list[1]) <= 0
      BY <1>4, <1>7, <1>11, <2>1
    <3>2. DOMAIN ParseArgs(list[1]) = {}
      BY <1>4, <1>5, <3>1
    <3>3. ParseArgs(list[1]) = <<>>
      <4>1. DOMAIN list[1] = {}
        BY <3>2 DEF ParseArgs
      <4> QED BY <4>1, NoArgs
    <3> QED BY <2>1, <3>1, <3>3
  <2> QED BY <1>9, <1>11, <2>1
<1>13. \A i \in DOMAIN list : Len(list[i]) <= Len(Published(list))
  BY <1>4, <1>6, <1>7, <1>11
<1>14. \E k \in 1..Len(forms) : \E variant :
          Lists(variant, call(k)) /\ Published(list) = ParseArgs(variant)
  BY <1>4, <1>6, <1>12 DEF Listed
<1> QED BY <1>13, <1>14

\* What the dispatcher does not read of what is published of a method.
ForeignTo(m, args) ==
    \E i \in DOMAIN args :
        \/ args[i].name \in Range(Positional)
        \/ args[i].name = "recipient" /\ "recipients" \in ParamsOf(m)

\* Unless an argument is foreign to the dispatcher, what is published is one of its
\* forms.
LEMMA PublishedIsAForm ==
  ASSUME NEW m \in MethodNames, NEW list \in Introspections(m), list # <<>>,
         ~ ForeignTo(m, Published(list))
  PROVE  \E k \in 1..Len(Method[m]) : Publishes(Published(list), Method[m][k].calls[1])
<1>0. PICK k \in 1..Len(Method[m]) : \E variant :
         Lists(variant, Method[m][k].calls[1]) /\ Published(list) = ParseArgs(variant)
  BY PublishedForms
<1>1. PICK variant :
         Lists(variant, Method[m][k].calls[1]) /\ Published(list) = ParseArgs(variant)
  BY <1>0
<1> DEFINE calls == Method[m][k].calls
           call == calls[1]
           n == Len(call.body)
           called == Variant(call)
           one == ForOneRecipient(called)
           args == ParseArgs(variant)
<1>2. SoundCalls(m, calls)
  BY MethodsSound DEF SoundForms
<1>3. 1 \in 1..Len(calls) /\ SoundCall(m, call.signature, call.body)
  BY <1>2, FirstCallIsSound
<1>4. n \in Nat /\ n <= 6 /\ DOMAIN call.body = 1..n
  BY <1>3 DEF SoundCall, IsSequence
<1>5. \A i \in 1..n : call.body[i].param \in ParamsOf(m)
  BY <1>3, <1>4, ArgumentsAreParameters
<1>6. Publishes(called, call)
  BY <1>4, VariantsPublish
<1>7. DOMAIN variant = 1..n /\ Len(args) = n /\ DOMAIN args = 1..n
  BY <1>1, <1>4, ListedLength
<1>8. \A i \in 1..n : args[i].name \notin Range(Positional)
  BY <1>1, <1>7 DEF ForeignTo
<1>9. \A i \in 1..n : /\ args[i].type = variant[i].type
                      /\ variant[i].name = "" => args[i].name = Positional[i]
                      /\ variant[i].name # "" => args[i].name = variant[i].name
  BY <1>7 DEF ParseArgs
<1>10. \A i \in 1..n : Positional[i] \in Range(Positional)
  <2>1. DOMAIN Positional = 1..6
    BY DEF Positional
  <2> QED BY <1>4, <2>1 DEF Range
<1>11. \A i \in 1..n : variant[i].name # "" /\ args[i].name = variant[i].name
  BY <1>8, <1>9, <1>10
<1> HIDE DEF args, called, one
<1>12. \A i \in 1..n : /\ called[i].name = call.body[i].param
                       /\ called[i].type = DBusType(call.signature[i])
  BY <1>6 DEF Publishes
<1>13. DOMAIN called = 1..n /\ DOMAIN one = 1..n
  BY <1>4, <1>6 DEF Publishes, one, ForOneRecipient
<1>14. variant \in {called, one, Unnamed(called), Unnamed(one)}
  BY <1>1 DEF Lists, called, one
<1>15. \A i \in 1..n : variant[i] = called[i]
  <2>1. CASE variant = called
    BY <2>1
  <2>2. CASE variant = one
    <3> SUFFICES ASSUME NEW i \in 1..n PROVE one[i] = called[i]
      BY <2>2
    <3>1. CASE called[i].name = "recipients"
      <4>1. one[i].name = "recipient"
        BY <1>13, <3>1 DEF one, ForOneRecipient
      <4>2. "recipients" \in ParamsOf(m)
        BY <1>5, <1>12, <3>1
      <4>3. args[i].name = "recipient" /\ i \in DOMAIN args
        BY <1>7, <1>11, <2>2, <4>1
      <4> QED BY <1>1, <4>2, <4>3 DEF ForeignTo, args
    <3>2. CASE called[i].name # "recipients"
      BY <1>13, <3>2 DEF one, ForOneRecipient
    <3> QED BY <3>1, <3>2
  <2>3. CASE variant \in {Unnamed(called), Unnamed(one)}
    <3>1. \A v : DOMAIN v = 1..n => \A i \in 1..n : Unnamed(v)[i].name = ""
      BY DEF Unnamed
    <3>2. \A i \in 1..n : variant[i].name = ""
      BY <1>13, <2>3, <3>1
    <3> QED BY <1>11, <3>2
  <2> QED BY <1>14, <2>1, <2>2, <2>3
<1>16. Publishes(args, call)
  BY <1>4, <1>7, <1>9, <1>11, <1>12, <1>15 DEF Publishes
<1> QED BY <1>1, <1>16 DEF args

LEMMA IntrospectionsArePublished ==
  ASSUME NEW m \in MethodNames, NEW list \in Introspections(m)
  PROVE  \A i \in DOMAIN list : Len(list[i]) <= Len(Published(list))
<1>1. CASE list = <<>>
  BY <1>1
<1>2. CASE list # <<>>
  BY <1>2, PublishedForms
<1> QED BY <1>1, <1>2

\* Whatever the order in which signal-cli lists overloaded variants, none has more
\* parameters than the one that is published (asyncapi.py:67-75).
THEOREM PublishedIsWidest == Spec => []WidestIsPublished
<1>1. Init => WidestIsPublished
  BY DEF Init, WidestIsPublished
<1>2. WidestIsPublished /\ [Next]_vars => WidestIsPublished'
  <2> SUFFICES ASSUME WidestIsPublished, [Next]_vars PROVE WidestIsPublished'
    OBVIOUS
  <2>1. ASSUME NEW m \in MethodNames, Receive(m) PROVE WidestIsPublished'
    BY <2>1, IntrospectionsArePublished DEF Receive, WidestIsPublished
  <2>2. CASE UNCHANGED variants
    BY <2>2 DEF WidestIsPublished
  <2>3. [Next]_vars => (\E m \in MethodNames : Receive(m)) \/ UNCHANGED variants
    BY DEF Next, ReceiveOther, Return, Fail, LinkDown, LinkUp, Emit, requestVars, vars
  <2> QED BY <2>1, <2>2, <2>3
<1> QED BY <1>1, <1>2, PTL DEF Spec
---------------------------------------------------------------------------
(* Valid requests.  All methods but two have one form.                     *)

LEMMA PatternsHaveOneForm ==
  /\ Len(Nothing) = 1 /\ \A p : Len(OneString(p)) = 1
  /\ \A s, b : Len(Plain(s, b)) = 1 /\ Len(InGroup(s, b)) = 1 /\ Len(OfIdentity(s, b)) = 1
BY DEF Nothing, OneString, Plain, InGroup, OfIdentity

LEMMA OneForm ==
  ASSUME NEW m \in MethodNames, m # "isRegistered", m # "updateProfile"
  PROVE  Len(Method[m]) = 1
<1>1. \A n \in DOMAIN Messaging : Len(Messaging[n]) = 1
  BY PatternsHaveOneForm DEF Messaging
<1>2. \A n \in DOMAIN Groups : Len(Groups[n]) = 1
  BY PatternsHaveOneForm DEF Groups
<1>3. \A n \in DOMAIN GroupManagement : Len(GroupManagement[n]) = 1
  BY PatternsHaveOneForm DEF GroupManagement
<1>4. \A n \in DOMAIN Contacts : n # "isRegistered" => Len(Contacts[n]) = 1
  <2>1. /\ Len(Contacts["getSelfNumber"]) = 1 /\ Len(Contacts["getContactName"]) = 1
        /\ Len(Contacts["getContactNumber"]) = 1 /\ Len(Contacts["setContactName"]) = 1
        /\ Len(Contacts["isContactBlocked"]) = 1 /\ Len(Contacts["setContactBlocked"]) = 1
    BY PatternsHaveOneForm, Zenon DEF Contacts
  <2>2. /\ Len(Contacts["deleteContact"]) = 1 /\ Len(Contacts["deleteRecipient"]) = 1
        /\ Len(Contacts["listNumbers"]) = 1 /\ Len(Contacts["setExpirationTimer"]) = 1
    BY PatternsHaveOneForm, Zenon DEF Contacts
  <2>3. DOMAIN Contacts = {"getSelfNumber", "getContactName", "getContactNumber", "setContactName",
                           "isContactBlocked", "setContactBlocked", "deleteContact",
                           "deleteRecipient", "isRegistered", "listNumbers", "setExpirationTimer"}
    BY DEF Contacts
  <2> QED BY <2>1, <2>2, <2>3
<1>5. \A n \in DOMAIN Profile : n = "updateProfile"
  BY DEF Profile
<1>6. \A n \in DOMAIN Devices : Len(Devices[n]) = 1
  BY PatternsHaveOneForm DEF Devices
<1>7. \A n \in DOMAIN Identities : Len(Identities[n]) = 1
  BY PatternsHaveOneForm DEF Identities
<1>8. \A table \in Tables : m \in DOMAIN table => Len(table[m]) = 1
  BY <1>1, <1>2, <1>3, <1>4, <1>5, <1>6, <1>7, Zenon DEF Tables
<1> QED BY <1>8, Zenon DEF MethodNames, Method

LEMMA SeveralForms ==
  /\ Method["isRegistered"] = <<Form("numbers", <<Call(<<"as">>, <<Raw("numbers")>>)>>),
                                Form("number", <<Call(<<"s">>, <<Raw("number")>>)>>),
                                Form("", <<Call(<<>>, <<>>)>>)>>
  /\ Method["updateProfile"] = Profile["updateProfile"]
<1>1. /\ "isRegistered" \in DOMAIN Contacts
      /\ Contacts["isRegistered"] = <<Form("numbers", <<Call(<<"as">>, <<Raw("numbers")>>)>>),
                                      Form("number", <<Call(<<"s">>, <<Raw("number")>>)>>),
                                      Form("", <<Call(<<>>, <<>>)>>)>>
      /\ "updateProfile" \notin DOMAIN Contacts
  BY DEF Contacts
<1>2. "isRegistered" \notin DOMAIN Messaging /\ "updateProfile" \notin DOMAIN Messaging
  BY DEF Messaging
<1>3. "isRegistered" \notin DOMAIN Groups /\ "updateProfile" \notin DOMAIN Groups
  BY DEF Groups
<1>4. "isRegistered" \notin DOMAIN GroupManagement /\ "updateProfile" \notin DOMAIN GroupManagement
  BY DEF GroupManagement
<1>5. "isRegistered" \notin DOMAIN Profile /\ "updateProfile" \in DOMAIN Profile
  BY DEF Profile
<1>6. "isRegistered" \notin DOMAIN Devices /\ "updateProfile" \notin DOMAIN Devices
  BY DEF Devices
<1>7. "isRegistered" \notin DOMAIN Identities /\ "updateProfile" \notin DOMAIN Identities
  BY DEF Identities
<1>8. /\ \A table \in Tables : "isRegistered" \in DOMAIN table => table = Contacts
      /\ \A table \in Tables : "updateProfile" \in DOMAIN table => table = Profile
      /\ Contacts \in Tables /\ Profile \in Tables
  BY <1>1, <1>2, <1>3, <1>4, <1>5, <1>6, <1>7, Zenon DEF Tables
<1>9. Method["isRegistered"] = Contacts["isRegistered"]
  BY <1>1, <1>8, Zenon DEF Method
<1>10. Method["updateProfile"] = Profile["updateProfile"]
  BY <1>5, <1>8, Zenon DEF Method
<1> QED BY <1>1, <1>9, <1>10

\* A call of one parameter.
LEMMA OneParameter ==
  ASSUME NEW given, NEW signature, NEW param
  PROVE  LET form == Form(given, <<Call(signature, <<Raw(param)>>)>>)
         IN  /\ form.given = given /\ Len(form.calls) = 1
             /\ Len(form.calls[1].body) = 1 /\ DOMAIN form.calls[1].body = {1}
             /\ form.calls[1].body[1].param = param
<1> DEFINE call == Call(signature, <<Raw(param)>>)
           calls == <<call>>
           body == <<Raw(param)>>
<1>1. Form(given, calls).given = given /\ Form(given, calls).calls = calls
  BY DEF Form
<1>2. Len(calls) = 1 /\ calls[1] = call
  OBVIOUS
<1>3. call.body = body
  BY DEF Call
<1>4. Len(body) = 1 /\ DOMAIN body = {1} /\ body[1].param = param
  BY DEF Raw, Arg
<1> HIDE DEF call, calls, body
<1> QED BY <1>1, <1>2, <1>3, <1>4 DEF calls, call

LEMMA FormsOfIsRegistered ==
  LET forms == Method["isRegistered"]
  IN  /\ Len(forms) = 3 /\ Len(forms[1].calls) = 1 /\ Len(forms[2].calls) = 1
      /\ forms[1].given = "numbers" /\ forms[2].given = "number" /\ forms[3].given = ""
      /\ Len(forms[1].calls[1].body) = 1 /\ Len(forms[2].calls[1].body) = 1
      /\ Len(forms[3].calls[1].body) = 0
      /\ DOMAIN forms[1].calls[1].body = {1} /\ DOMAIN forms[2].calls[1].body = {1}
      /\ forms[1].calls[1].body[1].param = "numbers"
      /\ forms[2].calls[1].body[1].param = "number"
<1> DEFINE f == Form("numbers", <<Call(<<"as">>, <<Raw("numbers")>>)>>)
           g == Form("number", <<Call(<<"s">>, <<Raw("number")>>)>>)
           h == Form("", <<Call(<<>>, <<>>)>>)
           forms == <<f, g, h>>
<1>1. Method["isRegistered"] = forms
  BY SeveralForms
<1>2. /\ f.given = "numbers" /\ Len(f.calls) = 1
      /\ Len(f.calls[1].body) = 1 /\ DOMAIN f.calls[1].body = {1}
      /\ f.calls[1].body[1].param = "numbers"
  BY OneParameter
<1>3. /\ g.given = "number" /\ Len(g.calls) = 1
      /\ Len(g.calls[1].body) = 1 /\ DOMAIN g.calls[1].body = {1}
      /\ g.calls[1].body[1].param = "number"
  BY OneParameter
<1>4. h.given = "" /\ Len(h.calls[1].body) = 0
  BY DEF Form, Call
<1> HIDE DEF f, g, h
<1>5. Len(forms) = 3 /\ forms[1] = f /\ forms[2] = g /\ forms[3] = h
  OBVIOUS
<1> HIDE DEF forms
<1> QED BY <1>1, <1>2, <1>3, <1>4, <1>5

LEMMA FormsOfUpdateProfile ==
  LET forms == Method["updateProfile"]
  IN  /\ Len(forms) = 2 /\ forms[1].given = "givenName"
      /\ Len(forms[1].calls[1].body) = 6 /\ Len(forms[2].calls[1].body) = 5
      /\ forms[1].calls[1].body[1].param = "givenName"
      /\ \A i \in 1..5 : forms[2].calls[1].body[i].param # "givenName"
<1> DEFINE b == <<Raw("givenName"), OptRaw("familyName"), OptRaw("about"), OptRaw("aboutEmoji"),
                  OptRaw("avatar"), OptFlag("remove")>>
           c == <<Raw("name"), OptRaw("about"), OptRaw("aboutEmoji"), OptRaw("avatar"),
                  OptFlag("remove")>>
           s == <<"s", "s", "s", "s", "s", "b">>
           t == <<"s", "s", "s", "s", "b">>
           forms == <<Form("givenName", <<Call(s, b)>>), Form("", <<Call(t, c)>>)>>
<1>1. Method["updateProfile"] = forms
  BY SeveralForms, Zenon DEF Profile
<1>2. Len(b) = 6 /\ b[1] = Raw("givenName") /\ Len(c) = 5 /\ Raw("givenName").param = "givenName"
  BY DEF Raw, Arg
<1>4. \A i \in 1..5 : c[i].param # "givenName"
  <2>1. /\ c[1].param = "name" /\ c[2].param = "about" /\ c[3].param = "aboutEmoji"
        /\ c[4].param = "avatar" /\ c[5].param = "remove"
    BY DEF Raw, OptRaw, OptFlag, Arg
  <2> HIDE DEF c
  <2> QED BY <2>1
<1> HIDE DEF b, c, s, t
<1>3. /\ Len(forms) = 2 /\ forms[1].given = "givenName"
      /\ forms[1].calls[1].body = b /\ forms[2].calls[1].body = c
  BY DEF Form, Call
<1> HIDE DEF forms
<1> QED BY <1>1, <1>2, <1>3, <1>4

LEMMA MinimumIs ==
  ASSUME NEW n \in Nat, NEW S, NEW i \in S, \A k \in S : k \in 1..n /\ ~ (k < i)
  PROVE  Min(S) = i
<1>1. \A k \in S : k \in Int /\ i <= k
  OBVIOUS
<1>2. Min(S) \in S /\ \A k \in S : Min(S) <= k
  BY <1>1 DEF Min
<1>3. Min(S) \in Int /\ i \in Int /\ Min(S) <= i /\ i <= Min(S)
  BY <1>1, <1>2
<1> QED BY <1>3

\* The first form whose parameter is given is chosen.
LEMMA EarlyFormsAreChosen ==
  ASSUME NEW m \in MethodNames, NEW p
  PROVE  /\ p[Method[m][1].given] # Missing => Chosen(m, p) = Method[m][1]
         /\ (/\ 2 <= Len(Method[m]) /\ Method[m][1].given # ""
             /\ p[Method[m][1].given] = Missing /\ p[Method[m][2].given] # Missing)
               => Chosen(m, p) = Method[m][2]
         /\ (/\ 3 = Len(Method[m]) /\ Method[m][1].given # "" /\ Method[m][2].given # ""
             /\ p[Method[m][1].given] = Missing /\ p[Method[m][2].given] = Missing)
               => Chosen(m, p) = Method[m][3]
         /\ (/\ 2 = Len(Method[m]) /\ Method[m][1].given # ""
             /\ p[Method[m][1].given] = Missing)
               => Chosen(m, p) = Method[m][2]
<1> DEFINE forms == Method[m]
           n == Len(forms)
           IsGiven(i) == forms[i].given = "" \/ p[forms[i].given] # Missing
           given == {i \in 1..n : IsGiven(i)}
<1>1. n \in Nat /\ n # 0
  BY MethodsSound DEF SoundForms, IsSequence
<1>2. Chosen(m, p) = forms[Min(given)]
  BY DEF Chosen
<1> HIDE DEF forms, n, IsGiven
<1>3. ASSUME IsGiven(1) PROVE Min(given) = 1
  <2>1. 1 \in given /\ \A i \in given : i \in 1..n /\ ~ (i < 1)
    BY <1>1, <1>3
  <2> QED BY <1>1, <2>1, MinimumIs
<1>4. ASSUME 2 <= n, ~ IsGiven(1), IsGiven(2) PROVE Min(given) = 2
  <2>1. 2 \in given /\ \A i \in given : i \in 1..n /\ ~ (i < 2)
    BY <1>1, <1>4
  <2> QED BY <1>1, <2>1, MinimumIs
<1>5. given # {} /\ given \subseteq 1..n /\ \A i \in given : IsGiven(i)
  <2>1. n \in 1..n
    BY <1>1
  <2>2. Always(forms[n])
    BY MethodsSound DEF SoundForms, forms, n
  <2>3. IsGiven(n)
    BY <2>2 DEF Always, IsGiven
  <2> QED BY <2>1, <2>3
<1> HIDE DEF given
<1>6. Chosen(m, p) \in {forms[i] : i \in given}
  <2>1. \E i \in given : \A k \in given : i <= k
    BY <1>1, <1>5, Least
  <2>2. Min(given) \in given
    BY <2>1 DEF Min
  <2> QED BY <1>2, <2>2
<1>7. ASSUME 3 = n, ~ IsGiven(1), ~ IsGiven(2) PROVE Chosen(m, p) = forms[3]
  BY <1>5, <1>6, <1>7
<1>8. ASSUME 2 = n, ~ IsGiven(1) PROVE Chosen(m, p) = forms[2]
  BY <1>5, <1>6, <1>8
<1> QED BY <1>2, <1>3, <1>4, <1>7, <1>8, Zenon DEF forms, n, IsGiven

\* What a client reads off the published variant args: what to give, and nothing
\* else, and of which type.
Complies(p, args) ==
    /\ \A name \in Required(args) : p[name] # Missing
    /\ \A q \in DOMAIN p \ {args[i].name : i \in DOMAIN args} : p[q] = Missing
    /\ \A i \in DOMAIN args : p[args[i].name] \in Satisfying(Schema(args[i].type)) \cup {Missing}

\* What ValidIsAccepted excepts.
Excepted(m, p) ==
    \/ m \in Reactions /\ p["remove"] = Missing
    \/ "attachments" \in DOMAIN p /\ p["attachments"] \in {"strings", "unreachable"}
    \/ m = "setExpirationTimer" /\ p["expiration"] \in {"long", "huge"}

\* A request that complies with what is published of a call passes the conversions
\* and can be carried by DBus.
LEMMA CompliantCallsPass ==
  ASSUME NEW m, NEW call, SoundCall(m, call.signature, call.body), NEW args, Publishes(args, call),
         NEW p, \A i \in DOMAIN call.body : call.body[i].param \in DOMAIN p,
         Complies(p, args), ~ Excepted(m, p)
  PROVE  Preparation(call, p) \subseteq {"ok"}
<1>1. ASSUME NEW i \in DOMAIN call.body
      PROVE  /\ Conversion(call.body[i], p[call.body[i].param]) = "ok"
             /\ Carries(call.signature[i], call.body[i], p[call.body[i].param])
  <2> DEFINE arg == call.body[i]
             type == call.signature[i]
             kind == p[arg.param]
  <2>1. Fits(m, type, arg) /\ arg.param \in DOMAIN p
    BY DEF SoundCall, IsSequence
  <2>2. /\ i \in DOMAIN args /\ i \in 1..Len(args)
        /\ args[i].name = arg.param /\ args[i].type = DBusType(type)
    BY DEF SoundCall, IsSequence, Publishes
  <2>3. /\ arg.param \notin Optional => kind # Missing
        /\ kind \in Satisfying(Schema(DBusType(type))) \cup {Missing}
    <3>1. arg.param \in {args[k].name : k \in 1..Len(args)}
      BY <2>2
    <3>2. kind \in Satisfying(Schema(args[i].type)) \cup {Missing}
      BY <2>2 DEF Complies
    <3> QED BY <2>2, <3>1, <3>2 DEF Complies, Required
  <2> HIDE DEF arg, type, kind
  <2>4. CASE kind = Missing
    <3>1. arg.param \in Optional /\ ~ (arg.param = "remove" /\ m \in Reactions)
      BY <2>3, <2>4 DEF Excepted, kind
    <3>2. Absent(arg) = "ok"
      <4>1. arg.needed /\ arg.param \in Optional => arg.param = "remove" /\ m \in Reactions
        BY <2>1 DEF Fits
      <4>2. CASE arg.needed
        BY <3>1, <4>1, <4>2
      <4>3. CASE ~ arg.needed
        BY <4>3 DEF Absent
      <4> QED BY <4>2, <4>3
    <3>3. Conversion(arg, Missing) = "ok" /\ Carries(type, arg, Missing)
      BY <3>2 DEF Conversion, Carries
    <3> QED BY <2>4, <3>3 DEF arg, type, kind
  <2>5. CASE kind # Missing
    <3>1. kind \in Satisfying(Schema(DBusType(type)))
      BY <2>3, <2>5
    <3>2. \/ Conversion(arg, kind) = "ok" /\ Carries(type, arg, kind)
          \/ arg.param = "attachments" /\ kind \in {"strings", "unreachable"}
          \/ arg.param = "expiration" /\ m = "setExpirationTimer" /\ kind \in {"long", "huge"}
      BY <2>1, <3>1 DEF Fits, Harmless
    <3> QED BY <2>1, <3>2 DEF Excepted, arg, type, kind
  <2> QED BY <2>4, <2>5
<1> QED BY <1>1, Preparations

\* Whichever form is published, the handler chooses it for a request that complies.
LEMMA ChosenIsPublished ==
  ASSUME NEW m \in MethodNames, NEW list \in Introspections(m), list # <<>>,
         ~ ForeignTo(m, Published(list)),
         NEW p, DOMAIN p = ParamsOf(m), Complies(p, Published(list))
  PROVE  Publishes(Published(list), Chosen(m, p).calls[1])
<1> DEFINE forms == Method[m]
           n == Len(forms)
           args == Published(list)
           call(i) == forms[i].calls[1]
<1>1. PICK k \in 1..n : Publishes(args, call(k))
  BY PublishedIsAForm
<1>2. ASSUME NEW i \in 1..Len(call(k).body)
      PROVE  LET param == call(k).body[i].param
             IN  param \notin Optional => p[param] # Missing
  <2>1. i \in 1..Len(args) /\ args[i].name = call(k).body[i].param
    BY <1>1 DEF Publishes
  <2> HIDE DEF args, call
  <2> QED BY <2>1 DEF Complies, Required, args
<1>3. CASE m \notin {"isRegistered", "updateProfile"}
  <2>1. n = 1 /\ \E i \in 1..n : Chosen(m, p) = forms[i]
    BY <1>3, OneForm, ChosenIsAForm
  <2> QED BY <1>1, <2>1
<1>4. Len(args) = Len(call(k).body) /\ DOMAIN args = 1..Len(call(k).body)
  BY <1>1 DEF Publishes
<1> DEFINE Names == {args[i].name : i \in DOMAIN args}
<1>5. \A q \in DOMAIN p : q \in Names \/ p[q] = Missing
  BY DEF Complies
<1>6. Names = {call(k).body[i].param : i \in 1..Len(call(k).body)}
  BY <1>1, <1>4 DEF Publishes
<1>7. CASE m = "isRegistered"
  <2>1. /\ n = 3 /\ forms[1].given = "numbers" /\ forms[2].given = "number"
        /\ Len(call(1).body) = 1 /\ Len(call(2).body) = 1 /\ Len(call(3).body) = 0
        /\ call(1).body[1].param = "numbers" /\ call(2).body[1].param = "number"
    BY <1>7, FormsOfIsRegistered
  <2>2. "numbers" \in DOMAIN p /\ "number" \in DOMAIN p
    <3> DEFINE body(i) == Method["isRegistered"][i].calls[1].body
    <3>1. /\ Len(Method["isRegistered"]) = 3
          /\ \A i \in {1, 2} : Len(Method["isRegistered"][i].calls) = 1 /\ DOMAIN body(i) = {1}
      BY FormsOfIsRegistered
    <3>2. body(1)[1].param = "numbers" /\ body(2)[1].param = "number"
      BY FormsOfIsRegistered
    <3>3. ASSUME NEW i \in {1, 2} PROVE body(i)[1].param \in ParamsOf("isRegistered")
      <4>1. /\ "isRegistered" \in MethodNames /\ i \in 1..Len(Method["isRegistered"])
            /\ 1 \in 1..Len(Method["isRegistered"][i].calls) /\ 1 \in DOMAIN body(i)
        BY <1>7, <3>1
      <4> QED BY <4>1, ArgumentsAreParameters, Zenon
    <3> QED BY <1>7, <3>2, <3>3
  <2>3. /\ Method[m][1].given = "numbers" /\ Method[m][1].given # ""
        /\ Method[m][2].given = "number" /\ Method[m][2].given # ""
        /\ 2 <= Len(Method[m]) /\ 3 = Len(Method[m])
    BY <2>1
  <2> HIDE DEF args, call, forms, n
  <2>4. k \in {1, 2, 3}
    BY <2>1
  <2>5. CASE k = 1
    <3>1. p["numbers"] # Missing
      BY <1>2, <2>1, <2>5, Mandatory
    <3>2. Chosen(m, p) = forms[1]
      BY <2>1, <3>1, EarlyFormsAreChosen DEF forms
    <3> QED BY <1>1, <2>5, <3>2 DEF args, call
  <2>6. CASE k = 2
    <3>1. p["number"] # Missing
      BY <1>2, <2>1, <2>6, Mandatory
    <3>2. "numbers" \notin Names
      BY <1>6, <2>1, <2>6
    <3>3. p["numbers"] = Missing
      BY <1>5, <2>2, <3>2
    <3>4. p[Method[m][1].given] = Missing /\ p[Method[m][2].given] # Missing
      BY <2>3, <3>1, <3>3, Zenon
    <3>5. Chosen(m, p) = Method[m][2]
      BY <2>3, <3>4, EarlyFormsAreChosen, Zenon
    <3> QED BY <1>1, <2>6, <3>5 DEF args, call, forms
  <2>7. CASE k = 3
    <3>1. Names = {}
      <4>1. Len(call(k).body) = 0
        BY <2>1, <2>7
      <4>2. 1..Len(call(k).body) = {}
        BY <4>1
      <4> HIDE DEF Names
      <4> QED BY <1>6, <4>2
    <3>2. p["numbers"] = Missing /\ p["number"] = Missing
      BY <1>5, <2>2, <3>1
    <3>3. p[Method[m][1].given] = Missing /\ p[Method[m][2].given] = Missing
      BY <2>3, <3>2, Zenon
    <3>4. Chosen(m, p) = Method[m][3]
      BY <2>3, <3>3, EarlyFormsAreChosen, Zenon
    <3> QED BY <1>1, <2>7, <3>4 DEF args, call, forms
  <2> QED BY <2>4, <2>5, <2>6, <2>7
<1>8. CASE m = "updateProfile"
  <2>1. /\ n = 2 /\ forms[1].given = "givenName" /\ call(1).body[1].param = "givenName"
        /\ Len(call(1).body) = 6 /\ Len(call(2).body) = 5
        /\ \A i \in 1..5 : call(2).body[i].param # "givenName"
    BY <1>8, FormsOfUpdateProfile
  <2>2. Method[m][1].given = "givenName" /\ Method[m][1].given # "" /\ 2 = Len(Method[m])
    BY <2>1
  <2>3. "givenName" \in DOMAIN p
    <3>1. 1 \in 1..Len(forms) /\ 1 \in 1..Len(forms[1].calls) /\ 1 \in DOMAIN call(1).body
      <4>1. SoundForms(m, forms)
        BY MethodsSound
      <4>2. SoundCalls(m, forms[1].calls)
        BY <2>1, <4>1 DEF SoundForms
      <4>3. 1 \in 1..Len(forms[1].calls) /\ SoundCall(m, call(1).signature, call(1).body)
        BY <4>2, FirstCallIsSound
      <4>4. IsSequence(call(1).body) /\ Len(call(1).body) = 6
        BY <2>1, <4>3 DEF SoundCall
      <4>5. 1 \in DOMAIN call(1).body
        BY <4>4 DEF IsSequence
      <4>6. 1 \in 1..Len(forms)
        BY <2>1
      <4> QED BY <4>3, <4>5, <4>6, Zenon
    <3>2. call(1).body[1].param \in ParamsOf(m)
      BY <3>1, ArgumentsAreParameters, Zenon
    <3> QED BY <2>1, <3>2
  <2> HIDE DEF args, call, forms, n
  <2>4. k \in {1, 2}
    BY <2>1
  <2>5. CASE k = 1
    <3>1. p["givenName"] # Missing
      BY <1>2, <2>1, <2>5, Mandatory
    <3>2. Chosen(m, p) = forms[1]
      BY <2>1, <3>1, EarlyFormsAreChosen DEF forms
    <3> QED BY <1>1, <2>5, <3>2 DEF args, call
  <2>6. CASE k = 2
    <3>1. "givenName" \notin Names
      BY <1>6, <2>1, <2>6
    <3>2. p[Method[m][1].given] = Missing
      BY <1>5, <2>2, <2>3, <3>1
    <3>3. Chosen(m, p) = Method[m][2]
      BY <2>2, <3>2, EarlyFormsAreChosen, Zenon
    <3> QED BY <1>1, <2>6, <3>3 DEF args, call, forms
  <2> QED BY <2>4, <2>5, <2>6
<1> QED BY <1>3, <1>7, <1>8

\* Nothing of signal-cli is introspected before there is a request.
Unasked == place = "idle" => variants = <<>>

\* ValidIsAccepted, with a name for what it excepts.
Accepted ==
    (/\ variants # <<>> /\ place # "idle"
     /\ ~ Foreign(Published(variants)) /\ Valid(Published(variants)))
      => made # <<>> \/ Excepted(method, params)

LEMMA AcceptedIsMeant == Accepted => ValidIsAccepted
BY Zenon DEF Accepted, ValidIsAccepted, Excepted, Reactions

\* A request that is valid as published makes its first call.
LEMMA ValidMakesCall ==
  ASSUME AInv, NEW m \in MethodNames, Receive(m)
  PROVE  Accepted'
<1> SUFFICES ASSUME variants' # <<>>, ~ Foreign(Published(variants))', Valid(Published(variants))'
             PROVE  made' # <<>> \/ Excepted(m, params')
  BY Received DEF Accepted
<1> DEFINE args == Published(variants')
           call == Chosen(m, params').calls[1]
<1>1. /\ method' = m /\ shape' = "object" /\ variants' \in Introspections(m)
      /\ params' \in Requests(m) /\ Complies(params', args) /\ made = <<>>
  BY DEF Receive, Valid, Complies, AInv, Progress
<1>2. DOMAIN params' = ParamsOf(m)
  BY <1>1, RequestsAreComplete
<1>3. Publishes(args, call)
  <2>1. ~ ForeignTo(m, args)
    BY <1>2 DEF Foreign, ForeignTo
  <2> QED BY <1>1, <1>2, <2>1, ChosenIsPublished
<1>4. /\ SoundCall(m, call.signature, call.body)
      /\ \A i \in DOMAIN call.body : call.body[i].param \in DOMAIN params'
  <2>1. CallsOf(m, "object", params') = Chosen(m, params').calls
    BY DEF CallsOf
  <2>2. SoundCalls(m, Chosen(m, params').calls)
    BY <2>1, CallsAreSound
  <2>3. 1 \in 1..Len(Chosen(m, params').calls)
    <3>1. \/ Len(Chosen(m, params').calls) = 1
          \/ Len(Chosen(m, params').calls) = 2
      BY <2>2, Zenon DEF SoundCalls
    <3> QED BY <3>1
  <2>4. SoundCall(m, call.signature, call.body)
    BY <2>2, <2>3 DEF SoundCalls
  <2>5. \A i \in DOMAIN call.body : call.body[i].param \in ParamsOf(m)
    BY <2>1, <2>3, CallsAreSound
  <2> QED BY <1>2, <2>4, <2>5
<1>5. ASSUME ~ Excepted(m, params') PROVE made' # <<>>
  <2>1. Preparation(call, params') \subseteq {"ok"}
    BY <1>3, <1>4, <1>1, <1>5, CompliantCallsPass
  <2>2. Calls'[1] = call
    BY <1>1 DEF Calls
  <2>3. Make(call, Preparation(call, params'))
    BY <1>1, <2>2 DEF Receive
  <2>4. made' = Append(made, call)
    BY <2>1, <2>3 DEF Make
  <2> QED BY <1>1, <2>4
<1> QED BY <1>5

\* Whichever variants signal-cli lists, and however many, a request that is valid as
\* published in /asyncapi.json reaches signal-cli, if no published argument is foreign
\* to the dispatcher, and but for what the schema does not say
\* (asyncapi.py:52-53, :67-75, :133-156, dispatch.py:198-459).
THEOREM ValidReachesSignal == Spec => []ValidIsAccepted
<1> DEFINE Inv == AInv /\ Unasked /\ Accepted
<1>1. Init => Inv
  BY Initially DEF Init, Unasked, Accepted
<1>2. Inv /\ [Next]_vars => Inv'
  <2> SUFFICES ASSUME Inv, [Next]_vars PROVE Inv'
    OBVIOUS
  <2>1. AInv'
    BY Steps
  <2>2. ASSUME NEW m \in MethodNames, Receive(m) PROVE Unasked' /\ Accepted'
    <3>1. place' # "idle"
      BY <2>2, Received DEF Raise
    <3>2. Accepted'
      BY <2>2, ValidMakesCall
    <3> QED BY <3>1, <3>2 DEF Unasked
  <2>3. CASE ReceiveOther \/ Emit
    <3>1. variants' = <<>>
      BY <2>3 DEF ReceiveOther, Emit, requestVars, Unasked
    <3> QED BY <2>1, <3>1 DEF Unasked, Accepted
  <2>4. CASE Return \/ Fail
    <3>1. place = "calling" /\ made # <<>>
      BY <2>4 DEF AInv, Progress, Return, Fail
    <3>2. CASE Return
      <4>1. \/ made' = made /\ place' = "done"
            \/ made' = <<Calls[1], Calls[2]>> /\ place' = "calling"
        BY <3>2, Returned DEF Raise, Succeed
      <4> QED BY <2>1, <3>1, <4>1 DEF Unasked, Accepted
    <3>3. CASE Fail
      <4>1. made' = made /\ place' = "done"
        BY <3>3 DEF Fail, Raise
      <4> QED BY <2>1, <3>1, <4>1 DEF Unasked, Accepted
    <3> QED BY <2>4, <3>2, <3>3
  <2>5. CASE LinkDown \/ LinkUp \/ UNCHANGED vars
    <3>1. UNCHANGED <<method, shape, params, variants, place, made>>
      BY <2>5 DEF LinkDown, LinkUp, vars, requestVars
    <3>2. Unasked'
      BY <3>1 DEF Unasked
    <3>3. /\ Valid(Published(variants))' <=> Valid(Published(variants))
          /\ Foreign(Published(variants))' <=> Foreign(Published(variants))
      BY <3>1 DEF Valid, Foreign
    <3>4. Accepted'
      BY <3>1, <3>3 DEF Accepted
    <3> QED BY <2>1, <3>2, <3>4
  <2> QED BY <2>1, <2>2, <2>3, <2>4, <2>5, Zenon DEF Next
<1>3. Inv => ValidIsAccepted
  BY AcceptedIsMeant
<1> QED BY <1>1, <1>2, <1>3, PTL DEF Spec
---------------------------------------------------------------------------
(* Events.                                                                 *)

Leaves == {"s", "o", "i", "x", "t", "y", "u", "b", "d", "v", "struct", "dict"}

\* Types with any number of arrays around the leaf.
AllTypes == {Type(depth, leaf) : depth \in Nat, leaf \in Leaves}

\* What Native and Schema make of a type, leaf by leaf.
NativeTable(type) ==
  /\ type.leaf \in {"s", "o"} => Native(type) = Shape(type.depth, "string")
  /\ type.leaf \in {"i", "u"} => Native(type) = Shape(type.depth, "integer")
  /\ type.leaf \in {"x", "t"} => Native(type) = Shape(type.depth, "int64")
  /\ type.leaf = "b" => Native(type) = Shape(type.depth, "boolean")
  /\ type.leaf = "d" => Native(type) = Shape(type.depth, "number")
  /\ type.leaf = "v" => Native(type) = Shape(type.depth, "unknown")
  /\ type.leaf = "dict" => Native(type) = Shape(type.depth, "object")
  /\ type.leaf = "struct" => Native(type) = Shape(type.depth + 1, "any")
  /\ type.leaf = "y" /\ type.depth = 0 => Native(type) = Shape(0, "integer")
  /\ type.leaf = "y" /\ type.depth # 0 => Native(type) = Shape(type.depth - 1, "base64")

SchemaTable(type) ==
  /\ type.leaf \in {"u", "d", "v", "dict"} => Schema(type) = Shape(0, "object")
  /\ type.leaf = "o" => Schema(type) = Shape(0, IF type.depth = 0 THEN "string" ELSE "object")
  /\ type.depth > 1 => Schema(type) = Shape(0, "object")
  /\ type.depth <= 1 =>
        /\ type.leaf = "s" => Schema(type) = Shape(type.depth, "string")
        /\ type.leaf = "i" => Schema(type) = Shape(type.depth, "integer")
        /\ type.leaf \in {"x", "t"} => Schema(type) = Shape(type.depth, "int64")
        /\ type.leaf = "b" => Schema(type) = Shape(type.depth, "boolean")
        /\ type.leaf = "struct" => Schema(type) = Shape(type.depth + 1, "any")
        /\ type.leaf = "y" =>
              Schema(type) = Shape(0, IF type.depth = 0 THEN "integer" ELSE "base64")

LEMMA NativeShapes == ASSUME NEW type, type.depth \in Nat PROVE NativeTable(type)
<1>1. type.leaf # "y" => ~IsBytes(type)
  BY DEF IsBytes
<1>2. /\ type.leaf = "s" => Native(type) = Shape(type.depth, "string")
      /\ type.leaf = "o" => Native(type) = Shape(type.depth, "string")
      /\ type.leaf = "i" => Native(type) = Shape(type.depth, "integer")
      /\ type.leaf = "u" => Native(type) = Shape(type.depth, "integer")
  BY <1>1 DEF Native
<1>3. /\ type.leaf = "x" => Native(type) = Shape(type.depth, "int64")
      /\ type.leaf = "t" => Native(type) = Shape(type.depth, "int64")
      /\ type.leaf = "b" => Native(type) = Shape(type.depth, "boolean")
  BY <1>1 DEF Native
<1>4. /\ type.leaf = "d" => Native(type) = Shape(type.depth, "number")
      /\ type.leaf = "v" => Native(type) = Shape(type.depth, "unknown")
  BY <1>1 DEF Native
<1>5. /\ type.leaf = "dict" => Native(type) = Shape(type.depth, "object")
      /\ type.leaf = "struct" => Native(type) = Shape(type.depth + 1, "any")
  BY <1>1 DEF Native
<1>6. /\ type.leaf = "y" /\ type.depth = 0 => Native(type) = Shape(0, "integer")
      /\ type.leaf = "y" /\ type.depth # 0 => Native(type) = Shape(type.depth - 1, "base64")
  BY DEF Native, IsBytes
<1> QED BY <1>2, <1>3, <1>4, <1>5, <1>6 DEF NativeTable

LEMMA SchemaShapes ==
  ASSUME NEW type, NEW depth \in Nat, NEW leaf, type = Type(depth, leaf)
  PROVE  SchemaTable(type)
<1>1. type.depth = depth /\ type.leaf = leaf
  BY DEF Type
<1>2. /\ type = Type(1, "y") <=> depth = 1 /\ leaf = "y"
      /\ type = Type(0, "o") <=> depth = 0 /\ leaf = "o"
  BY DEF Type
<1>3. ASSUME leaf = "o"
      PROVE  Schema(type) = Shape(0, IF depth = 0 THEN "string" ELSE "object")
  BY <1>1, <1>2, <1>3 DEF Schema
<1>4. ASSUME leaf \in {"u", "d", "v", "dict"} PROVE Schema(type) = Shape(0, "object")
  <2>1. CASE leaf \in {"u", "d"}
    BY <1>1, <1>2, <2>1 DEF Schema
  <2>2. CASE leaf = "v"
    BY <1>1, <1>2, <2>2 DEF Schema
  <2>3. CASE leaf = "dict"
    BY <1>1, <1>2, <2>3 DEF Schema
  <2> QED BY <1>4, <2>1, <2>2, <2>3
<1>5. ASSUME depth > 1 PROVE Schema(type) = Shape(0, "object")
  BY <1>1, <1>2, <1>5 DEF Schema
<1>6. ASSUME depth <= 1, leaf \in {"s", "i", "x", "t", "b"}
      PROVE  /\ leaf = "s" => Schema(type) = Shape(depth, "string")
             /\ leaf = "i" => Schema(type) = Shape(depth, "integer")
             /\ leaf \in {"x", "t"} => Schema(type) = Shape(depth, "int64")
             /\ leaf = "b" => Schema(type) = Shape(depth, "boolean")
  BY <1>1, <1>2, <1>6 DEF Schema
<1>7. ASSUME depth <= 1, leaf \in {"struct", "y"}
      PROVE  /\ leaf = "struct" => Schema(type) = Shape(depth + 1, "any")
             /\ leaf = "y" => Schema(type) = Shape(0, IF depth = 0 THEN "integer" ELSE "base64")
  BY <1>1, <1>2, <1>7 DEF Schema
<1> QED BY <1>1, <1>3, <1>4, <1>5, <1>6, <1>7 DEF SchemaTable

\* A value looks as its schema says exactly if Described says so, at any depth of arrays.
LEMMA DescribedExactly ==
  ASSUME NEW depth \in Nat, NEW leaf \in Leaves
  PROVE  Native(Type(depth, leaf)) = Schema(Type(depth, leaf)) <=> Described(Type(depth, leaf))
<1> DEFINE type == Type(depth, leaf)
<1>1. \A d, l, e, k : Shape(d, l) = Shape(e, k) <=> d = e /\ l = k
  BY DEF Shape
<1>2. type.depth = depth /\ type.leaf = leaf /\ type = Type(depth, leaf)
  BY DEF Type
<1> SUFFICES Native(type) = Schema(type) <=> Described(type)
  OBVIOUS
<1> HIDE DEF type
<1>3. Described(type) <=> \/ depth = 0 /\ leaf \notin {"u", "d", "v"}
                          \/ depth = 1 /\ leaf \notin {"u", "d", "v", "o", "dict"}
  BY <1>2 DEF Described
<1>4. NativeTable(type) /\ SchemaTable(type)
  BY <1>2, NativeShapes, SchemaShapes
<1>5. CASE leaf \in {"s", "i", "x", "t", "b"}
  BY <1>1, <1>2, <1>3, <1>4, <1>5 DEF NativeTable, SchemaTable
<1>6. CASE leaf \in {"y", "struct"}
  BY <1>1, <1>2, <1>3, <1>4, <1>6 DEF NativeTable, SchemaTable
<1>7. CASE leaf \in {"u", "d", "v", "o", "dict"}
  BY <1>1, <1>2, <1>3, <1>4, <1>7 DEF NativeTable, SchemaTable
<1> QED BY <1>5, <1>6, <1>7 DEF Leaves

\* The types of the named fields.
LEMMA KnownShapes ==
  /\ Native(DBusType("x")) = Shape(0, "int64") /\ Native(DBusType("s")) = Shape(0, "string")
  /\ Native(DBusType("ay")) = Shape(0, "base64") /\ Native(DBusType("as")) = Shape(1, "string")
<1>1. /\ DBusType("s") = Type(0, "s") /\ DBusType("as") = Type(1, "s") /\ DBusType("ay") = Type(1, "y")
      /\ DBusType("x") = Type(0, "x")
  BY DEF DBusType
<1>2. \A d, l : Type(d, l).depth = d /\ Type(d, l).leaf = l
  BY DEF Type
<1>3. /\ NativeTable(Type(0, "s")) /\ NativeTable(Type(1, "s")) /\ NativeTable(Type(1, "y"))
      /\ NativeTable(Type(0, "x"))
  BY <1>2, NativeShapes
<1>4. /\ Native(Type(0, "s")) = Shape(0, "string") /\ Native(Type(1, "s")) = Shape(1, "string")
      /\ Native(Type(0, "x")) = Shape(0, "int64")
  BY <1>2, <1>3 DEF NativeTable
<1>5. Native(Type(1, "y")) = Shape(0, "base64")
  BY <1>2, <1>3 DEF NativeTable
<1> QED BY <1>1, <1>4, <1>5

LEMMA OtherEvents ==
  ASSUME NEW args \in Seq(AllTypes)
  PROVE  Event("Other", args) = EventSchema("Other", args) <=> \A i \in 1..Len(args) : Described(args[i])
<1>1. /\ Event("Other", args) = [i \in 1..Len(args) |-> Native(args[i])]
      /\ EventSchema("Other", args) = [i \in 1..Len(args) |-> Schema(args[i])]
  BY DEF Event, EventSchema, Named, Positions, KnownSignalSchemas
<1>2. ASSUME NEW i \in 1..Len(args) PROVE Native(args[i]) = Schema(args[i]) <=> Described(args[i])
  <2>1. PICK depth \in Nat, leaf \in Leaves : args[i] = Type(depth, leaf)
    BY DEF AllTypes
  <2> QED BY <2>1, DescribedExactly
<1> QED BY <1>1, <1>2

\* A known signal with enough arguments has the fields that are published.
LEMMA MessageEvents ==
  ASSUME NEW args, Len(args) \in Nat, Len(args) >= 5,
         args[1] = DBusType("x"), args[2] = DBusType("s"), args[3] = DBusType("ay"),
         args[4] = DBusType("s"), args[5] = DBusType("as")
  PROVE  Event("MessageReceived", args) = EventSchema("MessageReceived", args)
<1> DEFINE P == <<"timestamp", "sender", "groupId", "message", "attachments">>
           E == [name \in Range(P) |-> Native(args[CHOOSE i \in DOMAIN P : P[i] = name])]
<1>1. Positions["MessageReceived"] = P /\ Len(P) = 5 /\ "MessageReceived" \in DOMAIN Positions
  BY DEF Positions
<1>2. Event("MessageReceived", args) = E
  <2> HIDE DEF P
  <2> QED BY <1>1 DEF Event, Named
<1>3. /\ (CHOOSE i \in DOMAIN P : P[i] = "timestamp") = 1
      /\ (CHOOSE i \in DOMAIN P : P[i] = "sender") = 2
      /\ (CHOOSE i \in DOMAIN P : P[i] = "groupId") = 3
      /\ (CHOOSE i \in DOMAIN P : P[i] = "message") = 4
      /\ (CHOOSE i \in DOMAIN P : P[i] = "attachments") = 5
  OBVIOUS
<1>4. Range(P) = {"timestamp", "sender", "groupId", "message", "attachments"}
  BY DEF Range
<1> HIDE DEF P
<1>5. E = [timestamp |-> Shape(0, "int64"), sender |-> Shape(0, "string"),
           groupId |-> Shape(0, "base64"), message |-> Shape(0, "string"),
           attachments |-> Shape(1, "string")]
  <2>1. E = [name \in {"timestamp", "sender", "groupId", "message", "attachments"} |-> E[name]]
    BY <1>4
  <2>2. /\ E["timestamp"] = Shape(0, "int64") /\ E["sender"] = Shape(0, "string")
        /\ E["groupId"] = Shape(0, "base64") /\ E["message"] = Shape(0, "string")
        /\ E["attachments"] = Shape(1, "string")
    BY <1>3, <1>4, KnownShapes
  <2> HIDE DEF E
  <2> QED BY <2>1, <2>2
<1>6. EventSchema("MessageReceived", args) = KnownSignalSchemas["MessageReceived"]
  BY DEF EventSchema, KnownSignalSchemas
<1> QED BY <1>2, <1>5, <1>6 DEF KnownSignalSchemas

LEMMA SyncMessageEvents ==
  ASSUME NEW args, Len(args) \in Nat, Len(args) >= 6,
         args[1] = DBusType("x"), args[2] = DBusType("s"), args[3] = DBusType("s"),
         args[4] = DBusType("ay"), args[5] = DBusType("s"), args[6] = DBusType("as")
  PROVE  Event("SyncMessageReceived", args) = EventSchema("SyncMessageReceived", args)
<1> DEFINE P == <<"timestamp", "sender", "destination", "groupId", "message", "attachments">>
           E == [name \in Range(P) |-> Native(args[CHOOSE i \in DOMAIN P : P[i] = name])]
<1>1. Positions["SyncMessageReceived"] = P /\ Len(P) = 6 /\ "SyncMessageReceived" \in DOMAIN Positions
  BY DEF Positions
<1>2. Event("SyncMessageReceived", args) = E
  <2> HIDE DEF P
  <2> QED BY <1>1 DEF Event, Named
<1>3. /\ (CHOOSE i \in DOMAIN P : P[i] = "timestamp") = 1
      /\ (CHOOSE i \in DOMAIN P : P[i] = "sender") = 2
      /\ (CHOOSE i \in DOMAIN P : P[i] = "destination") = 3
      /\ (CHOOSE i \in DOMAIN P : P[i] = "groupId") = 4
      /\ (CHOOSE i \in DOMAIN P : P[i] = "message") = 5
      /\ (CHOOSE i \in DOMAIN P : P[i] = "attachments") = 6
  OBVIOUS
<1>4. Range(P) = {"timestamp", "sender", "destination", "groupId", "message", "attachments"}
  BY DEF Range
<1> HIDE DEF P
<1>5. E = [timestamp |-> Shape(0, "int64"), sender |-> Shape(0, "string"),
           destination |-> Shape(0, "string"), groupId |-> Shape(0, "base64"),
           message |-> Shape(0, "string"), attachments |-> Shape(1, "string")]
  <2>1. E = [name \in {"timestamp", "sender", "destination", "groupId", "message", "attachments"} |-> E[name]]
    BY <1>4
  <2>2. /\ E["timestamp"] = Shape(0, "int64") /\ E["sender"] = Shape(0, "string")
        /\ E["destination"] = Shape(0, "string") /\ E["groupId"] = Shape(0, "base64")
        /\ E["message"] = Shape(0, "string") /\ E["attachments"] = Shape(1, "string")
    BY <1>3, <1>4, KnownShapes
  <2> HIDE DEF E
  <2> QED BY <2>1, <2>2
<1>6. EventSchema("SyncMessageReceived", args) = KnownSignalSchemas["SyncMessageReceived"]
  BY DEF EventSchema, KnownSignalSchemas
<1> QED BY <1>2, <1>5, <1>6 DEF KnownSignalSchemas

LEMMA ReceiptEvents ==
  ASSUME NEW args, Len(args) \in Nat, Len(args) >= 2,
         args[1] = DBusType("x"), args[2] = DBusType("s")
  PROVE  Event("ReceiptReceived", args) = EventSchema("ReceiptReceived", args)
<1> DEFINE P == <<"timestamp", "sender">>
           E == [name \in Range(P) |-> Native(args[CHOOSE i \in DOMAIN P : P[i] = name])]
<1>1. Positions["ReceiptReceived"] = P /\ Len(P) = 2 /\ "ReceiptReceived" \in DOMAIN Positions
  BY DEF Positions
<1>2. Event("ReceiptReceived", args) = E
  <2> HIDE DEF P
  <2> QED BY <1>1 DEF Event, Named
<1>3. /\ (CHOOSE i \in DOMAIN P : P[i] = "timestamp") = 1
      /\ (CHOOSE i \in DOMAIN P : P[i] = "sender") = 2
  OBVIOUS
<1>4. Range(P) = {"timestamp", "sender"}
  BY DEF Range
<1> HIDE DEF P
<1>5. E = [timestamp |-> Shape(0, "int64"), sender |-> Shape(0, "string")]
  <2>1. E = [name \in {"timestamp", "sender"} |-> E[name]]
    BY <1>4
  <2>2. /\ E["timestamp"] = Shape(0, "int64") /\ E["sender"] = Shape(0, "string")
    BY <1>3, <1>4, KnownShapes
  <2> HIDE DEF E
  <2> QED BY <2>1, <2>2
<1>6. EventSchema("ReceiptReceived", args) = KnownSignalSchemas["ReceiptReceived"]
  BY DEF EventSchema, KnownSignalSchemas
<1> QED BY <1>2, <1>5, <1>6 DEF KnownSignalSchemas

\* What EventsLookAsPublished says of one event.
Looks(e) ==
  LET known == e.signal \in DOMAIN KnownSignalSchemas
      fits == /\ known <=> Named(e.signal, e.args)
              /\ Event(e.signal, e.args) = EventSchema(e.signal, e.args)
  IN  fits <=> IF known THEN Len(e.args) >= Len(Positions[e.signal])
               ELSE \A i \in DOMAIN e.args : Described(e.args[i])

LEMMA KnownLook ==
  ASSUME NEW name \in DOMAIN KnownArgs, NEW n \in 0..Len(KnownArgs[name])
  PROVE  Looks([signal |-> name, args |-> SubSeq(KnownArgs[name], 1, n)])
<1> DEFINE known == KnownArgs[name]
           args == SubSeq(known, 1, n)
<1>1. name \in {"MessageReceived", "SyncMessageReceived", "ReceiptReceived"}
  BY DEF KnownArgs
<1>2. Len(known) \in Nat /\ Len(args) = n /\ \A i \in 1..n : args[i] = known[i]
  <2> DEFINE S == {DBusType("x"), DBusType("s"), DBusType("ay"), DBusType("as"), Type(1, "dict"), Type(0, "v")}
  <2>1. CASE name = "MessageReceived"
    <3>1. known \in Seq(S)
      BY <2>1 DEF KnownArgs
    <3> HIDE DEF known, S
    <3> QED BY <3>1
  <2>2. CASE name = "SyncMessageReceived"
    <3>1. known \in Seq(S)
      BY <2>2 DEF KnownArgs
    <3> HIDE DEF known, S
    <3> QED BY <3>1
  <2>3. CASE name = "ReceiptReceived"
    <3>1. known \in Seq(S)
      BY <2>3 DEF KnownArgs
    <3> HIDE DEF known, S
    <3> QED BY <3>1
  <2> QED BY <1>1, <2>1, <2>2, <2>3
<1>3. /\ name \in DOMAIN KnownSignalSchemas /\ name \in DOMAIN Positions
      /\ Len(Positions[name]) \in Nat
  BY <1>1 DEF KnownSignalSchemas, Positions
<1>4. n >= Len(Positions[name]) => Event(name, args) = EventSchema(name, args)
  <2>1. CASE name = "MessageReceived"
    <3>1. /\ known[1] = DBusType("x") /\ known[2] = DBusType("s") /\ known[3] = DBusType("ay")
          /\ known[4] = DBusType("s") /\ known[5] = DBusType("as") /\ Len(Positions[name]) = 5
      BY <2>1 DEF KnownArgs, Positions
    <3> HIDE DEF known, args
    <3> QED BY <1>2, <2>1, <3>1, MessageEvents
  <2>2. CASE name = "SyncMessageReceived"
    <3>1. /\ known[1] = DBusType("x") /\ known[2] = DBusType("s") /\ known[3] = DBusType("s")
          /\ known[4] = DBusType("ay") /\ known[5] = DBusType("s") /\ known[6] = DBusType("as")
          /\ Len(Positions[name]) = 6
      BY <2>2 DEF KnownArgs, Positions
    <3> HIDE DEF known, args
    <3> QED BY <1>2, <2>2, <3>1, SyncMessageEvents
  <2>3. CASE name = "ReceiptReceived"
    <3>1. known[1] = DBusType("x") /\ known[2] = DBusType("s") /\ Len(Positions[name]) = 2
      BY <2>3 DEF KnownArgs, Positions
    <3> HIDE DEF known, args
    <3> QED BY <1>2, <2>3, <3>1, ReceiptEvents
  <2> QED BY <1>1, <2>1, <2>2, <2>3
<1>5. Named(name, args) <=> n >= Len(Positions[name])
  BY <1>2, <1>3 DEF Named
<1> HIDE DEF args
<1>6. Looks([signal |-> name, args |-> args])
  BY <1>2, <1>3, <1>4, <1>5 DEF Looks
<1> QED BY <1>6 DEF args

\* An event of another signal, with any number of arguments of any depth, looks as
\* published exactly if each of its types is Described (signals.py:72-73,
\* asyncapi.py:177-194, types.py:10-24, :57-98).
THEOREM OthersLookAsDescribed ==
  ASSUME NEW args \in Seq(AllTypes)
  PROVE  Looks([signal |-> "Other", args |-> args])
<1>1. "Other" \notin DOMAIN KnownSignalSchemas /\ ~Named("Other", args)
  BY DEF KnownSignalSchemas, Named, Positions
<1> QED BY <1>1, OtherEvents DEF Looks

LEMMA SignalsLook == \A e \in Signals : Looks(e)
<1> SUFFICES ASSUME NEW e \in Signals PROVE Looks(e)
  OBVIOUS
<1>1. CASE \E name \in DOMAIN KnownArgs : \E n \in 0..Len(KnownArgs[name]) :
              e = [signal |-> name, args |-> SubSeq(KnownArgs[name], 1, n)]
  BY <1>1, KnownLook
<1>2. CASE \E args \in {<<>>} \cup {<<t>> : t \in Types} \cup {<<t, u>> : t \in Types, u \in Types} :
              e = [signal |-> "Other", args |-> args]
  <2>1. PICK args \in {<<>>} \cup {<<t>> : t \in Types} \cup {<<t, u>> : t \in Types, u \in Types} :
              e = [signal |-> "Other", args |-> args]
    BY <1>2
  <2>2. Types \subseteq AllTypes
    BY DEF Types, AllTypes, Leaves
  <2>3. CASE args = <<>>
    <3>1. args \in Seq(AllTypes)
      BY <2>3, EmptySeq
    <3> QED BY <2>1, <3>1, OthersLookAsDescribed
  <2>4. CASE \E t \in Types : args = <<t>>
    <3>1. args \in Seq(AllTypes)
      BY <2>2, <2>4
    <3> QED BY <2>1, <3>1, OthersLookAsDescribed
  <2>5. CASE \E t \in Types, u \in Types : args = <<t, u>>
    <3>1. args \in Seq(AllTypes)
      BY <2>2, <2>5
    <3> QED BY <2>1, <3>1, OthersLookAsDescribed
  <2> QED BY <2>1, <2>3, <2>4, <2>5
<1> QED BY <1>1, <1>2 DEF Signals

\* An event looks as published in /asyncapi.json, unless it is a known signal with
\* too few arguments, or another one with a type that the schema has no words for
\* (signals.py:37-73, asyncapi.py:10-42, :173-194, types.py:57-98).
THEOREM EventsFollowSchema == Spec => []EventsLookAsPublished
<1>1. Init => EventsLookAsPublished
  BY DEF Init, EventsLookAsPublished
<1>2. EventsLookAsPublished /\ [Next]_vars => EventsLookAsPublished'
  <2> SUFFICES ASSUME EventsLookAsPublished, [Next]_vars PROVE EventsLookAsPublished'
    OBVIOUS
  <2>1. CASE event' \in Signals
    BY <2>1, SignalsLook DEF EventsLookAsPublished, Looks
  <2>2. CASE event' = event
    BY <2>2 DEF EventsLookAsPublished
  <2>3. event' \in Signals \/ event' = event
    BY DEF Next, Receive, ReceiveOther, Return, Fail, LinkDown, LinkUp, Emit, vars
  <2> QED BY <2>1, <2>2, <2>3
<1> QED BY <1>1, <1>2, PTL DEF Spec
=============================================================================
