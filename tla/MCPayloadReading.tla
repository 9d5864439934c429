-------------------------- MODULE MCPayloadReading --------------------------
(***************************************************************************)
(* Payloads with every member set and with none, and what only peers send. *)
(***************************************************************************)
EXTENDS PayloadReading

\* Data forms: fields with options, without a type or values, required.
Choice ==
    AddOption(AddOption(Field("list-multi", "features", <<>>), "One", "1"), "", "2")
FilledForm ==
    DataForm("submit", "Title", "Fill in",
             <<SetChecked(SetChecked(Choice, 2, TRUE), 1, TRUE),
               [Field("boolean", "public", <<"1">>) EXCEPT !.required = TRUE, !.desc = "Public"],
               Field("text-multi", "text", <<"a", "", "b">>),
               [Field("", "plain", <<>>) EXCEPT
                   !.label = "Plain", !.media = <<AppendUri(Media, Uri("u1", "image/png"))>>]>>)
CaptchaForm == SetTypeName(FilledForm, CaptchaNS)
EmptyForm == DataForm("cancel", "", "", <<>>)
FormSamples == {FilledForm, CaptchaForm, EmptyForm, SoftwareForm("app", "1", "", "")}

SmallSamples ==
    {Attention, Ping, Nickname("a"), Nickname("")}
    \cup {ChatState(s) : s \in {"active", "paused"}}
    \cup {Receipt("request", ""), Receipt("received", "id1")}
    \cup {DelayedDelivery(f, d, r) : f \in {"", "a"}, d \in {"", "d1"}, r \in {"", "why"}}
    \cup {EntityTime(o, u) : o \in {-330, 60}, u \in {"", "d1", "d2"}}
    \cup {SoftwareVersion("app", "1", os) : os \in {"", "os"}} \cup {SoftwareVersion("", "", "")}
    \cup {VCardUpdate(FALSE, ""), VCardUpdate(TRUE, ""), VCardUpdate(TRUE, "h")}
    \cup {PGPText(k, t) : k \in {"signed", "encrypted"}, t \in {"", "pgp"}}
    \cup {Captcha(<<>>), Captcha(<<CaptchaForm>>), Captcha(<<FilledForm>>)}
    \cup {BitsOfBinary("cid", 10, "t", "x"), BitsOfBinary("", -1, "", "y")}
    \cup {Error("cancel", "conflict", "Taken"), Error("wait", "gone", "")}
    \cup {Capabilities("", "node"), Capabilities("ver", "node")}

PepSamples ==
    {Mood("empty", "lost"), Mood("happy", ""), Mood("sad", "why")}
    \cup {Activity("empty", "invalid", ""), Activity("working", "coding", "jreen"),
          Activity("relaxing", "invalid", "")}
    \cup {Tune([artist |-> "a", length |-> l, rating |-> r, source |-> "", title |-> "t",
                track |-> "", uri |-> "u"]) : l \in {-5, 3}, r \in {0, 12}}
    \cup {Event("", <<Mood("happy", "x"), Mood("empty", "")>>), Event(TuneNS, <<Mood("sad", "")>>),
          Event("", <<Mood("invalid", ""), Activity("working", "coding", "")>>)}
    \cup {PublishItems(<<Activity("eating", "invalid", "a")>>, PublishOptions("presence", FALSE))}

Query(flags, values, form) == [RegistrationQuery(flags, values) EXCEPT !.form = form]
Deny  == PrivacyItem("jid", "a@b", "deny", 1, {"message", "iq"})
Allow == PrivacyItem("subscription", "both", "allow", 2, {})
QuerySamples ==
    {Query({}, <<>>, <<>>), Query({"registered"}, "username" :> "u" @@ "email" :> "", <<FilledForm>>),
     Query({}, "datemisc" :> "x" @@ "url" :> "y", <<>>)}
    \cup {PrivacyQuery(a, d, l) : a \in {NoName, "", "l1"}, d \in {NoName, "l2"},
                                  l \in {<<>>, <<[name |-> "l1", items |-> <<Deny, Allow, AnyItem>>],
                                                 [name |-> "l2", items |-> <<>>]>>}}
    \cup {MUCOf, MUCRoomQuery("", 0, 1, -1, "d1")}
    \cup {MUCRoomUserQuery("invite", "b", "come", "t"), MUCRoomUserQuery("decline", "b", "", ""),
          MUCRoomUserQuery("", "", "", "")}
    \cup {MUCRoomAdminQuery(<<>>),
          MUCRoomAdminQuery(<<MUCRoomItem("a", "", "member", "invalid"),
                              [MUCRoomItem("b", "nick", "invalid", "visitor") EXCEPT
                                  !.actor = "c", !.reason = "r"]>>)}
    \cup {MUCRoomOwnerQuery(<<>>), MUCRoomOwnerQuery(<<FilledForm>>)}

Rooms ==
    <<[Conference("room/nick", "Room", TRUE) EXCEPT !.nick = "n", !.password = "p"],
      Conference("room2", "", FALSE)>>
StoredSamples ==
    {Bookmark(<<>>), Bookmark(Rooms), MetaContacts(<<>>),
     MetaContacts(<<MetaItem("a", "t", 0), MetaItem("b", "t", -1)>>)}
StorageSamples ==
    StoredSamples \cup {PrivateResult(<<p>>) : p \in StoredSamples} \cup {PrivateResult(<<>>)}
    \cup {PrivateGet("storage", BookmarksNS), PrivateGet("storage", MetaContactsNS)}

NamedCard ==
    SetOrganization(SetName(SetText(SetText(SetBirthday(VCard, "d1"), "FN", "Full"), "NOTE", "note"),
                            Name("F", "G", "", "Dr", "")),
                    Organization("Org", <<"u1", "u2">>))
ListedCard ==
    FoldLeft(LAMBDA c, x : AddTo(c, x[1], x[2]), NamedCard,
             <<<<"telephones", SetType(SetType(Telephone("1"), "HOME", TRUE), "CELL", TRUE)>>,
               <<"telephones", Nothing(TelParser)>>, <<"telephones", Telephone("2")>>,
               <<"emails", SetType(EMail("a@b"), "INTERNET", TRUE)>>,
               <<"addresses", SetAddressText(Address, "CTRY", "c")>>>>)
\* Entries with flags alone, and last of each list read one with flags.
FlaggedCard ==
    FoldLeft(LAMBDA c, x : AddTo(c, x[1], x[2]), VCard,
             <<<<"telephones", SetType(Telephone(""), "WORK", TRUE)>>,
               <<"telephones", SetType(Telephone("3"), "HOME", TRUE)>>,
               <<"emails", SetType(EMail("c@d"), "HOME", TRUE)>>,
               <<"emails", SetType(EMail(""), "PREF", TRUE)>>,
               <<"addresses", SetType(SetAddressText(Address, "STREET", "s"), "WORK", TRUE)>>,
               <<"addresses", SetType(Address, "DOM", TRUE)>>>>)
CardSamples ==
    {VCard, FlaggedCard, SetPhoto(ListedCard, Data("data", "png")), SetPhoto(ListedCard, External("url"))}

MyDisco ==
    AddEntityType(
        AddIdentity(AddIdentity(SetSoftwareVersion(NewDisco, "app", "1", "os", "7"),
                                Identity("client", "pc", "app", "")),
                    Identity("client", "pc", "", "en")), MoodNS)
DiscoSamples ==
    UNION {ToSet(DiscoReceipt(d, <<Info("n", <<>>, {}, <<>>), Items("n", <<>>), SoftwareVersion("", "", "")>>)) :
              d \in {NewDisco, MyDisco, SetSoftwareVersion(MyDisco, "app", "1", "", "")}}
    \cup {Items("", <<>>), Items("n", <<Item("a", "n1", "A"), Item("b", "", "")>>)}
    \cup {RosterQuery(<<>>, "v1"),
          RosterQuery(<<RosterEntry("a", "A", <<"g1", "g2">>, "both", ""),
                        RosterEntry("b", "", <<>>, "invalid", "subscribe")>>, "v2")}
    \cup {BindQuery("a/r", "r", TRUE), BindQuery("", "r", FALSE), BindQuery("", "", TRUE), SessionQuery}

Extend(s, p) == AddExtension(s, p)
Late == DelayedDelivery("a", "d1", "")
StanzaSamples ==
    {Message("chat", "a", "hello", "", "t1", ""), Message("normal", "a", "hallo", "s", "", "de"),
     Extend(Message("chat", "a", "", "", "", ""), Receipt("received", "id1")),
     Extend(Message("headline", "", "x", "", "", ""),
            Forwarded(Extend(Message("groupchat", "b", "y", "", "", ""), Late), <<Late>>)),
     Extend(Message("error", "a", "x", "", "", ""), Error("cancel", "conflict", "Taken"))}
    \cup {Extend(Presence(t, "a", "status", 5, l), Capabilities("", "node")) :
             t \in {"available", "away", "error", "subscribed"}, l \in {"", "en"}}
    \cup {SetPriority(Presence("xa", "", "", 0, ""), -1)}
    \cup {IQ("get", "a", "1"), Extend(IQ("result", "a", "1"), SoftwareVersion("app", "1", "")),
          Extend(IQ("error", "a", "1"), Error("wait", "gone", ""))}

MCSamples ==
    FormSamples \cup SmallSamples \cup PepSamples \cup QuerySamples \cup StorageSamples
    \cup CardSamples \cup DiscoSamples \cup StanzaSamples

---------------------------------------------------------------------------
\* What only peers write.

Body(n, a, s) == Element(n, "", a, Chars(s))
MCPeerDocuments == {
    \* moods, activities and errors with the parts in another order
    Element("mood", MoodNS, NoAttrs, TextElement("text", "t") \o Body("in_love", NoAttrs, "")),
    Element("activity", ActivityNS, NoAttrs,
            Body("inactive", NoAttrs, "") \o Body("text", NoAttrs, "zz")),
    Element("error", ErrorNS2, "type" :> "modify",
            Body("text", NoAttrs, "Bad") \o Body("not-acceptable", NoAttrs, "")),
    \* an error without a condition
    Element("error", ErrorNS2, "type" :> "wait", <<>>),
    \* a form that is laid out, and one as a room gives it: with instructions and media
    Element("x", FormNS, "type" :> "form",
            Body("instructions", NoAttrs, "Do")
            \o Element("field", "", "var" :> "v" @@ "label" :> "V",
                       Element("media", MediaNS, NoAttrs, Body("uri", "type" :> "image/png", "u1"))
                       \o Element("option", "", "label" :> "L", TextElement("value", "1"))
                       \o Body("required", NoAttrs, ""))),
    Element("x", FormNS, "type" :> "form", Chars("nl") \o TextElement("title", "T")),
    \* registration fields as asked for, and one that is registered
    Element("query", RegisterNS, NoAttrs,
            Body("registered", NoAttrs, "") \o Body("username", NoAttrs, "") \o Body("instructions", NoAttrs, "i")
            \o Element("data", BobNS, "cid" :> "c", Chars("x"))),
    Element("query", RegisterNS, NoAttrs, Body("remove", NoAttrs, "")),
    \* a room's words on a presence
    Element("x", MUCUserNS, NoAttrs,
            Element("item", "", "affiliation" :> "owner" @@ "role" :> "moderator" @@ "jid" :> "a/b", <<>>)
            \o Body("status", "code" :> "110", "") \o Body("status", "code" :> "201", "")),
    Element("x", MUCUserNS, NoAttrs,
            Element("invite", "", "from" :> "a", Body("reason", NoAttrs, "come"))
            \o Body("password", NoAttrs, "p")),
    Element("query", MUCAdminNS, NoAttrs,
            Element("item", "", "jid" :> "a" @@ "affiliation" :> "outcast",
                    Body("actor", "jid" :> "b", "") \o Body("reason", NoAttrs, "r"))),
    \* a photo hash, an account without one
    Element("x", UpdateNS, NoAttrs, <<>>),
    \* a delay of the deprecated kind
    Element("x", DelayDeprecatedNS, "stamp" :> "d2" @@ "from" :> "b", <<>>),
    \* a presence that carries its error and what it was sent with
    Element("presence", ClientNS, "type" :> "error" @@ "from" :> "a",
            Element("error", "", "type" :> "auth", Element("forbidden", ErrorNS, NoAttrs, <<>>))
            \o TextElement("show", "away")),
    \* a message with a text between its children
    Element("message", ClientNS, "from" :> "b",
            Chars("x") \o TextElement("body", "b1") \o Chars("y") \o Body("body", "xml:lang" :> "en", "b2"))}

AllSubjects == Kinds \cup StanzaKinds
=============================================================================
