--------------------------- MODULE SmallPayloads ---------------------------
(***************************************************************************)
(* The payloads of one element or of a few children: what rides on a       *)
(* message or a presence (attention, chat state, receipt, nickname, delay, *)
(* captcha, signed and encrypted text, capabilities, photo hash, error)    *)
(* and what an IQ asks for (ping, time, version, bits of binary).          *)
(*                                                                         *)
(* For each factory F: FAccepts is canParse, FFresh the members after      *)
(* construction, FStep a token's handler, FOf what createPayload makes of  *)
(* the members, FWrite serialize, FKept what the other side reads of it.   *)
(***************************************************************************)
EXTENDS DataForms

---------------------------------------------------------------------------
\* Attention (XEP-0224) and ping (XEP-0199): the element is all there is.

AttentionNS == "urn:xmpp:attention:0"
Attention == [kind |-> "attention"]
AttentionAccepts(e) == Named(e, "attention", AttentionNS)
AttentionWrite(p) == Element("attention", AttentionNS, NoAttrs, <<>>)

PingNS == "urn:xmpp:ping"
Ping == [kind |-> "ping"]
PingAccepts(e) == Named(e, "ping", PingNS)
PingWrite(p) == Element("ping", PingNS, NoAttrs, <<>>)

---------------------------------------------------------------------------
\* Chat state (XEP-0085): any tag inside the element is taken for the state.

ChatStateNS == "http://jabber.org/protocol/chatstates"
ChatStates  == {"active", "inactive", "gone", "composing", "paused"}

ChatState(state) == [kind |-> "chatstate", state |-> state]
ChatStateAccepts(e) == e.n \in ChatStates /\ e.u = ChatStateNS
ChatStateFresh == "inactive"
ChatStateStep(m, e) == IF e.t = "start" THEN StrToEnum(e.n, ChatStates) ELSE m
ChatStateOf(m) == ChatState(m)
ChatStateWrite(p) == Element(p.state, ChatStateNS, NoAttrs, <<>>)

---------------------------------------------------------------------------
\* Receipt (XEP-0184): any tag inside the element is taken for the receipt.

ReceiptNS    == "urn:xmpp:receipts"
ReceiptTypes == {"request", "received"}

Receipt(type, id) == [kind |-> "receipt", type |-> type, id |-> id]
ReceiptAccepts(e) == e.n \in ReceiptTypes /\ e.u = ReceiptNS
ReceiptFresh(garbage) == [type |-> garbage, id |-> ""]
ReceiptStep(m, e) ==
    IF e.t = "start" THEN [type |-> StrToEnum(e.n, ReceiptTypes), id |-> Attr(e, "id")] ELSE m
ReceiptOf(m) == Receipt(m.type, m.id)
ReceiptWrite(p) == Element(p.type, ReceiptNS, AttrIfAny("id", p.id), <<>>)

---------------------------------------------------------------------------
\* Nickname (XEP-0172): nothing clears the last one.

NickNS == "http://jabber.org/protocol/nick"
Nickname(nick) == [kind |-> "nick", nick |-> nick]
NickAccepts(e) == Named(e, "nick", NickNS)
NickFresh == ""
NickStep(m, e) == IF e.t = "text" THEN e.n ELSE m
NickOf(m) == Nickname(m)
NickWrite(p) == Element("nick", NickNS, NoAttrs, Chars(p.nick))

---------------------------------------------------------------------------
\* Delayed delivery (XEP-0203, XEP-0091): the reason is written, never read.

DelayNS           == "urn:xmpp:delay"
DelayDeprecatedNS == "jabber:x:delay"

DelayedDelivery(from, dateTime, reason) ==
    [kind |-> "delay", from |-> from, dateTime |-> dateTime, reason |-> reason]
DelayAccepts(e) == Named(e, "delay", DelayNS) \/ Named(e, "x", DelayDeprecatedNS)
DelayFresh == [from |-> "", dateTime |-> ""]
DelayStep(m, e) ==
    IF e.t = "start" THEN [from |-> Attr(e, "from"), dateTime |-> FromStamp(Attr(e, "stamp"))]
    ELSE m
DelayOf(m) == DelayedDelivery(m.from, m.dateTime, "")
DelayWrite(p) ==
    When(p.dateTime # "",
         Element("delay", DelayNS, "stamp" :> p.dateTime @@ AttrIfAny("from", p.from),
                 Chars(p.reason)))
DelayKept(p) == [p EXCEPT !.reason = ""]

---------------------------------------------------------------------------
\* Entity time (XEP-0202).  The offset is in minutes; a text is +hh:mm.

TimeNS == "urn:xmpp:time"
Offsets == {-330, 0, 60}
OffsetText == (-330 :> "-05:30") @@ (0 :> "+00:00") @@ (60 :> "+01:00")
OffsetOf(s) ==
    IF \E o \in Offsets : OffsetText[o] = s THEN CHOOSE o \in Offsets : OffsetText[o] = s ELSE 0

EntityTime(tzo, utc) == [kind |-> "time", tzo |-> tzo, utc |-> utc]
TimeAccepts(e) == Named(e, "time", TimeNS)
TimeFresh == [depth |-> 0, state |-> "nowhere", tzo |-> 0, utc |-> ""]
TimeStep(m, e) ==
    CASE e.t = "start" /\ m.depth = 0 -> [TimeFresh EXCEPT !.depth = 1]
      [] e.t = "start" /\ m.depth # 0 ->
            [m EXCEPT !.depth = @ + 1,
                      !.state = IF m.depth = 1 /\ e.n \in {"tzo", "utc"} THEN e.n ELSE @]
      [] e.t = "end" ->
            [m EXCEPT !.depth = @ - 1, !.state = IF m.depth = 2 THEN "nowhere" ELSE @]
      [] e.t = "text" ->
            CASE m.state = "utc" -> [m EXCEPT !.utc = FromStamp(e.n)]
              [] m.state = "tzo" -> [m EXCEPT !.tzo = OffsetOf(e.n)]
              [] OTHER -> m
TimeOf(m) == EntityTime(m.tzo, m.utc)
TimeWrite(p) ==
    Element("time", TimeNS, NoAttrs,
            When(p.utc # "", TextElement("utc", p.utc) \o TextElement("tzo", OffsetText[p.tzo])))
\* Without a moment the offset is not written.
TimeKept(p) == IF p.utc = "" THEN EntityTime(0, "") ELSE p

---------------------------------------------------------------------------
\* Software version (XEP-0092)

VersionNS == "jabber:iq:version"
VersionFields == {"name", "version", "os"}
SoftwareVersion(name, version, os) ==
    [kind |-> "version", name |-> name, version |-> version, os |-> os]
VersionAccepts(e) == Named(e, "query", VersionNS)
NoVersion == [f \in VersionFields |-> ""]
VersionFresh(garbage) == [depth |-> 0, state |-> garbage, at |-> NoVersion]
VersionStep(m, e) ==
    CASE e.t = "start" ->
            [m EXCEPT !.depth = @ + 1,
                      !.at = IF m.depth = 0 THEN NoVersion ELSE @,
                      !.state = IF m.depth = 1 THEN StrToEnum(e.n, VersionFields) ELSE @]
      [] e.t = "end" -> [m EXCEPT !.depth = @ - 1]
      [] e.t = "text" ->
            IF m.depth = 2 /\ m.state # "invalid" THEN [m EXCEPT !.at[m.state] = e.n] ELSE m
VersionOf(m) == SoftwareVersion(m.at["name"], m.at["version"], m.at["os"])
VersionWrite(p) ==
    Element("query", VersionNS, NoAttrs,
            TextElementIfAny("name", p.name) \o TextElementIfAny("version", p.version)
            \o TextElementIfAny("os", p.os))

---------------------------------------------------------------------------
\* vCard update (XEP-0153): without the photo element the contact says
\* nothing of its photo, with an empty one that it has none.

UpdateNS == "vcard-temp:x:update"
VCardUpdate(hasPhotoInfo, hash) ==
    [kind |-> "update", hasPhotoInfo |-> hasPhotoInfo, photoHash |-> hash]
UpdateAccepts(e) == Named(e, "x", UpdateNS)
UpdateFresh == [depth |-> 0, isPhoto |-> FALSE, hasPhoto |-> FALSE, hash |-> ""]
UpdateStep(m, e) ==
    CASE e.t = "start" /\ m.depth = 0 ->
            [m EXCEPT !.depth = 1, !.hasPhoto = FALSE, !.hash = ""]
      [] e.t = "start" /\ m.depth = 1 ->
            [m EXCEPT !.depth = 2, !.isPhoto = e.n = "photo", !.hasPhoto = @ \/ e.n = "photo"]
      [] e.t = "start" /\ m.depth > 1 -> [m EXCEPT !.depth = @ + 1]
      [] e.t = "end" -> [m EXCEPT !.depth = @ - 1, !.isPhoto = @ /\ m.depth # 2]
      [] e.t = "text" -> [m EXCEPT !.hash = IF m.depth = 2 /\ m.isPhoto THEN e.n ELSE @]
UpdateOf(m) == IF m.hasPhoto THEN VCardUpdate(TRUE, m.hash) ELSE VCardUpdate(FALSE, "")
UpdateWrite(p) == Element("x", UpdateNS, NoAttrs, TextElement("photo", p.photoHash))
\* What says nothing of the photo is written as having none.
UpdateKept(p) == VCardUpdate(TRUE, p.photoHash)

---------------------------------------------------------------------------
\* Signed and encrypted text (XEP-0027).  createPayload takes the payload.

SignedNS    == "jabber:x:signed"
EncryptedNS == "jabber:x:encrypted"
PGPText(kind, text) == [kind |-> kind, text |-> text]
SignedAccepts(e)    == Named(e, "x", SignedNS)
EncryptedAccepts(e) == Named(e, "x", EncryptedNS)
PGPFresh == [depth |-> 0, query |-> <<>>]
PGPStep(m, e) ==
    CASE e.t = "start" ->
            [m EXCEPT !.depth = @ + 1, !.query = IF m.depth = 0 THEN <<"">> ELSE @]
      [] e.t = "end"  -> [m EXCEPT !.depth = @ - 1]
      [] e.t = "text" -> [m EXCEPT !.query = IF m.depth = 1 THEN <<e.n>> ELSE @]
PGPOf(kind, m) == PGPText(kind, m.query[1])
QueryTaken(m) == [m EXCEPT !.query = <<>>]
SignedWrite(p)    == Element("x", SignedNS, NoAttrs, Chars(p.text))
EncryptedWrite(p) == Element("x", EncryptedNS, NoAttrs, Chars(p.text))

---------------------------------------------------------------------------
\* Captcha (XEP-0158): the data form inside it, when it is of the right type.

CaptchaNS == "urn:xmpp:captcha"
Captcha(form) == [kind |-> "captcha", form |-> form]
CaptchaAccepts(e) == Named(e, "captcha", CaptchaNS)
CaptchaFresh(state, garbage) ==
    [depth |-> 0, atFactory |-> FALSE, query |-> <<>>, factory |-> FormFresh(state, garbage)]
CaptchaForward(m, e) ==
    IF m.atFactory THEN [m EXCEPT !.factory = FormStep(@, e)] ELSE m
CaptchaStart(m, e) ==
    [m EXCEPT !.depth = @ + 1,
              !.query = IF m.depth = 0 THEN << <<>> >> ELSE @,
              !.atFactory = @ \/ (m.depth = 1 /\ FormAccepts(e))]
CaptchaEnd(m) ==
    LET form == FormOf(m.factory)
        done == IF m.atFactory /\ m.depth = 2
                THEN [m EXCEPT !.query = IF TypeName(form) = CaptchaNS THEN << <<form>> >> ELSE @,
                               !.factory = FormCleared(@), !.atFactory = FALSE]
                ELSE m
    IN  [done EXCEPT !.depth = @ - 1]
CaptchaStep(m, e) ==
    CASE e.t = "start" -> CaptchaForward(CaptchaStart(m, e), e)
      [] e.t = "end"   -> CaptchaEnd(CaptchaForward(m, e))
      [] e.t = "text"  -> CaptchaForward(m, e)
CaptchaOf(m) == Captcha(m.query[1])
CaptchaWrite(p) ==
    Element("captcha", CaptchaNS, NoAttrs, When(p.form # <<>>, FormWrite(p.form[1])))
CaptchaKept(p) ==
    IF p.form # <<>> /\ TypeName(p.form[1]) = CaptchaNS THEN Captcha(<<FormKept(p.form[1])>>)
    ELSE Captcha(<<>>)

---------------------------------------------------------------------------
\* Bits of binary (XEP-0231).  The text is the data; base64 keeps it.

BobNS == "urn:xmpp:bob"

\* cid() computes the address of the data when none was set.
BobCid(p) == IF p.cid = "" /\ p.data # "" THEN "sha1+" \o p.data ELSE p.cid
BitsOfBinary(cid, age, type, data) ==
    [kind |-> "bob", cid |-> cid, maximumAge |-> age, type |-> type, data |-> data]
BobAccepts(e) == Named(e, "data", BobNS)
BobFresh == [depth |-> 0, query |-> <<>>]
\* canParse sets the depth back.
BobAsked(m) == [m EXCEPT !.depth = 0]
BobStep(m, e) ==
    CASE e.t = "start" ->
            [m EXCEPT !.depth = @ + 1,
                      !.query = IF m.depth # 0 THEN @
                                ELSE <<BitsOfBinary(Attr(e, "cid"),
                                         IF IsInt(Attr(e, "max-age"))
                                         THEN ToInt(Attr(e, "max-age")) ELSE -1,
                                         Attr(e, "type"), "")>>]
      [] e.t = "end"  -> [m EXCEPT !.depth = @ - 1]
      [] e.t = "text" -> IF m.depth = 1 THEN [m EXCEPT !.query[1].data = e.n] ELSE m
BobOf(m) == m.query[1]
BobWrite(p) ==
    Element("data", BobNS,
            "cid" :> BobCid(p) @@ AttrIfAny("type", p.type)
              @@ AttrIfAny("max-age", IF p.maximumAge >= 0 THEN ToString(p.maximumAge) ELSE ""),
            Chars(p.data))
BobKept(p) == [p EXCEPT !.cid = BobCid(p)]

---------------------------------------------------------------------------
\* Stanza errors.

ErrorNS  == "urn:ietf:params:xml:ns:xmpp-stanzas"
ErrorNS2 == "jabber:client"
ErrorTypes == {"auth", "cancel", "continue", "modify", "wait"}
ErrorConditions == {
    "bad-request", "conflict", "feature-not-implemented", "forbidden", "gone",
    "internal-server-error", "item-not-found", "jid-malformed", "not-acceptable",
    "not-allowed", "not-authorized", "not-modified", "payment-required",
    "recipient-unavailable", "redirect", "registration-required", "remote-server-not-found",
    "remote-server-timeout", "resource-constraint", "service-unavailable",
    "subscription-required", "undefined-condition", "unexpected-request", "unknown-sender"}

Error(type, condition, text) ==
    [kind |-> "error", type |-> type, condition |-> condition, text |-> text]
ErrorAccepts(e) == e.n = "error" /\ e.u \in {ErrorNS, ErrorNS2}
\* "undefined": the members after construction.
ErrorFresh == [depth |-> 0, state |-> "condition", type |-> "undefined",
               condition |-> "undefined", text |-> ""]
\* Nothing sets the condition back, and the state only changes with the
\* next child.
ErrorStep(m, e) ==
    CASE e.t = "start" /\ m.depth = 0 ->
            [m EXCEPT !.depth = 1, !.type = StrToEnum(Attr(e, "type"), ErrorTypes), !.text = ""]
      [] e.t = "start" /\ m.depth = 1 ->
            IF e.n = "text" THEN [m EXCEPT !.depth = 2, !.state = "text"]
            ELSE [m EXCEPT !.depth = 2, !.state = "condition",
                           !.condition = StrToEnum(e.n, ErrorConditions)]
      [] e.t = "start" /\ m.depth > 1 -> [m EXCEPT !.depth = @ + 1]
      [] e.t = "end"  -> [m EXCEPT !.depth = @ - 1]
      [] e.t = "text" -> [m EXCEPT !.text = IF m.state = "text" THEN e.n ELSE @]
ErrorOf(m) == Error(m.type, m.condition, m.text)
ErrorWrite(p) ==
    When(p.type # "undefined" /\ p.condition # "undefined",
         Element("error", "", "type" :> p.type,
                 Element(p.condition, ErrorNS, NoAttrs, <<>>)))
ErrorKept(p) == [p EXCEPT !.text = ""]

---------------------------------------------------------------------------
\* Entity capabilities (XEP-0115).

CapsNS == "http://jabber.org/protocol/caps"
Capabilities(ver, node) == [kind |-> "caps", ver |-> ver, node |-> node]
CapsAccepts(e) == Named(e, "c", CapsNS)
CapsFresh == [node |-> "", ver |-> ""]
CapsStep(m, e) ==
    IF e.t = "start" THEN [node |-> Attr(e, "node"), ver |-> Attr(e, "ver")] ELSE m
CapsOf(m) == Capabilities(m.ver, m.node)
\* Without a value of its own it writes that of the client's disco.
CapsWrite(p, hash) ==
    Element("c", CapsNS,
            "hash" :> "sha-1" @@ "ver" :> (IF p.ver = "" THEN hash ELSE p.ver) @@ "node" :> p.node,
            <<>>)
CapsKept(p, hash) == [p EXCEPT !.ver = IF @ = "" THEN hash ELSE @]

=============================================================================
