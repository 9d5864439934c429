------------------------------- MODULE Stanzas -------------------------------
(***************************************************************************)
(* Stanzas: what StanzaFactory does for all three kinds (the payloads of   *)
(* its children, the tokens it keeps to write a stanza again as it came)   *)
(* and what MessageFactory, PresenceFactory and IqFactory add.  The client *)
(* has one factory of each payload, shared by the three and by the message *)
(* factory inside ForwardedFactory (XEP-0297).                             *)
(***************************************************************************)
EXTENDS PayloadFactories

StanzaKinds == {"message", "presence", "iq"}

\* The factories that take the children here: a few of the client's.
Registered == {"error", "caps", "delay", "receipt", "version", "update"}

\* A text by language; "" is the base, the only one when there is no other.
NoText == "" :> ""
InLang(map, lang, text) == (lang :> text) @@ map

MessageTypes == {"chat", "error", "groupchat", "headline", "normal"}
IqTypes      == {"get", "set", "result", "error"}

Message(type, to, body, subject, thread, lang) ==
    [kind |-> "message", from |-> "", to |-> to, id |-> "", type |-> type,
     body |-> InLang(NoText, lang, body), subject |-> InLang(NoText, lang, subject),
     thread |-> thread, ext |-> <<>>, tokens |-> <<>>]
Presence(type, to, status, priority, lang) ==
    [kind |-> "presence", from |-> "", to |-> to, id |-> "", type |-> type,
     status |-> InLang(NoText, lang, status), priority |-> priority,
     ext |-> <<>>, tokens |-> <<>>]
IQ(type, to, id) ==
    [kind |-> "iq", from |-> "", to |-> to, id |-> id, type |-> type,
     ext |-> <<>>, tokens |-> <<>>]

\* The private data a factory starts a stanza with.
NewStanza(kind) ==
    CASE kind = "message"  -> Message("normal", "", "", "", "", "")
      [] kind = "presence" -> Presence("available", "", "", 0, "")
      [] kind = "iq"       -> IQ("invalid", "", "")

\* addExtension: one payload of a kind.
AddExtension(s, p) == [s EXCEPT !.ext = (p.kind :> p) @@ @]
\* Presence::setPriority
SetPriority(s, n) == [s EXCEPT !.priority = IF n < -128 THEN -128 ELSE IF n > 127 THEN 127 ELSE n]

---------------------------------------------------------------------------
\* Reading.  w.f: the members of the stanza factory; w.shared: those of the
\* payload factories; w.fw: those of the ForwardedFactory, where a factory
\* can come to one.

StanzaFresh == [depth |-> 0, state |-> "nowhere", lang |-> "", parsers |-> {}, stanza |-> <<>>]

StanzaAccepts(kind, e) == e.n = kind

ForwardedNS == "urn:xmpp:forward:0"
ForwardedAccepts(e) == Named(e, "forwarded", ForwardedNS)

\* The tokens kept: a text before a start tag or after an end tag is
\* formatting and left out.
KeepStart_AfterStart(tokens, e) ==
    Append(SubSeq(tokens, 1, SelectLastInSeq(tokens, LAMBDA t : t.t = "start")), e)
KeepStart(tokens, e) ==
    Append(SubSeq(tokens, 1, SelectLastInSeq(tokens, LAMBDA t : t.t # "text")), e)
KeepText(tokens, e) ==
    IF tokens # <<>> /\ Last(tokens).t = "end" THEN tokens ELSE Append(tokens, e)

\* The start tag of the stanza itself.
PresenceTypeOf ==
    [t \in {"unavailable", "probe", "subscribe", "unsubscribe", "subscribed", "unsubscribed",
            "error"} |->
        CASE t = "subscribed"   -> "subscribe"
          [] t = "unsubscribed" -> "unsubscribe"
          [] OTHER              -> t]
TypeOf(kind, t) ==
    CASE kind = "message"  -> IF t = "" THEN "normal" ELSE StrToEnum(t, MessageTypes)
      [] kind = "presence" -> IF t \in DOMAIN PresenceTypeOf THEN PresenceTypeOf[t] ELSE "available"
      [] kind = "iq"       -> StrToEnum(t, IqTypes)
Opened(f, e) ==
    [f EXCEPT !.stanza[1].from = Attr(e, "from"), !.stanza[1].to = Attr(e, "to"),
              !.stanza[1].id = Attr(e, "id"),
              !.stanza[1].type = TypeOf(f.stanza[1].kind, Attr(e, "type")),
              !.state = IF f.stanza[1].kind = "message" THEN "nowhere" ELSE @]

\* A child: the text of the stanza's own it opens, by its name alone.
OwnTexts == [message |-> {"body", "subject", "thread"},
             presence |-> {"show", "priority", "status"}, iq |-> {}]
Child(f, e) ==
    [f EXCEPT !.state = IF e.n \in OwnTexts[f.stanza[1].kind] THEN e.n ELSE @,
              !.lang = IF f.stanza[1].kind = "presence" /\ e.n = "status"
                       THEN Attr(e, "xml:lang") ELSE @]

\* canParse of all payload factories, and those that take the child.
Takers(w, e) ==
    {k \in Registered : Accepts(k, e)}
    \cup IF w.fw # <<>> /\ ForwardedAccepts(e) THEN {"forwarded"} ELSE {}
AllAsked(shared, e) == [k \in DOMAIN shared |-> Asked(k, shared[k])]

\* Every taker gets the token.
Feed(w, e) ==
    [w EXCEPT !.shared = [k \in DOMAIN @ |->
        IF k \in w.f.parsers THEN Step(k, @[k], e) ELSE @[k]]]

\* What a start tag does before the takers get it.
StanzaStart(kind, w, e) ==
    LET d     == w.f.depth + 1
        begun == IF d = 1 THEN [w.f EXCEPT !.stanza = <<NewStanza(kind)>>] ELSE w.f
        kept  == [begun EXCEPT !.depth = d, !.stanza[1].tokens = KeepStart(@, e)]
    IN  CASE d = 1 -> [w EXCEPT !.f = Opened(kept, e)]
          [] d = 2 -> [w EXCEPT !.f = Child([kept EXCEPT !.parsers = Takers(w, e)], e),
                                !.shared = AllAsked(@, e)]
          [] OTHER -> [w EXCEPT !.f = kept]
Ready(kind, w, e) == IF e.t = "start" THEN StanzaStart(kind, w, e) ELSE w

\* What a text means to the stanza itself.
TextOf(f, s, text) ==
    CASE f.state \in {"body", "subject"} -> [s EXCEPT ![f.state] = "" :> text]
      [] f.state = "thread"   -> [s EXCEPT !.thread = text]
      [] f.state = "show"     -> [s EXCEPT !.type = IF text \in {"away", "chat", "dnd", "xa"}
                                                    THEN text ELSE @]
      [] f.state = "priority" -> [s EXCEPT !.priority = ToInt(text)]
      [] f.state = "status"   -> [s EXCEPT !.status = InLang(@, f.lang, text)]
      [] OTHER                -> s

\* What a text does when the takers have had it (fed).
StanzaText(w, e, fed) ==
    LET s == [w.f.stanza[1] EXCEPT !.tokens = KeepText(@, e)]
    IN  [fed EXCEPT !.f.stanza = <<IF w.f.depth = 2 THEN TextOf(w.f, s, e.n) ELSE s>>]

\* The end of a child: its takers make their payloads.
MadeBy(w, k) == IF k = "forwarded" THEN w.fw[1].forwarded[1] ELSE Made(k, w.shared[k])
ChildDone(w) ==
    [w EXCEPT !.f.stanza[1].ext = [k \in w.f.parsers |-> MadeBy(w, k)] @@ @,
              !.shared = [k \in DOMAIN @ |-> IF k \in w.f.parsers THEN Taken(k, @[k]) ELSE @[k]],
              !.fw = IF "forwarded" \in w.f.parsers THEN <<[@[1] EXCEPT !.forwarded = <<>>]>> ELSE @,
              !.f.parsers = {}, !.f.state = "nowhere"]
StanzaEnd(e, fed) ==
    LET kept == [fed EXCEPT !.f.stanza[1].tokens = Append(@, e)]
    IN  [IF kept.f.depth = 2 THEN ChildDone(kept) ELSE kept EXCEPT !.f.depth = @ - 1]

StanzaStep(w, e, fed) ==
    CASE e.t = "start" -> fed
      [] e.t = "end"   -> StanzaEnd(e, fed)
      [] e.t = "text"  -> StanzaText(w, e, fed)

StanzaOf(w)    == w.f.stanza[1]
StanzaTaken(w) == [w EXCEPT !.f.stanza = <<>>]

---------------------------------------------------------------------------
\* A message forwarded: its own delay and message factories, the message
\* factory with the payload factories of the client.  The message has no
\* forwarded one inside.

Forwarded(message, time) == [kind |-> "forwarded", message |-> message, time |-> time]
NoMessage == Message("invalid", "", "", "", "", "")
ForwardedFresh ==
    [depth |-> 0, state |-> "unknown", forwarded |-> <<>>, delayed |-> DelayFresh,
     message |-> StanzaFresh]

\* The token goes on to the nested factory.
Inner(w) == [f |-> w.fw[1].message, shared |-> w.shared, fw |-> <<>>]
Outer(w, inner) == [w EXCEPT !.fw[1].message = inner.f, !.shared = inner.shared]
ForwardedFeed(w, e) ==
    CASE w.fw[1].state = "delayed" -> [w EXCEPT !.fw[1].delayed = DelayStep(@, e)]
      [] w.fw[1].state = "message" ->
            Outer(w, StanzaStep(Inner(w), e, Feed(Ready("message", Inner(w), e), e)))
      [] OTHER -> w

\* A start tag, before the nested factory gets it.
ForwardedStart(w, e) ==
    LET d  == w.fw[1].depth + 1
        at == CASE d = 1 -> [w.fw[1] EXCEPT !.forwarded = <<Forwarded(NoMessage, <<>>)>>]
                [] d = 2 -> [w.fw[1] EXCEPT !.state =
                                CASE DelayAccepts(e)              -> "delayed"
                                  [] StanzaAccepts("message", e)  -> "message"
                                  [] OTHER                        -> "unknown"]
                [] OTHER -> w.fw[1]
    IN  [w EXCEPT !.fw = <<[at EXCEPT !.depth = d]>>]

\* An end tag, when the nested factory has had it.
ForwardedEnd(w) ==
    LET fw  == w.fw[1]
        at  == CASE fw.depth = 2 /\ fw.state = "delayed" ->
                      [fw EXCEPT !.forwarded[1].time = <<DelayOf(fw.delayed)>>]
                 [] fw.depth = 2 /\ fw.state = "message" ->
                      [fw EXCEPT !.forwarded[1].message = fw.message.stanza[1],
                                 !.message.stanza = <<>>]
                 [] OTHER -> fw
    IN  [w EXCEPT !.fw = <<[at EXCEPT !.depth = @ - 1,
                                      !.state = IF fw.depth = 2 THEN "unknown" ELSE @]>>]
ForwardedDone(e, fed) == IF e.t = "end" THEN ForwardedEnd(fed) ELSE fed
ForwardedStep(w, e) ==
    ForwardedDone(e, ForwardedFeed(IF e.t = "start" THEN ForwardedStart(w, e) ELSE w, e))

\* What the client's stanza factories hand a token on to.
ForwardTo(w, e) == IF "forwarded" \in w.f.parsers THEN ForwardedStep(w, e) ELSE w
FeedAll(w, e)   == ForwardTo(Feed(w, e), e)
ClientFresh(shared) == [f |-> StanzaFresh, shared |-> shared, fw |-> <<ForwardedFresh>>]
ClientStep(kind, w, e) == StanzaStep(w, e, FeedAll(Ready(kind, w, e), e))

---------------------------------------------------------------------------
\* Writing.

StanzaAttrs(s) == AttrIfAny("from", s.from) @@ AttrIfAny("to", s.to) @@ AttrIfAny("id", s.id)

\* writeLangMap: the other languages, then the base when it is not empty.
LangWrite(tag, map) ==
    LET langs == SetToSeq(DOMAIN map \ {""}) \o When(map[""] # "", <<"">>)
    IN  FlattenSeq([i \in DOMAIN langs |->
            Element(tag, "", AttrIfAny("xml:lang", langs[i]), Chars(map[langs[i]]))])

\* writePayloads: what the client's factory of each kind has written.
PayloadsWrite(written) ==
    LET kinds == SetToSeq(DOMAIN written)
    IN  FlattenSeq([i \in DOMAIN kinds |-> written[kinds[i]]])

ShowOf(type) == IF type \in {"away", "chat", "dnd", "xa"} THEN type ELSE ""
PresenceType(type) ==
    IF type \in {"unavailable", "subscribe", "subscribed", "unsubscribe", "unsubscribed", "error",
                 "probe"} THEN type ELSE ""

ClientNS == "jabber:client"
StanzaElement(s, written) ==
    CASE s.kind = "message" ->
            Element("message", ClientNS, StanzaAttrs(s) @@ AttrIfAny("type", s.type),
                    LangWrite("subject", s.subject) \o LangWrite("body", s.body)
                    \o TextElementIfAny("thread", s.thread) \o PayloadsWrite(written))
      [] s.kind = "presence" ->
            Element("presence", ClientNS, StanzaAttrs(s) @@ AttrIfAny("type", PresenceType(s.type)),
                    TextElement("priority", ToString(s.priority)) \o PayloadsWrite(written)
                    \o LangWrite("status", s.status) \o TextElementIfAny("show", ShowOf(s.type)))
      [] s.kind = "iq" ->
            Element("iq", ClientNS, StanzaAttrs(s) @@ ("type" :> s.type),
                    PayloadsWrite(written))

\* serialize: a stanza that came is written as it came, an invalid one not
\* at all.  shared: the members of the payload factories, which write what
\* it carries.
StanzaWrite(s, written) ==
    IF s.tokens # <<>> THEN s.tokens
    ELSE When(s.type # "invalid", StanzaElement(s, written))
OwnWritten(shared, ext) ==
    [k \in DOMAIN ext \cap Registered |-> Written(shared[k], ext[k])]
ForwardedWrite(shared, p) ==
    Element("forwarded", ForwardedNS, NoAttrs,
            (IF p.time = <<>> THEN <<>> ELSE DelayWrite(p.time[1]))
            \o StanzaWrite(p.message, OwnWritten(shared, p.message.ext)))
WrittenAll(shared, ext) ==
    [k \in DOMAIN ext \cap (Registered \cup {"forwarded"}) |->
        IF k = "forwarded" THEN ForwardedWrite(shared, ext[k]) ELSE Written(shared[k], ext[k])]
ClientWrite(w, s) == StanzaWrite(s, WrittenAll(w.shared, s.ext))

\* What of a stanza the other side reads: a body or subject loses its
\* language, and of a subscription whether it was asked for or granted; of
\* the payloads those that are written.
BaseKept(map) == "" :> IF map[""] # "" \/ DOMAIN map = {""} THEN map[""]
                       ELSE map[CHOOSE l \in DOMAIN map \ {""} : TRUE]
ExtKept(ext, written, Keep(_)) ==
    [k \in {x \in DOMAIN written : written[x] # <<>>} |-> Keep(ext[k])]
SelfKept(s) ==
    CASE s.kind = "message"  -> [s EXCEPT !.body = BaseKept(@), !.subject = BaseKept(@)]
      [] s.kind = "presence" ->
            [s EXCEPT !.type = IF @ \in {"empty", "available"} THEN "available"
                               ELSE IF @ \in DOMAIN PresenceTypeOf THEN PresenceTypeOf[@] ELSE @]
      [] s.kind = "iq"       -> s
OwnKept(shared, p) == Kept(shared[p.kind], p)
StanzaKept(shared, s) ==
    [SelfKept(s) EXCEPT !.ext = ExtKept(@, OwnWritten(shared, @), LAMBDA p : OwnKept(shared, p))]
ForwardedKept(shared, p) ==
    [p EXCEPT !.message = IF @.type = "invalid" THEN @ ELSE StanzaKept(shared, @),
              !.time = IF @ = <<>> \/ @[1].dateTime = "" THEN <<>> ELSE <<DelayKept(@[1])>>]
KeptAll(shared, p) ==
    IF p.kind = "forwarded" THEN ForwardedKept(shared, p) ELSE OwnKept(shared, p)
ClientKept(w, s) ==
    [SelfKept(s) EXCEPT
        !.ext = ExtKept(@, WrittenAll(w.shared, @), LAMBDA p : KeptAll(w.shared, p))]

\* A stanza without the tokens it was read from.
Bare(s) ==
    [s EXCEPT !.tokens = <<>>,
              !.ext = [k \in DOMAIN @ |->
                  IF k = "forwarded" THEN [@[k] EXCEPT !.message.tokens = <<>>] ELSE @[k]]]

=============================================================================
