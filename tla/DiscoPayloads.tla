--------------------------- MODULE DiscoPayloads ---------------------------
(***************************************************************************)
(* Service discovery (XEP-0030): the two queries, the items an application *)
(* browses, and the text whose hash the entity capabilities announce       *)
(* (XEP-0115).  The queries of the roster and of the stream's own features *)
(* (bind, session) are here too.  The naming is that of SmallPayloads.     *)
(***************************************************************************)
EXTENDS SmallPayloads

InfoNS  == "http://jabber.org/protocol/disco#info"
ItemsNS == "http://jabber.org/protocol/disco#items"

---------------------------------------------------------------------------
\* Disco::Info

Identity(category, type, name, lang) ==
    [category |-> category, type |-> type, name |-> name, lang |-> lang]
Info(node, identities, features, form) ==
    [kind |-> "info", node |-> node, identities |-> identities, features |-> features,
     form |-> form]

InfoAccepts(e) == Named(e, "query", InfoNS)
InfoFresh(state, garbage) ==
    [depth |-> 0, state |-> "start", node |-> "", identities |-> <<>>, features |-> {},
     hasForm |-> FALSE, factory |-> FormFresh(state, garbage)]

InfoForward(m, e) ==
    IF m.state = "form" THEN [m EXCEPT !.factory = FormStep(@, e)] ELSE m

InfoStart(m, e) ==
    LET d  == m.depth + 1
        at == CASE d = 1 ->
                     [m EXCEPT !.node = Attr(e, "node"), !.identities = <<>>, !.features = {},
                               !.hasForm = FALSE, !.state = "info"]
                [] d = 2 /\ e.n = "identity" ->
                     [m EXCEPT !.identities =
                         Append(@, Identity(Attr(e, "category"), Attr(e, "type"),
                                            Attr(e, "name"), Attr(e, "xml:lang")))]
                [] d = 2 /\ e.n = "feature" -> [m EXCEPT !.features = @ \cup {Attr(e, "var")}]
                [] d = 2 /\ FormAccepts(e) -> [m EXCEPT !.hasForm = TRUE, !.state = "form"]
                [] OTHER -> m
    IN  [at EXCEPT !.depth = d]
InfoEnd(m) ==
    [m EXCEPT !.depth = @ - 1,
              !.state = CASE m.depth = 2 /\ @ = "form" -> "info"
                          [] m.depth = 1 -> "start"
                          [] OTHER -> @]
InfoStep(m, e) ==
    CASE e.t = "start" -> InfoForward(InfoStart(m, e), e)
      [] e.t = "end"   -> InfoEnd(InfoForward(m, e))
      [] e.t = "text"  -> InfoForward(m, e)

\* createPayload; the form's own factory gives the form and clears itself.
InfoOf(m) ==
    Info(m.node, m.identities, m.features, IF m.hasForm THEN <<FormOf(m.factory)>> ELSE <<>>)
InfoTaken(m) == IF m.hasForm THEN [m EXCEPT !.factory = FormCleared(@)] ELSE m

\* The features are a hash set: they are written in some order.
InfoWrite(p) ==
    LET vars == SetToSeq(p.features)
        IdentityWrite(i) ==
            Element("identity", "",
                    "category" :> i.category @@ "type" :> i.type @@ "name" :> i.name
                      @@ AttrIfAny("xml:lang", i.lang), <<>>)
    IN  Element("query", InfoNS, AttrIfAny("node", p.node),
                FlattenSeq([i \in DOMAIN p.identities |-> IdentityWrite(p.identities[i])])
                \o FlattenSeq([i \in DOMAIN vars |->
                       Element("feature", "", "var" :> vars[i], <<>>)])
                \o When(p.form # <<>>, FormWrite(p.form[1])))
InfoKept(p) == [p EXCEPT !.form = IF @ = <<>> THEN <<>> ELSE <<FormKept(@[1])>>]

---------------------------------------------------------------------------
\* Disco::Items: whatever is in the query is an item.  The factory's
\* constructor leaves the depth alone, and nothing else ever sets it: it is
\* counted up and down from what the memory held.

Item(jid, node, name) == [jid |-> jid, node |-> node, name |-> name]
Items(node, items)    == [kind |-> "items", node |-> node, items |-> items]
ItemsAccepts(e) == Named(e, "query", ItemsNS)
DiscoItemsFresh(garbage) == [depth |-> garbage, node |-> "", items |-> <<>>]
DiscoItemsStep(m, e) ==
    CASE e.t = "start" /\ m.depth = 0 -> [depth |-> 1, node |-> Attr(e, "node"), items |-> <<>>]
      [] e.t = "start" /\ m.depth # 0 ->
            [m EXCEPT !.depth = @ + 1,
                      !.items = IF m.depth = 1
                                THEN Append(@, Item(Attr(e, "jid"), Attr(e, "node"), Attr(e, "name")))
                                ELSE @]
      [] e.t = "end"  -> [m EXCEPT !.depth = @ - 1]
      [] e.t = "text" -> m
DiscoItemsOf(m) == Items(m.node, m.items)
DiscoItemsWrite(p) ==
    Element("query", ItemsNS, AttrIfAny("node", p.node),
            FlattenSeq([i \in DOMAIN p.items |->
                Element("item", "",
                        "jid" :> p.items[i].jid @@ AttrIfAny("node", p.items[i].node)
                          @@ "name" :> p.items[i].name, <<>>)]))

---------------------------------------------------------------------------
\* Disco::Item as an application browses it: what hasIdentity and actions
\* say of its identities and features.

HasIdentity(identities, category, type) ==
    \E i \in ToSet(identities) : category \in {"", i.category} /\ type \in {"", i.type}

ItemActions(item, identities, features) ==
    LET isIRC == HasIdentity(identities, "conference", "irc")
        muc   == "http://jabber.org/protocol/muc" \in features
        auto  == HasIdentity(identities, "automation", "")
        cmds  == ~ auto /\ "http://jabber.org/protocol/commands" \in features
        If(c, a) == IF c THEN {a} ELSE {}
    IN  {"Add"}
        \cup If(muc /\ (item.jid.node # "" \/ isIRC), "Join")
        \cup If("http://jabber.org/protocol/bytestreams" \in features, "Proxy")
        \cup If(features \cap {"http://jabber.org/protocol/muc#register",
                               "jabber:iq:register"} # {}, "Register")
        \cup If("jabber:iq:search" \in features, "Search")
        \cup If("vcard-temp" \in features, "VCard")
        \cup If(\/ ItemsNS \in features
                \/ muc /\ ~ isIRC
                \/ features = {} /\ identities = <<>>
                \/ auto /\ HasIdentity(identities, "", "command-list")
                \/ cmds, "Expand")
        \cup If(auto \/ cmds, "Execute")

---------------------------------------------------------------------------
\* CapabilitesFactory::verificationValue: the text, as the sequence of its
\* parts.  Sorting is the order of some enumeration of the strings: the two
\* sides sort alike, which is all the text needs.  A map keeps one field of
\* a name, the last.

FieldsByName(form) ==
    [v \in {form.fields[i].var : i \in DOMAIN form.fields} \ {"FORM_TYPE"} |->
        LET last == CHOOSE i \in DOMAIN form.fields :
                      /\ form.fields[i].var = v
                      /\ \A j \in DOMAIN form.fields : form.fields[j].var = v => j <= i
        IN  form.fields[last].values]

\* Without the field there is a null field to ask for its value.
FormTypeIn(form) ==
    LET types == {i \in DOMAIN form.fields : form.fields[i].var = "FORM_TYPE"}
    IN  IF types = {} THEN ""
        ELSE FirstOr(form.fields[CHOOSE i \in types : \A j \in types : j <= i].values, "")

VerificationValue(identities, features, form) ==
    LET sorted == SetToSeq(ToSet(identities))
        count(i) == Cardinality({k \in DOMAIN identities : identities[k] = i})
        fields == FieldsByName(form[1])
        names  == SetToSeq(DOMAIN fields)
    IN  <<[i \in DOMAIN sorted |-> <<sorted[i], count(sorted[i])>>], SetToSeq(features)>>
        \o (IF form = <<>> THEN <<>>
            ELSE << <<FormTypeIn(form[1])>>, [i \in DOMAIN names |-> <<names[i]>> \o fields[names[i]]] >>)

---------------------------------------------------------------------------
\* Disco: what the client says of itself.

NewDisco ==
    [identities |-> <<>>, features |-> {}, form |-> <<>>, software |-> SoftwareVersion("", "", "")]
AddIdentity(d, identity) == [d EXCEPT !.identities = Append(@, identity)]
AddFeature(d, feature)   == [d EXCEPT !.features = @ \cup {feature}]
SetForm(d, form)         == [d EXCEPT !.form = <<form>>]

\* The form in which a software version is announced; the version itself
\* leaves out that of the operating system.
SoftwareForm(name, version, os, osVersion) ==
    DataForm("result", "", "",
             <<ValueField("hidden", "FORM_TYPE", "urn:xmpp:dataforms:softwareinfo"),
               Field("", "ip_version", <<"ipv4", "ipv6">>),
               ValueField("", "os", os)>>
             \o When(osVersion # "", <<ValueField("", "os_version", osVersion)>>)
             \o <<ValueField("", "software", name), ValueField("", "software_version", version)>>)
SetSoftwareVersion(d, name, version, os, osVersion) ==
    SetForm([d EXCEPT !.software = SoftwareVersion(name, version, os)],
            SoftwareForm(name, version, os, osVersion))

\* PubSub::Manager::addEntityType
AddEntityType(d, node) == AddFeature(AddFeature(d, node), node \o "+notify")

\* DiscoPrivate::_q_received: the answer to what is asked, whatever node it is
\* asked of.
DiscoReceipt(d, asked) ==
    [i \in DOMAIN asked |->
        CASE asked[i].kind = "info"    -> Info(asked[i].node, d.identities, d.features, d.form)
          [] asked[i].kind = "items"   -> Items(asked[i].node, <<>>)
          [] asked[i].kind = "version" -> d.software]

\* What the capabilities announce of somebody with this information.
Announced(p) == VerificationValue(p.identities, p.features, p.form)

---------------------------------------------------------------------------
\* The roster's query.  Any child of the query is an item, with the members
\* of the <item/> before it when it is not one itself.

RosterNS == "jabber:iq:roster"
SubscriptionTypes == {"from", "to", "both", "remove", "none"}
RosterEntry(jid, name, groups, subscription, ask) ==
    [jid |-> jid, name |-> name, groups |-> groups, subscription |-> subscription, ask |-> ask]
RosterQuery(items, ver) == [kind |-> "roster", items |-> items, ver |-> ver]

RosterAccepts(e) == Named(e, "query", RosterNS)
RosterFresh(garbage) ==
    [depth |-> 0, state |-> "start", items |-> <<>>, ver |-> "",
     item |-> RosterEntry("", "", <<>>, garbage, "")]
RosterStart(m, e) ==
    CASE m.depth = 0 ->
            [m EXCEPT !.depth = 1, !.state = "query", !.items = <<>>, !.ver = Attr(e, "ver")]
      [] m.depth = 1 /\ e.n = "item" ->
            [m EXCEPT !.depth = 2, !.state = "item",
                      !.item = RosterEntry(Attr(e, "jid"), Attr(e, "name"), <<>>,
                                           StrToEnum(Attr(e, "subscription"), SubscriptionTypes),
                                           Attr(e, "ask"))]
      [] OTHER ->
            [m EXCEPT !.depth = @ + 1,
                      !.state = IF m.depth = 2 /\ @ = "item" /\ e.n = "group" THEN "group" ELSE @]
RosterEnd(m) ==
    CASE m.depth = 1 -> [m EXCEPT !.depth = 0, !.state = "start"]
      [] m.depth = 2 -> [m EXCEPT !.depth = 1, !.state = "query", !.items = Append(@, m.item)]
      [] OTHER ->
            [m EXCEPT !.depth = @ - 1,
                      !.state = IF m.depth = 3 /\ @ = "group" THEN "item" ELSE @]
RosterStep(m, e) ==
    CASE e.t = "start" -> RosterStart(m, e)
      [] e.t = "end"   -> RosterEnd(m)
      [] e.t = "text"  -> IF m.depth = 3 /\ m.state = "group"
                          THEN [m EXCEPT !.item.groups = Append(@, e.n)] ELSE m
RosterOf(m) == RosterQuery(m.items, m.ver)
RosterWrite(p) ==
    Element("query", RosterNS, IF p.items = <<>> THEN "ver" :> p.ver ELSE NoAttrs,
            FlattenSeq([i \in DOMAIN p.items |->
                Element("item", "",
                        AttrIfAny("name", p.items[i].name) @@ "jid" :> p.items[i].jid
                          @@ "ask" :> p.items[i].ask
                          @@ AttrIfAny("subscription",
                                       IF p.items[i].subscription = "invalid" THEN ""
                                       ELSE p.items[i].subscription),
                        FlattenSeq([g \in DOMAIN p.items[i].groups |->
                            TextElement("group", p.items[i].groups[g])]))]))
\* The version goes with no items, the items with no version.
RosterKept(p) == IF p.items = <<>> THEN p ELSE [p EXCEPT !.ver = ""]

---------------------------------------------------------------------------
\* Resource binding and the session, which the stream features ask for.

BindNS == "urn:ietf:params:xml:ns:xmpp-bind"
BindQuery(jid, resource, bind) == [kind |-> "bind", jid |-> jid, resource |-> resource, bind |-> bind]
BindAccepts(e) == e.n \in {"bind", "unbind"} /\ e.u = BindNS
BindFresh == [depth |-> 0, state |-> "start", jid |-> "", resource |-> "", bind |-> TRUE]
BindStep(m, e) ==
    CASE e.t = "start" /\ m.depth = 0 ->
            [depth |-> 1, state |-> "start", jid |-> "", resource |-> "", bind |-> e.n = "bind"]
      [] e.t = "start" /\ m.depth # 0 ->
            [m EXCEPT !.depth = @ + 1,
                      !.state = IF m.depth # 1 THEN @
                                ELSE IF e.n \in {"jid", "resource"} THEN e.n ELSE "start"]
      [] e.t = "end" ->
            [m EXCEPT !.depth = @ - 1, !.state = IF m.depth = 2 THEN "start" ELSE @]
      [] e.t = "text" ->
            IF m.depth # 2 THEN m
            ELSE CASE m.state = "resource" -> [m EXCEPT !.resource = e.n]
                   [] m.state = "jid"      -> [m EXCEPT !.jid = e.n]
                   [] OTHER                -> m
BindOf(m) == BindQuery(m.jid, m.resource, m.bind)
BindWrite(p) ==
    Element(IF p.bind THEN "bind" ELSE "unbind", BindNS, NoAttrs,
            IF p.jid # "" THEN TextElement("jid", p.jid)
            ELSE TextElementIfAny("resource", p.resource))
BindKept(p) == IF p.jid # "" THEN [p EXCEPT !.resource = ""] ELSE p

SessionNS == "urn:ietf:params:xml:ns:xmpp-session"
SessionQuery == [kind |-> "session"]
SessionAccepts(e) == Named(e, "session", SessionNS)
SessionWrite(p) == Element("session", SessionNS, NoAttrs, <<>>)

=============================================================================
