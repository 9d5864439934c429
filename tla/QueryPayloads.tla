--------------------------- MODULE QueryPayloads ---------------------------
(***************************************************************************)
(* The queries of the managers: in-band registration, privacy lists, the   *)
(* requests about a room, and what is kept in private XML storage.         *)
(*                                                                         *)
(* For each factory F: FAccepts is canParse, FFresh the members after      *)
(* construction, FStep a token's handler, FOf what createPayload makes of  *)
(* the members, FWrite serialize, FKept what the other side reads of it.   *)
(***************************************************************************)
EXTENDS SmallPayloads

---------------------------------------------------------------------------
\* In-band registration (XEP-0077).

RegisterNS == "jabber:iq:register"

\* The names of the elements, in the order of the table: "date" and "misc"
\* are one string, for want of a comma.  The data has room for the first
\* fourteen.
ValueNames == <<"username", "nick", "password", "name", "first", "last", "email",
                "address", "city", "state", "zip", "phone", "url", "datemisc">>
DateField == Len(ValueNames)

RegistrationQuery(flags, values) ==
    [kind |-> "register", flags |-> flags, values |-> values, instructions |-> "",
     form |-> <<>>, bobs |-> <<>>]

\* strToFlag over the two names of the empty elements gives the index in
\* the table where the flag's bit is meant: 0 is no flag, 1 is Registered.
\* It also looks at one place beyond the table, where the name of the first
\* value may be: 2 is Remove.
EmptyNames == {"registered", "remove"}
FlagsOf(n, beyond) ==
    CASE n = "registered" -> {}
      [] n = "remove"     -> {"registered"}
      [] n = beyond       -> {"remove"}

RegisterAccepts(e) == Named(e, "query", RegisterNS)
RegisterFresh(state, garbage, beyond) ==
    [depth |-> 0, state |-> "nowhere", query |-> <<>>, form |-> FormFresh(state, garbage),
     bob |-> BobFresh, beyond |-> beyond]

\* canParse starts a query afresh.
RegisterAsked(m) ==
    [m EXCEPT !.depth = 0, !.state = "nowhere", !.query = <<RegistrationQuery({}, <<>>)>>]

RegisterForward(m, e) ==
    CASE m.state = "form" -> [m EXCEPT !.form = FormStep(@, e)]
      [] m.state = "bob"  -> [m EXCEPT !.bob = BobStep(@, e)]
      [] OTHER            -> m

RegisterStart(m, e) ==
    LET d == m.depth + 1
        in == [m EXCEPT !.depth = d,
                        !.bob = IF d = 2 /\ ~ FormAccepts(e) THEN BobAsked(@) ELSE @]
    IN  CASE d # 2 -> in
          [] d = 2 /\ FormAccepts(e) -> [in EXCEPT !.state = "form"]
          [] d = 2 /\ BobAccepts(e)  -> [in EXCEPT !.state = "bob"]
          [] d = 2 /\ e.n = "instructions" -> [in EXCEPT !.state = "instructions"]
          [] d = 2 /\ e.n \in EmptyNames \cup {m.beyond} ->
               [in EXCEPT !.query[1].flags = @ \cup FlagsOf(e.n, m.beyond)]
          [] d = 2 /\ Contains(ValueNames, e.n) /\ e.n # m.beyond ->
               [in EXCEPT !.state = e.n,
                          !.query[1].values = IF e.n \in DOMAIN @ THEN @ ELSE (e.n :> "") @@ @]
          [] OTHER -> in

RegisterEnd(m) ==
    LET done == CASE m.state = "form" ->
                       [m EXCEPT !.query[1].form = <<FormOf(m.form)>>, !.form = FormCleared(@)]
                  [] m.state = "bob" ->
                       [m EXCEPT !.query[1].bobs = Append(@, BobOf(m.bob)), !.bob = QueryTaken(@)]
                  [] OTHER -> m
    IN  IF m.depth = 2 THEN [done EXCEPT !.depth = 1, !.state = "nowhere"]
        ELSE [m EXCEPT !.depth = @ - 1]

RegisterText(m, e) ==
    CASE m.state = "instructions" -> [m EXCEPT !.query[1].instructions = e.n]
      [] Contains(ValueNames, m.state) -> [m EXCEPT !.query[1].values[m.state] = e.n]
      [] OTHER -> RegisterForward(m, e)

RegisterStep(m, e) ==
    CASE e.t = "start" -> RegisterForward(RegisterStart(m, e), e)
      [] e.t = "end"   -> RegisterEnd(RegisterForward(m, e))
      [] e.t = "text"  -> RegisterText(m, e)

\* serialize: neither the instructions nor the bits of binary are written,
\* and the flags are read one place off.
RegisterWrite(p) ==
    Element("query", RegisterNS, NoAttrs,
            When("registered" \in p.flags, Element("registered", "", NoAttrs, <<>>))
            \o When("remove" \in p.flags, Element("remove", "", NoAttrs, <<>>))
            \o FlattenSeq([i \in DOMAIN ValueNames |->
                   When(ValueNames[i] \in DOMAIN p.values,
                        TextElement(ValueNames[i], p.values[ValueNames[i]]))])
            \o When(p.form # <<>>, FormWrite(p.form[1])))
RegisterKept(p) ==
    [p EXCEPT !.instructions = "", !.bobs = <<>>,
              !.flags = IF "remove" \in @ THEN {"registered"} ELSE {},
              !.form = IF @ = <<>> THEN <<>> ELSE <<FormKept(@[1])>>]

---------------------------------------------------------------------------
\* Privacy lists (XEP-0016).  An unnamed list is not the same as no word of
\* one: "null" is QString's null, "" the name that declines the list.

PrivacyNS     == "jabber:iq:privacy"
PrivacyTypes  == {"jid", "group", "subscription"}
Actions       == {"deny", "allow"}
Subscriptions == {"from", "to", "both", "remove", "none"}
Stanzas       == <<"message", "presence-in", "presence-out", "iq">>
NoName        == "null"

\* No stanzas at all stands for all of them.
PrivacyItem(type, value, action, order, stanzas) ==
    [type |-> type, value |-> value, action |-> action, order |-> order, stanzas |-> stanzas]
AnyItem == PrivacyItem("all", "", "deny", 0, {})

PrivacyQuery(active, default, lists) ==
    [kind |-> "privacy", activeList |-> active, defaultList |-> default, lists |-> lists]

PrivacyAccepts(e) == Named(e, "query", PrivacyNS)
PrivacyFresh == [depth |-> 0, state |-> "nowhere", query |-> <<>>, name |-> NoName, items |-> <<>>]

\* The item an <item/> makes after the items before it: what it leaves out
\* is taken from the last one.
PrivacyType(e, before) ==
    LET type == StrToEnum(Attr(e, "type"), PrivacyTypes)
    IN  IF type = "invalid" /\ Attr(e, "value") # "" THEN before.type ELSE type
PrivacyItemOf(e, before) ==
    PrivacyItem(IF PrivacyType(e, before) \in PrivacyTypes THEN PrivacyType(e, before) ELSE "all",
                CASE PrivacyType(e, before) \in {"jid", "group"} -> Attr(e, "value")
                  [] PrivacyType(e, before) = "subscription" ->
                        StrToEnum(Attr(e, "value"), Subscriptions)
                  [] OTHER -> "",
                StrToEnum(Attr(e, "action"), Actions), ToInt(Attr(e, "order")), {})

PrivacyStart(m, e) ==
    LET d    == m.depth + 1
        in   == [m EXCEPT !.depth = d]
        name == IF "name" \in DOMAIN e.a THEN e.a["name"] ELSE NoName
    IN  CASE d = 1 -> [in EXCEPT !.query = <<PrivacyQuery(NoName, NoName, <<>>)>>]
          [] d = 2 /\ e.n = "list"    -> [in EXCEPT !.state = "list", !.name = name]
          [] d = 2 /\ e.n = "active"  -> [in EXCEPT !.query[1].activeList = name]
          [] d = 2 /\ e.n = "default" -> [in EXCEPT !.query[1].defaultList = name]
          [] d = 3 /\ m.state = "list" /\ e.n = "item" ->
               [in EXCEPT !.state = "item",
                          !.items = Append(@, PrivacyItemOf(e, IF @ = <<>> THEN AnyItem
                                                               ELSE Last(@)))]
          [] d = 4 /\ m.state = "item" /\ Contains(Stanzas, e.n) ->
               [in EXCEPT !.items[Len(m.items)].stanzas = @ \cup {e.n}]
          [] OTHER -> in

PrivacyEnd_KeepsItems(m, e) ==
    LET done == CASE m.depth = 2 /\ m.state = "list" ->
                       [m EXCEPT !.state = "nowhere",
                                 !.query[1].lists = Append(@, [name |-> m.name, items |-> m.items])]
                  [] m.depth = 3 /\ m.state = "item" -> [m EXCEPT !.state = "list"]
                  [] OTHER -> m
    IN  [done EXCEPT !.depth = @ - 1]
PrivacyEnd(m, e) ==
    LET done == CASE m.depth = 2 /\ m.state = "list" ->
                       [m EXCEPT !.state = "nowhere", !.name = NoName, !.items = <<>>,
                                 !.query[1].lists = Append(@, [name |-> m.name, items |-> m.items])]
                  [] m.depth = 3 /\ m.state = "item" -> [m EXCEPT !.state = "list"]
                  [] OTHER -> m
    IN  [done EXCEPT !.depth = @ - 1]

PrivacyStep(m, e) ==
    CASE e.t = "start" -> PrivacyStart(m, e)
      [] e.t = "end"   -> PrivacyEnd(m, e)
      [] e.t = "text"  -> m

\* The value is written before it is known to be one (an invalid
\* subscription is an empty text).
PrivacyItemWrite(i) ==
    Element("item", "",
            (IF i.type = "all" THEN NoAttrs
             ELSE "type" :> i.type @@ "value" :> IF i.value = "invalid" THEN "" ELSE i.value)
              @@ "action" :> (IF i.action = "invalid" THEN "" ELSE i.action)
              @@ "order" :> ToString(i.order),
            FlattenSeq([k \in DOMAIN Stanzas |->
                When(Stanzas[k] \in i.stanzas, Element(Stanzas[k], "", NoAttrs, <<>>))]))
PrivacyWrite(p) ==
    Element("query", PrivacyNS, NoAttrs,
            When(p.activeList # NoName,
                 Element("active", "", AttrIfAny("name", p.activeList), <<>>))
            \o When(p.defaultList # NoName,
                    Element("default", "", AttrIfAny("name", p.defaultList), <<>>))
            \o FlattenSeq([i \in DOMAIN p.lists |->
                   Element("list", "", "name" :> p.lists[i].name,
                           FlattenSeq([j \in DOMAIN p.lists[i].items |->
                               PrivacyItemWrite(p.lists[i].items[j])]))]))
\* A list declined is read as no word of one.
PrivacyKept(p) ==
    [p EXCEPT !.activeList  = IF @ = "" THEN NoName ELSE @,
              !.defaultList = IF @ = "" THEN NoName ELSE @]

---------------------------------------------------------------------------
\* Multi-user chat (XEP-0045).

MUCNS      == "http://jabber.org/protocol/muc"
MUCUserNS  == "http://jabber.org/protocol/muc#user"
MUCAdminNS == "http://jabber.org/protocol/muc#admin"
MUCOwnerNS == "http://jabber.org/protocol/muc#owner"

\* The request to enter a room; -1 is no limit.  Only the password and the
\* limits on the history are said, and nothing of it is ever read.
MUCRoomQuery(password, maxChars, maxStanzas, seconds, since) ==
    [kind |-> "muc", password |-> password, maxchars |-> maxChars, maxstanzas |-> maxStanzas,
     seconds |-> seconds, since |-> since]
MUCAccepts(e) == Named(e, "x", MUCNS)
MUCOf == MUCRoomQuery(NoName, -1, -1, -1, "")
HistoryAttrs(p) ==
    LET Limit(k) == IF p[k] # -1 THEN k :> ToString(p[k]) ELSE NoAttrs
    IN  Limit("maxchars") @@ Limit("maxstanzas") @@ Limit("seconds") @@ AttrIfAny("since", p.since)
MUCWrite(p) ==
    Element("x", MUCNS, NoAttrs,
            When(p.password # NoName, TextElement("password", p.password))
            \o When(HistoryAttrs(p) # NoAttrs, Element("history", "", HistoryAttrs(p), <<>>)))

\* An item; "invalid" is what the constructor sets and means say nothing,
\* "unknown" what an absent or unheard-of attribute is read as.
Affiliations == {"none", "outcast", "member", "owner", "admin"}
Roles        == {"none", "visitor", "participant", "moderator"}
MUCRoomItem(jid, nick, affiliation, role) ==
    [jid |-> jid, nick |-> nick, affiliation |-> affiliation, role |-> role, actor |-> "",
     reason |-> ""]
NoItem == MUCRoomItem("", "", "invalid", "invalid")
OrUnknown(s, names) == IF s \in names THEN s ELSE "unknown"

ItemAccepts(e) == e.n = "item"
ItemFresh == [depth |-> 0, atReason |-> FALSE, item |-> <<>>]
ItemStep(m, e) ==
    CASE e.t = "start" /\ m.depth = 0 ->
            [m EXCEPT !.depth = 1,
                      !.item = <<MUCRoomItem(Attr(e, "jid"), Attr(e, "nick"),
                                             OrUnknown(Attr(e, "affiliation"), Affiliations),
                                             OrUnknown(Attr(e, "role"), Roles))>>]
      [] e.t = "start" /\ m.depth # 0 ->
            [m EXCEPT !.depth = @ + 1,
                      !.item[1].actor = IF m.depth = 1 /\ e.n = "actor" THEN Attr(e, "jid") ELSE @,
                      !.atReason = @ \/ (m.depth = 1 /\ e.n = "reason")]
      [] e.t = "end"  -> [m EXCEPT !.depth = @ - 1, !.atReason = @ /\ m.depth # 2]
      [] e.t = "text" -> IF m.atReason THEN [m EXCEPT !.item[1].reason = e.n] ELSE m
ItemResult(m) == m.item[1]
ItemTaken(m)  == [m EXCEPT !.item = <<>>]
ItemWrite(i) ==
    LET Say(k, v, nothing) ==
            IF v = nothing THEN NoAttrs ELSE k :> IF v = "unknown" THEN "" ELSE v
    IN  Element("item", "",
                AttrIfAny("jid", i.jid) @@ AttrIfAny("nick", i.nick)
                  @@ Say("affiliation", i.affiliation, "invalid") @@ Say("role", i.role, "invalid"),
                When(i.actor # "", Element("actor", "", "jid" :> i.actor, <<>>))
                \o TextElementIfAny("reason", i.reason))
ItemKept(i) ==
    [i EXCEPT !.affiliation = OrUnknown(@, Affiliations), !.role = OrUnknown(@, Roles)]

\* What a room says with a presence or a message: an item, status codes, an
\* invitation or its refusal, the password.
StatusFlag(code) ==
    CASE code \in {"100", "172"} -> {"NonAnonymous"}
      [] code = "101" -> {"AffiliationChangeWNR"}
      [] code = "110" -> {"Self"}
      [] code = "170" -> {"LoggingEnabled"}
      [] code = "171" -> {"LoggingDisabled"}
      [] code = "173" -> {"SemiAnonymous"}
      [] code = "174" -> {"FullyAnonymous"}
      [] code = "201" -> {"NewRoom"}
      [] code = "210" -> {"NickAssigned"}
      [] code = "301" -> {"Banned"}
      [] code = "303" -> {"NickChanged"}
      [] code = "307" -> {"Kicked"}
      [] code = "321" -> {"AffiliationChanged"}
      [] code = "322" -> {"MembershipRequired"}
      [] code = "332" -> {"RoomSegfaulted"}
      [] OTHER -> {}

MUCRoomUserQuery(op, jid, reason, thread) ==
    [kind |-> "mucuser", item |-> [NoItem EXCEPT !.jid = jid, !.reason = reason], flags |-> {},
     operation |-> op, password |-> "", thread |-> thread]
UserAccepts(e) == Named(e, "x", MUCUserNS)
UserFresh == [depth |-> 0, state |-> "nowhere", query |-> <<>>, item |-> ItemFresh]

UserForward(m, e) ==
    IF m.state = "item" THEN [m EXCEPT !.item = ItemStep(@, e)] ELSE m

UserStart(m, e) ==
    LET d  == m.depth + 1
        at == CASE d = 1 -> [m EXCEPT !.query = <<MUCRoomUserQuery("", "", "", "")>>]
                [] d = 2 /\ ItemAccepts(e) -> [m EXCEPT !.state = "item"]
                [] d = 2 /\ e.n = "status" ->
                     [m EXCEPT !.query[1].flags = @ \cup StatusFlag(Attr(e, "code"))]
                [] d = 2 /\ e.n \in {"invite", "decline"} ->
                     [m EXCEPT !.state = "operation", !.query[1].operation = e.n,
                               !.query[1].item.jid = Attr(e, "from")]
                [] d = 2 /\ e.n = "password" -> [m EXCEPT !.state = "password"]
                [] d = 3 /\ m.state = "operation" /\ e.n = "reason" -> [m EXCEPT !.state = "reason"]
                [] d = 3 /\ m.state = "operation" /\ e.n = "continue" ->
                     [m EXCEPT !.query[1].thread = Attr(e, "thread")]
                [] OTHER -> m
    IN  [at EXCEPT !.depth = d]

UserEnd(m) ==
    LET done == CASE m.depth = 2 /\ m.state = "item" ->
                       [m EXCEPT !.query[1].item = ItemResult(m.item), !.item = ItemTaken(@),
                                 !.state = "nowhere"]
                  [] m.depth = 2 /\ m.state # "item" -> [m EXCEPT !.state = "nowhere"]
                  [] m.depth = 3 /\ m.state = "reason" -> [m EXCEPT !.state = "operation"]
                  [] OTHER -> m
    IN  [done EXCEPT !.depth = @ - 1]

UserText(m, e) ==
    CASE m.state = "reason"   -> [m EXCEPT !.query[1].item.reason = e.n]
      [] m.state = "password" -> [m EXCEPT !.query[1].password = e.n]
      [] OTHER                -> UserForward(m, e)

UserStep(m, e) ==
    CASE e.t = "start" -> UserForward(UserStart(m, e), e)
      [] e.t = "end"   -> UserEnd(UserForward(m, e))
      [] e.t = "text"  -> UserText(m, e)

\* serialize writes an invitation or a refusal, addressed with "to"; the
\* room turns it into the "from" that is read.
UserWrite(p) ==
    Element("x", MUCUserNS, NoAttrs,
            When(p.operation # "",
                 Element(p.operation, "", "to" :> p.item.jid,
                         TextElement("reason", p.item.reason)
                         \o When(p.thread # "",
                                 Element("continue", "", "thread" :> p.thread, <<>>)))))
UserKept(p) ==
    IF p.operation = "" THEN MUCRoomUserQuery("", "", "", "")
    ELSE MUCRoomUserQuery(p.operation, "", p.item.reason, p.thread)

\* The lists of a room.
MUCRoomAdminQuery(items) == [kind |-> "mucadmin", items |-> items]
AdminAccepts(e) == Named(e, "query", MUCAdminNS)
AdminFresh == [depth |-> 0, atItem |-> FALSE, query |-> <<>>, item |-> ItemFresh]
AdminForward(m, e) == IF m.atItem THEN [m EXCEPT !.item = ItemStep(@, e)] ELSE m
AdminStart(m, e) ==
    [m EXCEPT !.depth = @ + 1,
              !.query = IF m.depth = 0 THEN <<MUCRoomAdminQuery(<<>>)>> ELSE @,
              !.atItem = @ \/ (m.depth = 1 /\ ItemAccepts(e))]
AdminEnd(m) ==
    IF m.depth = 2 /\ m.atItem
    THEN [m EXCEPT !.depth = 1, !.query[1].items = Append(@, ItemResult(m.item)),
                   !.item = ItemTaken(@), !.atItem = FALSE]
    ELSE [m EXCEPT !.depth = @ - 1]
AdminStep(m, e) ==
    CASE e.t = "start" -> AdminForward(AdminStart(m, e), e)
      [] e.t = "end"   -> AdminEnd(AdminForward(m, e))
      [] e.t = "text"  -> AdminForward(m, e)
AdminWrite(p) ==
    Element("query", MUCAdminNS, NoAttrs,
            FlattenSeq([i \in DOMAIN p.items |-> ItemWrite(p.items[i])]))
AdminKept(p) == [p EXCEPT !.items = [i \in DOMAIN @ |-> ItemKept(@[i])]]

\* The form of a room.
MUCRoomOwnerQuery(form) == [kind |-> "mucowner", form |-> form]
OwnerAccepts(e) == Named(e, "query", MUCOwnerNS)
OwnerFresh(state, garbage) ==
    [depth |-> 0, atForm |-> FALSE, query |-> <<>>, form |-> FormFresh(state, garbage)]
OwnerForward(m, e) == IF m.atForm THEN [m EXCEPT !.form = FormStep(@, e)] ELSE m
OwnerStart(m, e) ==
    [m EXCEPT !.depth = @ + 1,
              !.query = IF m.depth = 0 THEN <<MUCRoomOwnerQuery(<<>>)>> ELSE @,
              !.atForm = @ \/ (m.depth = 1 /\ FormAccepts(e))]
OwnerEnd(m) ==
    IF m.depth = 2 /\ m.atForm
    THEN [m EXCEPT !.depth = 1, !.query[1].form = <<FormOf(m.form)>>,
                   !.form = FormCleared(@), !.atForm = FALSE]
    ELSE [m EXCEPT !.depth = @ - 1]
OwnerStep(m, e) ==
    CASE e.t = "start" -> OwnerForward(OwnerStart(m, e), e)
      [] e.t = "end"   -> OwnerEnd(OwnerForward(m, e))
      [] e.t = "text"  -> OwnerForward(m, e)
OwnerWrite(p) ==
    Element("query", MUCOwnerNS, NoAttrs, When(p.form # <<>>, FormWrite(p.form[1])))
OwnerKept(p) ==
    MUCRoomOwnerQuery(IF p.form = <<>> THEN <<>> ELSE <<FormKept(p.form[1])>>)

=============================================================================
