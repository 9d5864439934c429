-------------------------- MODULE StoragePayloads --------------------------
(***************************************************************************)
(* Private XML storage (XEP-0049) and what the library keeps in it:        *)
(* bookmarks and meta-contacts.  The naming is that of SmallPayloads.      *)
(***************************************************************************)
EXTENDS XmlTokens, SequencesExt

---------------------------------------------------------------------------
\* Bookmarks (XEP-0048): the conferences.  setJid keeps the bare JID.

BookmarksNS == "storage:bookmarks"
BareOf == [j \in {"", "room", "room2", "room/nick"} |-> IF j = "room/nick" THEN "room" ELSE j]

Conference(jid, name, autojoin) ==
    [jid |-> BareOf[jid], name |-> name, autojoin |-> autojoin, nick |-> "", password |-> ""]
Bookmark(conferences) == [kind |-> "bookmarks", conferences |-> conferences]

BookmarkAccepts(e) == Named(e, "storage", BookmarksNS)

\* A conference is a handle on shared data: "data" are the conferences
\* made, the last of them m_conference, and "added" the places in it of
\* those in the bookmark.  "signed" tells how the compiler compares the
\* state -1 with another.
BookmarkFresh(signed) ==
    [depth |-> 0, state |-> "nowhere", data |-> << Conference("", "", FALSE) >>, added |-> <<>>,
     signed |-> signed]

BookmarkStart(m, e) ==
    LET in == [m EXCEPT !.depth = @ + 1]
    IN  CASE m.depth = 0 ->
               [in EXCEPT !.state = "nowhere", !.added = <<>>, !.data = <<Last(@)>>]
          [] m.depth = 1 /\ e.n = "conference" ->
               [in EXCEPT !.state = "conference",
                          !.data = Append(@, Conference(Attr(e, "jid"), Attr(e, "name"),
                                                        Attr(e, "autojoin") = "true"))]
          [] m.depth = 2 /\ m.state = "conference" ->
               [in EXCEPT !.state = StrToEnum(e.n, {"nick", "password"})]
          [] OTHER -> in

\* The state is below AtNowhere: a text, or no state at all where the
\* comparison is signed.
BelowNowhere(m) == m.state \in {"nick", "password"} \/ (m.state = "invalid" /\ m.signed)

\* An element beside the conferences ends as one more of the last.
BookmarkEnd(m) ==
    LET done == CASE BelowNowhere(m) /\ m.depth = 3 -> [m EXCEPT !.state = "conference"]
                  [] m.state = "conference" /\ m.depth = 2 ->
                       [m EXCEPT !.added = Append(@, Len(m.data))]
                  [] OTHER -> m
    IN  [done EXCEPT !.depth = @ - 1]

BookmarkText(m, e) ==
    CASE m.state = "nick"     -> [m EXCEPT !.data[Len(m.data)].nick = e.n]
      [] m.state = "password" -> [m EXCEPT !.data[Len(m.data)].password = e.n]
      [] OTHER                -> m

BookmarkStep(m, e) ==
    CASE e.t = "start" -> BookmarkStart(m, e)
      [] e.t = "end"   -> BookmarkEnd(m)
      [] e.t = "text"  -> BookmarkText(m, e)

BookmarkOf(m) == Bookmark([i \in DOMAIN m.added |-> m.data[m.added[i]]])

ConferenceWrite(c) ==
    Element("conference", "",
            AttrIfAny("jid", c.jid) @@ AttrIfAny("name", c.name)
              @@ "autojoin" :> IF c.autojoin THEN "true" ELSE "false",
            TextElementIfAny("nick", c.nick) \o TextElementIfAny("password", c.password))
BookmarkWrite(p) ==
    Element("storage", BookmarksNS, NoAttrs,
            FlattenSeq([i \in DOMAIN p.conferences |-> ConferenceWrite(p.conferences[i])]))

---------------------------------------------------------------------------
\* Meta-contacts (XEP-0209); the order -1 is none.

MetaContactsNS == "storage:metacontacts"
MetaItem(jid, tag, order) == [jid |-> jid, tag |-> tag, order |-> order]
MetaContacts(items) == [kind |-> "metacontacts", items |-> items]

MetaAccepts(e) == Named(e, "storage", MetaContactsNS)
MetaFresh == [depth |-> 0, items |-> <<>>]
MetaOrder(s) == IF IsInt(s) /\ ToInt(s) >= 0 THEN ToInt(s) ELSE -1
MetaStep(m, e) ==
    CASE e.t = "start" ->
            [m EXCEPT !.depth = @ + 1,
                      !.items = CASE m.depth = 0 -> <<>>
                                  [] m.depth = 1 /\ e.n = "meta" ->
                                       Append(@, MetaItem(Attr(e, "jid"), Attr(e, "tag"),
                                                          MetaOrder(Attr(e, "order"))))
                                  [] OTHER -> @]
      [] e.t = "end"  -> [m EXCEPT !.depth = @ - 1]
      [] e.t = "text" -> m
MetaOf(m) == MetaContacts(m.items)
MetaWrite(p) ==
    Element("storage", MetaContactsNS, NoAttrs,
            FlattenSeq([i \in DOMAIN p.items |->
                Element("meta", "",
                        "jid" :> p.items[i].jid @@ "tag" :> p.items[i].tag
                          @@ AttrIfAny("order", IF p.items[i].order = -1 THEN ""
                                                ELSE ToString(p.items[i].order)),
                        <<>>)]))

---------------------------------------------------------------------------
\* Private XML: a request for an element by its name, or the element.  The
\* factory of the element is the client's own for its namespace.

PrivateNS == "jabber:iq:private"
PrivateGet(name, ns)   == [kind |-> "private", type |-> "get", name |-> name, ns |-> ns, xml |-> <<>>]
PrivateResult(xml)     == [kind |-> "private", type |-> "result", name |-> "", ns |-> "", xml |-> xml]

StoredKinds == {"bookmarks", "metacontacts"}
StoredStep(k, m, e) ==
    CASE k = "bookmarks"    -> BookmarkStep(m, e)
      [] k = "metacontacts" -> MetaStep(m, e)
StoredOf(k, m) ==
    CASE k = "bookmarks"    -> BookmarkOf(m)
      [] k = "metacontacts" -> MetaOf(m)
StoredWrite(p) ==
    CASE p.kind = "bookmarks"    -> BookmarkWrite(p)
      [] p.kind = "metacontacts" -> MetaWrite(p)
StoredFactory(e) ==
    CASE BookmarkAccepts(e) -> "bookmarks"
      [] MetaAccepts(e)     -> "metacontacts"
      [] OTHER              -> "none"

PrivateAccepts(e) == Named(e, "query", PrivateNS)
PrivateFresh(signed) ==
    [depth |-> 0, factory |-> "none", node |-> <<>>,
     inner |-> [bookmarks |-> BookmarkFresh(signed), metacontacts |-> MetaFresh]]

PrivateForward(m, e) ==
    IF m.factory = "none" THEN m
    ELSE [m EXCEPT !.inner[m.factory] = StoredStep(m.factory, @, e)]

PrivateStart(m, e) ==
    [m EXCEPT !.depth = @ + 1,
              !.node = IF m.depth = 0 THEN <<>> ELSE @,
              !.factory = IF m.depth = 1 THEN StoredFactory(e) ELSE @]
PrivateEnd(m) ==
    LET done == IF m.factory # "none" /\ m.depth = 2
                THEN [m EXCEPT !.node = <<StoredOf(m.factory, m.inner[m.factory])>>,
                               !.factory = "none"]
                ELSE m
    IN  [done EXCEPT !.depth = @ - 1]
PrivateStep(m, e) ==
    CASE e.t = "start" -> PrivateForward(PrivateStart(m, e), e)
      [] e.t = "end"   -> PrivateEnd(PrivateForward(m, e))
      [] e.t = "text"  -> PrivateForward(m, e)

\* createPayload swaps the node out.
PrivateOf(m)    == PrivateResult(m.node)
PrivateTaken(m) == [m EXCEPT !.node = <<>>]

PrivateWrite(p) ==
    Element("query", PrivateNS, NoAttrs,
            IF p.type = "get" THEN Element(p.name, p.ns, NoAttrs, <<>>)
            ELSE When(p.xml # <<>>, StoredWrite(p.xml[1])))

\* What is asked for is read as an element that came empty.
StoredEmpty(ns) ==
    CASE ns = BookmarksNS    -> Bookmark(<<>>)
      [] ns = MetaContactsNS -> MetaContacts(<<>>)
PrivateKept(p) == IF p.type = "get" THEN PrivateResult(<<StoredEmpty(p.ns)>>) ELSE p

=============================================================================
