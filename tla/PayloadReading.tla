--------------------------- MODULE PayloadReading ---------------------------
(***************************************************************************)
(* One factory of the library reads document after document, a token at a  *)
(* time, as Parser::parseData hands them out.  Factories are never reset   *)
(* between two documents, not even when the stream is: what they read must *)
(* depend on the document alone.  Beside the factory a new one (shadow)    *)
(* reads the same tokens.                                                  *)
(*                                                                         *)
(* A document is what this library writes for a payload, the same with an  *)
(* element of an unknown namespace in it, or one that only a peer writes.  *)
(* What the library writes is written by this factory or by a new one: a   *)
(* factory writes and reads with the same members.                         *)
(***************************************************************************)
EXTENDS Stanzas

CONSTANTS
    Subjects,     \* the kinds of factory under study: payloads and stanzas
    Samples,      \* the payloads that get written
    PeerDocuments, \* sequences of tokens
    MaxItems      \* how many items a factory may hold and still read another query

ASSUME MaxItemsAssumption == MaxItems \in Nat

VARIABLES
    kind,    \* the factory's
    mem,     \* its members
    shadow,  \* the members of a factory that has read nothing before
    doc,     \* the document being read, or the last one
    rest,    \* what is left of it
    result,  \* what createPayload or createStanza gave at its end
    expected \* what the shadow gave

vars == <<kind, mem, shadow, doc, rest, result, expected>>

---------------------------------------------------------------------------
\* Payload and stanza factories alike.

IsStanza(k) == k \in StanzaKinds
NewMembers(k) ==
    IF ~ IsStanza(k) THEN Fresh(k)
    ELSE {ClientFresh([x \in Registered |-> CHOOSE m \in Fresh(x) : TRUE])}
Takes(k, e)  == IF IsStanza(k) THEN StanzaAccepts(k, e) ELSE Accepts(k, e)
Begun(k, m)  == IF IsStanza(k) THEN m ELSE Asked(k, m)
Read(k, m, e) == IF IsStanza(k) THEN ClientStep(k, m, e) ELSE Step(k, m, e)
Out(k, m)    == IF IsStanza(k) THEN StanzaOf(m) ELSE Made(k, m)
Left(k, m)   == IF IsStanza(k) THEN StanzaTaken(m) ELSE Taken(k, m)
Serialized(m, p) == IF IsStanza(p.kind) THEN ClientWrite(m, p) ELSE Written(m, p)
Survives(m, p)   == IF IsStanza(p.kind) THEN ClientKept(m, p) ELSE Kept(m, p)
\* The depth of the factories that count it.
DepthOf(k, m) ==
    CASE IsStanza(k) -> m.f.depth
      [] k \in {"attention", "ping", "chatstate", "receipt", "nick", "delay", "caps", "muc",
                "session"} -> 0
      [] OTHER -> m.depth
Content(p)   == IF IsStanza(p.kind) THEN Bare(p) ELSE p

\* What the compiler makes of a comparison, and what lies beyond a table,
\* are the same for all factories of a build.
SameBuild(k, m, n) ==
    CASE k = "bookmarks" -> m.signed = n.signed
      [] k = "private"   -> m.inner["bookmarks"].signed = n.inner["bookmarks"].signed
      [] k = "register"  -> m.beyond = n.beyond
      [] OTHER           -> TRUE

\* A form's factory is settled once it has a state and the parser of its
\* fields a required flag, if that parser has not counted the form itself as
\* a field: it is off by one for ever then.  The factory of disco's items is
\* settled only if it came into being with the right depth.
FormSettled(m) == m.state = "nowhere" /\ ~ m.field.required /\ m.field.depth = 0
Settled(k, m) ==
    CASE k = "form"     -> FormSettled(m)
      [] k \in {"captcha", "info"} -> FormSettled(m.factory)
      [] k \in {"mucowner", "register"} -> FormSettled(m.form)
      [] k = "items"    -> m.depth = 0
      [] OTHER          -> TRUE

\* A registration is read as it should when what lies beyond the names of
\* the empty elements is none of the other names.
Sound(k, m) == Settled(k, m) /\ (k = "register" => m.beyond = "")

---------------------------------------------------------------------------
\* The documents.

DepthAfter(tokens, i) ==
    Cardinality({j \in 1..i : tokens[j].t = "start"}) - Cardinality({j \in 1..i : tokens[j].t = "end"})

\* An element nobody knows, and one among the children of a document.
Unknown == Element("unknown", "urn:example:unknown", NoAttrs, Chars("x"))
WithUnknown(tokens) ==
    {SubSeq(tokens, 1, i) \o Unknown \o SubSeq(tokens, i + 1, Len(tokens)) :
        i \in {j \in DOMAIN tokens : DepthAfter(tokens, j) = 1}}

\* Where a document comes from, the payload it was written for and what
\* survives of it.  "settled" and "depth" are the reader's when it begins: is
\* it not at the mercy of members that nothing has set, and how deep is it.
Document(from, payload, kept, tokens) ==
    [from |-> from, payload |-> payload, kept |-> kept, tokens |-> tokens,
     settled |-> TRUE, depth |-> 0]
NoDocument == Document("none", <<>>, <<>>, <<>>)

\* What the factory with members m writes, as it is and with something
\* unknown in it.
SamplesOf(k) == {p \in Samples : p.kind = k}
WrittenBy(m, k) ==
    UNION {{Document("written", <<p>>, <<Survives(m, p)>>, Serialized(m, p))}
           \cup {Document("extended", <<p>>, <<Survives(m, p)>>, t) :
                    t \in WithUnknown(Serialized(m, p))} :
               p \in {x \in SamplesOf(k) : Serialized(m, x) # <<>>}}
Documents(k, m) ==
    UNION {WrittenBy(w, k) : w \in {m} \cup NewMembers(k)}
    \cup {Document("peer", <<>>, <<>>, t) : t \in {x \in PeerDocuments : Takes(k, Head(x))}}

---------------------------------------------------------------------------

Init ==
    /\ kind \in Subjects
    /\ mem \in NewMembers(kind)
    /\ shadow = mem
    /\ doc = NoDocument
    /\ rest = <<>>
    /\ result = <<>>
    /\ expected = <<>>

Quiet == rest = <<>>

\* The factories of a build, and of these the settled ones.
SameFactories == {x \in NewMembers(kind) : SameBuild(kind, x, mem)}
NewFactories  == {x \in SameFactories : Settled(kind, x)}

\* A start tag that the factory takes.
Begin(d) ==
    /\ Quiet
    /\ Takes(kind, Head(d.tokens))
    /\ kind = "items" => Len(mem.items) <= MaxItems
    /\ mem' = Begun(kind, mem)
    /\ shadow' \in {Begun(kind, m) : m \in NewFactories}
    /\ doc' = [d EXCEPT !.settled = Sound(kind, mem), !.depth = DepthOf(kind, mem)]
    /\ rest' = d.tokens
    /\ result' = <<>>
    /\ expected' = <<>>
    /\ UNCHANGED kind

\* With the end tag of the document the factory is asked for what it has read.
LastToken(read) ==
    /\ result' = <<Out(kind, read[mem])>>
    /\ expected' = <<Out(kind, read[shadow])>>
    /\ mem' = Left(kind, read[mem])
    /\ shadow' = Left(kind, read[shadow])

\* The next token; read: what the members become with it.
Token ==
    /\ rest # <<>>
    /\ rest' = Tail(rest)
    /\ \E read \in {[m \in {mem, shadow} |-> Read(kind, m, Head(rest))]} :
        \/ /\ rest' # <<>>
           /\ mem' = read[mem]
           /\ shadow' = read[shadow]
           /\ UNCHANGED <<result, expected>>
        \/ /\ rest' = <<>>
           /\ LastToken(read)
    /\ UNCHANGED <<kind, doc>>

\* The client is made anew, and its factories with it.
Renew ==
    /\ Quiet
    /\ doc # NoDocument
    /\ mem' \in SameFactories
    /\ shadow' = mem'
    /\ doc' = NoDocument
    /\ result' = <<>>
    /\ expected' = <<>>
    /\ UNCHANGED <<kind, rest>>

Next ==
    \/ Quiet /\ \E d \in Documents(kind, mem) : Begin(d)
    \/ Token
    \/ Renew

Spec == Init /\ [][Next]_vars

---------------------------------------------------------------------------
\* Properties.

Finished == Quiet /\ doc # NoDocument

\* The factories whose constructor leaves their depth alone.
Floating == {"items"}

\* A factory leaves a document as deep as it came to it.  The others, whose
\* constructor sets the depth, are between two documents at that of the
\* document's parent, so that the next start tag is taken for the root.
Grounded ==
    /\ kind \in Subjects
    /\ Finished =>
        /\ result[1].kind = kind
        /\ DepthOf(kind, mem) = doc.depth
    /\ Quiet /\ kind \notin Floating => DepthOf(kind, mem) = 0

\* The factories that take every element inside theirs for one of their own.
TakesAnything ==
    {"chatstate", "receipt", "delay", "caps", "mood", "activity", "nick", "bookmarks", "items",
     "roster"}

\* The factories that keep what a document does not say from the last one.
Remembers == {"nick", "error", "roster"}

\* Whatever a payload is made of, the other side reads what survives of it,
\* whatever the writer has read before: serialize and the handlers of a
\* factory agree.
RoundTrip ==
    Finished /\ doc.from = "written" /\ doc.settled /\ doc.payload[1] # Nickname("") =>
        Content(result[1]) = doc.kept[1]

\* What is read does not depend on what was read before.
HistoryFree == Finished /\ doc.settled /\ kind \notin Remembers => result = expected

\* An element that the factory does not know changes nothing.
UnknownIgnored ==
    Finished /\ doc.from = "extended" /\ doc.settled /\ kind \notin TakesAnything =>
        Content(result[1]) = doc.kept[1]

\* A card with an entry that has no text: whether it is written depends on
\* the last entry that was read.
HasWordless(p) ==
    /\ p.kind = "vcard"
    /\ \E list \in {"telephones", "emails", "addresses"} :
        \E i \in DOMAIN p[list] : ~ HasText(p[list][i])

\* What is written does not depend on what was read before.
WritesAlike ==
    Quiet =>
        \A p \in {x \in SamplesOf(kind) : ~ HasWordless(x)}, n \in NewFactories :
            Serialized(mem, p) = Serialized(n, p)

\* Neither what was read before nor what is not for the factory changes what
\* is read, and what was read before does not change what is written.
Undisturbed == HistoryFree /\ UnknownIgnored /\ WritesAlike

\* Whoever asks for the information behind the capabilities gets what their
\* hash was made of, if no value of its form is empty: those are not written.
EmptyValues(form) == \E i \in DOMAIN form.fields : "" \in ToSet(form.fields[i].values)
Verified ==
    Finished /\ kind = "info" /\ doc.from = "written" /\ doc.settled =>
        LET p == doc.payload[1]
        IN  p.form = <<>> \/ ~ EmptyValues(p.form[1]) => Announced(result[1]) = Announced(p)

\* A stanza that was read is written again as it came.
Relayed ==
    Finished /\ IsStanza(kind) /\ doc.from # "peer" => ClientWrite(mem, result[1]) = doc.tokens

\* A presence that grants a subscription is read as one: Subscribed, of
\* which Presence::Type says that the sender has allowed the recipient to
\* receive their presence.
GrantIsRead ==
    Finished /\ kind = "presence" /\ Attr(Head(doc.tokens), "type") = "subscribed" =>
        result[1].type = "subscribed"

=============================================================================
