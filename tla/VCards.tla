------------------------------- MODULE VCards -------------------------------
(***************************************************************************)
(* vCards (XEP-0054): the card, the operations an application fills it in  *)
(* with, the parser that all its structured fields share, and the factory. *)
(***************************************************************************)
EXTENDS XmlTokens, SequencesExt

VCardNS == "vcard-temp"

---------------------------------------------------------------------------
\* AbstractStructureParser: an element whose children are texts to keep
\* and flags to set.  A structure says which: its element's name, the names
\* of its texts and those of its flags, in the order they are written.

Structure(name, texts, flags) == [name |-> name, texts |-> texts, flags |-> flags]

NameParser == Structure("N", <<"FAMILY", "GIVEN", "MIDDLE", "PREFIX", "SUFFIX">>, <<>>)
\* The loop that adds the texts starts at the second: what is called EXTVAL
\* is the type, and there is no TYPE.
PhotoParser == Structure("PHOTO", <<"EXTVAL", "BINVAL">>, <<>>)
TelParser ==
    Structure("TEL", <<"NUMBER">>,
              <<"HOME", "WORK", "VOICE", "FAX", "PAGER", "MSG", "CELL", "VIDEO", "BBS",
                "MODEM", "ISDN", "PCS", "PREF">>)
EMailParser == Structure("EMAIL", <<"USERID">>, <<"HOME", "WORK", "INTERNET", "PREF", "X400">>)
AddressParser ==
    Structure("ADR", <<"POBOX", "EXTADD", "STREET", "LOCALITY", "REGION", "PCODE", "CTRY">>,
              <<"HOME", "WORK", "POSTAL", "PARCEL", "DOM", "INTL", "PREF">>)
OrgParser == Structure("ORG", <<"ORGNAME">>, <<>>)

\* The parts of a card, in the order their parsers are asked.
Parts == <<"name", "photo", "telephones", "emails", "addresses", "org">>
ParserOf == [name |-> NameParser, photo |-> PhotoParser, telephones |-> TelParser,
             emails |-> EMailParser, addresses |-> AddressParser, org |-> OrgParser]

\* A structure's data: its texts, its flags and, for an organisation, its
\* units.
Nothing(s) ==
    [texts |-> [t \in ToSet(s.texts) |-> ""], flags |-> {}, units |-> <<>>]
HasText(d) == d.units # <<>> \/ \E t \in DOMAIN d.texts : d.texts[t] # ""

StructureFresh(s) == [depth |-> 0, current |-> "", atUnit |-> FALSE, data |-> Nothing(s)]

\* A text is kept once: what current names is forgotten after it.
StructureStart(s, m, e) ==
    LET d == m.depth + 1
        isText == d = 2 /\ Contains(s.texts, e.n)
    IN  [m EXCEPT !.depth = d,
                  !.current = IF isText THEN e.n ELSE "",
                  !.atUnit = @ \/ (s = OrgParser /\ d = 2 /\ e.n = "ORGUNIT"),
                  !.data = IF d = 1 THEN Nothing(s)
                           ELSE IF d = 2 /\ ~ isText /\ Contains(s.flags, e.n)
                           THEN [@ EXCEPT !.flags = @ \cup {e.n}]
                           ELSE @]
StructureEnd(m, e) ==
    [m EXCEPT !.depth = @ - 1, !.current = "",
              !.atUnit = @ /\ ~ (m.depth = 2 /\ e.n = "ORGUNIT")]
StructureText(m, e) ==
    CASE m.atUnit -> [m EXCEPT !.data.units = Append(@, e.n)]
      [] ~ m.atUnit /\ m.current # "" ->
            [m EXCEPT !.data.texts[m.current] = e.n, !.current = ""]
      [] OTHER -> m
StructureStep(s, m, e) ==
    CASE e.t = "start" -> StructureStart(s, m, e)
      [] e.t = "end"   -> StructureEnd(m, e)
      [] e.t = "text"  -> StructureText(m, e)

\* A structure is written when it has a text, or when the writing parser's
\* own data has a flag: that of the structure it read last, whatever the
\* flags of the one to write.
IsWritten(s, m, d) == HasText(d) \/ (s.flags # <<>> /\ m.data.flags # {})
StructureWrite(s, m, d) ==
    When(IsWritten(s, m, d),
         Element(s.name, "", NoAttrs,
                 FlattenSeq([i \in DOMAIN s.texts |-> TextElementIfAny(s.texts[i], d.texts[s.texts[i]])])
                 \o FlattenSeq([i \in DOMAIN s.flags |->
                        When(s.flags[i] \in d.flags, Element(s.flags[i], "", NoAttrs, <<>>))])
                 \o FlattenSeq([i \in DOMAIN d.units |-> TextElement("ORGUNIT", d.units[i])])))

---------------------------------------------------------------------------
\* The card.

TextFields == <<"FN", "BDAY", "NICKNAME", "URL", "JABBERID", "TITLE", "ROLE", "NOTE", "DESC",
                "MAILER", "TZ", "PRODID", "REV", "SORT-STRING", "UID">>

\* The photo's address is kept apart: it is never written.
VCard ==
    [kind |-> "vcard", text |-> [t \in ToSet(TextFields) |-> ""],
     name |-> Nothing(NameParser), photo |-> Nothing(PhotoParser), external |-> "",
     telephones |-> <<>>, emails |-> <<>>, addresses |-> <<>>, org |-> Nothing(OrgParser)]

\* What the parts are filled in with: a photo, whose address and data exclude
\* each other, a name, an organisation, and entries of the three lists.
External(url)     == [external |-> url, data |-> Nothing(PhotoParser)]
Data(data, type)  ==
    [external |-> "", data |-> [Nothing(PhotoParser) EXCEPT !.texts = "BINVAL" :> data @@ "EXTVAL" :> type]]
Name(family, given, middle, prefix, suffix) ==
    [Nothing(NameParser) EXCEPT !.texts =
        "FAMILY" :> family @@ "GIVEN" :> given @@ "MIDDLE" :> middle @@ "PREFIX" :> prefix
          @@ "SUFFIX" :> suffix]
Organization(name, units) == [Nothing(OrgParser) EXCEPT !.texts["ORGNAME"] = name, !.units = units]
Telephone(number) == [Nothing(TelParser) EXCEPT !.texts["NUMBER"] = number]
EMail(userId)     == [Nothing(EMailParser) EXCEPT !.texts["USERID"] = userId]
Address           == Nothing(AddressParser)
SetAddressText(d, text, value) == [d EXCEPT !.texts[text] = value]

\* setType of a telephone, an e-mail or an address: a flag of its own each.
SetType(d, type, value) ==
    [d EXCEPT !.flags = IF value THEN @ \cup {type} ELSE @ \ {type}]

\* The card's own setters: of its texts, its moment, its single parts and its
\* lists.
SetText(c, field, value)   == [c EXCEPT !.text[field] = value]
SetBirthday(c, moment)     == SetText(c, "BDAY", moment)
SetName(c, name)           == [c EXCEPT !.name = name]
SetPhoto(c, photo)         == [c EXCEPT !.external = photo.external, !.photo = photo.data]
SetOrganization(c, org)    == [c EXCEPT !.org = org]
AddTo(c, list, entry)      == [c EXCEPT ![list] = Append(@, entry)]

---------------------------------------------------------------------------
\* The factory.  "current" is the text field being read, "tmp" what it
\* read for a field that is converted at the end of the element.

VCardAccepts(e) == Named(e, "vCard", VCardNS)
VCardFresh ==
    [depth |-> 0, parser |-> "none", current |-> "", tmp |-> "", vcard |-> <<>>,
     parsers |-> [p \in ToSet(Parts) |-> StructureFresh(ParserOf[p])]]

Converted == {"BDAY", "URL", "JABBERID"}

\* The part whose parser takes an element, by its name alone.
PartOf(e) ==
    IF \E p \in ToSet(Parts) : ParserOf[p].name = e.n
    THEN CHOOSE p \in ToSet(Parts) : ParserOf[p].name = e.n ELSE "none"

VCardForward(m, e) ==
    IF m.parser = "none" THEN m
    ELSE [m EXCEPT !.parsers[m.parser] = StructureStep(ParserOf[m.parser], @, e)]

VCardStart(m, e) ==
    LET d  == m.depth + 1
        at == CASE d = 1 -> [m EXCEPT !.vcard = <<VCard>>]
                [] d = 2 /\ PartOf(e) # "none" -> [m EXCEPT !.parser = PartOf(e)]
                [] d = 2 /\ PartOf(e) = "none" ->
                     IF Contains(TextFields, e.n) THEN [m EXCEPT !.current = e.n, !.tmp = ""]
                     ELSE [m EXCEPT !.current = ""]
                [] OTHER -> m
    IN  [at EXCEPT !.depth = d]

VCardText(m, e) ==
    CASE m.parser # "none" -> VCardForward(m, e)
      [] m.parser = "none" /\ m.depth = 2 /\ m.current \in Converted -> [m EXCEPT !.tmp = e.n]
      [] m.parser = "none" /\ m.depth = 2 /\ m.current \notin Converted \cup {""} ->
            [m EXCEPT !.vcard[1].text[m.current] = e.n]
      [] OTHER -> m

\* The end of a part: one of three lists is longer, or one of three
\* structures is replaced.
PartDone(m, part) ==
    LET data == m.parsers[part].data
    IN  IF part \in {"telephones", "emails", "addresses"}
        THEN [m EXCEPT !.vcard[1][part] = Append(@, data)]
        ELSE [m EXCEPT !.vcard[1][part] = data]

VCardEnd(m) ==
    LET done == CASE m.depth = 2 /\ m.parser # "none" ->
                       [PartDone(m, m.parser) EXCEPT !.parser = "none"]
                  [] m.depth = 2 /\ m.parser = "none" /\ m.current # "" ->
                       [m EXCEPT !.current = "",
                                 !.vcard[1].text[m.current] =
                                     IF m.current \notin Converted THEN @
                                     ELSE IF m.current = "BDAY" THEN FromStamp(m.tmp) ELSE m.tmp]
                  [] OTHER -> m
    IN  [done EXCEPT !.depth = @ - 1]

VCardStep(m, e) ==
    CASE e.t = "start" -> VCardForward(VCardStart(m, e), e)
      [] e.t = "end"   -> VCardEnd(VCardForward(m, e))
      [] e.t = "text"  -> VCardText(m, e)

VCardOf(m)    == m.vcard[1]
VCardTaken(m) == [m EXCEPT !.vcard = <<>>]

\* The parts are written by the parsers that read them.
PartWrite(m, part, d) == StructureWrite(ParserOf[part], m.parsers[part], d)
VCardWrite(m, c) ==
    LET All(list) == FlattenSeq([i \in DOMAIN c[list] |-> PartWrite(m, list, c[list][i])])
    IN  Element("vCard", VCardNS, NoAttrs,
                FlattenSeq([i \in DOMAIN TextFields |->
                    TextElementIfAny(TextFields[i], c.text[TextFields[i]])])
                \o PartWrite(m, "name", c.name) \o PartWrite(m, "photo", c.photo)
                \o All("telephones") \o All("emails") \o All("addresses")
                \o PartWrite(m, "org", c.org))

\* Lost are the photo's address and the entries that the factory with
\* these members does not write: those without a text, their flags as well,
\* unless the last entry of their kind that it read had a flag.
VCardKept(m, c) ==
    LET Entries(list) ==
            SelectSeq(c[list], LAMBDA d : IsWritten(ParserOf[list], m.parsers[list], d))
    IN  [c EXCEPT !.external = "", !.telephones = Entries("telephones"),
                  !.emails = Entries("emails"), !.addresses = Entries("addresses")]

=============================================================================
