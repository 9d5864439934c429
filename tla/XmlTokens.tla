----------------------------- MODULE XmlTokens -----------------------------
(***************************************************************************)
(* What QXmlStreamReader hands to the payload factories and what           *)
(* QXmlStreamWriter takes from them: an XML element as the sequence of its *)
(* start tags, texts and end tags.  A name, a namespace and a text are     *)
(* strings that are only compared; an element is never put together        *)
(* character by character.                                                 *)
(***************************************************************************)
EXTENDS Integers, Sequences, TLC

\* A token: a start tag with its name, namespace and attributes, an end
\* tag, or character data (in the field n).
StartTag(n, u, a) == [t |-> "start", n |-> n, u |-> u, a |-> a]
EndTag(n, u)      == [t |-> "end", n |-> n, u |-> u, a |-> <<>>]
Chars(s)          == IF s = "" THEN <<>>
                     ELSE <<[t |-> "text", n |-> s, u |-> "", a |-> <<>>]>>

\* The writer's default namespace: a child tag written without one of its
\* own is read back in its parent's.
Inherit(u, body) ==
    [i \in DOMAIN body |->
        IF body[i].t # "text" /\ body[i].u = "" THEN [body[i] EXCEPT !.u = u]
        ELSE body[i]]

\* An element with attributes a around the tokens of body.
Element(n, u, a, body) ==
    <<StartTag(n, u, a)>> \o Inherit(u, body) \o <<EndTag(n, u)>>

NoAttrs == <<>>

\* QXmlStreamWriter::writeTextElement, and Util::writeTextElement, which
\* leaves an empty text out.
TextElement(n, s) == Element(n, "", NoAttrs, Chars(s))
TextElementIfAny(n, s) == IF s = "" THEN <<>> ELSE TextElement(n, s)
When(c, tokens) == IF c THEN tokens ELSE <<>>

\* Util::writeAttribute: an empty attribute is not written.
AttrIfAny(k, v) == IF v = "" THEN NoAttrs ELSE k :> v

\* QXmlStreamAttributes::value: the empty string when it is absent.
Attr(e, k) == IF k \in DOMAIN e.a THEN e.a[k] ELSE ""

\* canParse of most factories: the element's name and namespace.
Named(e, n, u) == e.n = n /\ e.u = u

\* strToEnum and enumToStr over a table of names: what is not in the table
\* is the enumeration's -1.
StrToEnum(s, names) == IF s \in names THEN s ELSE "invalid"

\* The integers a text can stand for here, and QString::toInt with its ok.
SmallInts == -1 .. 15
IsInt(s) == \E i \in SmallInts : ToString(i) = s
ToInt(s) == IF IsInt(s) THEN CHOOSE i \in SmallInts : ToString(i) = s ELSE 0

\* The moments a stamp can stand for, written as themselves.  Util::fromStamp
\* gives the invalid date ("") for a text in none of its formats.
Moments == {"d1", "d2"}
FromStamp(s) == IF s \in Moments THEN s ELSE ""

=============================================================================
