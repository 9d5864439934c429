----------------------------- MODULE DataForms -----------------------------
(***************************************************************************)
(* Data forms (XEP-0004): DataForm and its fields, the operations an       *)
(* application fills a form in with, and the factory that reads and writes *)
(* forms with its three nested parsers (option, media, field).             *)
(***************************************************************************)
EXTENDS XmlTokens, SequencesExt

FormNS  == "jabber:x:data"
MediaNS == "urn:xmpp:media-element"

---------------------------------------------------------------------------
\* Fields.

\* The field types with a name of their own on the wire; "" is None, the
\* type of a field that comes without one.
FieldTypes == {"boolean", "fixed", "hidden", "jid-multi", "jid-single", "list-multi",
               "list-single", "text-multi", "text-private", "text-single", ""}

\* A field as the application makes it.
Field(type, var, values) ==
    [type |-> type, var |-> var, desc |-> "", label |-> "", values |-> values,
     required |-> FALSE, options |-> <<>>, media |-> <<>>]

\* DataFormField(): what a look-up gives when there is no such field.
NoField == Field("invalid", "", <<>>)

\* QStringList::value(0)
FirstOr(seq, default) == IF seq = <<>> THEN default ELSE Head(seq)

SetValue(f, v) == [f EXCEPT !.values = <<v>>]

\* DataFormFieldFixed and DataFormFieldHidden: a field of one value.
ValueField(type, var, value) == Field(type, var, <<value>>)

\* DataFormFieldBoolean
BooleanValue(f)  == FirstOr(f.values, "") \notin {"", "0", "false"}
SetBoolean(f, b) == SetValue(f, IF b THEN "1" ELSE "0")

\* DataFormFieldJidMulti::setValues drops what it has already taken.
SetJids(f, jids) ==
    [f EXCEPT !.values =
        FoldLeft(LAMBDA acc, j : IF Contains(acc, j) THEN acc ELSE Append(acc, j), <<>>, jids)]

\* DataFormOptionContainer: an option is its label and its value.
OptionValue(f, i)  == IF i \in DOMAIN f.options THEN f.options[i].value ELSE ""
AddOption(f, l, v) == [f EXCEPT !.options = Append(@, [label |-> l, value |-> v])]
RemoveOptionAt(f, i) == [f EXCEPT !.options = RemoveAt(@, i)]

\* DataFormFieldListMulti::isChecked
IsChecked(f, i) == Contains(f.values, OptionValue(f, i))

\* DataFormValueLessThen::index: the place of a value among the options.
OptionIndex(f, v) ==
    SelectInSeq(f.options, LAMBDA o : o.value = v) - 1

\* qLowerBound over the values by the place of their options: a binary
\* search, which finds the first value not before v when they are in order.
LowerBound(f, v) ==
    LET Search[lo \in 0..Len(f.values), n \in 0..Len(f.values)] ==
            IF n = 0 THEN lo
            ELSE LET half == n \div 2
                 IN  IF OptionIndex(f, f.values[lo + half + 1]) < OptionIndex(f, v)
                     THEN Search[lo + half + 1, n - half - 1]
                     ELSE Search[lo, half]
    IN  Search[0, Len(f.values)]

\* DataFormFieldListMulti::setChecked
SetChecked(f, i, checked) ==
    LET v == OptionValue(f, i)
    IN  IF ~ checked THEN [f EXCEPT !.values = Remove(@, v)]
        ELSE IF Contains(f.values, v) THEN f
        ELSE [f EXCEPT !.values = InsertAt(@, LowerBound(f, v) + 1, v)]

\* DataFormMedia: the addresses of one picture or sound.
Uri(url, type)    == [url |-> url, type |-> type]
Media             == [uris |-> <<>>]
AppendUri(m, uri) == [m EXCEPT !.uris = Append(@, uri)]

---------------------------------------------------------------------------
\* Forms.

FormTypes == {"form", "submit", "cancel", "result"}

DataForm(type, title, instructions, fields) ==
    [kind |-> "form", type |-> type, title |-> title, instructions |-> instructions,
     fields |-> fields]

\* DataFormFieldContainerPrivate::field: the first field of that name.
FieldIndex(form, var) == SelectInSeq(form.fields, LAMBDA f : f.var = var)
FieldNamed(form, var) ==
    IF FieldIndex(form, var) = 0 THEN NoField ELSE form.fields[FieldIndex(form, var)]

TypeName(form) == FirstOr(FieldNamed(form, "FORM_TYPE").values, "")

\* setTypeName: a field is a handle on shared data, so setting the value of
\* the field that was looked up sets it in the form.
SetTypeName(form, t) ==
    IF FieldNamed(form, "FORM_TYPE").type = "invalid"
    THEN [form EXCEPT !.fields = <<ValueField("hidden", "FORM_TYPE", t)>> \o @]
    ELSE [form EXCEPT !.fields[FieldIndex(form, "FORM_TYPE")] = SetValue(@, t)]

---------------------------------------------------------------------------
\* DataFormOptionParser

OptionFresh == [depth |-> 0, atValue |-> FALSE, label |-> "", value |-> ""]

OptionStep(m, e) ==
    CASE e.t = "start" /\ m.depth = 0 ->
            [m EXCEPT !.depth = 1, !.value = "", !.label = Attr(e, "label")]
      [] e.t = "start" /\ m.depth # 0 ->
            [m EXCEPT !.depth = @ + 1, !.atValue = @ \/ (m.depth = 1 /\ e.n = "value")]
      [] e.t = "end" ->
            [m EXCEPT !.depth = @ - 1, !.atValue = @ /\ m.depth # 2]
      [] e.t = "text" ->
            IF m.depth = 2 /\ m.atValue THEN [m EXCEPT !.value = e.n] ELSE m

OptionOf(m) == [label |-> m.label, value |-> m.value]

OptionWrite(o) ==
    Element("option", "", AttrIfAny("label", o.label), TextElementIfAny("value", o.value))

\* DataFormMediaParser.  What it makes is taken by create().
MediaFresh == [depth |-> 0, state |-> "nowhere", uriType |-> "", media |-> <<>>]

MediaStep(m, e) ==
    CASE e.t = "start" /\ m.depth = 0 ->
            [m EXCEPT !.depth = 1, !.state = "nowhere", !.media = <<Media>>]
      [] e.t = "start" /\ m.depth # 0 ->
            IF m.depth = 1 /\ e.n = "uri"
            THEN [m EXCEPT !.depth = 2, !.state = "uri", !.uriType = Attr(e, "type")]
            ELSE [m EXCEPT !.depth = @ + 1]
      [] e.t = "end" ->
            [m EXCEPT !.depth = @ - 1, !.state = IF m.depth = 2 THEN "nowhere" ELSE @]
      [] e.t = "text" ->
            IF m.depth = 2 /\ m.state = "uri"
            THEN [m EXCEPT !.media[1] = AppendUri(@, Uri(e.n, m.uriType))]
            ELSE m

---------------------------------------------------------------------------
\* DataFormFieldParser.  Its constructor leaves m_required alone: a fresh
\* one holds whatever the memory held.

FieldFresh(garbage) ==
    [depth |-> 0, state |-> "nowhere", type |-> "invalid", label |-> "", var |-> "",
     values |-> <<>>, options |-> <<>>, required |-> garbage, media |-> <<>>,
     option |-> OptionFresh, mediaParser |-> MediaFresh]

\* What a child of the field is.
FieldChild(e) ==
    CASE e.n = "value"                -> "value"
      [] e.n = "option"               -> "option"
      [] Named(e, "media", MediaNS)   -> "media"
      [] e.n = "required"             -> "required"
      [] OTHER                        -> "nowhere"

\* The token goes on to the nested parser the state names.
FieldForward(m, e) ==
    CASE m.state = "option" -> [m EXCEPT !.option = OptionStep(@, e)]
      [] m.state = "media"  -> [m EXCEPT !.mediaParser = MediaStep(@, e)]
      [] OTHER              -> m

\* A start tag before the nested parser gets it, an end tag after it has
\* had it: so in all the factories that have others inside.
FieldStart(m, e) ==
    LET at == CASE m.depth = 0 ->
                     [m EXCEPT !.type = StrToEnum(Attr(e, "type"), FieldTypes),
                               !.var = Attr(e, "var"), !.label = Attr(e, "label")]
                [] m.depth = 1 ->
                     [m EXCEPT !.state = FieldChild(e),
                               !.required = @ \/ FieldChild(e) = "required"]
                [] OTHER -> m
    IN  [at EXCEPT !.depth = @ + 1]

FieldEnd(m) ==
    LET done == CASE m.depth = 2 /\ m.state = "option" ->
                       [m EXCEPT !.options = Append(@, OptionOf(m.option))]
                  [] m.depth = 2 /\ m.state = "media" ->
                       [m EXCEPT !.media = m.mediaParser.media, !.mediaParser.media = <<>>]
                  [] OTHER -> m
    IN  [done EXCEPT !.depth = @ - 1, !.state = IF m.depth <= 2 THEN "nowhere" ELSE @]

FieldText_KeepsLast(m, e) ==
    IF m.state = "value" THEN [m EXCEPT !.values = <<e.n>>] ELSE FieldForward(m, e)
FieldText(m, e) ==
    IF m.state = "value" THEN [m EXCEPT !.values = Append(@, e.n)] ELSE FieldForward(m, e)

FieldStep(m, e) ==
    CASE e.t = "start" -> FieldForward(FieldStart(m, e), e)
      [] e.t = "end"   -> FieldEnd(FieldForward(m, e))
      [] e.t = "text"  -> FieldText(m, e)

\* create(): the field read, and clear() for the next one.
FieldOf(m) ==
    [type |-> m.type, var |-> m.var, desc |-> "", label |-> m.label, values |-> m.values,
     required |-> m.required, options |-> m.options, media |-> m.media]

FieldCleared(m) ==
    [FieldFresh(FALSE) EXCEPT !.depth = m.depth, !.option = m.option,
                              !.mediaParser = m.mediaParser]

\* serialize: the label written is the description, and media is left out.
FieldWrite(f) ==
    Element("field", "",
            AttrIfAny("type", IF f.type = "invalid" THEN "" ELSE f.type)
                @@ AttrIfAny("label", f.desc) @@ AttrIfAny("var", f.var),
            FlattenSeq([i \in DOMAIN f.options |-> OptionWrite(f.options[i])])
            \o FlattenSeq([i \in DOMAIN f.values |-> TextElementIfAny("value", f.values[i])])
            \o When(f.required, Element("required", "", NoAttrs, <<>>)))

---------------------------------------------------------------------------
\* DataFormFactory.  Its constructor leaves the state alone.

FormFresh(state, garbage) ==
    [depth |-> 0, state |-> state, title |-> "", instruction |-> "", fields |-> <<>>,
     type |-> "Invalid", field |-> FieldFresh(garbage)]

FormAccepts(e) == Named(e, "x", FormNS)

FormChild(e) ==
    CASE e.n = "field"        -> "field"
      [] e.n = "title"        -> "title"
      [] e.n = "instructions" -> "instruction"
      [] OTHER                -> "nowhere"

FormForward(m, e) ==
    IF m.state = "field" THEN [m EXCEPT !.field = FieldStep(@, e)] ELSE m

FormStart(m, e) ==
    LET at == CASE m.depth = 0 -> [m EXCEPT !.type = StrToEnum(Attr(e, "type"), FormTypes)]
                [] m.depth = 1 -> [m EXCEPT !.state = FormChild(e)]
                [] OTHER       -> m
    IN  [at EXCEPT !.depth = @ + 1]

FormEnd_ReturnsEarly(m) ==
    IF m.state = "field" /\ m.depth = 2
    THEN [m EXCEPT !.fields = Append(@, FieldOf(m.field)), !.field = FieldCleared(@)]
    ELSE [m EXCEPT !.depth = @ - 1, !.state = IF m.depth = 2 THEN "nowhere" ELSE @]
FormEnd(m) ==
    LET done == IF m.state = "field" /\ m.depth = 2
                THEN [m EXCEPT !.fields = Append(@, FieldOf(m.field)), !.field = FieldCleared(@)]
                ELSE m
    IN  [done EXCEPT !.depth = @ - 1, !.state = IF m.depth = 2 THEN "nowhere" ELSE @]

FormText(m, e) ==
    CASE m.state = "title"       -> [m EXCEPT !.title = e.n]
      [] m.state = "instruction" -> [m EXCEPT !.instruction = e.n]
      [] OTHER                   -> FormForward(m, e)

FormStep(m, e) ==
    CASE e.t = "start" -> FormForward(FormStart(m, e), e)
      [] e.t = "end"   -> FormEnd(FormForward(m, e))
      [] e.t = "text"  -> FormText(m, e)

\* createPayload: the form read, and clear() for the next one.
FormOf(m)      == DataForm(m.type, m.title, m.instruction, m.fields)
FormCleared_KeepsFields(m) == [m EXCEPT !.title = "", !.instruction = "", !.type = "Invalid"]
FormCleared(m) == [m EXCEPT !.title = "", !.instruction = "", !.fields = <<>>,
                            !.type = "Invalid"]

\* serialize: the instructions are not written.
FormWrite(form) ==
    Element("x", FormNS,
            IF form.type \in FormTypes THEN "type" :> form.type ELSE NoAttrs,
            TextElementIfAny("title", form.title)
            \o FlattenSeq([i \in DOMAIN form.fields |-> FieldWrite(form.fields[i])]))

\* What of a form the other side reads: no instructions, no media, a label
\* only where there is a description, and no empty value.
FieldKept(f) ==
    [f EXCEPT !.label = f.desc, !.desc = "", !.media = <<>>,
              !.type = IF @ = "invalid" THEN "" ELSE @,
              !.values = SelectSeq(@, LAMBDA v : v # "")]
FormKept(form) ==
    [form EXCEPT !.instructions = "",
                 !.type = IF @ \in FormTypes THEN @ ELSE "invalid",
                 !.fields = [i \in DOMAIN @ |-> FieldKept(@[i])]]

=============================================================================
