---------------------------- MODULE PepPayloads ----------------------------
(***************************************************************************)
(* What contacts publish about themselves: mood, activity and tune, each   *)
(* with its factory, and the two publish-subscribe wrappers, whose         *)
(* factories hand the element inside an item to the factory of the node.   *)
(*                                                                         *)
(* For each factory F: FAccepts is canParse, FFresh the members after      *)
(* construction, FStep a token's handler, FOf what createPayload makes of  *)
(* the members and FWrite serialize.                                       *)
(***************************************************************************)
EXTENDS XmlTokens, SequencesExt

---------------------------------------------------------------------------
\* Mood (XEP-0107)

MoodNS == "http://jabber.org/protocol/mood"

MoodNames == {
    "afraid", "amazed", "amorous", "angry", "annoyed", "anxious", "aroused", "ashamed",
    "bored", "brave", "calm", "cautious", "cold", "confident", "confused",
    "contemplative", "contented", "cranky", "crazy", "creative", "curious", "dejected",
    "depressed", "disappointed", "disgusted", "dismayed", "distracted", "embarrassed",
    "envious", "excited", "flirtatious", "frustrated", "grateful", "grieving",
    "grumpy", "guilty", "happy", "hopeful", "hot", "humbled", "humiliated", "hungry",
    "hurt", "impressed", "in_awe", "in_love", "indignant", "interested", "intoxicated",
    "invincible", "jealous", "lonely", "lost", "lucky", "mean", "moody", "nervous",
    "neutral", "offended", "outraged", "playful", "proud", "relaxed", "relieved",
    "remorseful", "restless", "sad", "sarcastic", "satisfied", "serious", "shocked",
    "shy", "sick", "sleepy", "spontaneous", "stressed", "strong", "surprised",
    "thankful", "thirsty", "tired", "undefined", "weak", "worried"}

\* typeByName finds a name in the sorted table.
MoodByName(name) == IF name = "" THEN "empty" ELSE StrToEnum(name, MoodNames)

Mood(type, text) == [kind |-> "mood", type |-> type, text |-> text]

MoodAccepts(e) == Named(e, "mood", MoodNS)
MoodFresh == [depth |-> 0, subtype |-> "invalid", text |-> ""]

MoodStep(m, e) ==
    CASE e.t = "start" ->
            [m EXCEPT !.depth = @ + 1,
                      !.text = IF m.depth = 0 THEN "" ELSE @,
                      !.subtype = CASE m.depth = 0 -> "empty"
                                    [] m.depth = 1 /\ e.n # "text" -> MoodByName(e.n)
                                    [] OTHER -> @]
      [] e.t = "end"  -> [m EXCEPT !.depth = @ - 1]
      [] e.t = "text" -> [m EXCEPT !.text = IF m.depth = 2 THEN e.n ELSE @]

MoodOf(m) == Mood(m.subtype, m.text)

MoodWrite(p) ==
    When(p.type # "invalid",
         Element("mood", MoodNS, NoAttrs,
                 When(p.type # "empty",
                      Element(p.type, "", NoAttrs, <<>>) \o TextElementIfAny("text", p.text))))

\* A mood taken back says nothing more.
MoodKept(p) == IF p.type = "empty" THEN Mood("empty", "") ELSE p

---------------------------------------------------------------------------
\* Activity (XEP-0108)

ActivityNS == "http://jabber.org/protocol/activity"

GeneralNames == {
    "doing_chores", "drinking", "eating", "exercising", "grooming",
    "having_appointment", "inactive", "relaxing", "talking", "traveling", "undefined",
    "working"}

SpecificNames == {
    "at_the_spa", "brushing_teeth", "buying_groceries", "cleaning", "coding",
    "commuting", "cooking", "cycling", "dancing", "day_off", "doing_maintenance",
    "doing_the_dishes", "doing_the_laundry", "driving", "fishing", "gaming",
    "gardening", "getting_a_haircut", "going_out", "hanging_out", "having_a_beer",
    "having_a_snack", "having_breakfast", "having_coffee", "having_dinner",
    "having_lunch", "having_tea", "hiding", "hiking", "in_a_car", "in_a_meeting",
    "in_real_life", "jogging", "on_a_bus", "on_a_plane", "on_a_train", "on_a_trip",
    "on_the_phone", "on_vacation", "on_video_phone", "other", "partying",
    "playing_sports", "praying", "reading", "rehearsing", "running",
    "running_an_errand", "scheduled_holiday", "shaving", "shopping", "skiing",
    "sleeping", "smoking", "socializing", "studying", "sunbathing", "swimming",
    "taking_a_bath", "taking_a_shower", "thinking", "walking", "walking_the_dog",
    "watching_a_movie", "watching_tv", "working_out", "writing"}

\* typeByName: -2 is empty, -1 invalid.
ActivityByName(name, names) == IF name = "" THEN "empty" ELSE StrToEnum(name, names)

Activity(general, specific, text) ==
    [kind |-> "activity", general |-> general, specific |-> specific, text |-> text]

ActivityAccepts(e) == Named(e, "activity", ActivityNS)

\* clear()
ActivityCleared(m) == [m EXCEPT !.general = "invalid", !.specific = "invalid", !.text = ""]

ActivityFresh ==
    [depth |-> 0, state |-> "nowhere", general |-> "invalid", specific |-> "invalid",
     text |-> ""]

ActivityStep(m, e) ==
    CASE e.t = "start" /\ m.depth = 0 ->
            [ActivityCleared(m) EXCEPT !.depth = 1, !.state = "nowhere"]
      [] e.t = "start" /\ m.depth = 1 ->
            IF e.n = "text" THEN [m EXCEPT !.depth = 2, !.state = "text"]
            ELSE [m EXCEPT !.depth = 2, !.state = "type",
                           !.general = ActivityByName(e.n, GeneralNames)]
      [] e.t = "start" /\ m.depth > 1 ->
            [m EXCEPT !.depth = @ + 1,
                      !.specific = IF m.depth = 2 /\ m.state = "type"
                                   THEN ActivityByName(e.n, SpecificNames) ELSE @]
      [] e.t = "end" ->
            [m EXCEPT !.depth = @ - 1, !.state = IF m.depth = 2 THEN "nowhere" ELSE @]
      [] e.t = "text" ->
            [m EXCEPT !.text = IF m.depth = 2 /\ m.state = "text" THEN e.n ELSE @]

\* createPayload; it clears the members too.
ActivityOf(m) == Activity(m.general, m.specific, m.text)

ActivityWrite(p) ==
    When(p.general # "invalid",
         Element("activity", ActivityNS, NoAttrs,
                 When(p.general # "empty",
                      Element(p.general, "", NoAttrs,
                              When(p.specific \in SpecificNames,
                                   Element(p.specific, "", NoAttrs, <<>>)))
                      \o TextElementIfAny("text", p.text))))

\* An activity taken back is read as an invalid one: the factory clears to
\* InvalidGeneral where it would write EmptyGeneral.
ActivityKept(p) ==
    IF p.general = "empty" THEN Activity("invalid", "invalid", "")
    ELSE [p EXCEPT !.specific = IF @ \in SpecificNames THEN @ ELSE "invalid"]

---------------------------------------------------------------------------
\* Tune (XEP-0118)

TuneNS == "http://jabber.org/protocol/tune"
TuneFields == {"artist", "length", "rating", "source", "title", "track", "uri"}
TuneNumbers == {"length", "rating"}

\* Tune's setters bound the two numbers; -1 is no number.
Tune(f) ==
    [kind |-> "tune"] @@
    [f EXCEPT !.length = IF @ < 0 THEN -1 ELSE @,
              !.rating = IF @ < 0 THEN -1 ELSE IF @ > 10 THEN 10 ELSE @]

TuneAccepts(e) == Named(e, "tune", TuneNS)
NoTune == [x \in TuneFields |-> ""]
TuneFresh == [depth |-> 0, state |-> "invalid", data |-> NoTune]

TuneStep(m, e) ==
    CASE e.t = "start" ->
            [m EXCEPT !.depth = @ + 1,
                      !.data = IF m.depth = 0 THEN NoTune ELSE @,
                      !.state = IF m.depth = 1 THEN StrToEnum(e.n, TuneFields) ELSE @]
      [] e.t = "end"  -> [m EXCEPT !.depth = @ - 1]
      [] e.t = "text" ->
            IF m.depth = 2 /\ m.state # "invalid" THEN [m EXCEPT !.data[m.state] = e.n] ELSE m

TuneOf(m) ==
    Tune([x \in TuneFields |->
            IF x \notin TuneNumbers THEN m.data[x]
            ELSE IF IsInt(m.data[x]) THEN ToInt(m.data[x]) ELSE -1])

\* The elements are written in the order of the table.
TuneWrite(p) ==
    LET Number(x) == When(p[x] > -1, TextElement(x, ToString(p[x])))
        Text(x)   == TextElementIfAny(x, p[x])
    IN  Element("tune", TuneNS, NoAttrs,
                Text("artist") \o Number("length") \o Number("rating") \o Text("source")
                \o Text("title") \o Text("track") \o Text("uri"))

---------------------------------------------------------------------------
\* The factories a node of publish-subscribe can have: those registered
\* with the manager, found by the first of their features.

PepKinds == {"mood", "activity", "tune"}
NodeOf   == [mood |-> MoodNS, activity |-> ActivityNS, tune |-> TuneNS]
PepFresh == [mood |-> MoodFresh, activity |-> ActivityFresh, tune |-> TuneFresh]

PepAccepts(k, e) ==
    CASE k = "mood" -> MoodAccepts(e)
      [] k = "activity" -> ActivityAccepts(e)
      [] k = "tune" -> TuneAccepts(e)
PepStep(k, m, e) ==
    CASE k = "mood" -> MoodStep(m, e)
      [] k = "activity" -> ActivityStep(m, e)
      [] k = "tune" -> TuneStep(m, e)
PepOf(k, m) ==
    CASE k = "mood" -> MoodOf(m)
      [] k = "activity" -> ActivityOf(m)
      [] k = "tune" -> TuneOf(m)
PepCreated(k, m) == IF k = "activity" THEN ActivityCleared(m) ELSE m
PepWrite(p) ==
    CASE p.kind = "mood" -> MoodWrite(p)
      [] p.kind = "activity" -> ActivityWrite(p)
      [] p.kind = "tune" -> TuneWrite(p)
PepKept(p) ==
    CASE p.kind = "mood" -> MoodKept(p)
      [] p.kind = "activity" -> ActivityKept(p)
      [] OTHER -> p

\* findFactory(node)
FactoryOfNode(node) ==
    LET k == {x \in PepKinds : NodeOf[x] = node}
    IN  IF k = {} THEN "none" ELSE CHOOSE x \in k : TRUE

---------------------------------------------------------------------------
\* PubSub::EventFactory and PubSub::PublishFactory: the same machine over
\* <event><items node=''><item>..., and <pubsub><publish node=''><item>...
\* "list" is the element of depth 2 (AtItems, AtPublish).

EventNS   == "http://jabber.org/protocol/pubsub#event"
PublishNS == "http://jabber.org/protocol/pubsub"

Event(node, items)         == [kind |-> "event", node |-> node, items |-> items]
Publish(node, items, form) == [kind |-> "publish", node |-> node, items |-> items, form |-> form]

EventAccepts(e)   == Named(e, "event", EventNS)
PublishAccepts(e) == Named(e, "pubsub", PublishNS)

\* The nested factories are the manager's own, kept from item to item.  The
\* payload is taken by createPayload.
ItemsFresh ==
    [depth |-> 0, state |-> "nowhere", factory |-> "none", items |-> <<>>, inner |-> PepFresh]

ItemsForward(m, e) ==
    IF m.state = "entity" THEN [m EXCEPT !.inner[m.factory] = PepStep(m.factory, @, e)] ELSE m

ItemsStart(m, e, list) ==
    LET d  == m.depth + 1
        at == CASE d = 1 -> [m EXCEPT !.items = <<<<>>>>]
                [] d = 2 /\ e.n = list ->
                     LET k == FactoryOfNode(Attr(e, "node"))
                     IN  [m EXCEPT !.factory = k, !.state = IF k = "none" THEN "nowhere" ELSE "list"]
                [] d = 3 /\ m.state = "list" /\ e.n = "item" -> [m EXCEPT !.state = "item"]
                [] d = 4 /\ m.state = "item" /\ PepAccepts(m.factory, e) ->
                     [m EXCEPT !.state = "entity"]
                [] OTHER -> m
    IN  [at EXCEPT !.depth = d]

ItemsEnd(m) ==
    LET at == CASE m.depth = 2 /\ m.state = "list" -> [m EXCEPT !.state = "nowhere"]
                [] m.depth = 3 /\ m.state = "item" -> [m EXCEPT !.state = "list"]
                [] m.depth = 4 /\ m.state = "entity" ->
                     [m EXCEPT !.state = "item",
                               !.items[1] = Append(@, PepOf(m.factory, m.inner[m.factory])),
                               !.inner[m.factory] = PepCreated(m.factory, @)]
                [] OTHER -> m
    IN  [at EXCEPT !.depth = @ - 1]

ItemsStep(m, e, list) ==
    CASE e.t = "start" -> ItemsForward(ItemsStart(m, e, list), e)
      [] e.t = "end"   -> ItemsEnd(ItemsForward(m, e))
      [] e.t = "text"  -> ItemsForward(m, e)

EventStep(m, e)   == ItemsStep(m, e, "items")
PublishStep(m, e) == ItemsStep(m, e, "publish")

\* Neither factory keeps the node it read.
EventOf(m)    == Event("", m.items[1])
PublishOf(m)  == Publish("", m.items[1], <<>>)
ItemsTaken(m) == [m EXCEPT !.items = <<>>]

\* serialize: the node is the payload's own, or that of its first item; the
\* items of another factory are left out, and so is everything when no
\* factory is found.
NodeWritten(p) ==
    IF p.node # "" THEN p.node
    ELSE IF p.items # <<>> /\ p.items[1].kind \in PepKinds THEN NodeOf[p.items[1].kind]
    ELSE ""
ItemsWritten(p) == SelectSeq(p.items, LAMBDA i : i.kind = FactoryOfNode(NodeWritten(p)))

ItemsWrite(p, name, ns, list, options) ==
    When(FactoryOfNode(NodeWritten(p)) # "none",
         Element(name, ns, NoAttrs,
                 Element(list, "", "node" :> NodeWritten(p),
                         FlattenSeq([i \in DOMAIN ItemsWritten(p) |->
                             Element("item", "", NoAttrs, PepWrite(ItemsWritten(p)[i]))]))
                 \o options))

EventWrite(p) == ItemsWrite(p, "event", EventNS, "items", <<>>)

\* options: the tokens DataFormFactory writes for publish->form.
PublishWrite(p, options) ==
    ItemsWrite(p, "pubsub", PublishNS, "publish",
               When(p.form # <<>>, Element("publish-options", "", NoAttrs, options)))

\* An item that its factory would not write makes an empty item, which is
\* not read back.
ItemsKept(p) ==
    [p EXCEPT !.node = "",
              !.items = LET w == SelectSeq(ItemsWritten(p), LAMBDA i : PepWrite(i) # <<>>)
                        IN  [i \in DOMAIN w |-> PepKept(w[i])]]

=============================================================================
