-------------------------- MODULE PayloadFactories --------------------------
(***************************************************************************)
(* The payload factories as the rest of the library sees them: the virtual *)
(* functions of AbstractPayloadFactory over the kinds of payload, which    *)
(* ClientPrivate::init and the managers register.                          *)
(***************************************************************************)
EXTENDS QueryPayloads, PepPayloads, StoragePayloads, VCards, DiscoPayloads

\* The hash of the client's own disco, which stands for an unset one.
OwnHash == "hash"

\* The extensions of messages and presences, and the queries.
Extensions ==
    {"attention", "chatstate", "receipt", "nick", "delay", "update", "signed", "encrypted",
     "captcha", "error", "caps", "mucuser", "form", "event"}
Queries ==
    {"ping", "time", "version", "bob", "mood", "activity", "tune", "publish", "register",
     "privacy", "muc", "mucadmin", "mucowner", "bookmarks", "metacontacts", "private", "vcard",
     "info", "items", "roster", "bind", "session"}
Kinds == Extensions \cup Queries

\* PubSub::Manager::publishItems, with options: that items persist is always
\* asked for.
PublishOptions(accessModel, persistent) == [accessModel |-> accessModel, persistent |-> persistent]
PublishItems(items, options) ==
    LET form == SetTypeName(DataForm("submit", "", "", <<>>),
                            "http://jabber.org/protocol/pubsub#publish-options")
    IN  Publish("", items,
                <<[form EXCEPT !.fields = @ \o
                      <<Field("", "pubsub#access_model", <<options.accessModel>>),
                        SetBoolean(Field("boolean", "pubsub#persist_items", <<>>), TRUE)>>]>>)

\* What a new factory may hold: the members its constructor leaves alone
\* are whatever the memory held.
FormStates == {"nowhere", "title", "instruction", "field"}
GarbageDepths == -1..2
Fresh(k) ==
    CASE k = "chatstate" -> {ChatStateFresh}
      [] k = "receipt"   -> {ReceiptFresh(g) : g \in ReceiptTypes}
      [] k = "nick"      -> {NickFresh}
      [] k = "delay"     -> {DelayFresh}
      [] k = "time"      -> {TimeFresh}
      [] k = "version"   -> {VersionFresh(g) : g \in {"invalid", "os"}}
      [] k = "update"    -> {UpdateFresh}
      [] k \in {"signed", "encrypted"} -> {PGPFresh}
      [] k = "captcha"   -> {CaptchaFresh(s, g) : s \in FormStates, g \in BOOLEAN}
      [] k = "bob"       -> {BobFresh}
      [] k = "error"     -> {ErrorFresh}
      [] k = "caps"      -> {CapsFresh}
      [] k = "form"      -> {FormFresh(s, g) : s \in FormStates, g \in BOOLEAN}
      [] k = "mood"      -> {MoodFresh}
      [] k = "activity"  -> {ActivityFresh}
      [] k = "tune"      -> {TuneFresh}
      [] k \in {"event", "publish"} -> {ItemsFresh}
      [] k = "register"  ->
            {RegisterFresh(s, g, b) : s \in FormStates, g \in BOOLEAN, b \in {"", "username"}}
      [] k = "privacy"   -> {PrivacyFresh}
      [] k = "mucuser"   -> {UserFresh}
      [] k = "mucadmin"  -> {AdminFresh}
      [] k = "mucowner"  -> {OwnerFresh(s, g) : s \in FormStates, g \in BOOLEAN}
      [] k = "bookmarks" -> {BookmarkFresh(s) : s \in BOOLEAN}
      [] k = "metacontacts" -> {MetaFresh}
      [] k = "private"   -> {PrivateFresh(s) : s \in BOOLEAN}
      [] k = "vcard"     -> {VCardFresh}
      [] k = "info"      -> {InfoFresh(s, g) : s \in FormStates, g \in BOOLEAN}
      [] k = "items"     -> {DiscoItemsFresh(d) : d \in GarbageDepths}
      [] k = "roster"    -> {RosterFresh(g) : g \in {"none", "both"}}
      [] k = "bind"      -> {BindFresh}
      [] OTHER           -> {"stateless"}

\* canParse.
Accepts(k, e) ==
    CASE k = "attention" -> AttentionAccepts(e)
      [] k = "ping"      -> PingAccepts(e)
      [] k = "chatstate" -> ChatStateAccepts(e)
      [] k = "receipt"   -> ReceiptAccepts(e)
      [] k = "nick"      -> NickAccepts(e)
      [] k = "delay"     -> DelayAccepts(e)
      [] k = "time"      -> TimeAccepts(e)
      [] k = "version"   -> VersionAccepts(e)
      [] k = "update"    -> UpdateAccepts(e)
      [] k = "signed"    -> SignedAccepts(e)
      [] k = "encrypted" -> EncryptedAccepts(e)
      [] k = "captcha"   -> CaptchaAccepts(e)
      [] k = "bob"       -> BobAccepts(e)
      [] k = "error"     -> ErrorAccepts(e)
      [] k = "caps"      -> CapsAccepts(e)
      [] k = "form"      -> FormAccepts(e)
      [] k \in PepKinds  -> PepAccepts(k, e)
      [] k = "event"     -> EventAccepts(e)
      [] k = "publish"   -> PublishAccepts(e)
      [] k = "register"  -> RegisterAccepts(e)
      [] k = "privacy"   -> PrivacyAccepts(e)
      [] k = "muc"       -> MUCAccepts(e)
      [] k = "mucuser"   -> UserAccepts(e)
      [] k = "mucadmin"  -> AdminAccepts(e)
      [] k = "mucowner"  -> OwnerAccepts(e)
      [] k = "bookmarks" -> BookmarkAccepts(e)
      [] k = "metacontacts" -> MetaAccepts(e)
      [] k = "private"   -> PrivateAccepts(e)
      [] k = "vcard"     -> VCardAccepts(e)
      [] k = "info"      -> InfoAccepts(e)
      [] k = "items"     -> ItemsAccepts(e)
      [] k = "roster"    -> RosterAccepts(e)
      [] k = "bind"      -> BindAccepts(e)
      [] k = "session"   -> SessionAccepts(e)

\* canParse has side effects in two factories.
Asked(k, m) ==
    CASE k = "bob"      -> BobAsked(m)
      [] k = "register" -> RegisterAsked(m)
      [] OTHER          -> m

\* handleStartElement, handleEndElement, handleCharacterData.
Step(k, m, e) ==
    CASE k = "chatstate" -> ChatStateStep(m, e)
      [] k = "receipt"   -> ReceiptStep(m, e)
      [] k = "nick"      -> NickStep(m, e)
      [] k = "delay"     -> DelayStep(m, e)
      [] k = "time"      -> TimeStep(m, e)
      [] k = "version"   -> VersionStep(m, e)
      [] k = "update"    -> UpdateStep(m, e)
      [] k \in {"signed", "encrypted"} -> PGPStep(m, e)
      [] k = "captcha"   -> CaptchaStep(m, e)
      [] k = "bob"       -> BobStep(m, e)
      [] k = "error"     -> ErrorStep(m, e)
      [] k = "caps"      -> CapsStep(m, e)
      [] k = "form"      -> FormStep(m, e)
      [] k \in PepKinds  -> PepStep(k, m, e)
      [] k = "event"     -> EventStep(m, e)
      [] k = "publish"   -> PublishStep(m, e)
      [] k = "register"  -> RegisterStep(m, e)
      [] k = "privacy"   -> PrivacyStep(m, e)
      [] k = "mucuser"   -> UserStep(m, e)
      [] k = "mucadmin"  -> AdminStep(m, e)
      [] k = "mucowner"  -> OwnerStep(m, e)
      [] k = "bookmarks" -> BookmarkStep(m, e)
      [] k = "metacontacts" -> MetaStep(m, e)
      [] k = "private"   -> PrivateStep(m, e)
      [] k = "vcard"     -> VCardStep(m, e)
      [] k = "info"      -> InfoStep(m, e)
      [] k = "items"     -> DiscoItemsStep(m, e)
      [] k = "roster"    -> RosterStep(m, e)
      [] k = "bind"      -> BindStep(m, e)
      [] OTHER           -> m

\* createPayload: what it gives.
Made(k, m) ==
    CASE k = "attention" -> Attention
      [] k = "ping"      -> Ping
      [] k = "chatstate" -> ChatStateOf(m)
      [] k = "receipt"   -> ReceiptOf(m)
      [] k = "nick"      -> NickOf(m)
      [] k = "delay"     -> DelayOf(m)
      [] k = "time"      -> TimeOf(m)
      [] k = "version"   -> VersionOf(m)
      [] k = "update"    -> UpdateOf(m)
      [] k \in {"signed", "encrypted"} -> PGPOf(k, m)
      [] k = "captcha"   -> CaptchaOf(m)
      [] k = "bob"       -> BobOf(m)
      [] k = "error"     -> ErrorOf(m)
      [] k = "caps"      -> CapsOf(m)
      [] k = "form"      -> FormOf(m)
      [] k \in PepKinds  -> PepOf(k, m)
      [] k = "event"     -> EventOf(m)
      [] k = "publish"   -> PublishOf(m)
      [] k = "register"  -> m.query[1]
      [] k = "privacy"   -> m.query[1]
      [] k = "muc"       -> MUCOf
      [] k \in {"mucuser", "mucadmin", "mucowner"} -> m.query[1]
      [] k = "bookmarks" -> BookmarkOf(m)
      [] k = "metacontacts" -> MetaOf(m)
      [] k = "private"   -> PrivateOf(m)
      [] k = "vcard"     -> VCardOf(m)
      [] k = "info"      -> InfoOf(m)
      [] k = "items"     -> DiscoItemsOf(m)
      [] k = "roster"    -> RosterOf(m)
      [] k = "bind"      -> BindOf(m)
      [] k = "session"   -> SessionQuery

\* createPayload: what it leaves behind.
Taken(k, m) ==
    CASE k \in {"signed", "encrypted", "captcha", "bob", "register", "privacy", "mucuser",
                "mucadmin", "mucowner"} -> QueryTaken(m)
      [] k = "form"      -> FormCleared(m)
      [] k \in PepKinds  -> PepCreated(k, m)
      [] k \in {"event", "publish"} -> ItemsTaken(m)
      [] k = "private"   -> PrivateTaken(m)
      [] k = "vcard"     -> VCardTaken(m)
      [] k = "info"      -> InfoTaken(m)
      [] OTHER           -> m

\* serialize, by a factory with members m.
Written(m, p) ==
    CASE p.kind = "attention" -> AttentionWrite(p)
      [] p.kind = "ping"      -> PingWrite(p)
      [] p.kind = "chatstate" -> ChatStateWrite(p)
      [] p.kind = "receipt"   -> ReceiptWrite(p)
      [] p.kind = "nick"      -> NickWrite(p)
      [] p.kind = "delay"     -> DelayWrite(p)
      [] p.kind = "time"      -> TimeWrite(p)
      [] p.kind = "version"   -> VersionWrite(p)
      [] p.kind = "update"    -> UpdateWrite(p)
      [] p.kind = "signed"    -> SignedWrite(p)
      [] p.kind = "encrypted" -> EncryptedWrite(p)
      [] p.kind = "captcha"   -> CaptchaWrite(p)
      [] p.kind = "bob"       -> BobWrite(p)
      [] p.kind = "error"     -> ErrorWrite(p)
      [] p.kind = "caps"      -> CapsWrite(p, OwnHash)
      [] p.kind = "form"      -> FormWrite(p)
      [] p.kind \in PepKinds  -> PepWrite(p)
      [] p.kind = "event"     -> EventWrite(p)
      [] p.kind = "publish"   -> PublishWrite(p, IF p.form = <<>> THEN <<>> ELSE FormWrite(p.form[1]))
      [] p.kind = "register"  -> RegisterWrite(p)
      [] p.kind = "privacy"   -> PrivacyWrite(p)
      [] p.kind = "muc"       -> MUCWrite(p)
      [] p.kind = "mucuser"   -> UserWrite(p)
      [] p.kind = "mucadmin"  -> AdminWrite(p)
      [] p.kind = "mucowner"  -> OwnerWrite(p)
      [] p.kind \in StoredKinds -> StoredWrite(p)
      [] p.kind = "private"   -> PrivateWrite(p)
      [] p.kind = "vcard"     -> VCardWrite(m, p)
      [] p.kind = "info"      -> InfoWrite(p)
      [] p.kind = "items"     -> DiscoItemsWrite(p)
      [] p.kind = "roster"    -> RosterWrite(p)
      [] p.kind = "bind"      -> BindWrite(p)
      [] p.kind = "session"   -> SessionWrite(p)

\* What of a payload survives being written by such a factory and read.
Kept(m, p) ==
    CASE p.kind = "delay"     -> DelayKept(p)
      [] p.kind = "time"      -> TimeKept(p)
      [] p.kind = "update"    -> UpdateKept(p)
      [] p.kind = "captcha"   -> CaptchaKept(p)
      [] p.kind = "bob"       -> BobKept(p)
      [] p.kind = "error"     -> ErrorKept(p)
      [] p.kind = "caps"      -> CapsKept(p, OwnHash)
      [] p.kind = "form"      -> FormKept(p)
      [] p.kind \in PepKinds  -> PepKept(p)
      [] p.kind = "event"     -> ItemsKept(p)
      [] p.kind = "publish"   -> [ItemsKept(p) EXCEPT !.form = <<>>]
      [] p.kind = "register"  -> RegisterKept(p)
      [] p.kind = "privacy"   -> PrivacyKept(p)
      [] p.kind = "muc"       -> MUCOf
      [] p.kind = "mucuser"   -> UserKept(p)
      [] p.kind = "mucadmin"  -> AdminKept(p)
      [] p.kind = "mucowner"  -> OwnerKept(p)
      [] p.kind = "private"   -> PrivateKept(p)
      [] p.kind = "vcard"     -> VCardKept(m, p)
      [] p.kind = "info"      -> InfoKept(p)
      [] p.kind = "roster"    -> RosterKept(p)
      [] p.kind = "bind"      -> BindKept(p)
      [] OTHER                -> p

=============================================================================
