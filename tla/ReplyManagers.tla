---------------------------- MODULE ReplyManagers ----------------------------
(***************************************************************************)
(* The managers that ask and wait: vCards (src/src/vcardmanager.cpp),      *)
(* private XML storage with bookmarks and metacontacts in it, service      *)
(* discovery and publishing.                                               *)
(*                                                                         *)
(* A vCard's reply is found by its JID while it lives, so that fetching a  *)
(* card twice asks once.  It is a child of the client's reply and dies     *)
(* with it, after an answer or with the connection; one that was made      *)
(* without a connection has no parent and stays.                           *)
(***************************************************************************)
EXTENDS IqLayer

CONSTANTS
    Jids,           \* whose cards are fetched
    StorageAnswers  \* what the server answers about private storage

ASSUME StorageAssumption == StorageAnswers \subseteq {"payload", "bare", "error", "refusal"}

VARIABLES
    hash,     \* VCardManagerPrivate: the reply of each JID
    handlers, \* PrivateXmlPrivate::tracks: who waits for an answer
    waiting,  \* the unfinished replies that the application holds
    expecting \* the storages that it waits for

replyVars == <<hash, handlers, waiting, expecting>>

NoReply == 0
Orphan  == MaxIds + 1   \* the reply of a request that was never sent

Storages == {"bookmarks", "metacontacts"}
CardOf(j)     == [call |-> "fetch", of |-> j]
Store         == [call |-> "store", of |-> "self"]
Discover(q)   == [call |-> q, of |-> "service"]
ReadOf(s)     == [call |-> "request", of |-> s]
WriteOf(s)    == [call |-> "keep", of |-> s]
Publish       == [call |-> "publish", of |-> "service"]
ServerInfo    == [call |-> "server", of |-> "service"]

ReplyRequests ==
    {CardOf(j) : j \in Jids} \cup {Store, Publish, ServerInfo}
    \cup {Discover(q) : q \in {"info", "items"}}
    \cup {ReadOf(s) : s \in Storages} \cup {WriteOf(s) : s \in Storages}

\* Those whose reply objects an application gets.
HasReply(r) == r.call \in {"fetch", "store", "info", "items"}
IsPrivate(r) == r.call \in {"request", "keep"}

ReplyTypeOK ==
    /\ hash \in [Jids -> {NoReply, Orphan} \cup Ids]
    /\ DOMAIN handlers \subseteq Ids /\ \A id \in DOMAIN handlers : handlers[id] \in Storages
    /\ waiting \subseteq Ids \cup {Orphan}
    /\ expecting \subseteq Storages

ReplyInit ==
    /\ hash = [j \in Jids |-> NoReply]
    /\ handlers = Nobody
    /\ waiting = {}
    /\ expecting = {}

---------------------------------------------------------------------------
\* What the application asks for.

MaySend == FreeIds # {}
Careful(slip) == link = "connected" \/ slip \in Careless

\* VCardManager::fetch
fetch(j) ==
    /\ MaySend
    /\ hash[j] # NoReply \/ Careful("offlineFetch")
    /\ IF hash[j] # NoReply
       THEN waiting' = waiting \cup {hash[j]} /\ UNCHANGED <<tracks, hash>>
       ELSE LET reply == IF CanSend(FALSE) THEN NewId ELSE Orphan
            IN  /\ hash' = [hash EXCEPT ![j] = reply]
                /\ waiting' = waiting \cup {reply}
                /\ tracks' = IF CanSend(FALSE) THEN Tracked(CardOf(j)) ELSE tracks
    /\ UNCHANGED <<link, authorization, doomed, handlers, expecting>>

\* VCardManager::store, Disco::requestInfo and requestItems: a reply for each call.
Ask(request) ==
    /\ MaySend
    /\ Careful("offlineAsk")
    /\ IF CanSend(FALSE)
       THEN tracks' = Tracked(request) /\ waiting' = waiting \cup {NewId}
       ELSE tracks' = tracks /\ waiting' = waiting \cup {Orphan}
    /\ UNCHANGED <<link, authorization, doomed, hash, handlers, expecting>>

\* PrivateXml::request and store, for BookmarkStorage and MetaContactStorage.
\* The track of a request that is not sent stays in the program's hash, under
\* an id that never comes again; it is left out here.
AskPrivate(request) ==
    /\ MaySend
    /\ IF CanSend(FALSE)
       THEN /\ tracks' = Tracked(request)
            /\ handlers' = With(handlers, NewId, request.of)
            /\ expecting' = expecting \cup (IF request.call = "request" THEN {request.of} ELSE {})
       ELSE UNCHANGED <<tracks, handlers, expecting>>
    /\ UNCHANGED <<link, authorization, doomed, hash, waiting>>

\* PubSub::Manager::publishItems: nobody waits for the answer.
publishItems ==
    /\ MaySend
    /\ CanSend(FALSE)
    /\ tracks' = Tracked(Publish)
    /\ UNCHANGED <<link, authorization, doomed, replyVars>>

---------------------------------------------------------------------------
\* Answers: "payload" holds what was asked for, "bare" nothing, "refusal" is
\* an error that repeats the query.

Answers == {"payload", "bare", "error", "refusal"}

\* PrivateXml::handleIQ: the track is taken and its storage told; a result
\* without the query, and so every result of a store, counts as an error.
PrivateResult(request, answer) ==
    CASE answer = "payload" -> IF request.call = "keep" THEN "StoreOk" ELSE "RequestOk"
      [] answer # "payload" -> IF request.call = "keep" THEN "StoreError" ELSE "RequestError"

\* onResultReady of the storages: they hand on what was read, and no error.
HandedOn(request, answer) ==
    IF PrivateResult(request, answer) = "RequestOk" THEN {request.of} ELSE {}

\* VCardReplyPrivate::_q_received, DiscoReplyPrivate::_q_received: the last
\* signal is finished(), whatever came.
ReplyAnswered(id, answer) ==
    /\ Take(id)
    /\ waiting' = waiting \ (IF HasReply(tracks[id]) THEN {id} ELSE {})
    /\ expecting' = expecting \ (IF IsPrivate(tracks[id]) THEN HandedOn(tracks[id], answer) ELSE {})
    /\ handlers' = Without(handlers, id)
    /\ UNCHANGED <<link, authorization, hash>>

\* The connection is lost: nobody takes the tracks any more (they are left
\* out as above), and the application knows that no storage will say more.
ReplyLost ==
    /\ handlers' = Nobody
    /\ expecting' = {}
    /\ UNCHANGED <<hash, waiting>>

\* The event loop deletes a reply and its child; ~VCardReply removes the
\* child from the manager's hash.
Removed_Never(request) == hash
Removed(request) ==
    [j \in Jids |-> IF request = CardOf(j) THEN NoReply ELSE hash[j]]
Deleted(id) ==
    /\ doomed' = Without(doomed, id)
    /\ hash' = Removed(doomed[id])
    /\ waiting' = waiting \ {id}
    /\ UNCHANGED <<link, authorization, tracks, handlers, expecting>>

---------------------------------------------------------------------------
\* Properties.

Living == Both(tracks, doomed)

CardsAccounted ==
    /\ \A j \in Jids : hash[j] \in Ids =>
        hash[j] \in DOMAIN Living /\ Living[hash[j]] = CardOf(j)
    /\ \A id \in DOMAIN Living : \A j \in Jids : Living[id] = CardOf(j) => hash[j] = id
HandlersAccounted ==
    /\ DOMAIN handlers = {id \in DOMAIN tracks : IsPrivate(tracks[id])}
    /\ \A id \in DOMAIN handlers : handlers[id] = tracks[id].of

\* A vCard that is fetched has one reply, the manager finds it exactly as
\* long as it lives, and the handler of a stored query is there when its
\* answer comes.
RepliesAccounted == CardsAccounted /\ HandlersAccounted

\* Whoever waits for a reply hears that it is finished or that it is gone,
\* and whoever waits for a storage gets what is stored or loses the connection.
CallsSettle ==
    /\ \A id \in Ids \cup {Orphan} : id \in waiting ~> id \notin waiting
    /\ \A s \in Storages : s \in expecting ~> s \notin expecting

\* Until then nobody waits for nothing: a reply that is waited for lives and will
\* be finished or deleted, unless it was made without a connection, and a storage
\* that is waited for has been asked for, unless an error was not handed on.
RepliesAwaited ==
    /\ Careless \cap {"offlineFetch", "offlineAsk"} = {} =>
        \A id \in waiting : id \in DOMAIN Living /\ HasReply(Living[id])
    /\ StorageAnswers \subseteq {"payload"} =>
        \A s \in expecting : \E id \in DOMAIN tracks : tracks[id] = ReadOf(s)

\* No reply that is found again was made without a connection.
NoOrphans == "offlineFetch" \notin Careless => \A j \in Jids : hash[j] # Orphan

=============================================================================
