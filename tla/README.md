# Models and proofs of jreen

jreen is an XMPP client library in C++ and Qt. These TLA+ modules model the parts of it whose
behaviour depends on the order of events: the TCP connection, the negotiation of a stream, chat
rooms, the roster, privacy lists, message sessions, the BOSH connection, the managers that wait for
replies and registration; and the factories through which every stanza and payload is read and
written. TLC checks them on small instances; TLAPS proves, for all values of the constants, the
invariants of the stream, chat rooms, the roster, privacy lists, message sessions, the BOSH
connection, the managers and registration, and three refinements: the stream implements an abstract
session, message sessions implement conversations, and the BOSH connection implements an ordered
channel. Paths below are relative to the repository root; `client.cpp` stands for `src/client.cpp`,
and so on.

The library runs in one thread. A step of a model is therefore one slot (or one call of the
application) together with everything it calls and everything the signals it emits call, since
Qt runs directly connected slots inside the emitting call. Interleaving comes from the order in
which sockets, timers, the peer and the application take their turns.

## 1. Inventory

### Parts, their state and their operations

| Part | Source | State | Operations and events |
|---|---|---|---|
| TCP connection | `directconnection.cpp`, `tcpconnection.cpp` | `socket_state`, `socket_error`, the open mode, lookups under way | `open`, `close`, `lookupResultsReady`, `stateChanged`, `error` |
| Client | `client.cpp`, `client_p.h` | `isConnected`, `authorized`, `usedFeatures`, `configs`, `iqTracks`, `presence`, ping timer and interval, rooms, devices | `connectToServer`, `disconnectFromServer`, `send`, `setPresence`, `setPingInterval`, `setFeatureConfig`, `_q_connected`, `_q_disconnected`, `emitDisconnected`, `completed` |
| Feature loop | `parser.cpp` | `current_stream_feature`, the features activatable after `<stream:features/>` | `activateFeature`, `checkFeature`, `handleEndElement` |
| Stream features | `tlsfeature.cpp`, `zlibcompressionfeature.cpp`, `saslfeature.cpp`, `bindfeature.cpp`, `sessionfeature.cpp` | whether offered, the SASL and TLS libraries' sessions | `activate`, the handlers of the peer's answers |
| IQ replies | `client.cpp`, `iqreply.cpp`, `iq.cpp` | `iqTracks` | `send`, `handleStanza` |
| Chat room | `mucroom.cpp` | nickname, `startedJoining`, `isJoined`, `currentPresence`, `participantsHash`, role, affiliation | `join`, `leave`, `setNick`, `setPresence`, `handlePresence`, `onConnected`, `onDisconnected` |
| Roster | `abstractroster.cpp` | `items`, `version`, `changed_items` | `load`, `fillRoster`, `synchronize`, `add`, `remove`, two `handleIQ`, `onLoaded`, `setChanged` |
| BOSH connection | `connectionbosh.cpp` | `rid`, `keys`, `dataRequest`, `emptyRequest`, `payloads`, `authorized`, `depth` | `open`, `writeData`, `sendHeader`, `restartStream`, `authorized`, `onRequestFinished` |
| Message sessions | `messagesession.cpp`, `mucmessagesession.cpp` | sessions by full JID and by bare JID, threads, `m_want_upgrade` | `handleMessage`, `session`, `setJid`, `resetResource`, destructor |
| Privacy lists | `privacymanager.cpp` | names, default and active list, setters under way, last list | `request`, `setList`, `setActiveList`, `setDefaultList`, `requestList`, two `handleIQ` |
| Managers of replies | `vcardmanager.cpp`, `privatexml.cpp`, `bookmarkstorage.cpp`, `metacontactstorage.cpp`, `disco.cpp`, `pubsubmanager.cpp` | replies or handlers waiting for an IQ | `fetch`, `store`, `request`, `requestInfo`, `publishItems`, answers, the death of replies |
| Registration | `registrationmanager.cpp`, `registrationfeature.cpp` | queued IQs, saved configurations, the stream feature, the timer that reconnects | `registerAtServer`, `registerAtService`, `fetchFields`, `send`, `sendIQ`, `handleConnection`, `_q_on_disconnect`, answers |
| Payload factories | `*factory.cpp`, `disco.cpp`, `dataform.cpp`, `vcard.cpp`, ... | depth, state and the payload being read; one object for the client's life | `canParse`, `handleStartElement`, `handleEndElement`, `handleCharacterData`, `createPayload`, `serialize` |
| Stanza factories | `stanzafactory.cpp`, `iqfactory.cpp`, `messagefactory.cpp`, `presencefactory.cpp`, `forwardedfactory.cpp` | the tokens of the stanza, the payload factories at work | the same |
| XML splitting | `parser.cpp` (`nextPart`) | a buffer | `appendData` |
| Data streams | `buffereddatastream.cpp`, `zlibdatastream.cpp` | buffers, zlib states | `write`, `flush`, `incomingDataReady` |
| JIDs, stringprep | `jid.cpp`, `prep.cpp` | | translation of strings |
| Jingle | `experimental/` | sessions, contents, transports | experimental, off in a default build |
| jdns, icesupport | `3rdparty/` | | vendored |

### How they interact

* `DirectConnection` emits `stateChanged()` and `connected()`; the slots are `_q_stateChanged`
  and `_q_connected` of `ClientPrivate`. Closing a connection calls back into the client before
  `close()` returns, or later if the socket has bytes to write.
* `Parser` turns incoming bytes into elements and hands them to the current stream feature or to
  a stanza factory. A feature answers through `StreamInfo::completed()`, which may restart the
  stream, start the next feature, or disconnect, all inside the handler of that element.
* Whoever sends an IQ leaves an `IQReply` in `iqTracks`; the answer takes it out, and a
  disconnect deletes all of them without a signal.
* Rooms and rosters hear `connected()` and `disconnected()` (the roster only the answers) and
  send stanzas through the client, which drops them when it is not connected.
* `Parser` hands each tag and text of a stanza to the stanza factory, which hands what is inside to
  every payload factory that `canParse` took it; the objects they make are what the handlers of
  rooms, rosters and managers look at. Factories are members of the client and outlive streams.
* Managers of vCards, storage, discovery and publishing each keep something for the answer of an
  IQ: a child of the client's `IQReply`, or a track by id. Registration takes the connection away
  from them: it disables authorization, reconnects, and puts everything back.
* With BOSH, the connection is also the `StreamProcessor`: stream restarts and the end of
  negotiation become HTTP requests.

### What is hard

Reconnecting from the slot of `disconnected()`; a second `disconnected()` when the socket closes
in its own time; a feature whose `activate()` disconnects before it returns; answers that cross
with a lost connection; renames, kicks and joins that cross on the wire; a roster version that
must never vouch for more than the items; requests and answers of BOSH that overlap; replies that
are found after their end or lost before it; a registration that is broken off at each of its
steps; factories that remember what they read before. The list is
kept in `PROJECT.json` under "hazards", each with its line and the properties that cover it.

### What makes each part correct

* Stream: nothing survives a connection; a forced feature is in effect before a resource is
  bound; replies are tracked exactly while they are owed; every attempt to connect is answered.
* Room: when nothing is under way, client, room and application agree on who is inside.
* Roster: the version is honest, and when nothing is under way the roster is the server's.
* BOSH: what is written arrives once and in order, the keys never break, the server can speak.
* Message sessions: every session is where messages look for it, and each thread has one session.
* Privacy lists: what is remembered is the server's, or about to be corrected by what is under way.
* Managers: a reply is found exactly while it lives, and whoever waits hears of an end. A
  registration leaves the application's settings as they were and survives broken connections.
* Factories: what is written is read again, whatever was read before and whatever unknown elements
  are between; a stanza is passed on as it came; the announced hash is that of what a query reads.

## 2. Modules

| Module | Models | Extends or uses |
|---|---|---|
| `DirectConnection` | the socket, as relations without a next-state relation of its own | |
| `ClientStream` | client, feature loop, stream features, IQ replies and the server | extends `DirectConnection` |
| `ClientSession` | what a client promises: the abstract specification | instantiated by `ClientStream` |
| `ClientStream_proofs` | theorems about the stream | extends `ClientStream`, TLAPS |
| `MUCRoom` | a room object, its room and the application's view | extends `Queues` |
| `MUCRoom_proofs` | theorems about it | extends `MUCRoom`, `Queues_proofs` |
| `Queues` | what is in a queue, what is put right behind it, what holds in the end | |
| `Queues_proofs` | what taking from and adding to a queue does to that | extends `Queues`, TLAPS |
| `Roster` | the roster, the server, other clients and a saved copy | extends `Queues` |
| `Roster_proofs` | theorems about the roster | extends `Roster`, `Queues_proofs` |
| `ConnectionBOSH` | the HTTP connection and its server | |
| `DataChannel` | what a stream expects of its connection: the abstract specification | instantiated by `ConnectionBOSH` |
| `ConnectionBOSH_proofs` | theorems about it | extends `ConnectionBOSH`, TLAPS |
| `PrivacyManager` | the privacy manager, the server's lists and other clients | extends `Queues` |
| `PrivacyManager_proofs` | theorems about it | extends `PrivacyManager`, `Queues_proofs` |
| `MessageSessions` | the registry of sessions and the routing of messages | |
| `Conversations` | what message sessions promise: the abstract specification | instantiated by `MessageSessions` |
| `MessageSessions_proofs` | theorems about it | extends `MessageSessions`, TLAPS |
| `IqLayer` | the client as its managers see it: link, authorization, replies | |
| `ReplyManagers` | vCards, private storage, discovery, publishing | extends `IqLayer` |
| `Registration` | the registration manager and its stream feature | extends `IqLayer` |
| `Services` | the two together on one connection | extends `ReplyManagers`, `Registration` |
| `Services_proofs` | theorems about the managers | extends `Services`, TLAPS |
| `XmlTokens` | tokens, attributes, the helpers of `util.h` | |
| `DataForms` | forms, fields, options, media and their five parsers | extends `XmlTokens` |
| `SmallPayloads` | attention, ping, chat states, receipts, delays, times, versions, vCard updates, PGP, captchas, bits of binary, errors, capabilities | extends `DataForms` |
| `PepPayloads` | moods, activities, tunes, events and publications | |
| `QueryPayloads` | registration, privacy and room queries | |
| `StoragePayloads` | bookmarks, metacontacts and the storage around them | |
| `VCards` | the card, its setters and its parsers | |
| `DiscoPayloads` | the client's information, its hash, info, items, roster, bind, session | extends `SmallPayloads` |
| `PayloadFactories` | all of them by kind: which takes an element, a step, what is made and written | extends the payload modules |
| `Stanzas` | messages, presences, IQs, forwarded stanzas | extends `PayloadFactories` |
| `PayloadReading` | the state machine: a factory reads document after document | extends `Stanzas` |
| `MC...` | constants and symmetry for TLC | |

### ClientStream and DirectConnection

The state is that of `ClientPrivate` and of the socket, plus what the server knows of the
connection: `owed`, the requests it has still to answer (a stream header, `<starttls/>`,
`<compress/>`, `<auth/>`, IQs, the closing of the stream), `srvAuthorized`, `srvPresence` and the
TLS state `tls`. The server answers outstanding requests in any order or never, refuses what the
constant `Refusals` names, and may drop the connection at any time. `reports` counts
`disconnected()` signals since the socket last left `UnconnectedState`, and `attempt` remembers a
`connectToServer()` that has not been answered by a signal.

* `EmitDisconnected` is the whole of `emitDisconnected` (`client_p.h` 287-296), closing the
  socket inside it: the socket ends in `Unconnected` or in `Closing`, and in the latter case
  `SocketClosed` reports a second time.
* `activateFeature` is the loop of `parser.cpp` 118-151: `Candidates` are the features behind the
  current one that are offered and not disabled, `checkFeatures` the requirements, `Activate` the
  call of `activate()` and the bit set behind it.
* The constant `SaslStart` says how starting the SASL library may end: "ok", "error" (nothing is
  sent and nothing said) or "failed" (the client is disconnected inside `activate()` and the bit
  is set afterwards).
* Slots of `disconnected()` that call `connectToServer()` at once need no action of their own:
  the step `connectToServer` follows the report in the same state, since after
  `_q_disconnected` nothing in the calling handlers but the stray bit of `activateFeature`
  touches the state, and that is part of `Activate`.
* The wire is one message per kind: a peer never owes two answers of one kind, which
  `OneStepAtATime` and `TracksMatchWire` confirm.
* `AttemptAnswered` is what `ConnectSettles` rests on and holds for every setting: an attempt that
  the application has not heard the end of waits for a lookup, the socket, the server or a step of
  the negotiation. `Unheard` lists what the client does not react to, and after which it waits for
  nothing. `SettleInv` is this with the inductive invariant.

### MUCRoom

The room answers stanzas in order and reports what others do; `toRoom` and `toClient` are FIFO
queues, lost with the connection. `told` follows `presenceReceived()` and `leaved()` as an
application would, including the unavailable presences that `handlePresence` makes up for
participants of an earlier join; `turnedAway` says that it heard of an error or of its own leaving
since the last join. Role stands for role and affiliation. `WantedAnswered` says what a
wanted room waits for, and `WantedIsKnown` that the application has an answer when nothing is under
way; `WantedInv` is both with the types. The constant `Careless` adds calls a room cannot stand:
`join()` before `connected()`, `setNick()` and `join()` while the other is under way, `join()` with
an unavailable client's presence, and `setPresence()` outside. With all four, each part of
`RoomAgrees` (`JoinAgrees`, `ViewAgrees`, `NobodyMissing`, `NoStuckJoin`) fails; the runs leave
`Careless` empty, and the hazards tell what goes wrong.

### Roster

The server keeps for every contact its name (which stands for all data) and the version of its
last change, `stamp`, removals included. Asked for the roster it answers with all of it, with an
empty result and the changes since the client's version, or with an error. `changed` and
`orphans` are `changed_items`: objects still in the hash, and objects that have left it but will
still be sent. `cache` is a roster the application saved, which `Restart` loads with
`fillRoster`. `dropped` is a ghost: contacts whose local edit was forgotten by `synchronize`
offline, by a refused set, or by a connection lost with the request. `EchoesErrors` makes the
server repeat the query in an error, which the code takes for an empty roster; it is off in the
run.

### ConnectionBOSH

The client's state is one record, `client`, because the code's calls nest: `writeData`,
`sendHeader`, `authorized` and `Answered` are functions of the record, composed by the actions in
the order of the calls. Keys are pairs of a chain and a position, and the hash of a key is the
next position; `writeData` takes keys from the end and announces a new chain with the last but
one. Requests and chains are numbered without end. The server takes requests in the order of their
numbers and answers in that order; answers may arrive in another. When it holds one request of a
client that is ready it may keep it or answer it (`Polled`); `MaxPolls` bounds how often it answers
one, without which client and server would go on for ever.

`DataChannel` is what the stream above expects: pieces arrive in the order in which they were written,
each of them once. It is met with `broken <- errors > 0`: a failed request may leave a gap, and
pieces behind it may be overtaken, but nothing comes twice. `NeverStuck` says that no request is
missing before one that is posted and that data waits only for an answer to come; `DeliveryInv` is
this with the types and the order.

### PrivacyManager

`last` is `lastListName` with `lastList`; the two hashes of setters are sets of pairs. An answer
carries the request it answers (`of`), which stands for the context and the id the track of the IQ
holds. The answer to `setList` comes under the context of `setDefaultList` and takes a name that is
not there (`ListSet`), as in the code. The server pushes the name of each list that changes, also to
the client that changed it, before or after its result; other clients change lists too, and remove
those not in use. `waiting` follows calls of `requestList()` until `listReceived()`;
`NobodyWaitsInVain` says that the list of each of them, and of each note that a list was asked for,
is on its way, unless the application is careless or errors come without the query. `Echoes` says
whether errors repeat the query; `Careless` adds applications that set and ask before they called
`request()` in this connection.

### MessageSessions

`session` holds a record for every session that exists and `hash` the two multi-hashes, whose
values are sequences with the newest first. `setJid`, `registerMessageSession` and `Unregistered`
are functions of the hashes, composed by the actions. A message looks at the sessions of its full
JID and then at those of its bare JID (`LookedAt`) and goes to the first that takes its thread
(`Candidates`, `Takes`); the destructor, the
handler of new sessions and the constructor without a thread are the application's actions.
`heard` is the session whose filters and `messageReceived()` the step was for.

`Conversations` has no hashes: a session is about a JID and a thread, and a message is heard by one
session that is about it, of the very resource if there is one, and by a new session only if there is
none. The mapping forgets where sessions are filed.

### IqLayer, ReplyManagers, Registration and Services

`link` condenses the stream to what the managers see. `tracks` is `iqTracks`, `doomed` the replies
handed to `deleteLater`; a reply's id is used again when nothing has it any more (the program's
counter only grows). `Ask`, `fetch` and `AskPrivate` send, or make a reply without an IQ
(`Orphan`) when there is no session. An answer (`Answer`) takes the reply, tells the manager and
leaves the object to the event loop (`Delete`), in that order, as `handleStanza` does; a lost
connection (`ConnectionLost`) dooms all without an answer. `waiting` and `expecting` are what the
application still waits for.

`Registration` has the manager's members under their names; `scheduled` is the timer of
`_q_on_disconnect`, `own` the setting the application made, `reported` the last signal. Of the
three settings the manager saves, the one it changes is modelled. `Services` is one step of either
while the other stands still, and the steps that both hear of: an answer, a lost connection, a
negotiation that ends with nothing to go on with. `AwaitedInv` says that whoever waits, for a reply
(`RepliesAwaited`), a storage or the form of a registration (`RegistrationAwaited`), waits for
something.

`Careless` adds what the managers do not bear: fetching or asking without a connection
("offlineFetch", "offlineAsk", which break `CallsSettle`), registering twice, sending before it is
said where, and changing Authorization after a registration ("twice", "early", "reconfigure",
which break `RegistrationAccounts`). The run leaves it empty; the theorems leave it open as far as
they hold.

### The payload modules and PayloadReading

A payload is a record with its kind, a document a sequence of start tags, texts and end tags. For
each kind there is the record of the factory's members, a step for a token, what it makes at the
end and what it writes; `PayloadFactories` puts them into one family, `Stanzas` adds the stanza
factories that own one of each. In `PayloadReading` one factory (`mem`) reads any number of
documents; beside it a new one (`shadow`) reads each. Documents are what the library writes, the
same with an unknown element put in at each place among the children, and what only peers write.
The writer is this factory, with the members its reading has left it, or a new one. `Renew` makes
the client anew between two documents, as an application that deletes its `Client` does.

What the code drops is in `Kept`, the payload that survives writing and reading, and stated there:
the reason of a delay is not read, a mood or an activity without a name is not written, field
labels come from descriptions, the text of an error is not written, a vCard photo by URL is not
written, and so on. One thing depends on the writer: `AbstractStructureParser::serialize` looks for
flags in the parser's own data (`vcardfactory.cpp` 147-150), which are those of the telephone,
e-mail or address it read last. A new factory drops an entry that has flags and no text; one that
has last read a flagged entry writes it, and an empty one as well. `VCardKept` follows the writer.

A new factory starts from any value of the members its constructor leaves alone (`Fresh`).
`DiscoItemsFactory` leaves its depth alone (`disco.cpp` 139-142, `disco_p.h` 84), which is then
counted up and down and never set. If the memory did not hold a 0, the factory never recognises its
root: at 1 the query is taken for an item and piles up, at -1 a child is taken for the query, with
others nothing is recognised, and every answer to `disco#items` is lost. `Grounded` says that every
factory leaves a document as deep as it came to it, and that those whose constructor sets the depth
are at 0 in between. `DataFormFactory` leaves its state alone; if it is that of a field, the field
parser takes the form for a field and is off by one ever after.

The properties except

* `TakesAnything`: factories that take any element inside theirs for one of their own, so that an
  unknown one changes what is read (chat states, receipts, delays, capabilities, moods, activities,
  nicknames, bookmarks, disco items and rosters);
* `Remembers`: factories that keep a value the document does not give (nickname, error, roster);
* `settled`: documents read by a factory one of whose members nothing has set yet (the state of
  `DataFormFactory`, `m_required` of its field parser, and what lies beyond the table that
  `strToFlag` reads for registration queries), or that started from values it never recovers from
  (disco items at another depth than 0, a form in the state of a field); the first values are any,
  but the same ones for every factory of a build where the compiler or the layout decides;
* in `WritesAlike` (a part of `Undisturbed`: what is written does not depend on what was read),
  cards with an entry that has no text, for the reason above (`HasWordless`);
* in `Verified`, forms with an empty value, which is in the hash and is not written.

## 3. Runs

| Run | Bounds | Shows |
|---|---|---|
| `stream_safety` | two requests, four settings, every refusal, SASL "ok" or "error" | the stream's invariants, `ForcedInEffect`, and that it implements `ClientSession` |
| `stream_saslfail` | one request, SASL also "failed" | the inductive invariant of the proofs; an attempt to connect waits for something unless the client ignored what it got (`SettleInv`); a stray bit hurts nothing but authorization |
| `stream_live` | port unset, two lookups at a time, refusals that end the stream | every attempt is answered, every request settled |
| `muc_safety` | three nicknames, two roles, three stanzas under way | `RoomAgrees`: agreement of client, room and application when nothing is under way; a wanted room is entered or the application hears why not, and knows it when nothing is under way (`WantedInv`) |
| `muc_role` | as `muc_safety` | a violation: `role()` survives the connection although `mucroom.h` reserves all but `RoleNone` for who is present |
| `roster_safety` | two contacts, two names, three versions, two stanzas under way | honesty of the version in use and of the saved one, convergence |
| `bosh_safety` | chains of three keys, five pieces of data, three failures, four polls answered | an ordered channel (`DataChannel`); a server that can speak and meets no foreign key or request; what is written is at the server or waits for an answer to come (`DeliveryInv`), and all arrives without failures |
| `privacy` | two lists, one content, two stanzas under way, errors with and without the query | what is remembered is right or about to be corrected; a list asked for is on its way (`WaitInv`) and arrives, or the connection is lost |
| `sessions_safety` | three sessions, two resources, one thread of the peer and three of its own | every message finds the one session of its conversation, conversations kept apart; the sessions implement `Conversations` |
| `services` | one card, two storages, discovery, publishing and a registration; two requests under way, one queued | replies and tracks found while they live, settings put back, who waits waits for something (`AwaitedInv`), every call and every registration settled |
| `payloads` | all kinds of payloads and stanzas, with samples that set each member and none, and documents of peers | what is written is read, whatever came before, from any first values; what was read does not change what is written; stanzas passed on; the announced hash is right |
| `presence_types` | presences | a violation: a granted subscription is read as a request for one, a value `presence.h` says otherwise of |

Why the bounds are enough. The stream's state is finite but for lookups and requests: two requests
show tracks that cross, two lookups show results that meet a socket in use, and four settings hold
every combination of forced and disabled that `checkFeature` tells apart on the way to SASL and to
bind. Three nicknames give a client, its new name and another occupant; three stanzas under way give
a rename, a join and a kick that cross. Two contacts are needed for a version that covers one and
not the other; three versions give a change missed, one received and one under way. A chain of three
keys is the shortest that is renewed in the middle (the code uses 20 to 49); `MaxWrites`, `MaxPolls`
and `MaxErrors` let it be renewed by data, by a header and by an empty request, several times.
`MaxUnderWay` stops the application and the others, never the room, the server or the stream. Two
privacy lists give one at hand and one asked for, a content and the empty one (which removes the
list) a copy that is no longer the server's; a third stanza under way was tried once and shows
nothing more. Three sessions give one bound, one given up and one that takes a message meanwhile; a
hash for each stands for the random threads. Two requests under way give a card shared while its
reply is doomed, a registration whose form and result cross, and a storage beside either; one queued
request gives a queue that is sent before the form is asked for. Each sample of the payloads has a
member set that another has not, each kind has at least one sample or document of a peer, and any
two documents of a kind follow each other. The cards have entries with texts, with flags, with both
and with neither, and end their lists with flagged entries and with others, so that writers of both
sorts arise. `GarbageDepths` has a first depth of each consequence (right, one and two too deep, one
too shallow). `MaxItems` stops only the factory of disco items that piles up its queries: the others
never hold more, and it is made anew instead.

Deadlock is checked for all but the roster, which stops at its last version, and BOSH, which really
stops when an answer before authorization asks for nothing, after a failed request, and while the
server keeps the one request of a client that has nothing to say.

### Fairness

`FairSpec` of `ClientStream` gives weak fairness to what the operating system and the peer have
begun: lookups end, dialling ends one way or the other, a closing socket closes, a server answers
what it owes and closes the stream it was asked to close, a handshake ends. Nothing is assumed of
the application. `stream_live` excludes refusals the client ignores (of `<compress/>`, bind and
session) and the silent failure of SASL, after which the negotiation stands still for good; with
them `ConnectSettles` is false. In `MUCRoom` the room answers and the stream delivers; in
`ConnectionBOSH` requests reach the server, it answers (but the one request of an idle client, which
it may keep), and answers arrive. In `PrivacyManager` the server answers and answers arrive,
while the connection lasts; `ListAnswered` fails for applications that are `Careless` and for
errors without the query. In `Services` timers and the event loop run, and servers answer what
reached them, while the connection lasts; strong fairness of `handleConnection` (or its failure) and
of the form's answer says that the connection is not lost each time at the same point of the
registration, without which reconnecting for ever is possible. `StorageAnswers` is `{"payload"}` in
the run: on an error the storages emit nothing (`bookmarkstorage.cpp`, `metacontactstorage.cpp`),
and `CallsSettle` is false for their callers.

## 4. Proofs

`ClientStream_proofs` proves, from the named assumptions on the constants and nothing else:

* `Invariance`: `IInv` holds always. `TypeCorrectness`, `RepliesTracked`, `OneStep`, `PingTimer`,
  `Presence` and `Reports` follow for every outcome of SASL.
* `Clean`, `UsedTrue`, `FeaturesForced` and `Refinement` (the stream implements `ClientSession`)
  under the condition `"failed" \notin SaslStart`; without it TLC refutes all four.
* `StrayBit`, without a condition: what is left of a connection when SASL fails inside `activate()`
  is the Authorization bit and no more. Beyond `IInv` it needs that a plain connection on which TLS
  was requested is still owed the answer or its end (`TlsAwaited`).
* `EncryptionForced`, without a condition: credentials and resources never leave on a plain
  connection when encryption is forced.
* `Settling`, without a condition, also for refusals and SASL libraries that `stream_live` excludes:
  `SettleInv`, the safety core of `ConnectSettles`.

The argument. None of the properties is inductive. `TracksMatchWire` survives a disconnect only
because a closed device is owed nothing (`Reachability`); `OneStepAtATime` needs that the request
outstanding is the one of the current feature (`CurrentMatchesStep`); `UsedMeansEffective` needs
that the bits are true up to the pending feature and absent between connections (`TrustedBits`,
whose `Trusted` leaves out the Authorization bit when SASL may fail inside `activate()`); and
`EncryptionForced` needs that TLS is not offered twice (`OffersMatchLayers`). `ReportsCounted`
bounds the signals. `NextIInv` has a step for each action; the disconnecting, reporting and
activating steps share the lemmas `DisconnectedIInv`, `LostIInv` and `activateFeatureIInv`, which
is proved for any state the element being handled may have left (`Ready`). `AttemptAnswered` needs
`CurrentMatchesStep` at each answer (the refusal that is not heard is that of the current feature)
and nothing else beyond `IInv`. `BeginsChecked` says
that no feature begins unchecked, and gives both action properties. The refinement maps each step
to a step of the session or a stutter.

`Services_proofs` proves, from `MaxIdsAssumption`, `MaxQueueAssumption` and `StorageAssumption`:

* `SpecTypeOK` and `SpecRepliesAccounted`, for any number of requests, any cards, any answers about
  storage and every kind of carelessness.
* `SpecRegistrationAccounts` for applications without "twice", "early" and "reconfigure"; with any
  of the three TLC refutes it.
* `SpecAwaitedInv`, the safety core of `CallsSettle` and `RegistrationSettles`, whose parts about
  replies and storages except what was asked without a connection and errors that are not handed on.

The argument. `RepliesAccounted` is not inductive: a reply could be under way and left to delete at
once, and its deletion would then take a card out of the hash that lives on. `RepliesInv` adds that
the two are `Apart`, which holds since a new id is nobody's (`NewIdIsFree`) and each step moves
replies from one to the other. Cards are then followed through `Living`, both hashes in one: a sent
request is one more (`LivingTracked`), an answer or a lost connection changes nothing (`LivingTaken`,
`LivingLost`), a deletion takes one (`LivingDeleted`). Requests that nobody keeps account of are
treated once, in `PlainSent`, also for a whole queue (`TrackedAllIs`). `RegistrationAccounts` needs
`Alone`: what was saved is the application's setting, nothing is queued and no session begins outside
or inside a registration where it must not, and no request is under way on a connection that has
just been opened; so a result that ends a registration comes when the queue has gone out
(`AnswerRegistration`), and a broken connection leaves no form behind (`LostRegistration`).
`RepliesAwaited` needs `RepliesInv`, since who fetches a card is given the reply that is found, and
that none is found that was made without a connection (`NoOrphans`); `AwaitedSent` treats all
requests at once. `RegistrationAwaited` is inductive as it stands, also for careless applications.

`Roster_proofs` proves, from `AbsentAssumption`, `FiniteAssumption` (a roster has finitely many
contacts and names) and the bounds:

* `SpecTypeOK`, for every server.
* `SpecVersionsHonest` and `SpecConverges` for a server that does not repeat the query in its errors
  (`~EchoesErrors`), which the code takes for an empty roster; TLC refutes both of one that does.

The argument. That a version vouches for the roster is not inductive: a version comes with an answer,
and what the answer vouches for depends on all that is under way before it. `RosterInv` says this of
every place of the queues. An answer that is out of date (`Wrong`) is followed by one that is right
(`Corrected`, by `Followed` of `Queues`); each version under way to the client vouches for what the
client has or hears up to that answer (`AnswersHonest`); each version the server is asked with
vouches for what is known or on its way (`LoadsHonest`), so the changes since it are enough
(`AllKnown`). `StampsApart` excludes two changes of one version, `VersionsNamed` a version the
server never had. `handleIQInv` takes the first answer, `SaysInv` adds any number of them
behind the others, and `ChangesAre` describes the changes since a version in any order, which is
where finiteness is needed.

`PrivacyManager_proofs` proves, from its four assumptions: `SpecTypeOK` and `SpecMirrorHonest`, for
errors with and without the query and for careless applications too; and `SpecWaitInv`, the safety
core of `ListAnswered`. `MirrorInv` is what makes
`MirrorHonest` inductive: every stale answer under way (`StaleItems`, `StaleNames`, `StaleDefault`,
`StaleActive`) has one behind it that puts it right or makes the manager ask again (`Corrected`); the
ids of setters under way are different (`IdsApart`) and name what was sent (`SettersMatch`), so a
result that crosses another takes the right name; and the lists in use agree between two setters
(`InUse`). What a setter that was forgotten by `request()` leaves behind is made up for by the whole
answer (`MadeUpFor`). `WaitInv` is inductive with `OfConnection`, since without a connection nothing
may be noted as asked for: a step asks for a list that was not under way (`NextWaits`), or takes the
first request or answer, which is one of this list or leaves those behind it (`GetAnswered`,
`HandledWait`).

`MessageSessions_proofs` proves, from `NoneAssumption` and `HashesAssumption` (there are as many random
threads as sessions): `SpecTypeOK`, `SpecOneSessionFound`, `SpecStaysInConversation` and
`SpecImplementsConversations`. Together with
the types `OneSessionFound` is inductive; the proof is about sequences. `RegisterFiles`,
`UnregisterUnfiles` and `setJidFiles` say that a session is filed once under its JIDs, or nowhere, and
that the others stay where they were; a session handles a message in a detour through another JID
(`HandlesKeeps`), and a new thread is nobody's as long as a hash is free. The refinement rests on
`OneSessionFound`: what a message finds in the two hashes is what it would find among all sessions, so
that a session made for it means that none was about it; steps of the application map to `Begin`,
`End` and `GiveUpResource`, a message to `Hear` or `HearFirst`.

`MUCRoom_proofs` proves, from `NicksAssumption` (finitely many nicknames: the room shows them one by
one in an order of its own) and `RolesAssumption`:

* `SpecTypeOK`, for careless applications too.
* `SpecRoomAgrees` for an application that is not careless (`Careless = {}`; with all four kinds of
  careless call TLC refutes it), for any number of nicknames, roles and stanzas under way.
* `SpecWantedInv` for the same applications, the safety core of `WantedIsEntered`.

The argument. Nothing is settled while a stanza is under way, so the invariant, `RoomInv`, says what
client and application will believe when all of `toClient` has arrived (`InTheEnd` of `Queues`: it
holds now and nothing under way ends it, or the last presence that makes it so is behind all that
end it). Which presences are the client's own depends on the nickname it has when they arrive,
`NickAt`, since `handlePresence` adopts a new one in between: `Called` says that it ends with the
one the room knows. Then `Entered` is about being inside and the role, `NobodyLost` about the
occupants the application will see, and `NobodyMadeUp` about those it will not, with two excuses:
what it knew before a join is taken back by the first presence behind it (`TakenBack`), or the
client is still outside with one request to enter, or its refusal, under way (`BeforeEntry`).
`EntersUnrenamed` keeps joins and changes of nickname apart, which is what a careful application
does, and `JoinAnswered` sees to `startedJoining`. The steps are of two kinds: a presence arrives
(`PresenceArrives`, where every place moves by one), or presences are sent behind those under way
(`UnheardKeeps`, `ShownKeeps`, `LeaveKeeps`, `RenameKeeps` for what they say of the client,
`KnownStays` to `UnknownNow` for what they say of others), which the room's answers, its reports and
its kicks share. TLC checked `RoomInv` on the instance of `muc_safety` first. `WantedAnswered` is
inductive with it: a call that makes a room wanted sends a request to enter or finds the client
inside (`CallsWant`), the room's answer turns the request into an entry, an error or the client's
own leaving (`AnswerIsReason`), and what others do takes no reason away (`OthersLeaveReason`).

`ConnectionBOSH_proofs` proves, from `KeyNumAssumption` (a chain has at least three keys; the code's
have 20 or more) and `BoundsAssumption`, for any number of requests, pieces, failures and polls:
`SpecTypeOK`, `SpecOutboundOrder`, `SpecServerServed`, `SpecDeliveryInv` (the safety core of
`Delivered`) and `SpecImplementsChannel`.

The argument. The calls of the client nest, so `SessionInv` speaks of its record (`ClientInv`) and of
the one request whose answer is being handled, which the client may still point to. `KeysInv` says
that each request out has the key that the one before it promised, down to the key the client would
use next: a key is accepted because that holds of the oldest request out (`NumbersInv`), and there
is always a next key because a chain is renewed when two keys are left. `KnownInv` is the account of
requests: those out are the ones the client points to, but for the one handled. `CarriedInv` says
that only the data request carries data, so pieces are in one of three places (`PiecesInv`), and
these joined are what was written (`FaultlessInv`) as long as nothing fails. Each call is a lemma:
`WriteDataSends` and `HeaderSends` say what request is posted, `PollKeeps`, `PieceKeeps`,
`HeaderKeeps`, `FlushKeeps` and `ForgetKeeps` that `ClientInv` is kept, `ParsedKeeps` and
`AnsweredKeeps` compose them as `onRequestFinished` does. `ServerInv` says that the server answers in
order, so that an answer is nobody else's, and that it restarts and binds a client only before it is
authorized. `NeverStuck` needs in addition that the numbers of the requests posted have no gap
(`NoGap`), which each call of the client keeps (`CallsGapless`, `AnswerGapless`). For the refinement,
`OrderKept` gives that pieces come once and `PiecesArrive` that what has arrived is never changed.

`Queues_proofs` holds what the three proofs about queues share: what `Has`, `Followed` and `LastOn`
become when the first element leaves and when others are appended.

Only model-checked, and why:

* liveness (`ConnectSettles`, `RequestsSettle`, `WantedIsEntered`, `Delivered`, `ListAnswered`,
  `CallsSettle`, `RegistrationSettles`): the proof system has no rule that reaches it. What is proved
  is the safety under it, where a system waits only for something fair: `SettleInv`, `WantedInv`,
  `DeliveryInv`, `WaitInv`, `AwaitedInv`, `TracksMatchWire`. What remains with TLC is that each
  of these comes to an end;
* the payloads (`Grounded`, `RoundTrip`, `Verified`, `Undisturbed`, `Relayed`): writers and readers are
  RECURSIVE operators over elements nested in each other, about which nothing can be proved here
  without induction over data, and the documents checked are samples.

## 5. Not modelled, and the plan

Not modelled, and why:

* Serving requests: the gate by roster subscription (`client.cpp` 99-125) and the handlers behind
  it. They keep no state of their own; what the code does, read and not checked: a request with a
  ping and a time in it is answered twice, a roster push is accepted and never answered, a privacy
  push is answered without its id, discovery answers every node with the same information and items
  with none.
* The bytes: `nextPart` of `parser.cpp` (a malformed stanza is skipped there before any factory
  sees it), the data streams around zlib, JIDs and stringprep, logging.
* Texts that the code drops everywhere: mixed content in kept tokens, languages of bodies after
  reading. Forwarded stanzas inside forwarded ones.
* In rooms: messages, lists of affiliations, configuration, invitations, kicking others (the room
  answers them as it announces what others do, which is modelled); `canKick` after a reconnect uses
  the role that `muc_role` shows to be stale.
* Lifetimes: deleting the registration's feature while it is the client's current one (the pointer
  in `ClientPrivate` is left), sessions that outlive their manager's private data
  (`messagesession.cpp` 85), nested event loops run by handlers.
* Non-SASL authentication, tried only in builds without SASL; Jingle, experimental and off in a
  default build; the vendored libraries.

Done: `DirectConnection`, `ClientStream`, `ClientSession`, `MUCRoom`, `Roster`, `MessageSessions`,
`Conversations`, `PrivacyManager`, `ConnectionBOSH`, `DataChannel` and the services modules with
runs and theorems; the payload and stanza modules with their runs. What is left, in this order:

1. An abstract specification for privacy lists (a register per list, read late).
2. `IqGate`: the gate composed with `Roster`.
3. `Parser::nextPart` over tokens against a reference of balanced elements; `BufferedDataStream`
   with the compression layer as queues, refining a single queue.
4. Jingle sessions, last.
