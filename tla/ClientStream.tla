---------------------------- MODULE ClientStream ----------------------------
(***************************************************************************)
(* The client's side of one XMPP stream over a DirectConnection: Client,   *)
(* ClientPrivate, StreamInfoImpl (src/src/client.cpp, client_p.h), the     *)
(* feature loop of Parser (parser.cpp) and the stream features that can be *)
(* activated (TLS, zlib, SASL, bind, session).  NonSaslAuth is never       *)
(* activatable, so the loop never sees it; RegistrationFeature exists only *)
(* while a RegistrationManager does.                                       *)
(*                                                                         *)
(* The program is one thread of Qt events: an action is one slot with      *)
(* everything it calls and everything the signals it emits call.  The      *)
(* server is an environment that answers, in any order and at any time, or *)
(* never, the requests that are outstanding on the current connection      *)
(* (variable owed), and may drop the connection.  It speaks the protocol:  *)
(* it sends stream features only after a stream header, offers no layer    *)
(* twice, and says nothing else unasked that negotiation reacts to.        *)
(***************************************************************************)
EXTENDS DirectConnection, FiniteSets

CONSTANTS
    Requests,        \* IQ requests of the application that may be tracked together
    FeatureConfigs,  \* the settings the application chooses among
    SaslStart,       \* how starting the SASL library may end: "ok", "error", "failed"
    Refusals         \* what may be refused: "starttls", "compress", "auth", "iq"

Feature == {"Compression", "Encryption", "Authorization"}
FeatureConfig == {"Force", "Disable", "Auto"}

StreamFeatures == {"TLS", "Zlib", "SASL", "Bind", "Session"}
None == "None"   \* a null current_stream_feature

\* The place of a feature in d->features, which registerStreamFeature keeps
\* ordered by type, then by descending priority.
Rank == [None |-> 0, TLS |-> 1, Zlib |-> 2, SASL |-> 3, Bind |-> 4, Session |-> 5]

ConnectionRequests == {"bind", "session", "disco"}
Wire == {"header", "starttls", "compress", "auth", "close"}

ASSUME RequestsAssumption ==
    /\ IsFiniteSet(Requests)
    /\ Requests \cap (ConnectionRequests \cup Wire) = {}
ASSUME FeatureConfigsAssumption ==
    FeatureConfigs # {} /\ FeatureConfigs \subseteq [Feature -> FeatureConfig]
ASSUME SaslStartAssumption ==
    SaslStart # {} /\ SaslStart \subseteq {"ok", "error", "failed"}
ASSUME RefusalsAssumption ==
    Refusals \subseteq {"starttls", "compress", "auth", "iq"}

IqRequests == Requests \cup ConnectionRequests

VARIABLES
    \* --- ClientPrivate
    isConnected,
    authorized,
    usedFeatures,            \* the bits of d->usedFeatures
    configs,                 \* d->configs
    current_stream_feature,
    activatable,             \* the stream features whose isActivatable() holds
    devices,                 \* a ZLibDataStream is stacked on the connection
    iqTracks,                \* the requests with an IQReply waiting
    presence,                \* d->presence.subtype()
    pingInterval,            \* d->pingInterval > 0
    pingTimer,               \* d->pingTimer.isActive()
    \* --- the TLS layer of the socket
    tls,                     \* "plain", "handshake" or "encrypted"
    \* --- what the server knows of this connection
    owed,                    \* the requests it has still to answer
    srvAuthorized,           \* it has sent <success/>
    srvPresence,             \* the last presence it received
    \* --- what the application has been told
    reports,                 \* disconnected() signals since the socket last left Unconnected
    attempt                  \* connectToServer() was called, neither signal has followed

clientVars == <<isConnected, authorized, usedFeatures, configs,
                current_stream_feature, activatable, devices, iqTracks,
                presence, pingInterval, pingTimer>>
serverVars == <<tls, owed, srvAuthorized, srvPresence>>
toldVars == <<reports, attempt>>
vars == <<connVars, clientVars, serverVars, toldVars>>

-----------------------------------------------------------------------------

CountersTypeOK ==
    /\ lookups \in 0 .. MaxLookups
    /\ reports \in 0 .. 2

TypeOK ==
    /\ CountersTypeOK
    /\ ConnTypeOK
    /\ isConnected \in BOOLEAN
    /\ authorized \in BOOLEAN
    /\ usedFeatures \subseteq Feature
    /\ configs \in FeatureConfigs
    /\ current_stream_feature \in StreamFeatures \cup {None}
    /\ activatable \subseteq StreamFeatures
    /\ devices \in BOOLEAN
    /\ iqTracks \subseteq IqRequests
    /\ presence \in {"Available", "Unavailable"}
    /\ pingInterval \in BOOLEAN
    /\ pingTimer \in BOOLEAN
    /\ tls \in {"plain", "handshake", "encrypted"}
    /\ owed \subseteq Wire \cup IqRequests
    /\ srvAuthorized \in BOOLEAN
    /\ srvPresence \in {"Available", "Unavailable"}
    /\ attempt \in BOOLEAN

Init ==
    /\ ConnInit
    /\ isConnected = FALSE
    /\ authorized = FALSE
    /\ usedFeatures = {}
    /\ configs \in FeatureConfigs
    /\ current_stream_feature = None
    /\ activatable = {}
    /\ devices = FALSE
    /\ iqTracks = {}
    /\ presence = "Unavailable"
    /\ pingInterval \in BOOLEAN
    /\ pingTimer = FALSE
    /\ tls = "plain"
    /\ owed = {}
    /\ srvAuthorized = FALSE
    /\ srvPresence = "Unavailable"
    /\ reports = 0
    /\ attempt = FALSE

-----------------------------------------------------------------------------
(* Losing a connection                                                     *)

\* What is gone when the connection is: nothing more is received on it.
WireLost ==
    /\ tls' = "plain"
    /\ owed' = {}
    /\ srvAuthorized' = FALSE
    /\ srvPresence' = "Unavailable"

\* A slip: iqTracks.clear() is forgotten.
QDisconnected_KeepsTracks ==
    /\ pingTimer' = FALSE
    /\ isConnected' = FALSE
    /\ authorized' = FALSE
    /\ current_stream_feature' = None
    /\ presence' = "Unavailable"
    /\ devices' = FALSE
    /\ UNCHANGED <<configs, iqTracks, pingInterval>>

\* ClientPrivate::_q_disconnected.  The tracked replies are deleted unanswered.
QDisconnected ==
    /\ pingTimer' = FALSE
    /\ isConnected' = FALSE
    /\ authorized' = FALSE
    /\ current_stream_feature' = None
    /\ presence' = "Unavailable"
    /\ devices' = FALSE
    /\ iqTracks' = {}
    /\ UNCHANGED <<configs, pingInterval>>

\* One disconnected() signal reaches the application.
ReportDisconnected ==
    /\ reports' = reports + 1
    /\ attempt' = FALSE

\* emitDisconnected, and disconnectFromServer(true): the connection is closed
\* with the client's signals blocked, so a socket that closes at once is not
\* reported twice.  The caller says what becomes of usedFeatures and of the
\* features' own flags.
EmitDisconnected(used, offered) ==
    /\ Close
    /\ WireLost
    /\ QDisconnected
    /\ usedFeatures' = used
    /\ activatable' = offered
    /\ ReportDisconnected

-----------------------------------------------------------------------------
(* Parser::activateFeature                                                 *)

\* convertToFeature(feature->type())
convertToFeature ==
    [TLS |-> "Encryption", Zlib |-> "Compression", SASL |-> "Authorization",
     Bind |-> "InvalidFeature", Session |-> "InvalidFeature"]

\* The request that activate() of a feature sends.
Request ==
    [TLS |-> "starttls", Zlib |-> "compress", SASL |-> "auth",
     Bind |-> "bind", Session |-> "session"]

\* What the loop considers: the features behind the current one that the server
\* offers and the settings do not disable.
Candidates(current, offered) ==
    {f \in offered :
        /\ Rank[f] > Rank[current]
        /\ \/ convertToFeature[f] = "InvalidFeature"
           \/ configs[convertToFeature[f]] # "Disable"}

\* Mutants: a forgotten check of compression; credentials sent unchecked.
Prerequisites_NoCompression(f) ==
    CASE convertToFeature[f] = "InvalidFeature" -> {"Encryption", "Authorization"}
      [] convertToFeature[f] = "Authorization"  -> {"Encryption"}
      [] OTHER -> {}

Prerequisites_CustomOnly(f) ==
    IF convertToFeature[f] = "InvalidFeature" THEN Feature ELSE {}

\* checkFeature for every feature the candidate depends on.
Prerequisites(f) ==
    CASE convertToFeature[f] = "InvalidFeature" -> Feature
      [] convertToFeature[f] = "Authorization"  -> {"Encryption"}
      [] OTHER -> {}

\* A slip: the result of checkFeature is ignored.
checkFeatures_Ignored(f) == TRUE

checkFeatures(f) ==
    \A k \in Prerequisites(f) : configs[k] = "Force" => k \in usedFeatures

\* activate() returned: the request was written, or SASL failed to start and
\* nothing was (sent = {}); either way the feature's bit is set afterwards.
Activated(f, offered, rest, tracks, sent) ==
    /\ current_stream_feature' = f
    /\ activatable' = offered
    /\ owed' = rest \cup sent
    /\ iqTracks' = tracks \cup (sent \cap ConnectionRequests)
    /\ usedFeatures' = usedFeatures \cup ({convertToFeature[f]} \cap Feature)
    /\ UNCHANGED <<isConnected, authorized, configs, devices, presence, pingInterval,
                   pingTimer, tls, srvAuthorized, srvPresence, connVars, toldVars>>

\* A slip: emitDisconnected leaves the bits of the connection alone.
Activate_KeepsBits(f, offered, rest, tracks) ==
    \/ /\ f = "SASL" => "ok" \in SaslStart
       /\ Activated(f, offered, rest, tracks, {Request[f]})
    \/ /\ f = "SASL" /\ "error" \in SaslStart
       /\ Activated(f, offered, rest, tracks, {})
    \/ /\ f = "SASL" /\ "failed" \in SaslStart
       /\ EmitDisconnected(usedFeatures \cup {convertToFeature[f]}, offered)

\* feature->activate() and the assignment behind it.  SASL may fail to start in
\* two ways: activate() returns false without a word to the client, or it has
\* reported AuthorizationFailed, which disconnects, before it returns to
\* activateFeature, which then sets the bit of the disconnected client.
Activate(f, offered, rest, tracks) ==
    \/ /\ f = "SASL" => "ok" \in SaslStart
       /\ Activated(f, offered, rest, tracks, {Request[f]})
    \/ /\ f = "SASL" /\ "error" \in SaslStart
       /\ Activated(f, offered, rest, tracks, {})
    \/ /\ f = "SASL" /\ "failed" \in SaslStart
       /\ EmitDisconnected({convertToFeature[f]}, offered)

\* offered, rest and tracks are activatable, owed and iqTracks as the element
\* being handled has left them.
activateFeature(current, offered, rest, tracks) ==
    LET found == Candidates(current, offered)
    IN  \/ /\ found = {}
           /\ EmitDisconnected({}, offered)
        \/ \E f \in found :
             /\ \A g \in found : Rank[f] <= Rank[g]
             /\ IF checkFeatures(f)
                THEN Activate(f, offered, rest, tracks)
                ELSE EmitDisconnected({}, offered)

-----------------------------------------------------------------------------
(* The socket                                                              *)

\* A slip: usedFeatures = 0 is forgotten.
UnconnectedReported_KeepsBits ==
    /\ WireLost
    /\ QDisconnected
    /\ UNCHANGED <<usedFeatures, activatable>>
    /\ ReportDisconnected

\* The slots behind UnconnectedState: _q_disconnected, with handleDisconnect
\* emitting disconnected() from inside it.
UnconnectedReported ==
    /\ WireLost
    /\ QDisconnected
    /\ usedFeatures' = {}
    /\ UNCHANGED activatable
    /\ ReportDisconnected

\* A socket that leaves Unconnected starts a new round of reports.
NewRound ==
    reports' = IF socket_state = "Unconnected" /\ socket_state' = "Connecting"
               THEN 0 ELSE reports

\* Client::connectToServer.
connectToServer ==
    /\ IF opened
       THEN UNCHANGED <<connVars, toldVars>>
       ELSE Open /\ NewRound /\ attempt' = TRUE
    /\ UNCHANGED <<clientVars, serverVars>>

LookupFinished ==
    /\ LookupResultsReady
    /\ NewRound
    /\ UNCHANGED <<clientVars, serverVars, attempt>>

\* A slip: _q_stateChanged reacts to every state, ConnectedState too.
QConnected_Reported ==
    /\ SocketConnected
    /\ owed' = {"header"}
    /\ activatable' = {}
    /\ usedFeatures' = {}
    /\ QDisconnected
    /\ ReportDisconnected
    /\ UNCHANGED <<tls, srvAuthorized, srvPresence>>

\* connected(): _q_connected resets parser and features and sends the header.
QConnected ==
    /\ SocketConnected
    /\ owed' = {"header"}
    /\ activatable' = {}
    /\ UNCHANGED <<isConnected, authorized, usedFeatures, configs, current_stream_feature,
                   devices, iqTracks, presence, pingInterval, pingTimer,
                   tls, srvAuthorized, srvPresence, toldVars>>

\* A slip: an UnconnectedState that follows ConnectingState is not forwarded.
ConnectionRefused_Unreported ==
    ConnectFails /\ UNCHANGED <<clientVars, serverVars, toldVars>>

ConnectionRefused == ConnectFails /\ UnconnectedReported

\* The peer drops the connection, a farewell it owes or a failure.
ConnectionLost == SocketLost("Unconnected") /\ UnconnectedReported

\* The same with bytes left to write: only ClosingState is reached, which
\* closes the device but is not reported to the client.
ConnectionLostSlowly ==
    /\ SocketLost("Closing")
    /\ WireLost
    /\ UNCHANGED <<clientVars, toldVars>>

SocketClosed == CloseEnds /\ UnconnectedReported

-----------------------------------------------------------------------------
(* StreamInfoImpl::completed                                               *)

\* ResendHeader: a new header on the same connection, features and parser reset.
ResendHeader(rest) ==
    /\ owed' = rest \cup {"header"}
    /\ activatable' = {}
    /\ current_stream_feature' = None

Receives(request) == opened /\ request \in owed

\* The end of <stream:features/>: what the server may offer depends on the
\* layers in place, everything else is its choice.
Offers(s) ==
    /\ s \subseteq StreamFeatures
    /\ tls = "encrypted" => "TLS" \notin s
    /\ devices => "Zlib" \notin s
    /\ srvAuthorized => "SASL" \notin s

FeaturesReceived(s) ==
    /\ Receives("header")
    /\ Offers(s)
    /\ activateFeature(None, activatable \cup s, owed \ {"header"}, iqTracks)

\* A slip: the stream is restarted before the handshake is over.
ProceedReceived_Hasty ==
    /\ Receives("starttls")
    /\ tls' = "handshake"
    /\ ResendHeader(owed \ {"starttls"})
    /\ UNCHANGED <<connVars, isConnected, authorized, usedFeatures, configs, devices,
                   iqTracks, presence, pingInterval, pingTimer, srvAuthorized,
                   srvPresence, toldVars>>

\* <proceed/>: the socket starts the handshake.
ProceedReceived ==
    /\ Receives("starttls")
    /\ owed' = owed \ {"starttls"}
    /\ tls' = "handshake"
    /\ UNCHANGED <<connVars, clientVars, srvAuthorized, srvPresence, toldVars>>

\* A refusal of TLS is ignored; the server then ends the stream.
TlsRefused ==
    /\ Receives("starttls") /\ "starttls" \in Refusals
    /\ owed' = (owed \ {"starttls"}) \cup {"close"}
    /\ UNCHANGED <<connVars, clientVars, tls, srvAuthorized, srvPresence, toldVars>>

\* TLSFeature::onHandshaken.
onHandshaken ==
    /\ opened /\ tls = "handshake"
    /\ tls' = "encrypted"
    /\ ResendHeader(owed)
    /\ UNCHANGED <<connVars, isConnected, authorized, usedFeatures, configs, devices,
                   iqTracks, presence, pingInterval, pingTimer, srvAuthorized,
                   srvPresence, toldVars>>

\* <compressed/>: addDataStream, then ResendHeader.
CompressedReceived ==
    /\ Receives("compress")
    /\ devices' = TRUE
    /\ ResendHeader(owed \ {"compress"})
    /\ UNCHANGED <<connVars, isConnected, authorized, usedFeatures, configs, iqTracks,
                   presence, pingInterval, pingTimer, tls, srvAuthorized, srvPresence,
                   toldVars>>

\* A refusal of compression is ignored too, and the stream goes on.
CompressionRefused ==
    /\ Receives("compress") /\ "compress" \in Refusals
    /\ owed' = owed \ {"compress"}
    /\ UNCHANGED <<connVars, clientVars, tls, srvAuthorized, srvPresence, toldVars>>

\* <failure/>, or a <challenge/> the SASL library cannot answer: the client gets
\* AuthorizationFailed.  (A challenge it answers only prolongs the exchange.)
AuthorizationFails ==
    /\ Receives("auth") /\ "auth" \in Refusals
    /\ EmitDisconnected({}, activatable)

\* <success/>: Authorized and ResendHeader.
SuccessReceived ==
    /\ Receives("auth")
    /\ srvAuthorized' = TRUE
    /\ authorized' = TRUE
    /\ ResendHeader(owed \ {"auth"})
    /\ UNCHANGED <<connVars, isConnected, usedFeatures, configs, devices, iqTracks,
                   presence, pingInterval, pingTimer, tls, srvPresence, toldVars>>

\* A result for the bind request: setJID and ActivateNext.
BindResult ==
    /\ Receives("bind") /\ "bind" \in iqTracks
    /\ activateFeature(current_stream_feature, activatable, owed \ {"bind"},
                       iqTracks \ {"bind"})

\* A result for the session request: Connected; handleConnect starts the ping
\* timer and asks the server for its features.
SessionResult ==
    /\ Receives("session") /\ "session" \in iqTracks
    /\ isConnected' = TRUE
    /\ pingTimer' = (pingTimer \/ pingInterval)
    /\ owed' = (owed \ {"session"}) \cup {"disco"}
    /\ iqTracks' = (iqTracks \ {"session"}) \cup {"disco"}
    /\ attempt' = FALSE
    /\ UNCHANGED <<connVars, authorized, usedFeatures, configs, current_stream_feature,
                   activatable, devices, presence, pingInterval, tls, srvAuthorized,
                   srvPresence, reports>>

\* A slip: value() instead of take() leaves the reply in iqTracks.
ReplyReceived_NotTaken(r) ==
    /\ Receives(r)
    /\ r \in {"bind", "session"} => "iq" \in Refusals
    /\ owed' = owed \ {r}
    /\ UNCHANGED <<connVars, clientVars, tls, srvAuthorized, srvPresence, toldVars>>

\* Any other answer takes the reply out of iqTracks and changes nothing more:
\* the features ignore an error.
ReplyReceived(r) ==
    /\ Receives(r)
    /\ r \in {"bind", "session"} => "iq" \in Refusals
    /\ owed' = owed \ {r}
    /\ iqTracks' = iqTracks \ {r}
    /\ UNCHANGED <<connVars, isConnected, authorized, usedFeatures, configs,
                   current_stream_feature, activatable, devices, presence, pingInterval,
                   pingTimer, tls, srvAuthorized, srvPresence, toldVars>>

-----------------------------------------------------------------------------
(* The application                                                         *)

\* Client::send(IQ) of a get or set.
sendIQ(r) ==
    /\ opened /\ isConnected
    /\ r \notin iqTracks
    /\ owed' = owed \cup {r}
    /\ iqTracks' = iqTracks \cup {r}
    /\ UNCHANGED <<connVars, isConnected, authorized, usedFeatures, configs,
                   current_stream_feature, activatable, devices, presence, pingInterval,
                   pingTimer, tls, srvAuthorized, srvPresence, toldVars>>

\* setPresence(type, text, priority) and setPresence(): unless nothing differs
\* from the presence already set, it is sent, if the client is connected.
\* again: the text or the priority differs, or there are no arguments.
PresenceSet(type, again) ==
    /\ presence' = type
    /\ srvPresence' = IF (type # presence \/ again) /\ opened /\ isConnected
                      THEN type ELSE srvPresence

setPresence(type, again) ==
    /\ PresenceSet(type, again)
    /\ UNCHANGED <<connVars, isConnected, authorized, usedFeatures, configs,
                   current_stream_feature, activatable, devices, iqTracks, pingInterval,
                   pingTimer, tls, owed, srvAuthorized, toldVars>>

setFeatureConfig(c) ==
    /\ configs' = c
    /\ UNCHANGED <<connVars, isConnected, authorized, usedFeatures,
                   current_stream_feature, activatable, devices, iqTracks, presence,
                   pingInterval, pingTimer, serverVars, toldVars>>

setPingInterval(positive) ==
    /\ pingInterval' = positive
    /\ pingTimer' = (positive /\ (pingTimer \/ isConnected))
    /\ UNCHANGED <<connVars, isConnected, authorized, usedFeatures, configs,
                   current_stream_feature, activatable, devices, iqTracks, presence,
                   serverVars, toldVars>>

\* A slip: the presence is set to unavailable but not sent.
disconnectFromServer_Silent ==
    /\ opened
    /\ presence' = "Unavailable"
    /\ owed' = owed \cup {"close"}
    /\ UNCHANGED <<connVars, isConnected, authorized, usedFeatures, configs,
                   current_stream_feature, activatable, devices, iqTracks, pingInterval,
                   pingTimer, tls, srvAuthorized, srvPresence, toldVars>>

\* disconnectFromServer(false): unavailable presence and the end tag; the rest
\* is up to the server, which is to close the connection.
disconnectFromServer ==
    /\ opened
    /\ \E again \in BOOLEAN : PresenceSet("Unavailable", again)
    /\ owed' = owed \cup {"close"}
    /\ UNCHANGED <<connVars, isConnected, authorized, usedFeatures, configs,
                   current_stream_feature, activatable, devices, iqTracks, pingInterval,
                   pingTimer, tls, srvAuthorized, toldVars>>

forceDisconnect ==
    /\ opened
    /\ EmitDisconnected({}, activatable)

-----------------------------------------------------------------------------

Socket ==
    \/ LookupFinished
    \/ QConnected
    \/ ConnectionRefused
    \/ ConnectionLost
    \/ ConnectionLostSlowly
    \/ SocketClosed

Negotiation ==
    \/ \E s \in SUBSET StreamFeatures : FeaturesReceived(s)
    \/ ProceedReceived
    \/ TlsRefused
    \/ onHandshaken
    \/ CompressedReceived
    \/ CompressionRefused
    \/ AuthorizationFails
    \/ SuccessReceived
    \/ BindResult
    \/ SessionResult
    \/ \E r \in IqRequests : ReplyReceived(r)

Application ==
    \/ connectToServer
    \/ disconnectFromServer
    \/ forceDisconnect
    \/ \E r \in Requests : sendIQ(r)
    \/ \E type \in {"Available", "Unavailable"}, again \in BOOLEAN : setPresence(type, again)
    \/ \E c \in FeatureConfigs : setFeatureConfig(c)
    \/ \E b \in BOOLEAN : setPingInterval(b)

Next == Socket \/ Negotiation \/ Application

Spec == Init /\ [][Next]_vars

\* The operating system and the peer finish what they have begun, and a server
\* answers what it owes; nothing is assumed of the application.
Fairness ==
    /\ WF_vars(LookupFinished)
    /\ WF_vars(QConnected \/ ConnectionRefused)
    /\ WF_vars(SocketClosed)
    /\ WF_vars("close" \in owed /\ ConnectionLost)
    /\ WF_vars(\E s \in SUBSET StreamFeatures : FeaturesReceived(s))
    /\ WF_vars(ProceedReceived \/ TlsRefused)
    /\ WF_vars(onHandshaken)
    /\ WF_vars(CompressedReceived \/ CompressionRefused)
    /\ WF_vars(AuthorizationFails \/ SuccessReceived)
    /\ WF_vars(BindResult \/ ReplyReceived("bind"))
    /\ WF_vars(SessionResult \/ ReplyReceived("session"))
    /\ \A r \in Requests \cup {"disco"} : WF_vars(ReplyReceived(r))

FairSpec == Spec /\ Fairness

-----------------------------------------------------------------------------
(* Properties                                                              *)

\* The features that are in effect on the connection, whatever the client thinks.
Effective ==
    (IF tls = "encrypted" THEN {"Encryption"} ELSE {})
        \cup (IF devices THEN {"Compression"} ELSE {})
        \cup (IF srvAuthorized THEN {"Authorization"} ELSE {})

Forced == {k \in Feature : configs[k] = "Force"}

Begins(f) == current_stream_feature' = f /\ current_stream_feature # f

\* Between connections nothing of the previous one is left: whatever ended it,
\* and whichever slot noticed, the next negotiation starts from scratch.
\* (_q_disconnected, client_p.h; the order of its callers is the hazard.)
CleanSlate ==
    socket_state \in {"Unconnected", "Connecting"} =>
        /\ ~isConnected /\ ~authorized /\ ~devices /\ ~pingTimer
        /\ usedFeatures = {}
        /\ current_stream_feature = None
        /\ iqTracks = {}

\* On a live connection a reply is tracked exactly as long as the server owes
\* the answer: no answer is delivered twice or dropped, and no tracked request
\* outlives its answer.  (iqTracks, Client::send, handleStanza.)
TracksMatchWire == opened => iqTracks = owed \cap IqRequests

\* At any time at most one step of the negotiation is under way, and none once
\* the client is connected: no feature is activated under another's feet.
\* (activateFeature, completed, the features' handleEndElement.)
Steps ==
    (owed \cap {"header", "starttls", "compress", "auth", "bind", "session"})
        \cup (IF tls = "handshake" THEN {"handshake"} ELSE {})

OneStepAtATime ==
    /\ \A a, b \in Steps : a = b
    /\ isConnected => Steps = {}

\* isFeatureActivated() tells a connected application the truth: the features
\* the client counts as used are those in effect on the connection, although
\* the bit is set when a feature is requested and not when it is granted.
UsedMeansEffective == opened /\ isConnected => usedFeatures = Effective

\* disconnected() never reaches the application while the connection is open,
\* at most once when the socket closes at once, and at most twice when it does
\* not (emitDisconnected, then UnconnectedState).
ReportDiscipline ==
    /\ reports <= 2
    /\ opened => reports = 0
    /\ reports = 1 => socket_state \in {"Unconnected", "Closing"}
    /\ reports = 2 => socket_state = "Unconnected"

\* The ping timer runs exactly while the client is connected and an interval is
\* set, across reconnects and changes of the interval.
PingWhileConnected == pingTimer = (isConnected /\ pingInterval)

\* The server never takes for available a client that takes itself for
\* unavailable, although setPresence drops what has not changed and
\* _q_disconnected resets the client's own view.
NoGhostPresence == srvPresence = "Available" => presence = "Available"

\* Binding a resource or opening a session begins only with every forced
\* feature in effect on the wire, whatever happened on earlier connections.
\* (checkFeature trusts usedFeatures.)
ForcedInEffect ==
    [][\A f \in {"Bind", "Session"} : Begins(f) => Forced \subseteq Effective]_vars

\* Neither credentials nor a resource leave on a plain connection when
\* encryption is forced.
ForcedEncryption ==
    [][\A f \in {"SASL", "Bind", "Session"} :
           Begins(f) /\ "Encryption" \in Forced => tls = "encrypted"]_vars

\* When the SASL library fails to start, activateFeature sets the Authorization
\* bit of the client it has just disconnected, and CleanSlate, UsedMeansEffective
\* and ForcedInEffect fail.  This is the whole of the damage: no other bit
\* survives a connection, and the Encryption bit of an open one stays true.
StrayBitContained ==
    /\ socket_state \in {"Unconnected", "Connecting"} => usedFeatures \subseteq {"Authorization"}
    /\ opened /\ owed \cap {"starttls", "close"} = {} /\ "Encryption" \in usedFeatures =>
           tls # "plain"

-----------------------------------------------------------------------------
(* The inductive invariant behind these properties                         *)

\* The device is open exactly while the socket is connected, without it the
\* server owes nothing, and it hears of no presence before the client is connected.
Reachability ==
    /\ opened <=> socket_state = "Connected"
    /\ ~opened => owed = {} /\ tls = "plain" /\ ~srvAuthorized
    /\ ~opened \/ ~isConnected => srvPresence = "Unavailable"

\* The bits that say what they should even if the SASL library may fail to start.
Trusted == IF "failed" \in SaslStart THEN Feature \ {"Authorization"} ELSE Feature

\* The feature whose bit may be set before it is in effect.
Pending == IF current_stream_feature = None THEN {}
           ELSE {convertToFeature[current_stream_feature]}

\* The current feature is the one whose request is outstanding; a header is
\* outstanding only when there is none.
CurrentMatchesStep ==
    /\ "header" \in owed => current_stream_feature = None
    /\ \A f \in StreamFeatures : Request[f] \in owed => current_stream_feature = f
    /\ tls = "handshake" => current_stream_feature = "TLS"
    /\ opened /\ isConnected => current_stream_feature = "Session"

\* Trusted bits are true up to the pending one, and gone between connections;
\* what is in effect or pending has its bit set.
TrustedBits ==
    /\ opened => usedFeatures \cap Trusted \subseteq Effective \cup Pending
    /\ opened => (Effective \cup Pending) \cap Feature \subseteq usedFeatures
    /\ socket_state \in {"Unconnected", "Connecting"} =>
          /\ usedFeatures \cap Trusted = {}
          /\ ~isConnected /\ ~authorized /\ ~devices
          /\ current_stream_feature = None
          /\ iqTracks = {}
    /\ opened => authorized = srvAuthorized

\* Features are offered after a header only, and TLS only on a plain connection.
OffersMatchLayers ==
    /\ "header" \in owed => activatable = {}
    /\ opened /\ tls = "encrypted" => "TLS" \notin activatable
    /\ "starttls" \in owed => tls = "plain"

ReportsCounted ==
    /\ socket_state \in {"Connecting", "Connected"} => reports = 0
    /\ socket_state = "Closing" => reports <= 1

StreamInv ==
    /\ Reachability
    /\ TracksMatchWire
    /\ OneStepAtATime
    /\ CurrentMatchesStep
    /\ OffersMatchLayers
    /\ TrustedBits
    /\ PingWhileConnected
    /\ NoGhostPresence

IInv == TypeOK /\ ReportsCounted /\ StreamInv

\* What the client does not react to: a SASL library that fails to start without
\* a word, and a refusal of compression, of binding or of a session.
Unheard ==
    \/ current_stream_feature = "SASL" /\ "error" \in SaslStart
    \/ current_stream_feature = "Zlib" /\ "compress" \in Refusals
    \/ current_stream_feature \in {"Bind", "Session"} /\ "iq" \in Refusals

\* An attempt to connect that the application has not heard the end of waits for
\* a lookup, the socket, the server or a step of the negotiation; the only one
\* that waits for nothing is stopped by what the client does not react to.
AttemptAnswered ==
    attempt => IF opened THEN Steps # {} \/ "close" \in owed \/ Unheard
                         ELSE lookups > 0 \/ socket_state \in {"Connecting", "Closing"}

SettleInv == IInv /\ AttemptAnswered

-----------------------------------------------------------------------------
(* Progress, and the abstract session                                      *)

\* Every call of connectToServer on a closed connection is answered: connected()
\* or disconnected() follows, even when the socket was still closing and open()
\* did nothing.
ConnectSettles == attempt ~> ~attempt

\* Every tracked request is answered or dropped with its connection.
RequestsSettle == \A r \in IqRequests : r \in iqTracks ~> r \notin iqTracks

\* The abstract session.  A closing connection is offline to the application's
\* eyes: it accepts nothing any more.
Session == INSTANCE ClientSession WITH
    phase <- IF ~opened THEN "offline"
             ELSE IF isConnected THEN "online"
             ELSE IF authorized THEN "authorized" ELSE "negotiating",
    secured <- IF opened THEN Effective ELSE {},
    approved <- opened /\ current_stream_feature \in {"Bind", "Session"}

\* Every behaviour of the stream is a session that keeps its promises.
ImplementsSession == Session!Spec

=============================================================================
