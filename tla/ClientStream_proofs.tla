------------------------- MODULE ClientStream_proofs -------------------------
(***************************************************************************)
(* Theorems about ClientStream for every set of requests, settings and     *)
(* outcomes.                                                               *)
(***************************************************************************)
EXTENDS ClientStream, TLAPS

USE DEF Feature, StreamFeatures, None, ConnectionRequests, Wire, IqRequests, SocketStates

THEOREM InitIInv == Init => IInv
  <1> SUFFICES ASSUME Init PROVE IInv
    OBVIOUS
  <1>1. CountersTypeOK /\ ReportsCounted
    BY MaxLookupsAssumption DEF Init, ConnInit, CountersTypeOK, ReportsCounted
  <1>2. TypeOK
    BY <1>1, FeatureConfigsAssumption DEF Init, ConnInit, TypeOK, ConnTypeOK
  <1>3. OneStepAtATime
    BY DEF Init, OneStepAtATime, Steps
  <1>4. CurrentMatchesStep
    BY DEF Init, CurrentMatchesStep, Request
  <1>5. QED
    BY <1>1, <1>2, <1>3, <1>4
       DEF Init, ConnInit, IInv, StreamInv, Reachability, TracksMatchWire, TrustedBits,
           OffersMatchLayers,
           PingWhileConnected, NoGhostPresence

LEMMA DisconnectedIInv ==
  ASSUME IInv, opened, NEW used \in SUBSET Feature, used \cap Trusted = {},
         NEW offered \in SUBSET StreamFeatures, EmitDisconnected(used, offered)
  PROVE  IInv'
  <1> USE DEF EmitDisconnected, Close, WireLost, QDisconnected, ReportDisconnected
  <1>1. reports = 0 /\ lookups \in 0 .. MaxLookups
    BY DEF IInv, StreamInv, TypeOK, CountersTypeOK, Reachability, ReportsCounted
  <1>2. CountersTypeOK' /\ ReportsCounted'
    BY <1>1 DEF CountersTypeOK, ReportsCounted
  <1>3. TypeOK'
    BY <1>2 DEF IInv, StreamInv, TypeOK, ConnTypeOK
  <1>4. OneStepAtATime'
    BY DEF OneStepAtATime, Steps
  <1>5. CurrentMatchesStep'
    BY DEF CurrentMatchesStep, Request
  <1>6. TrustedBits'
    BY DEF TrustedBits, Trusted
  <1>7. /\ Reachability' /\ TracksMatchWire' /\ OffersMatchLayers'
        /\ PingWhileConnected' /\ NoGhostPresence'
    BY DEF Reachability, TracksMatchWire, OffersMatchLayers, PingWhileConnected, NoGhostPresence
  <1>8. QED
    BY <1>2, <1>3, <1>4, <1>5, <1>6, <1>7 DEF IInv, StreamInv

LEMMA LostIInv ==
  ASSUME IInv, UnconnectedReported, socket_state # "Unconnected",
         socket_state' = "Unconnected", opened' = FALSE,
         socket_error' \in BOOLEAN, lookups' = lookups
  PROVE  IInv'
  <1> USE DEF UnconnectedReported, WireLost, QDisconnected, ReportDisconnected
  <1>1. reports \in 0 .. 1 /\ lookups \in 0 .. MaxLookups
    BY DEF IInv, StreamInv, TypeOK, ConnTypeOK, CountersTypeOK, ReportsCounted
  <1>2. CountersTypeOK' /\ ReportsCounted'
    BY <1>1 DEF CountersTypeOK, ReportsCounted
  <1>3. TypeOK'
    BY <1>2 DEF IInv, StreamInv, TypeOK, ConnTypeOK
  <1>4. OneStepAtATime'
    BY DEF OneStepAtATime, Steps
  <1>5. CurrentMatchesStep'
    BY DEF CurrentMatchesStep, Request
  <1>6. TrustedBits'
    BY DEF TrustedBits, Trusted
  <1>7. /\ Reachability' /\ TracksMatchWire' /\ OffersMatchLayers'
        /\ PingWhileConnected' /\ NoGhostPresence'
    BY DEF Reachability, TracksMatchWire, OffersMatchLayers, PingWhileConnected, NoGhostPresence
  <1>8. QED
    BY <1>2, <1>3, <1>4, <1>5, <1>6, <1>7 DEF IInv, StreamInv

\* The requests of the negotiation.
StepRequests == {"header", "starttls", "compress", "auth", "bind", "session"}

\* What holds when the element being handled has completed the step before.
Ready(rest, tracks) ==
    /\ opened /\ ~isConnected /\ tls # "handshake"
    /\ rest \in SUBSET owed /\ rest \cap StepRequests = {}
    /\ tracks = rest \cap IqRequests
    /\ usedFeatures \cap Trusted \subseteq Effective
    /\ Effective \subseteq usedFeatures

LEMMA FeaturesReady ==
  ASSUME IInv, NEW s, FeaturesReceived(s)
  PROVE  Ready(owed \ {"header"}, iqTracks)
  <1> USE DEF FeaturesReceived, Receives
  <1>1. /\ ~isConnected /\ tls # "handshake"
        /\ (owed \ {"header"}) \cap StepRequests = {}
    BY DEF IInv, StreamInv, OneStepAtATime, Steps, StepRequests
  <1>2. iqTracks = (owed \ {"header"}) \cap IqRequests
    BY RequestsAssumption DEF IInv, StreamInv, TracksMatchWire
  <1>3. Pending \cap Feature = {}
    BY DEF IInv, StreamInv, CurrentMatchesStep, Pending, Request, convertToFeature
  <1>4. usedFeatures \cap Trusted \subseteq Effective
    BY <1>3 DEF IInv, StreamInv, TrustedBits, Trusted
  <1>5. Effective \subseteq usedFeatures
    BY DEF IInv, StreamInv, TrustedBits, Effective
  <1>6. QED
    BY <1>1, <1>2, <1>4, <1>5 DEF Ready

LEMMA BindReady ==
  ASSUME IInv, BindResult
  PROVE  Ready(owed \ {"bind"}, iqTracks \ {"bind"})
  <1> USE DEF BindResult, Receives
  <1>1. /\ ~isConnected /\ tls # "handshake"
        /\ (owed \ {"bind"}) \cap StepRequests = {}
    BY DEF IInv, StreamInv, OneStepAtATime, Steps, StepRequests
  <1>2. iqTracks \ {"bind"} = (owed \ {"bind"}) \cap IqRequests
    BY RequestsAssumption DEF IInv, StreamInv, TracksMatchWire
  <1>3. Pending \cap Feature = {}
    BY DEF IInv, StreamInv, CurrentMatchesStep, Pending, Request, convertToFeature
  <1>4. usedFeatures \cap Trusted \subseteq Effective
    BY <1>3 DEF IInv, StreamInv, TrustedBits, Trusted
  <1>5. Effective \subseteq usedFeatures
    BY DEF IInv, StreamInv, TrustedBits, Effective
  <1>6. QED
    BY <1>1, <1>2, <1>4, <1>5 DEF Ready

LEMMA ActivatedIInv ==
  ASSUME IInv, NEW rest, NEW tracks, Ready(rest, tracks),
         NEW offered \in SUBSET StreamFeatures, tls = "encrypted" => "TLS" \notin offered,
         NEW f \in offered, NEW sent \in SUBSET {Request[f]},
         Activated(f, offered, rest, tracks, sent)
  PROVE  IInv'
  <1> USE DEF Activated, Ready, connVars, toldVars
  <1>1. /\ Request[f] \in Wire \cup ConnectionRequests
        /\ convertToFeature[f] \in Feature \cup {"InvalidFeature"}
    BY DEF Request, convertToFeature
  <1>2. CountersTypeOK' /\ ReportsCounted'
    BY DEF IInv, StreamInv, TypeOK, CountersTypeOK, ReportsCounted
  <1>3. TypeOK'
    <2>1. owed' \subseteq Wire \cup IqRequests /\ iqTracks' \subseteq IqRequests
      BY <1>1 DEF IInv, StreamInv, TypeOK
    <2>2. usedFeatures' \subseteq Feature
      BY <1>1 DEF IInv, StreamInv, TypeOK
    <2>3. QED
      BY <1>2, <2>1, <2>2 DEF IInv, StreamInv, TypeOK, ConnTypeOK
  <1>4. OneStepAtATime'
    BY DEF OneStepAtATime, Steps, StepRequests
  <1>5. CurrentMatchesStep'
    <2>1. "header" \notin owed'
      BY <1>1 DEF StepRequests, Request
    <2>2. ASSUME NEW g \in StreamFeatures, Request[g] \in owed'
          PROVE  current_stream_feature' = g
      BY <2>2 DEF StepRequests, Request
    <2>3. QED
      BY <2>1, <2>2 DEF CurrentMatchesStep
  <1>6. TrustedBits'
    BY <1>1 DEF IInv, StreamInv, Reachability, TrustedBits, Trusted, Effective, Pending
  <1>7. TracksMatchWire'
    BY <1>1, RequestsAssumption DEF TracksMatchWire
  <1>8. Reachability' /\ PingWhileConnected' /\ NoGhostPresence'
    BY DEF IInv, StreamInv, Reachability, PingWhileConnected, NoGhostPresence
  <1>9. OffersMatchLayers'
    <2>1. "header" \notin owed' /\ UNCHANGED tls /\ activatable' = offered
      BY <1>1 DEF StepRequests, Request
    <2>2. "starttls" \in owed' => f = "TLS"
      BY DEF StepRequests, Request
    <2>3. tls \in {"plain", "encrypted"}
      BY DEF IInv, TypeOK
    <2>4. QED
      BY <2>1, <2>2, <2>3 DEF OffersMatchLayers
  <1>10. QED
    BY <1>2, <1>3, <1>4, <1>5, <1>6, <1>7, <1>8, <1>9 DEF IInv, StreamInv

LEMMA activateFeatureIInv ==
  ASSUME IInv, NEW rest, NEW tracks, Ready(rest, tracks),
         NEW current, NEW offered \in SUBSET StreamFeatures,
         tls = "encrypted" => "TLS" \notin offered,
         activateFeature(current, offered, rest, tracks)
  PROVE  IInv'
  <1>1. CASE EmitDisconnected({}, offered)
    BY <1>1, DisconnectedIInv DEF Ready
  <1>2. ASSUME NEW f \in Candidates(current, offered), Activate(f, offered, rest, tracks)
        PROVE  IInv'
    <2>1. f \in offered
      BY <1>2 DEF Candidates
    <2>2. ASSUME NEW sent \in SUBSET {Request[f]}, Activated(f, offered, rest, tracks, sent)
          PROVE  IInv'
      BY <2>1, <2>2, ActivatedIInv
    <2>3. CASE /\ f = "SASL" /\ "failed" \in SaslStart
               /\ EmitDisconnected({convertToFeature[f]}, offered)
      <3>1. convertToFeature[f] = "Authorization"
        BY <2>3 DEF convertToFeature
      <3>2. {convertToFeature[f]} \in SUBSET Feature /\ {convertToFeature[f]} \cap Trusted = {}
        BY <2>3, <3>1 DEF Trusted
      <3>3. QED
        BY <2>3, <3>2, DisconnectedIInv DEF Ready
    <2>4. QED
      BY <1>2, <2>2, <2>3 DEF Activate
  <1>3. QED
    BY <1>1, <1>2 DEF activateFeature

-----------------------------------------------------------------------------
(* Every step preserves the invariant                                      *)

\* A step that neither dials, nor reports, nor ends a lookup.
LEMMA CountersKept ==
  ASSUME IInv, UNCHANGED <<socket_state, lookups, reports>>
  PROVE  CountersTypeOK' /\ ReportsCounted'
  BY DEF IInv, TypeOK, CountersTypeOK, ReportsCounted

\* Dialling changes nothing but an idle socket, of which the invariant of the
\* stream says the same as of one that connects.
LEMMA DialStreamInv ==
  ASSUME StreamInv, UNCHANGED <<opened, clientVars, serverVars>>,
         \/ socket_state' = socket_state
         \/ socket_state = "Unconnected" /\ socket_state' = "Connecting"
  PROVE  StreamInv'
  <1> USE DEF clientVars, serverVars
  <1>1. Reachability'
    BY DEF StreamInv, Reachability
  <1>2. /\ socket_state' \in {"Unconnected", "Connecting"}
              => socket_state \in {"Unconnected", "Connecting"}
        /\ Effective' = Effective /\ Pending' = Pending /\ Steps' = Steps
    BY DEF Effective, Pending, Steps
  <1>3. TrustedBits'
    BY <1>2 DEF StreamInv, TrustedBits, Trusted
  <1>4. TracksMatchWire' /\ OneStepAtATime' /\ CurrentMatchesStep'
    BY <1>2 DEF StreamInv, TracksMatchWire, OneStepAtATime, CurrentMatchesStep
  <1>5. OffersMatchLayers' /\ PingWhileConnected' /\ NoGhostPresence'
    BY DEF StreamInv, OffersMatchLayers, PingWhileConnected, NoGhostPresence
  <1>6. QED
    BY <1>1, <1>3, <1>4, <1>5 DEF StreamInv

\* The two steps that may dial.
LEMMA DialIInv ==
  ASSUME IInv, connectToServer \/ LookupFinished
  PROVE  CountersTypeOK' /\ ReportsCounted'
  <1> USE DEF connectToServer, LookupFinished, Open, DoLookup, LookupResultsReady,
              ConnectToHost, NewRound, connVars, toldVars
  <1>1. \/ socket_state' = socket_state /\ reports' = reports
        \/ socket_state' = "Connecting" /\ reports' = 0
    OBVIOUS
  <1>2. \/ lookups' = lookups
        \/ lookups < MaxLookups /\ lookups' = lookups + 1
        \/ lookups > 0 /\ lookups' = lookups - 1
    OBVIOUS
  <1>3. QED
    BY <1>1, <1>2, MaxLookupsAssumption
       DEF IInv, TypeOK, CountersTypeOK, ReportsCounted

THEOREM NextIInv == IInv /\ [Next]_vars => IInv'
  <1> SUFFICES ASSUME IInv, [Next]_vars PROVE IInv'
    OBVIOUS
  <1>1. ASSUME connectToServer
        PROVE  IInv'
    <2> USE <1>1 DEF connectToServer, Open, DoLookup, ConnectToHost, NewRound, connVars, clientVars,
            serverVars, toldVars
    <2>1. CountersTypeOK' /\ ReportsCounted'
      BY DialIInv
    <2>2. TypeOK'
      <3>1. ConnTypeOK'
        BY DEF IInv, TypeOK, ConnTypeOK
      <3>2. attempt' \in BOOLEAN /\ UNCHANGED <<clientVars, serverVars>>
        BY DEF IInv, TypeOK
      <3>3. QED
        BY <2>1, <3>1, <3>2 DEF IInv, TypeOK
    <2>3. StreamInv'
      BY DialStreamInv DEF IInv
    <2>4. QED
      BY <2>1, <2>2, <2>3 DEF IInv
  <1>2. ASSUME LookupFinished
        PROVE  IInv'
    <2> USE <1>2 DEF LookupFinished, LookupResultsReady, ConnectToHost, NewRound, connVars,
            clientVars, serverVars, toldVars
    <2>1. CountersTypeOK' /\ ReportsCounted'
      BY DialIInv
    <2>2. TypeOK'
      <3>1. ConnTypeOK'
        BY DEF IInv, TypeOK, ConnTypeOK
      <3>2. QED
        BY <2>1, <3>1 DEF IInv, TypeOK
    <2>3. StreamInv'
      BY DialStreamInv DEF IInv
    <2>4. QED
      BY <2>1, <2>2, <2>3 DEF IInv
  <1>3. ASSUME QConnected
        PROVE  IInv'
    <2> USE <1>3 DEF QConnected, SocketConnected, toldVars
    <2>1. CountersTypeOK' /\ ReportsCounted'
      BY DEF IInv, TypeOK, CountersTypeOK, ReportsCounted
    <2>2. TypeOK'
      <3>1. ConnTypeOK'
        BY DEF IInv, TypeOK, ConnTypeOK
      <3>2. QED
        BY <2>1, <3>1 DEF IInv, TypeOK
    <2>3. StreamInv'
      BY RequestsAssumption
         DEF IInv, StreamInv, TypeOK, ConnTypeOK, Reachability, TracksMatchWire,
             PingWhileConnected, NoGhostPresence, OneStepAtATime, Steps, CurrentMatchesStep,
             OffersMatchLayers, TrustedBits, Trusted, Effective, Pending, convertToFeature, Request
    <2>4. QED
      BY <2>1, <2>2, <2>3 DEF IInv
  <1>4. ASSUME ConnectionRefused
        PROVE  IInv'
    BY <1>4, LostIInv DEF ConnectionRefused, ConnectFails, IInv, TypeOK, ConnTypeOK, StreamInv,
       Reachability
  <1>5. ASSUME ConnectionLost
        PROVE  IInv'
    BY <1>5, LostIInv DEF ConnectionLost, SocketLost, IInv, TypeOK, ConnTypeOK, StreamInv,
       Reachability
  <1>6. ASSUME SocketClosed
        PROVE  IInv'
    BY <1>6, LostIInv DEF SocketClosed, CloseEnds, IInv, TypeOK, ConnTypeOK, StreamInv, Reachability
  <1>7. ASSUME ConnectionLostSlowly
        PROVE  IInv'
    <2> USE <1>7 DEF ConnectionLostSlowly, SocketLost, WireLost, clientVars, toldVars
    <2>1. CountersTypeOK' /\ ReportsCounted'
      BY DEF IInv, TypeOK, CountersTypeOK, ReportsCounted
    <2>2. TypeOK'
      <3>1. ConnTypeOK'
        BY DEF IInv, TypeOK, ConnTypeOK
      <3>2. QED
        BY <2>1, <3>1 DEF IInv, TypeOK
    <2>3. StreamInv'
      BY RequestsAssumption
         DEF IInv, StreamInv, TypeOK, ConnTypeOK, Reachability, TracksMatchWire,
             PingWhileConnected, NoGhostPresence, OneStepAtATime, Steps, CurrentMatchesStep,
             OffersMatchLayers, TrustedBits, Trusted, Effective, Pending, convertToFeature, Request
    <2>4. QED
      BY <2>1, <2>2, <2>3 DEF IInv
  <1>8. ASSUME NEW s \in SUBSET StreamFeatures, FeaturesReceived(s)
        PROVE  IInv'
    <2> DEFINE rest == owed \ {"header"}
    <2>1. Ready(rest, iqTracks)
      BY <1>8, FeaturesReady
    <2>2. activatable \cup s \in SUBSET StreamFeatures
      BY <1>8 DEF IInv, TypeOK
    <2>3. tls = "encrypted" => "TLS" \notin activatable \cup s
      BY <1>8 DEF FeaturesReceived, Receives, Offers, IInv, StreamInv, OffersMatchLayers
    <2>4. QED
      BY <1>8, <2>1, <2>2, <2>3, activateFeatureIInv DEF FeaturesReceived
  <1>9. ASSUME ProceedReceived
        PROVE  IInv'
    <2> USE <1>9 DEF ProceedReceived, Receives, connVars, clientVars, toldVars
    <2>1. CountersTypeOK' /\ ReportsCounted'
      BY CountersKept
    <2>2. TypeOK'
      BY <2>1 DEF IInv, TypeOK, ConnTypeOK
    <2>3. StreamInv'
      BY RequestsAssumption
         DEF IInv, StreamInv, TypeOK, ConnTypeOK, Reachability, TracksMatchWire,
             PingWhileConnected, NoGhostPresence, OneStepAtATime, Steps, CurrentMatchesStep,
             OffersMatchLayers, TrustedBits, Trusted, Effective, Pending, convertToFeature, Request
    <2>4. QED
      BY <2>1, <2>2, <2>3 DEF IInv
  <1>10. ASSUME TlsRefused
        PROVE  IInv'
    <2> USE <1>10 DEF TlsRefused, Receives, connVars, clientVars, toldVars
    <2>1. CountersTypeOK' /\ ReportsCounted'
      BY CountersKept
    <2>2. TypeOK'
      BY <2>1 DEF IInv, TypeOK, ConnTypeOK
    <2>3. StreamInv'
      BY RequestsAssumption
         DEF IInv, StreamInv, TypeOK, ConnTypeOK, Reachability, TracksMatchWire,
             PingWhileConnected, NoGhostPresence, OneStepAtATime, Steps, CurrentMatchesStep,
             OffersMatchLayers, TrustedBits, Trusted, Effective, Pending, convertToFeature, Request
    <2>4. QED
      BY <2>1, <2>2, <2>3 DEF IInv
  <1>11. ASSUME onHandshaken
        PROVE  IInv'
    <2> USE <1>11 DEF onHandshaken, ResendHeader, connVars, toldVars
    <2>1. CountersTypeOK' /\ ReportsCounted'
      BY CountersKept
    <2>2. TypeOK'
      BY <2>1 DEF IInv, TypeOK, ConnTypeOK
    <2>3. StreamInv'
      BY RequestsAssumption
         DEF IInv, StreamInv, TypeOK, ConnTypeOK, Reachability, TracksMatchWire,
             PingWhileConnected, NoGhostPresence, OneStepAtATime, Steps, CurrentMatchesStep,
             OffersMatchLayers, TrustedBits, Trusted, Effective, Pending, convertToFeature, Request
    <2>4. QED
      BY <2>1, <2>2, <2>3 DEF IInv
  <1>12. ASSUME CompressedReceived
        PROVE  IInv'
    <2> USE <1>12 DEF CompressedReceived, ResendHeader, Receives, connVars, toldVars
    <2>1. CountersTypeOK' /\ ReportsCounted'
      BY CountersKept
    <2>2. TypeOK'
      BY <2>1 DEF IInv, TypeOK, ConnTypeOK
    <2>3. StreamInv'
      BY RequestsAssumption
         DEF IInv, StreamInv, TypeOK, ConnTypeOK, Reachability, TracksMatchWire,
             PingWhileConnected, NoGhostPresence, OneStepAtATime, Steps, CurrentMatchesStep,
             OffersMatchLayers, TrustedBits, Trusted, Effective, Pending, convertToFeature, Request
    <2>4. QED
      BY <2>1, <2>2, <2>3 DEF IInv
  <1>13. ASSUME CompressionRefused
        PROVE  IInv'
    <2> USE <1>13 DEF CompressionRefused, Receives, connVars, clientVars, toldVars
    <2>1. CountersTypeOK' /\ ReportsCounted'
      BY CountersKept
    <2>2. TypeOK'
      BY <2>1 DEF IInv, TypeOK, ConnTypeOK
    <2>3. StreamInv'
      BY RequestsAssumption
         DEF IInv, StreamInv, TypeOK, ConnTypeOK, Reachability, TracksMatchWire,
             PingWhileConnected, NoGhostPresence, OneStepAtATime, Steps, CurrentMatchesStep,
             OffersMatchLayers, TrustedBits, Trusted, Effective, Pending, convertToFeature, Request
    <2>4. QED
      BY <2>1, <2>2, <2>3 DEF IInv
  <1>14. ASSUME AuthorizationFails
        PROVE  IInv'
    BY <1>14, DisconnectedIInv DEF AuthorizationFails, Receives, IInv, TypeOK
  <1>15. ASSUME SuccessReceived
        PROVE  IInv'
    <2> USE <1>15 DEF SuccessReceived, ResendHeader, Receives, connVars, toldVars
    <2>1. CountersTypeOK' /\ ReportsCounted'
      BY CountersKept
    <2>2. TypeOK'
      BY <2>1 DEF IInv, TypeOK, ConnTypeOK
    <2>3. StreamInv'
      BY RequestsAssumption
         DEF IInv, StreamInv, TypeOK, ConnTypeOK, Reachability, TracksMatchWire,
             PingWhileConnected, NoGhostPresence, OneStepAtATime, Steps, CurrentMatchesStep,
             OffersMatchLayers, TrustedBits, Trusted, Effective, Pending, convertToFeature, Request
    <2>4. QED
      BY <2>1, <2>2, <2>3 DEF IInv
  <1>16. ASSUME BindResult
        PROVE  IInv'
    <2> DEFINE rest == owed \ {"bind"}
               tracks == iqTracks \ {"bind"}
    <2>1. Ready(rest, tracks)
      BY <1>16, BindReady
    <2>2. activatable \in SUBSET StreamFeatures
      BY DEF IInv, TypeOK
    <2>3. tls = "encrypted" => "TLS" \notin activatable
      BY <1>16 DEF BindResult, Receives, IInv, StreamInv, OffersMatchLayers
    <2>4. QED
      BY <1>16, <2>1, <2>2, <2>3, activateFeatureIInv DEF BindResult
  <1>17. ASSUME SessionResult
        PROVE  IInv'
    <2> USE <1>17 DEF SessionResult, Receives, connVars
    <2>1. CountersTypeOK' /\ ReportsCounted'
      BY CountersKept
    <2>2. TypeOK'
      <3>1. owed' \subseteq Wire \cup IqRequests /\ iqTracks' \subseteq IqRequests
        BY DEF IInv, TypeOK
      <3>2. isConnected' \in BOOLEAN /\ pingTimer' \in BOOLEAN /\ attempt' \in BOOLEAN
        BY DEF IInv, TypeOK
      <3>3. UNCHANGED <<socket_state, opened, socket_error, authorized, usedFeatures, configs,
                        current_stream_feature, activatable, devices, presence, pingInterval,
                        tls, srvAuthorized, srvPresence>>
        OBVIOUS
      <3>4. QED
        BY ONLY IInv, <2>1, <3>1, <3>2, <3>3 DEF IInv, TypeOK, ConnTypeOK
    <2>3. StreamInv'
      BY RequestsAssumption
         DEF IInv, StreamInv, TypeOK, ConnTypeOK, Reachability, TracksMatchWire,
             PingWhileConnected, NoGhostPresence, OneStepAtATime, Steps, CurrentMatchesStep,
             OffersMatchLayers, TrustedBits, Trusted, Effective, Pending, convertToFeature, Request
    <2>4. QED
      BY <2>1, <2>2, <2>3 DEF IInv
  <1>18. ASSUME NEW r \in IqRequests, ReplyReceived(r)
        PROVE  IInv'
    <2> USE <1>18 DEF ReplyReceived, Receives, connVars, toldVars
    <2>1. CountersTypeOK' /\ ReportsCounted'
      BY CountersKept
    <2>2. TypeOK'
      <3>1. owed' \subseteq Wire \cup IqRequests /\ iqTracks' \subseteq IqRequests
        BY DEF IInv, TypeOK
      <3>2. QED
        BY <2>1, <3>1 DEF IInv, TypeOK, ConnTypeOK
    <2>3. StreamInv'
      BY RequestsAssumption
         DEF IInv, StreamInv, TypeOK, ConnTypeOK, Reachability, TracksMatchWire,
             PingWhileConnected, NoGhostPresence, OneStepAtATime, Steps, CurrentMatchesStep,
             OffersMatchLayers, TrustedBits, Trusted, Effective, Pending, convertToFeature, Request
    <2>4. QED
      BY <2>1, <2>2, <2>3 DEF IInv
  <1>19. ASSUME disconnectFromServer
        PROVE  IInv'
    <2> USE <1>19 DEF disconnectFromServer, PresenceSet, connVars, toldVars
    <2>1. CountersTypeOK' /\ ReportsCounted'
      BY CountersKept
    <2>2. TypeOK'
      BY <2>1 DEF IInv, TypeOK, ConnTypeOK
    <2>3. StreamInv'
      BY RequestsAssumption
         DEF IInv, StreamInv, TypeOK, ConnTypeOK, Reachability, TracksMatchWire,
             PingWhileConnected, NoGhostPresence, OneStepAtATime, Steps, CurrentMatchesStep,
             OffersMatchLayers, TrustedBits, Trusted, Effective, Pending, convertToFeature, Request
    <2>4. QED
      BY <2>1, <2>2, <2>3 DEF IInv
  <1>20. ASSUME forceDisconnect
        PROVE  IInv'
    BY <1>20, DisconnectedIInv DEF forceDisconnect, Receives, IInv, TypeOK
  <1>21. ASSUME NEW r \in Requests, sendIQ(r)
        PROVE  IInv'
    <2> USE <1>21 DEF sendIQ, connVars, toldVars
    <2>1. CountersTypeOK' /\ ReportsCounted'
      BY CountersKept
    <2>2. TypeOK'
      <3>1. owed' \subseteq Wire \cup IqRequests /\ iqTracks' \subseteq IqRequests
        BY DEF IInv, TypeOK
      <3>2. QED
        BY <2>1, <3>1 DEF IInv, TypeOK, ConnTypeOK
    <2>3. StreamInv'
      BY RequestsAssumption
         DEF IInv, StreamInv, TypeOK, ConnTypeOK, Reachability, TracksMatchWire,
             PingWhileConnected, NoGhostPresence, OneStepAtATime, Steps, CurrentMatchesStep,
             OffersMatchLayers, TrustedBits, Trusted, Effective, Pending, convertToFeature, Request
    <2>4. QED
      BY <2>1, <2>2, <2>3 DEF IInv
  <1>22. ASSUME NEW type \in {"Available", "Unavailable"}, NEW again \in BOOLEAN,
               setPresence(type, again)
        PROVE  IInv'
    <2> USE <1>22 DEF setPresence, PresenceSet, connVars, toldVars
    <2>1. CountersTypeOK' /\ ReportsCounted'
      BY CountersKept
    <2>2. TypeOK'
      BY <2>1 DEF IInv, TypeOK, ConnTypeOK
    <2>3. StreamInv'
      BY RequestsAssumption
         DEF IInv, StreamInv, TypeOK, ConnTypeOK, Reachability, TracksMatchWire,
             PingWhileConnected, NoGhostPresence, OneStepAtATime, Steps, CurrentMatchesStep,
             OffersMatchLayers, TrustedBits, Trusted, Effective, Pending, convertToFeature, Request
    <2>4. QED
      BY <2>1, <2>2, <2>3 DEF IInv
  <1>23. ASSUME NEW c \in FeatureConfigs, setFeatureConfig(c)
        PROVE  IInv'
    <2> USE <1>23 DEF setFeatureConfig, connVars, serverVars, toldVars
    <2>1. CountersTypeOK' /\ ReportsCounted'
      BY CountersKept
    <2>2. TypeOK'
      BY <2>1 DEF IInv, TypeOK, ConnTypeOK
    <2>3. StreamInv'
      BY RequestsAssumption
         DEF IInv, StreamInv, TypeOK, ConnTypeOK, Reachability, TracksMatchWire,
             PingWhileConnected, NoGhostPresence, OneStepAtATime, Steps, CurrentMatchesStep,
             OffersMatchLayers, TrustedBits, Trusted, Effective, Pending, convertToFeature, Request
    <2>4. QED
      BY <2>1, <2>2, <2>3 DEF IInv
  <1>24. ASSUME NEW b \in BOOLEAN, setPingInterval(b)
        PROVE  IInv'
    <2> USE <1>24 DEF setPingInterval, connVars, serverVars, toldVars
    <2>1. CountersTypeOK' /\ ReportsCounted'
      BY CountersKept
    <2>2. TypeOK'
      BY <2>1 DEF IInv, TypeOK, ConnTypeOK
    <2>3. StreamInv'
      BY RequestsAssumption
         DEF IInv, StreamInv, TypeOK, ConnTypeOK, Reachability, TracksMatchWire,
             PingWhileConnected, NoGhostPresence, OneStepAtATime, Steps, CurrentMatchesStep,
             OffersMatchLayers, TrustedBits, Trusted, Effective, Pending, convertToFeature, Request
    <2>4. QED
      BY <2>1, <2>2, <2>3 DEF IInv
  <1>25. CASE UNCHANGED vars
    <2> USE <1>25 DEF vars, connVars, clientVars, serverVars, toldVars
    <2>1. CountersTypeOK' /\ ReportsCounted'
      BY CountersKept
    <2>2. TypeOK'
      BY <2>1 DEF IInv, TypeOK, ConnTypeOK
    <2>3. StreamInv'
      BY DEF IInv, StreamInv, TypeOK, ConnTypeOK, Reachability, TracksMatchWire,
             PingWhileConnected, NoGhostPresence, OneStepAtATime, Steps, CurrentMatchesStep,
             OffersMatchLayers, TrustedBits, Trusted, Effective, Pending, convertToFeature, Request
    <2>4. QED
      BY <2>1, <2>2, <2>3 DEF IInv
  <1>26. QED
    BY <1>1, <1>2, <1>3, <1>4, <1>5, <1>6, <1>7, <1>8, <1>9, <1>10, <1>11, <1>12, <1>13, <1>14,
       <1>15, <1>16, <1>17, <1>18, <1>19, <1>20, <1>21, <1>22, <1>23, <1>24, <1>25
       DEF Next, Socket, Negotiation, Application

\* The inductive invariant holds of every behaviour.
THEOREM Invariance == Spec => []IInv
  <1>1. Init => IInv
    BY InitIInv
  <1>2. IInv /\ [Next]_vars => IInv'
    BY NextIInv
  <1>3. QED
    BY <1>1, <1>2, PTL DEF Spec

-----------------------------------------------------------------------------
(* The invariants the runs check                                           *)

\* Every variable keeps its type.
THEOREM TypeCorrectness == Spec => []TypeOK
  BY Invariance, PTL DEF IInv

\* On every live connection the tracked replies are those the server owes.
THEOREM RepliesTracked == Spec => []TracksMatchWire
  BY Invariance, PTL DEF IInv, StreamInv

\* The negotiation never has two steps under way.
THEOREM OneStep == Spec => []OneStepAtATime
  BY Invariance, PTL DEF IInv, StreamInv

\* The ping timer runs exactly while it should.
THEOREM PingTimer == Spec => []PingWhileConnected
  BY Invariance, PTL DEF IInv, StreamInv

\* The server never thinks the client more available than the client does.
THEOREM Presence == Spec => []NoGhostPresence
  BY Invariance, PTL DEF IInv, StreamInv

\* disconnected() is reported at most twice, and never on an open connection.
THEOREM Reports == Spec => []ReportDiscipline
  <1>1. IInv => ReportDiscipline
    BY DEF IInv, TypeOK, CountersTypeOK, ConnTypeOK, StreamInv, Reachability,
           ReportsCounted, ReportDiscipline
  <1>2. QED
    BY <1>1, Invariance, PTL

\* If the SASL library always starts or says nothing, nothing of a connection
\* survives it.
THEOREM Clean == "failed" \notin SaslStart => (Spec => []CleanSlate)
  <1> SUFFICES ASSUME "failed" \notin SaslStart PROVE Spec => []CleanSlate
    OBVIOUS
  <1>1. IInv => CleanSlate
    BY DEF IInv, TypeOK, StreamInv, TrustedBits, Trusted, PingWhileConnected, CleanSlate
  <1>2. QED
    BY <1>1, Invariance, PTL

\* Under the same assumption isFeatureActivated() is right on every connected client.
THEOREM UsedTrue == "failed" \notin SaslStart => (Spec => []UsedMeansEffective)
  <1> SUFFICES ASSUME "failed" \notin SaslStart PROVE Spec => []UsedMeansEffective
    OBVIOUS
  <1>1. IInv => UsedMeansEffective
    <2> SUFFICES ASSUME IInv, opened, isConnected PROVE usedFeatures = Effective
      BY DEF UsedMeansEffective
    <2>1. Pending = {"InvalidFeature"}
      BY DEF IInv, StreamInv, CurrentMatchesStep, Pending, convertToFeature
    <2>2. usedFeatures \subseteq Effective
      BY <2>1 DEF IInv, TypeOK, StreamInv, TrustedBits, Trusted
    <2>3. Effective \subseteq usedFeatures
      BY DEF IInv, StreamInv, TrustedBits, Effective
    <2>4. QED
      BY <2>2, <2>3
  <1>2. QED
    BY <1>1, Invariance, PTL

-----------------------------------------------------------------------------
(* The damage of a SASL library that fails to start                        *)

\* A connection that TLS was requested on and is still plain has the answer to
\* come, or, after a refusal, its end.
TlsAwaited ==
    opened /\ current_stream_feature = "TLS" /\ tls = "plain" =>
        owed \cap {"starttls", "close"} # {}

\* Only TLS is requested by starttls, and every other feature leaves the
\* antecedent of TlsAwaited false.
LEMMA ActivationAwaited ==
  ASSUME NEW current, NEW offered, NEW rest, NEW tracks,
         activateFeature(current, offered, rest, tracks)
  PROVE  TlsAwaited'
  <1>1. CASE EmitDisconnected({}, offered)
    BY <1>1 DEF EmitDisconnected, Close, TlsAwaited
  <1>2. ASSUME NEW f \in Candidates(current, offered), Activate(f, offered, rest, tracks)
        PROVE  TlsAwaited'
    <2>1. CASE EmitDisconnected({convertToFeature[f]}, offered)
      BY <2>1 DEF EmitDisconnected, Close, TlsAwaited
    <2>2. CASE f = "SASL" /\ Activated(f, offered, rest, tracks, {})
      BY <2>2 DEF Activated, TlsAwaited
    <2>3. CASE Activated(f, offered, rest, tracks, {Request[f]})
      BY <2>3 DEF Activated, Request, TlsAwaited
    <2>4. QED
      BY <1>2, <2>1, <2>2, <2>3 DEF Activate
  <1>3. QED
    BY <1>1, <1>2 DEF activateFeature

\* Every step keeps the answer, or the end of the stream, to come.
LEMMA NextAwaited == IInv /\ TlsAwaited /\ [Next]_vars => TlsAwaited'
  <1> SUFFICES ASSUME IInv, TlsAwaited, [Next]_vars PROVE TlsAwaited'
    OBVIOUS
  <1> USE DEF TlsAwaited
  <1>1. CASE Socket
    <2>1. CASE LookupFinished
      BY <2>1 DEF LookupFinished, LookupResultsReady, clientVars, serverVars
    <2>2. CASE QConnected
      BY <2>2 DEF QConnected, SocketConnected, IInv, StreamInv, TrustedBits
    <2>3. CASE ConnectionRefused \/ ConnectionLost \/ SocketClosed
      BY <2>3 DEF ConnectionRefused, ConnectionLost, SocketClosed, UnconnectedReported,
                  QDisconnected
    <2>4. CASE ConnectionLostSlowly
      BY <2>4 DEF ConnectionLostSlowly, SocketLost
    <2>5. QED
      BY <1>1, <2>1, <2>2, <2>3, <2>4 DEF Socket
  <1>2. CASE Negotiation
    <2>1. ASSUME NEW s \in SUBSET StreamFeatures, FeaturesReceived(s) PROVE TlsAwaited'
      BY <2>1, ActivationAwaited DEF FeaturesReceived
    <2>2. CASE BindResult
      BY <2>2, ActivationAwaited DEF BindResult
    <2>3. CASE ProceedReceived \/ TlsRefused \/ onHandshaken
      BY <2>3 DEF ProceedReceived, TlsRefused, onHandshaken, clientVars
    <2>4. CASE CompressedReceived \/ CompressionRefused
      BY <2>4 DEF CompressedReceived, CompressionRefused, ResendHeader, clientVars, connVars
    <2>5. CASE AuthorizationFails
      BY <2>5 DEF AuthorizationFails, EmitDisconnected, Close
    <2>6. CASE SuccessReceived \/ SessionResult
      BY <2>6 DEF SuccessReceived, SessionResult, ResendHeader, connVars
    <2>7. ASSUME NEW r \in IqRequests, ReplyReceived(r) PROVE TlsAwaited'
      BY <2>7, RequestsAssumption DEF ReplyReceived, connVars
    <2>8. QED
      BY <1>2, <2>1, <2>2, <2>3, <2>4, <2>5, <2>6, <2>7 DEF Negotiation
  <1>3. CASE Application
    <2>1. CASE connectToServer
      BY <2>1 DEF connectToServer, Open, DoLookup, ConnectToHost, IInv, StreamInv, Reachability,
                  connVars, clientVars, serverVars
    <2>2. CASE disconnectFromServer
      BY <2>2 DEF disconnectFromServer, connVars
    <2>3. CASE forceDisconnect
      BY <2>3 DEF forceDisconnect, EmitDisconnected, Close
    <2>4. ASSUME NEW r \in Requests, sendIQ(r) PROVE TlsAwaited'
      BY <2>4 DEF sendIQ, connVars
    <2>5. ASSUME NEW type, NEW again, setPresence(type, again) PROVE TlsAwaited'
      BY <2>5 DEF setPresence, connVars
    <2>6. ASSUME NEW c, setFeatureConfig(c) PROVE TlsAwaited'
      BY <2>6 DEF setFeatureConfig, connVars, serverVars
    <2>7. ASSUME NEW b, setPingInterval(b) PROVE TlsAwaited'
      BY <2>7 DEF setPingInterval, connVars, serverVars
    <2>8. QED
      BY <1>3, <2>1, <2>2, <2>3, <2>4, <2>5, <2>6, <2>7 DEF Application
  <1>4. CASE UNCHANGED vars
    BY <1>4 DEF vars, connVars, clientVars, serverVars
  <1>5. QED
    BY <1>1, <1>2, <1>3, <1>4 DEF Next

\* However the SASL library may start: between connections at most the
\* Authorization bit is left, and the Encryption bit of an open connection is
\* true once TLS is neither awaited nor refused.
THEOREM StrayBit == Spec => []StrayBitContained
  <1>1. Init => IInv /\ TlsAwaited
    BY InitIInv DEF Init, ConnInit, TlsAwaited
  <1>2. IInv /\ TlsAwaited => StrayBitContained
    <2> SUFFICES ASSUME IInv, TlsAwaited PROVE StrayBitContained
      OBVIOUS
    <2>1. usedFeatures \subseteq Feature /\ Feature \ {"Authorization"} \subseteq Trusted
      BY DEF IInv, TypeOK, Trusted
    <2>2. socket_state \in {"Unconnected", "Connecting"} => usedFeatures \subseteq {"Authorization"}
      BY <2>1 DEF IInv, StreamInv, TrustedBits
    <2>3. ASSUME opened, owed \cap {"starttls", "close"} = {}, "Encryption" \in usedFeatures
          PROVE  tls # "plain"
      <3>1. "Encryption" \in Effective \cup Pending
        BY <2>1, <2>3 DEF IInv, StreamInv, TrustedBits
      <3>2. CASE "Encryption" \in Effective
        BY <3>2 DEF Effective
      <3>3. CASE "Encryption" \in Pending
        <4>1. current_stream_feature = "TLS"
          BY <3>3 DEF IInv, TypeOK, Pending, convertToFeature
        <4>2. QED
          BY <2>3, <4>1 DEF TlsAwaited
      <3>4. QED
        BY <3>1, <3>2, <3>3
    <2>4. QED
      BY <2>2, <2>3 DEF StrayBitContained
  <1>3. QED
    BY <1>1, <1>2, NextIInv, NextAwaited, PTL DEF Spec

-----------------------------------------------------------------------------
(* What a feature finds in effect when it begins                           *)

\* A feature is begun by activateFeature alone, which checks its prerequisites;
\* and the bits it checks are true.
LEMMA ActivationChecked ==
  ASSUME IInv, NEW rest, NEW tracks, Ready(rest, tracks), NEW current, NEW offered,
         activateFeature(current, offered, rest, tracks),
         NEW f \in StreamFeatures, Begins(f)
  PROVE  Forced \cap Prerequisites(f) \cap Trusted \subseteq Effective
  <1>1. checkFeatures(f)
    BY DEF activateFeature, Activate, Activated, EmitDisconnected, QDisconnected, Begins
  <1>2. QED
    BY <1>1 DEF checkFeatures, Forced, Ready

LEMMA BeginsChecked ==
  ASSUME IInv, [Next]_vars, NEW f \in StreamFeatures, Begins(f)
  PROVE  Forced \cap Prerequisites(f) \cap Trusted \subseteq Effective
  <1>1. ASSUME NEW s \in SUBSET StreamFeatures, FeaturesReceived(s)
        PROVE  Forced \cap Prerequisites(f) \cap Trusted \subseteq Effective
    BY <1>1, FeaturesReady, ActivationChecked DEF FeaturesReceived
  <1>2. ASSUME BindResult
        PROVE  Forced \cap Prerequisites(f) \cap Trusted \subseteq Effective
    BY <1>2, BindReady, ActivationChecked DEF BindResult
  <1>3. CASE Socket
    BY <1>3 DEF Begins, Socket, LookupFinished, QConnected, ConnectionRefused, ConnectionLost,
           ConnectionLostSlowly, SocketClosed, UnconnectedReported, QDisconnected, clientVars
  <1>4. CASE Application
    BY <1>4 DEF Begins, Application, connectToServer, disconnectFromServer, forceDisconnect,
           sendIQ, setPresence, setFeatureConfig, setPingInterval, EmitDisconnected,
           QDisconnected, clientVars
  <1>5. CASE UNCHANGED vars
    BY <1>5 DEF Begins, vars, clientVars
  <1>6. CASE \/ ProceedReceived \/ TlsRefused \/ onHandshaken \/ CompressedReceived
             \/ CompressionRefused \/ AuthorizationFails \/ SuccessReceived \/ SessionResult
             \/ \E r \in IqRequests : ReplyReceived(r)
    BY <1>6 DEF Begins, ProceedReceived, TlsRefused, onHandshaken, CompressedReceived,
           CompressionRefused, AuthorizationFails, SuccessReceived, SessionResult,
           ReplyReceived, ResendHeader, EmitDisconnected, QDisconnected, clientVars
  <1>7. QED
    BY <1>1, <1>2, <1>3, <1>4, <1>5, <1>6 DEF Next, Negotiation

\* Credentials and resources never leave on a plain connection when encryption
\* is forced, whatever becomes of the SASL library.
THEOREM EncryptionForced == Spec => ForcedEncryption
  <1>1. IInv /\ [Next]_vars =>
          [\A f \in {"SASL", "Bind", "Session"} :
              Begins(f) /\ "Encryption" \in Forced => tls = "encrypted"]_vars
    <2> SUFFICES ASSUME IInv, [Next]_vars, NEW f \in {"SASL", "Bind", "Session"}, Begins(f),
                        "Encryption" \in Forced
                 PROVE  tls = "encrypted"
      OBVIOUS
    <2>1. "Encryption" \in Prerequisites(f) \cap Trusted
      BY DEF Prerequisites, convertToFeature, Trusted
    <2>2. "Encryption" \in Effective
      BY <2>1, BeginsChecked
    <2>3. QED
      BY <2>2 DEF Effective
  <1>2. QED
    BY <1>1, Invariance, PTL DEF Spec, ForcedEncryption

\* If the SASL library always starts or says nothing, binding and session begin
\* with every forced feature in effect.
THEOREM FeaturesForced == "failed" \notin SaslStart => (Spec => ForcedInEffect)
  <1> SUFFICES ASSUME "failed" \notin SaslStart PROVE Spec => ForcedInEffect
    OBVIOUS
  <1>1. IInv /\ [Next]_vars =>
          [\A f \in {"Bind", "Session"} : Begins(f) => Forced \subseteq Effective]_vars
    <2> SUFFICES ASSUME IInv, [Next]_vars, NEW f \in {"Bind", "Session"}, Begins(f)
                 PROVE  Forced \subseteq Effective
      OBVIOUS
    <2>1. Prerequisites(f) \cap Trusted = Feature
      BY DEF Prerequisites, convertToFeature, Trusted
    <2>2. Forced \subseteq Feature
      BY DEF Forced
    <2>3. QED
      BY <2>1, <2>2, BeginsChecked
  <1>2. QED
    BY <1>1, Invariance, PTL DEF Spec, ForcedInEffect

-----------------------------------------------------------------------------
(* The stream implements the abstract session                              *)

\* Losing the device ends the session.
LEMMA LossEnds ==
  ASSUME opened' = FALSE, UNCHANGED configs
  PROVE  Session!End
  BY DEF Session!End

\* A feature that begins approves the session if it is bind or session, and is
\* invisible otherwise.
LEMMA ActivationMaps ==
  ASSUME "failed" \notin SaslStart, IInv,
         NEW rest, NEW tracks, Ready(rest, tracks),
         NEW current \in StreamFeatures \cup {None}, current_stream_feature \in {None, current},
         opened /\ current_stream_feature \in {"Bind", "Session"} => current = "Bind",
         NEW offered \in SUBSET StreamFeatures,
         activateFeature(current, offered, rest, tracks)
  PROVE  [Session!Next]_Session!vars
  <1>1. CASE EmitDisconnected({}, offered)
    BY <1>1, LossEnds DEF EmitDisconnected, Close, QDisconnected, Session!Next
  <1>2. ASSUME NEW f \in Candidates(current, offered), checkFeatures(f),
               NEW sent, Activated(f, offered, rest, tracks, sent)
        PROVE  [Session!Next]_Session!vars
    <2> USE <1>2
    <2>1. /\ UNCHANGED <<opened, isConnected, authorized, configs, tls, devices, srvAuthorized>>
          /\ current_stream_feature' = f
          /\ opened /\ ~isConnected
      BY DEF Activated, connVars, Ready
    <2>2. CASE f \in {"Bind", "Session"}
      <3>1. Forced \subseteq Effective
        BY <2>2 DEF checkFeatures, Prerequisites, convertToFeature, Ready, Trusted, Forced
      <3>2. Session!Approve
        BY <2>1, <2>2, <3>1 DEF Session!Approve, Session!Forced, Forced, Effective
      <3>3. QED
        BY <3>2 DEF Session!Next
    <2>3. CASE f \notin {"Bind", "Session"}
      <3>1. f \in StreamFeatures /\ Rank[f] > Rank[current]
        BY DEF Candidates
      <3>2. current_stream_feature \notin {"Bind", "Session"}
        BY <2>1, <2>3, <3>1 DEF Rank
      <3>3. QED
        BY <2>1, <2>3, <3>2 DEF Session!vars, Effective
    <2>4. QED
      BY <2>2, <2>3
  <1>3. QED
    BY <1>1, <1>2 DEF activateFeature, Activate

THEOREM Refinement == "failed" \notin SaslStart => (Spec => ImplementsSession)
  <1> SUFFICES ASSUME "failed" \notin SaslStart PROVE Spec => ImplementsSession
    OBVIOUS
  <1>1. Init => Session!Init
    BY FeatureConfigsAssumption
       DEF Init, ConnInit, Session!Init, FeatureConfig, Session!FeatureConfig
  <1>2. IInv /\ [Next]_vars => [Session!Next]_Session!vars
    <2> SUFFICES ASSUME IInv, [Next]_vars PROVE [Session!Next]_Session!vars
      OBVIOUS
    <2>1. ASSUME NEW s \in SUBSET StreamFeatures, FeaturesReceived(s)
          PROVE  [Session!Next]_Session!vars
      <3>1. current_stream_feature = None
        BY <2>1 DEF FeaturesReceived, Receives, IInv, StreamInv, CurrentMatchesStep
      <3>2. activatable \cup s \in SUBSET StreamFeatures
        BY <2>1 DEF IInv, TypeOK
      <3>3. QED
        BY <2>1, <3>1, <3>2, FeaturesReady, ActivationMaps DEF FeaturesReceived
    <2>2. CASE BindResult
      <3>1. current_stream_feature = "Bind"
        BY <2>2 DEF BindResult, Receives, Request, IInv, StreamInv, CurrentMatchesStep
      <3>2. activatable \in SUBSET StreamFeatures
        BY DEF IInv, TypeOK
      <3>3. QED
        BY <2>2, <3>1, <3>2, BindReady, ActivationMaps DEF BindResult
    <2>3. CASE QConnected
      <3>1. Session!Begin
        BY <2>3 DEF QConnected, SocketConnected, IInv, StreamInv, Reachability, TrustedBits,
               Effective, Session!Begin
      <3>2. QED
        BY <3>1 DEF Session!Next
    <2>4. CASE onHandshaken
      <3>1. Session!Secure("Encryption")
        BY <2>4 DEF onHandshaken, ResendHeader, connVars, IInv, StreamInv, OneStepAtATime, Steps,
               CurrentMatchesStep, Effective, Session!Secure
      <3>2. QED
        BY <3>1 DEF Session!Next
    <2>5. CASE CompressedReceived
      <3>1. Session!Secure("Compression")
        BY <2>5 DEF CompressedReceived, Receives, ResendHeader, connVars, IInv, StreamInv,
               OneStepAtATime, Steps, CurrentMatchesStep, Request, Effective, Session!Secure
      <3>2. QED
        BY <3>1 DEF Session!Next
    <2>6. CASE SuccessReceived
      <3>1. Session!Secure("Authorization")
        BY <2>6 DEF SuccessReceived, Receives, ResendHeader, connVars, IInv, StreamInv,
               OneStepAtATime, Steps, CurrentMatchesStep, Request, Effective, Session!Secure
      <3>2. QED
        BY <3>1 DEF Session!Next
    <2>7. CASE SessionResult
      <3>1. Session!GoOnline
        BY <2>7 DEF SessionResult, Receives, connVars, IInv, StreamInv, OneStepAtATime, Steps,
               CurrentMatchesStep, Request, Effective, Session!GoOnline
      <3>2. QED
        BY <3>1 DEF Session!Next
    <2>8. ASSUME NEW c \in FeatureConfigs, setFeatureConfig(c)
          PROVE  [Session!Next]_Session!vars
      <3>1. Session!Configure
        BY <2>8, FeatureConfigsAssumption
           DEF setFeatureConfig, connVars, serverVars, Effective, FeatureConfig,
               Session!Configure, Session!FeatureConfig
      <3>2. QED
        BY <3>1 DEF Session!Next
    <2>9. CASE \/ ConnectionRefused \/ ConnectionLost \/ ConnectionLostSlowly \/ SocketClosed
               \/ AuthorizationFails \/ forceDisconnect
      <3> USE DEF UnconnectedReported, QDisconnected, EmitDisconnected, Close, clientVars
      <3>1. ConnectionRefused => opened' = FALSE /\ UNCHANGED configs
        BY DEF ConnectionRefused, ConnectFails, IInv, TypeOK, ConnTypeOK, StreamInv, Reachability
      <3>2. SocketClosed => opened' = FALSE /\ UNCHANGED configs
        BY DEF SocketClosed, CloseEnds, IInv, TypeOK, ConnTypeOK, StreamInv, Reachability
      <3>3. ConnectionLost \/ ConnectionLostSlowly => opened' = FALSE /\ UNCHANGED configs
        BY DEF ConnectionLost, ConnectionLostSlowly, SocketLost
      <3>4. AuthorizationFails \/ forceDisconnect => opened' = FALSE /\ UNCHANGED configs
        BY DEF AuthorizationFails, forceDisconnect
      <3>5. QED
        BY <2>9, <3>1, <3>2, <3>3, <3>4, LossEnds DEF Session!Next
    <2> DEFINE Quiet ==
          /\ UNCHANGED <<opened, isConnected, authorized, configs, current_stream_feature,
                         devices, srvAuthorized>>
          /\ tls' = tls \/ (tls' = "handshake" /\ tls = "plain")
    <2>10. ASSUME Quiet PROVE [Session!Next]_Session!vars
      BY <2>10 DEF Effective, Session!vars
    <2>11. CASE \/ LookupFinished \/ connectToServer \/ UNCHANGED vars
                \/ \E r \in IqRequests : ReplyReceived(r)
                \/ \E r \in Requests : sendIQ(r)
      <3>1. LookupFinished \/ connectToServer \/ UNCHANGED vars => Quiet
        BY DEF LookupFinished, LookupResultsReady, connectToServer, Open, vars, connVars,
               clientVars, serverVars
      <3>2. ASSUME NEW r \in IqRequests, ReplyReceived(r) PROVE Quiet
        BY <3>2 DEF ReplyReceived, connVars
      <3>3. ASSUME NEW r \in Requests, sendIQ(r) PROVE Quiet
        BY <3>3 DEF sendIQ, connVars
      <3>4. QED
        BY <2>10, <2>11, <3>1, <3>2, <3>3
    <2>12. CASE \/ TlsRefused \/ CompressionRefused \/ disconnectFromServer
                \/ \E type \in {"Available", "Unavailable"}, again \in BOOLEAN :
                      setPresence(type, again)
                \/ \E b \in BOOLEAN : setPingInterval(b)
      <3>1. TlsRefused \/ CompressionRefused => Quiet
        BY DEF TlsRefused, CompressionRefused, connVars, clientVars
      <3>2. disconnectFromServer => Quiet
        BY DEF disconnectFromServer, connVars
      <3>3. ASSUME NEW type \in {"Available", "Unavailable"}, NEW again \in BOOLEAN,
                   setPresence(type, again)
            PROVE  Quiet
        BY <3>3 DEF setPresence, connVars
      <3>4. ASSUME NEW b \in BOOLEAN, setPingInterval(b) PROVE Quiet
        BY <3>4 DEF setPingInterval, connVars, serverVars
      <3>5. QED
        BY <2>10, <2>12, <3>1, <3>2, <3>3, <3>4
    <2>13. CASE ProceedReceived
      <3>1. tls = "plain"
        BY <2>13 DEF ProceedReceived, Receives, IInv, StreamInv, OffersMatchLayers
      <3>2. Quiet
        BY <2>13, <3>1 DEF ProceedReceived, connVars, clientVars
      <3>3. QED
        BY <2>10, <3>2
    <2>14. QED
      BY <2>1, <2>2, <2>3, <2>4, <2>5, <2>6, <2>7, <2>8, <2>9, <2>11, <2>12, <2>13
         DEF Next, Socket, Negotiation, Application
  <1>3. QED
    BY <1>1, <1>2, Invariance, PTL DEF Spec, ImplementsSession, Session!Spec

-----------------------------------------------------------------------------
(* An attempt to connect is not left waiting for nothing                   *)

\* The next feature is asked for, or the attempt has ended.
LEMMA ActivationAnswers ==
  ASSUME NEW current, NEW offered \in SUBSET StreamFeatures, NEW rest, NEW tracks,
         opened, activateFeature(current, offered, rest, tracks)
  PROVE  AttemptAnswered'
  <1>1. ASSUME NEW used, EmitDisconnected(used, offered)
        PROVE  AttemptAnswered'
    BY <1>1 DEF EmitDisconnected, ReportDisconnected, AttemptAnswered
  <1>2. ASSUME NEW f \in Candidates(current, offered), Activate(f, offered, rest, tracks)
        PROVE  AttemptAnswered'
    <2>1. CASE EmitDisconnected({convertToFeature[f]}, offered)
      BY <1>1, <2>1
    <2>2. CASE f = "SASL" /\ "error" \in SaslStart /\ Activated(f, offered, rest, tracks, {})
      BY <2>2 DEF Activated, AttemptAnswered, Unheard, connVars
    <2>3. CASE Activated(f, offered, rest, tracks, {Request[f]})
      <3>1. f \in StreamFeatures
        BY <1>2 DEF Candidates
      <3>2. Request[f] \in {"starttls", "compress", "auth", "bind", "session"}
        BY <3>1 DEF Request, StreamFeatures
      <3>3. Request[f] \in Steps'
        BY <2>3, <3>2 DEF Activated, Steps
      <3> QED
        BY <2>3, <3>3 DEF Activated, AttemptAnswered, connVars
    <2>4. QED
      BY <1>2, <2>1, <2>2, <2>3 DEF Activate
  <1>3. QED
    BY <1>1, <1>2 DEF activateFeature

\* Every step leaves something to come for the attempt, or stops it unheard.
LEMMA NextAnswered == IInv /\ AttemptAnswered /\ [Next]_vars => AttemptAnswered'
  <1> SUFFICES ASSUME IInv, AttemptAnswered, [Next]_vars PROVE AttemptAnswered'
    OBVIOUS
  <1>1. CASE Socket
    <2>1. CASE LookupFinished
      BY <2>1 DEF LookupFinished, LookupResultsReady, ConnectToHost, clientVars, serverVars,
                  AttemptAnswered, Steps, Unheard, IInv, TypeOK, ConnTypeOK, CountersTypeOK,
                  StreamInv, Reachability, SocketStates
    <2>2. CASE QConnected
      <3>1. "header" \in Steps' /\ opened'
        BY <2>2 DEF QConnected, SocketConnected, Steps
      <3>2. QED
        BY <3>1 DEF AttemptAnswered
    <2>3. CASE ConnectionRefused \/ ConnectionLost \/ SocketClosed
      BY <2>3 DEF ConnectionRefused, ConnectionLost, SocketClosed, UnconnectedReported,
                  ReportDisconnected, AttemptAnswered
    <2>4. CASE ConnectionLostSlowly
      BY <2>4 DEF ConnectionLostSlowly, SocketLost, AttemptAnswered
    <2>5. QED
      BY <1>1, <2>1, <2>2, <2>3, <2>4 DEF Socket
  <1>2. CASE Negotiation
    <2>1. ASSUME NEW s \in SUBSET StreamFeatures, FeaturesReceived(s) PROVE AttemptAnswered'
      <3>1. activatable \cup s \in SUBSET StreamFeatures
        BY <2>1 DEF IInv, TypeOK
      <3>2. QED
        BY <2>1, <3>1, ActivationAnswers DEF FeaturesReceived, Receives
    <2>2. CASE BindResult
      <3>1. activatable \in SUBSET StreamFeatures
        BY DEF IInv, TypeOK
      <3>2. QED
        BY <2>2, <3>1, ActivationAnswers DEF BindResult, Receives
    <2>3. CASE ProceedReceived
      <3>1. "handshake" \in Steps' /\ opened'
        BY <2>3 DEF ProceedReceived, Receives, Steps, connVars
      <3>2. QED
        BY <3>1 DEF AttemptAnswered
    <2>4. CASE TlsRefused
      BY <2>4 DEF TlsRefused, Receives, connVars, AttemptAnswered
    <2>5. CASE onHandshaken \/ CompressedReceived \/ SuccessReceived
      <3>1. "header" \in Steps' /\ opened'
        BY <2>5 DEF onHandshaken, CompressedReceived, SuccessReceived, ResendHeader, Receives,
                    Steps, connVars
      <3>2. QED
        BY <3>1 DEF AttemptAnswered
    <2>6. CASE CompressionRefused
      <3>1. current_stream_feature = "Zlib"
        BY <2>6 DEF CompressionRefused, Receives, IInv, StreamInv, CurrentMatchesStep, Request,
                    StreamFeatures
      <3>2. QED
        BY <2>6, <3>1 DEF CompressionRefused, clientVars, connVars, Receives, AttemptAnswered,
                          Unheard
    <2>7. CASE AuthorizationFails
      BY <2>7 DEF AuthorizationFails, EmitDisconnected, ReportDisconnected, AttemptAnswered
    <2>8. CASE SessionResult
      BY <2>8 DEF SessionResult, AttemptAnswered
    <2>9. ASSUME NEW r \in IqRequests, ReplyReceived(r) PROVE AttemptAnswered'
      <3>1. CASE r \in {"bind", "session"}
        <4>1. current_stream_feature \in {"Bind", "Session"} /\ "iq" \in Refusals
          BY <2>9, <3>1 DEF ReplyReceived, Receives, IInv, StreamInv, CurrentMatchesStep,
                            Request, StreamFeatures
        <4>2. QED
          BY <2>9, <4>1 DEF ReplyReceived, Receives, connVars, AttemptAnswered, Unheard
      <3>2. CASE r \notin {"bind", "session"}
        <4>1. r \notin {"header", "starttls", "compress", "auth", "bind", "session", "close"}
          BY <3>2, RequestsAssumption DEF IqRequests, ConnectionRequests, Wire
        <4>2. Steps' = Steps /\ ("close" \in owed => "close" \in owed')
          BY <2>9, <4>1 DEF ReplyReceived, Steps
        <4>3. QED
          BY <2>9, <4>2 DEF ReplyReceived, Receives, connVars, toldVars, AttemptAnswered,
                            Unheard
      <3>3. QED
        BY <3>1, <3>2
    <2>10. QED
      BY <1>2, <2>1, <2>2, <2>3, <2>4, <2>5, <2>6, <2>7, <2>8, <2>9 DEF Negotiation
  <1>3. CASE Application
    <2>1. CASE connectToServer
      <3>1. CASE opened
        BY <2>1, <3>1 DEF connectToServer, connVars, toldVars, clientVars, serverVars,
                          AttemptAnswered, Steps, Unheard
      <3>2. CASE ~opened
        <4>1. Open /\ ~opened'
          BY <2>1, <3>2 DEF connectToServer, Open
        <4>2. CASE socket_state # "Unconnected"
          <5>1. socket_state' = socket_state
            BY <4>1, <4>2 DEF Open
          <5>2. socket_state \in {"Connecting", "Closing"}
            BY <3>2, <4>2 DEF IInv, TypeOK, ConnTypeOK, SocketStates, StreamInv, Reachability
          <5>3. QED
            BY <4>1, <5>1, <5>2 DEF AttemptAnswered
        <4>3. CASE socket_state = "Unconnected" /\ do_lookup
          <5>1. lookups' = lookups + 1
            BY <4>1, <4>3 DEF Open, DoLookup
          <5>2. lookups \in Nat
            BY MaxLookupsAssumption DEF IInv, TypeOK, CountersTypeOK
          <5>3. lookups' > 0
            BY <5>1, <5>2
          <5>4. QED
            BY <4>1, <5>3 DEF AttemptAnswered
        <4>4. CASE socket_state = "Unconnected" /\ ~do_lookup
          <5>1. socket_state' = "Connecting"
            BY <4>1, <4>4 DEF Open, ConnectToHost
          <5>2. QED
            BY <4>1, <5>1 DEF AttemptAnswered
        <4>5. QED
          BY <4>2, <4>3, <4>4
      <3>3. QED
        BY <3>1, <3>2
    <2>2. CASE disconnectFromServer
      BY <2>2 DEF disconnectFromServer, connVars, AttemptAnswered
    <2>3. CASE forceDisconnect
      BY <2>3 DEF forceDisconnect, EmitDisconnected, ReportDisconnected, AttemptAnswered
    <2>4. ASSUME NEW r \in Requests, sendIQ(r) PROVE AttemptAnswered'
      BY <2>4 DEF sendIQ, connVars, toldVars, AttemptAnswered, Steps, Unheard
    <2>5. ASSUME NEW type, NEW again, setPresence(type, again) PROVE AttemptAnswered'
      BY <2>5 DEF setPresence, connVars, toldVars, AttemptAnswered, Steps, Unheard
    <2>6. ASSUME NEW c, setFeatureConfig(c) PROVE AttemptAnswered'
      BY <2>6 DEF setFeatureConfig, connVars, serverVars, toldVars, AttemptAnswered, Steps,
                  Unheard
    <2>7. ASSUME NEW b, setPingInterval(b) PROVE AttemptAnswered'
      BY <2>7 DEF setPingInterval, connVars, serverVars, toldVars, AttemptAnswered, Steps,
                  Unheard
    <2>8. QED
      BY <1>3, <2>1, <2>2, <2>3, <2>4, <2>5, <2>6, <2>7 DEF Application
  <1>4. CASE UNCHANGED vars
    BY <1>4 DEF vars, connVars, clientVars, serverVars, toldVars, AttemptAnswered, Steps, Unheard
  <1>5. QED
    BY <1>1, <1>2, <1>3, <1>4 DEF Next

\* An attempt to connect is never left waiting for nothing, except after what the
\* client ignores: a SASL library that fails to start without a word, and a refused
\* compression, binding or session.
THEOREM Settling == Spec => []SettleInv
  <1>1. Init => AttemptAnswered
    BY DEF Init, AttemptAnswered
  <1>2. QED
    BY <1>1, InitIInv, NextIInv, NextAnswered, PTL DEF Spec, SettleInv

==============================================================================
