----------------------------- MODULE Registration -----------------------------
(***************************************************************************)
(* In-band registration: src/src/registrationmanager.cpp and the stream    *)
(* feature that starts it, src/src/registrationfeature.cpp.                *)
(*                                                                         *)
(* To register at a server the manager disables authorization, connects    *)
(* and waits for the feature it has put among the client's to be chosen.   *)
(* What is asked meanwhile is queued; a broken connection is opened again  *)
(* from a timer, until the account is there: then the manager stops        *)
(* listening, takes its feature out and puts the settings back.            *)
(***************************************************************************)
EXTENDS IqLayer

CONSTANT MaxQueue   \* bound: requests queued for the connection

ASSUME MaxQueueAssumption == MaxQueue \in Nat

VARIABLES
    waitingForConnection,
    fieldsReceived,
    iqs,
    configs,    \* the setting to put back
    feature,    \* the manager's feature is among the client's
    listening,  \* the client's disconnected() reaches the manager
    scheduled,  \* a timer is about to call connectToServer
    offers,     \* the server has registration in band
    own,        \* the setting the application made
    reported    \* the last signal since registerAtServer: "waiting" before the first

registrationVars ==
    <<waitingForConnection, fieldsReceived, iqs, configs, feature, listening, scheduled,
      offers, own, reported>>

NoConfig == "none"   \* configs is still empty
Form   == [call |-> "form", of |-> "service"]
Result == [call |-> "result", of |-> "service"]
RegistrationRequests == {Form, Result}

RegistrationTypeOK ==
    /\ waitingForConnection \in BOOLEAN
    /\ fieldsReceived \in BOOLEAN
    /\ iqs \in Seq(RegistrationRequests) /\ Len(iqs) <= MaxQueue
    /\ configs \in Configs \cup {NoConfig}
    /\ feature \in BOOLEAN
    /\ listening \in BOOLEAN
    /\ scheduled \in BOOLEAN
    /\ offers \in BOOLEAN
    /\ own \in Configs
    /\ reported \in {"none", "waiting", "form", "error", "unsupported", "success"}

RegistrationInit ==
    /\ waitingForConnection = TRUE
    /\ fieldsReceived = FALSE
    /\ iqs = <<>>
    /\ configs = NoConfig
    /\ feature = FALSE
    /\ listening = FALSE
    /\ scheduled = FALSE
    /\ offers \in BOOLEAN
    /\ own = authorization
    /\ reported = "none"

---------------------------------------------------------------------------
\* The application.

\* A new account is asked for on a closed connection, once at a time.
registerAtServer ==
    /\ link = "closed"
    /\ ~ feature \/ "twice" \in Careless
    /\ fieldsReceived' = FALSE
    /\ waitingForConnection' = TRUE
    /\ feature' = TRUE
    /\ listening' = TRUE
    /\ configs' = authorization
    /\ authorization' = "Disable"
    /\ link' = Opened
    /\ reported' = "waiting"
    /\ UNCHANGED <<tracks, doomed, iqs, scheduled, offers, own>>

\* sendIQ: on its way, in the queue, or, without a connection and not
\* waiting for one, nowhere.
sendIQ(request, waiting) ==
    IF waiting
    THEN /\ Len(iqs) < MaxQueue
         /\ iqs' = Append(iqs, request)
         /\ UNCHANGED tracks
    ELSE /\ FreeIds # {}
         /\ tracks' = IF CanSend(TRUE) THEN Tracked(request) ELSE tracks
         /\ UNCHANGED iqs

\* What is sent before either way of registering has been chosen is queued
\* and, at a service, never taken up.
Chosen == feature \/ ~ waitingForConnection \/ "early" \in Careless

fetchFields ==
    /\ Chosen
    /\ sendIQ(Form, waitingForConnection)
    /\ UNCHANGED <<link, authorization, doomed, waitingForConnection, fieldsReceived, configs,
                   feature, listening, scheduled, offers, own, reported>>
send ==
    /\ Chosen
    /\ sendIQ(Result, waitingForConnection)
    /\ UNCHANGED <<link, authorization, doomed, waitingForConnection, fieldsReceived, configs,
                   feature, listening, scheduled, offers, own, reported>>

\* With some service of a connected account; requestInfo.
registerAtService ==
    /\ link = "connected"
    /\ ~ feature
    /\ waitingForConnection' = FALSE
    /\ sendIQ(Form, FALSE)
    /\ UNCHANGED <<link, authorization, doomed, fieldsReceived, configs, feature, listening,
                   scheduled, offers, own, reported>>

\* Client::setFeatureConfig: what has been put back once is put back again
\* with every later success.
setFeatureConfig(config) ==
    /\ ~ feature
    /\ configs = NoConfig \/ "reconfigure" \in Careless
    /\ own' = config
    /\ authorization' = config
    /\ UNCHANGED <<link, tracks, doomed, waitingForConnection, fieldsReceived, iqs, configs,
                   feature, listening, scheduled, offers, reported>>

---------------------------------------------------------------------------
\* The stream.

\* RegistrationFeature::activate: handleConnection sends what is queued, and
\* asks for the fields if they are not there.
Queued_AskedOnce == IF iqs = <<>> /\ ~ fieldsReceived THEN <<Form>> ELSE iqs
Queued == iqs \o (IF fieldsReceived THEN <<>> ELSE <<Form>>)
handleConnection ==
    /\ link = "open"
    /\ feature /\ offers
    /\ NewIds(Queued) # {}
    /\ link' = "registering"
    /\ waitingForConnection' = FALSE
    /\ iqs' = <<>>
    /\ tracks' = TrackedAll(Queued)
    /\ UNCHANGED <<authorization, doomed, fieldsReceived, configs, feature, listening,
                   scheduled, offers, own, reported>>

\* _q_on_disconnect
onDisconnect_GivesUp(unsupported) ==
    /\ waitingForConnection' = (waitingForConnection \/ listening)
    /\ reported' = IF listening /\ unsupported THEN "unsupported" ELSE reported
    /\ UNCHANGED <<scheduled, fieldsReceived, iqs, configs, feature, listening, offers, own>>
onDisconnect(unsupported) ==
    /\ waitingForConnection' = (waitingForConnection \/ listening)
    /\ scheduled' = (scheduled \/ (listening /\ ~ unsupported))
    /\ reported' = IF listening /\ unsupported THEN "unsupported" ELSE reported
    /\ UNCHANGED <<fieldsReceived, iqs, configs, feature, listening, offers, own>>

\* The timer of the last disconnect.
Reconnect ==
    /\ scheduled
    /\ scheduled' = FALSE
    /\ link' = Opened
    /\ UNCHANGED <<authorization, tracks, doomed, waitingForConnection, fieldsReceived, iqs,
                   configs, feature, listening, offers, own, reported>>

---------------------------------------------------------------------------
\* Answers.

Failed(answer) == answer \in {"error", "refusal"}

\* _q_form_received: an answer without the query counts as an error.
formReceived(answer) ==
    /\ fieldsReceived' = TRUE
    /\ reported' = IF answer \in {"payload", "refusal"} THEN "form" ELSE "error"
    /\ UNCHANGED <<authorization, waitingForConnection, iqs, configs, feature, listening,
                   scheduled, offers, own>>

\* _q_result_received: one setting is put back for each that was saved.
resultReceived(answer) ==
    /\ IF Failed(answer)
       THEN reported' = "error" /\ UNCHANGED <<authorization, feature, listening>>
       ELSE /\ listening' = FALSE
            /\ authorization' = IF configs = NoConfig THEN authorization ELSE configs
            /\ feature' = FALSE
            /\ reported' = "success"
    /\ UNCHANGED <<waitingForConnection, fieldsReceived, iqs, configs, scheduled, offers, own>>

RegistrationAnswered(id, answer) ==
    /\ Take(id)
    /\ UNCHANGED link
    /\ IF tracks[id] = Form THEN formReceived(answer) ELSE resultReceived(answer)

---------------------------------------------------------------------------
\* Properties.

\* However often the connection breaks and in whatever order forms and
\* results come: outside a registration the application's setting is in
\* force; during one the manager hears of the connection's end, what was
\* asked while it waited is under way once it is there, and the fields are
\* asked for.
RegistrationAccounts ==
    /\ ~ feature => authorization = own
    /\ feature => listening /\ authorization = "Disable" /\ configs = own
    /\ ~ waitingForConnection => iqs = <<>>
    /\ link = "registering" /\ feature /\ ~ fieldsReceived =>
        \E id \in DOMAIN tracks : tracks[id] = Form
    /\ feature => waitingForConnection = (link # "registering")

\* An application that wants to register hears of the form, of an error, or
\* that the server has no such thing.
RegistrationSettles == (reported = "waiting") ~> (reported # "waiting")

\* Until it does, the manager listens and goes on: the connection is opened
\* again when it is lost, it does not become a session of the old account, and
\* once the server takes registrations the form is under way.
RegistrationAwaited ==
    reported = "waiting" =>
        /\ feature /\ listening /\ ~ fieldsReceived
        /\ authorization = "Disable" /\ link # "connected"
        /\ link = "closed" => scheduled
        /\ link = "registering" => \E id \in DOMAIN tracks : tracks[id] = Form

=============================================================================
