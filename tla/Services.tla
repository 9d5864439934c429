------------------------------- MODULE Services -------------------------------
(***************************************************************************)
(* The managers together on one connection: those that wait for replies    *)
(* and the one that registers, which takes the connection away from the    *)
(* others for as long as it needs.                                         *)
(***************************************************************************)
EXTENDS ReplyManagers, Registration

vars == <<layer, replyVars, registrationVars>>

Requests == ReplyRequests \cup RegistrationRequests

TypeOK ==
    /\ link \in Links
    /\ authorization \in Configs
    /\ IsReplies(tracks, Requests)
    /\ IsReplies(doomed, Requests)
    /\ ReplyTypeOK
    /\ RegistrationTypeOK

Init == LayerInit /\ ReplyInit /\ RegistrationInit

---------------------------------------------------------------------------
\* The connection.

\* connectToServer, called by the application.
connectToServer ==
    /\ link = "closed"
    /\ link' = Opened
    /\ UNCHANGED <<authorization, tracks, doomed, replyVars, registrationVars>>

\* The negotiation ends with a session; handleConnect asks what the server can.
handleConnect ==
    /\ link = "open"
    /\ ~ (feature /\ offers)
    /\ authorization # "Disable"
    /\ FreeIds # {}
    /\ link' = "connected"
    /\ tracks' = Tracked(ServerInfo)
    /\ UNCHANGED <<authorization, doomed, replyVars, registrationVars>>

\* The negotiation ends with no feature to go on with, or without one that
\* is forced.
NotSupported ==
    /\ link = "open"
    /\ ConnectionLost
    /\ ReplyLost
    /\ onDisconnect(TRUE)
    /\ UNCHANGED authorization

\* The socket is closed, by either side.
Drop ==
    /\ link # "closed"
    /\ ConnectionLost
    /\ ReplyLost
    /\ onDisconnect(FALSE)
    /\ UNCHANGED authorization

\* An answer comes, in any order: the servers asked are many.
Answer(id) ==
    /\ id \in DOMAIN tracks
    /\ \/ /\ tracks[id] \in ReplyRequests
          /\ \E answer \in IF IsPrivate(tracks[id]) THEN StorageAnswers ELSE Answers :
                ReplyAnswered(id, answer)
          /\ UNCHANGED registrationVars
       \/ /\ tracks[id] \in RegistrationRequests
          /\ \E answer \in Answers : RegistrationAnswered(id, answer)
          /\ UNCHANGED replyVars

\* The event loop deletes a reply.
Delete(id) ==
    /\ id \in DOMAIN doomed
    /\ Deleted(id)
    /\ UNCHANGED registrationVars

---------------------------------------------------------------------------

Asking ==
    \/ \E j \in Jids : fetch(j)
    \/ \E request \in {Store, Discover("info"), Discover("items")} : Ask(request)
    \/ \E s \in Storages : AskPrivate(ReadOf(s)) \/ AskPrivate(WriteOf(s))
    \/ publishItems
Registering ==
    \/ registerAtServer
    \/ registerAtService
    \/ fetchFields
    \/ send
    \/ \E config \in Configs \ {"Disable"} : setFeatureConfig(config)
    \/ handleConnection
    \/ Reconnect

Next ==
    \/ Asking /\ UNCHANGED registrationVars
    \/ Registering /\ UNCHANGED replyVars
    \/ connectToServer
    \/ handleConnect
    \/ NotSupported
    \/ Drop
    \/ \E id \in Ids : Answer(id)
    \/ \E id \in Ids : Delete(id)

Spec == Init /\ [][Next]_vars

\* Timers and the event loop run; a server answers what reaches it; and a
\* connection is not lost each time at the same point of a registration.
FormAnswered == \E id \in DOMAIN tracks : tracks[id] = Form /\ Answer(id)
FairSpec ==
    /\ Spec
    /\ WF_vars(Reconnect /\ UNCHANGED replyVars)
    /\ SF_vars((handleConnection /\ UNCHANGED replyVars) \/ NotSupported)
    /\ SF_vars(FormAnswered)
    /\ \A id \in Ids : WF_vars(Answer(id)) /\ WF_vars(Delete(id))

---------------------------------------------------------------------------
\* What makes the properties inductive: a request under way has no reply
\* left to delete yet.
Apart == DOMAIN tracks \cap DOMAIN doomed = {}
RepliesInv == TypeOK /\ Apart /\ RepliesAccounted

\* Whoever waits, for a reply, a storage or a registration, waits for something.
AwaitedInv == TypeOK /\ RepliesAwaited /\ RegistrationAwaited

\* Of a registration: what is saved is the application's setting, nothing is
\* queued and no session begins besides one, and none begins with requests
\* under way.
Alone ==
    /\ configs # NoConfig => configs = own
    /\ ~ feature => iqs = <<>>
    /\ feature => link # "connected"
    /\ link = "closed" \/ (feature /\ link = "open") => DOMAIN tracks = {}
RegistrationInv == TypeOK /\ Alone /\ RegistrationAccounts

=============================================================================
