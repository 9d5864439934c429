------------------------------- MODULE IqLayer -------------------------------
(***************************************************************************)
(* The client as its managers see it (src/src/client.cpp): a connection    *)
(* that comes and goes, what it takes for them, and the reply objects of   *)
(* the requests under way.  ClientStream models how a connection becomes   *)
(* one; here it is one value.                                              *)
(*                                                                         *)
(* A request is named for what it was made for, a record of the call and   *)
(* of what it is about.  The ids of the program are never used twice;      *)
(* these are used again when nothing has them any more.                    *)
(***************************************************************************)
EXTENDS Naturals, Sequences

CONSTANTS
    MaxIds,   \* bound: requests that are under way or have replies left
    Careless  \* what applications do that the managers do not bear

ASSUME MaxIdsAssumption == MaxIds \in Nat \ {0}

\* To fetch or ask without a connection, to register again while registering,
\* to send a form before it is said where, and to change Authorization after
\* a registration.
ASSUME CarelessAssumption ==
    Careless \subseteq {"offlineFetch", "offlineAsk", "twice", "early", "reconfigure"}

VARIABLES
    link,          \* the connection: "open" until a feature is activated that ends the
                   \* negotiation, which is "registering" or leads to "connected"
    authorization, \* featureConfig(Client::Authorization)
    tracks,        \* iqTracks: the replies of the requests under way
    doomed         \* the replies handed to deleteLater, until the event loop runs

layer == <<link, authorization, tracks, doomed>>

Ids == 1 .. MaxIds
Links == {"closed", "open", "registering", "connected"}
Configs == {"Auto", "Force", "Disable"}

\* A hash by id: nothing in it, with an entry more, without one, two in one.
Nobody == [id \in {} |-> id]
With(f, id, entry) == [n \in DOMAIN f \cup {id} |-> IF n = id THEN entry ELSE f[n]]
Without(f, id)     == [n \in DOMAIN f \ {id} |-> f[n]]
Both(f, g) == [n \in DOMAIN f \cup DOMAIN g |-> IF n \in DOMAIN f THEN f[n] ELSE g[n]]

IsReplies(f, Requests) == DOMAIN f \subseteq Ids /\ \A id \in DOMAIN f : f[id] \in Requests

LayerInit ==
    /\ link = "closed"
    /\ authorization \in Configs \ {"Disable"}
    /\ tracks = Nobody
    /\ doomed = Nobody

\* Client::send(IQ): what is sent on a stream without a session must be a ConnectionIQ.
CanSend(isConnectionIq) ==
    link = "connected" \/ (isConnectionIq /\ link \in {"open", "registering"})

\* The ids of the next requests, a different one each time as from getID.
FreeIds == Ids \ (DOMAIN tracks \cup DOMAIN doomed)
NewId   == CHOOSE id \in FreeIds : TRUE
NewIds(requests) ==
    {ids \in [DOMAIN requests -> FreeIds] :
        \A i, j \in DOMAIN requests : i # j => ids[i] # ids[j]}

\* iqTracks when a request has been sent, and when several have.
Tracked(request) == With(tracks, NewId, request)
TrackedAll(requests) ==
    LET ids == CHOOSE f \in NewIds(requests) : TRUE
    IN  Both([id \in {ids[k] : k \in DOMAIN requests} |->
                 requests[CHOOSE k \in DOMAIN requests : ids[k] = id]], tracks)

\* handleStanza: the reply of an answer is taken and left to the event loop.
Take_Kept(id) ==
    /\ tracks' = Without(tracks, id)
    /\ UNCHANGED doomed
Take(id) ==
    /\ tracks' = Without(tracks, id)
    /\ doomed' = With(doomed, id, tracks[id])

\* _q_disconnected: no answer will come, the replies go without a signal.
ConnectionLost ==
    /\ link' = "closed"
    /\ tracks' = Nobody
    /\ doomed' = Both(tracks, doomed)

\* connectToServer: nothing when the connection is open already.
Opened == IF link = "closed" THEN "open" ELSE link

=============================================================================
