------------------------------ MODULE MUCRoom ------------------------------
(***************************************************************************)
(* One MUCRoom object (src/src/mucroom.cpp) and the room it talks to.      *)
(*                                                                         *)
(* The room is external: it answers the client's stanzas in order, sends   *)
(* the newcomer everyone's presence and its own last, and reports what     *)
(* the other occupants do to whoever is inside.  Both directions are       *)
(* queues, since a stream is one TCP connection, and both are lost with    *)
(* the connection.  Between the two the application calls the MUCRoom and  *)
(* the client connects and disconnects.                                    *)
(*                                                                         *)
(* told is what an application that follows presenceReceived() and         *)
(* leaved() believes; it is what the room's signals are for.               *)
(***************************************************************************)
EXTENDS Queues, SequencesExt, FiniteSets

CONSTANTS
    Nicks,     \* nicknames
    Roles,     \* the roles the room gives to occupants
    NoNick,    \* no nickname
    MaxUnderWay, \* bound: stanzas under way when the application or an occupant acts
    Careless   \* what the application does although it should not, see below

\* join() before the client is connected; setNick() and join() while the other is
\* under way; join() with the presence of an unavailable client; setPresence()
\* when it is not inside.
CarelessCalls == {"offlineJoin", "earlyRename", "unavailableJoin", "presenceOutside"}

ASSUME NicksAssumption == NoNick \notin Nicks /\ IsFiniteSet(Nicks)
ASSUME RolesAssumption == Roles # {} /\ "none" \notin Roles
ASSUME BoundsAssumption == MaxUnderWay \in Nat \ {0}
ASSUME CarelessAssumption == Careless \subseteq CarelessCalls

VARIABLES
    \* --- MUCRoomPrivate
    nick,             \* d->jid.resource()
    startedJoining,
    isJoined,
    wants,            \* d->currentPresence is not Unavailable
    participants,     \* the keys of d->participantsHash
    role,
    \* --- the client
    connected,        \* its connection is open and isConnected
    \* --- the room and the wire
    others,           \* the other occupants
    me,               \* the client's own nickname in the room, or NoNick
    myRole,
    toRoom,           \* stanzas under way
    toClient,
    \* --- what the application has been told
    told,             \* the occupants it has seen
    turnedAway        \* since the last join it saw an error or itself leave

roomVars == <<nick, startedJoining, isJoined, wants, participants, role>>
serverVars == <<others, me, myRole>>
wire == <<toRoom, toClient>>
appVars == <<told, turnedAway>>
vars == <<roomVars, connected, serverVars, wire, appVars>>

Requests == [kind : {"enter", "presence", "leave"}, nick : Nicks]
Presences == [type : {"available", "unavailable", "error"}, from : Nicks,
              newNick : Nicks \cup {NoNick}, role : Roles \cup {"none"}]

TypeOK ==
    /\ nick \in Nicks
    /\ startedJoining \in BOOLEAN
    /\ isJoined \in BOOLEAN
    /\ wants \in BOOLEAN
    /\ participants \subseteq Nicks
    /\ role \in Roles \cup {"none"}
    /\ connected \in BOOLEAN
    /\ others \subseteq Nicks
    /\ me \in Nicks \cup {NoNick}
    /\ myRole \in Roles \cup {"none"}
    /\ toRoom \in Seq(Requests)
    /\ toClient \in Seq(Presences)
    /\ told \subseteq Nicks
    /\ turnedAway \in BOOLEAN

Init ==
    /\ nick \in Nicks
    /\ startedJoining = FALSE
    /\ isJoined = FALSE
    /\ wants = FALSE
    /\ participants = {}
    /\ role = "none"
    /\ connected = FALSE
    /\ others \in SUBSET Nicks
    /\ me = NoNick
    /\ myRole = "none"
    /\ toRoom = <<>>
    /\ toClient = <<>>
    /\ told = {}
    /\ turnedAway = FALSE

-----------------------------------------------------------------------------
(* The MUCRoom object                                                      *)

Roomy == Len(toRoom) + Len(toClient) < MaxUnderWay

\* Client::send: a presence of a client that is not connected goes nowhere.
Sends(kind, n) ==
    toRoom' = IF connected THEN Append(toRoom, [kind |-> kind, nick |-> n]) ELSE toRoom

\* MUCRoom::join, once it has found startedJoining unset.
Joining(available, online) ==
    /\ startedJoining' = TRUE
    /\ wants' = available
    /\ turnedAway' = FALSE
    /\ toRoom' = IF online
                 THEN Append(toRoom, [kind |-> IF available THEN "enter" ELSE "leave",
                                      nick |-> nick])
                 ELSE toRoom

\* The room has not answered a change of nickname yet.
Renaming ==
    \/ \E i \in DOMAIN toRoom : toRoom[i].nick # nick
    \/ \E i \in DOMAIN toClient : toClient[i].newNick # NoNick

join(available) ==
    /\ Roomy
    /\ Renaming => "earlyRename" \in Careless
    /\ connected \/ "offlineJoin" \in Careless
    /\ available \/ "unavailableJoin" \in Careless
    /\ ~startedJoining
    /\ Joining(available, connected)
    /\ UNCHANGED <<nick, isJoined, participants, role, connected, serverVars, toClient, told>>

leave ==
    /\ Roomy
    /\ wants
    /\ wants' = FALSE
    /\ Sends("leave", nick)
    /\ UNCHANGED <<nick, startedJoining, isJoined, participants, role, connected, serverVars,
                   toClient, appVars>>

\* Nothing of the room's is under way and the client is outside.
Outside == me = NoNick /\ toRoom = <<>> /\ toClient = <<>>

\* A joined room asks, and follows when the room has answered; otherwise the
\* nickname is only remembered.
setNick(n) ==
    /\ Roomy
    /\ isJoined \/ Outside \/ "earlyRename" \in Careless
    /\ \/ isJoined /\ Sends(IF wants THEN "presence" ELSE "leave", n) /\ UNCHANGED nick
       \/ ~isJoined /\ nick' = n /\ UNCHANGED toRoom
    /\ UNCHANGED <<startedJoining, isJoined, wants, participants, role, connected, serverVars,
                   toClient, appVars>>

\* Another presence inside the room; currentPresence does not follow it.
setPresence(available) ==
    /\ Roomy
    /\ isJoined \/ "presenceOutside" \in Careless
    /\ Sends(IF available THEN "presence" ELSE "leave", nick)
    /\ UNCHANGED <<roomVars, connected, serverVars, toClient, appVars>>

-----------------------------------------------------------------------------
(* MUCRoomPrivate::handlePresence                                          *)

\* An error, whatever it answers, ends the join.
ErrorReceived(pres) ==
    /\ pres.type = "error"
    /\ startedJoining' = FALSE
    /\ turnedAway' = TRUE
    /\ UNCHANGED <<nick, isJoined, wants, participants, role, told>>

\* A nickname that changed is adopted before the presence is matched with it.
Renamed(pres) == pres.newNick # NoNick /\ pres.from = nick

Resource(pres) == IF Renamed(pres) THEN pres.newNick ELSE nick

\* A slip: the role is taken only while entering, as in an early return for joined rooms.
AvailableReceived_RoleOnce(pres) ==
    /\ pres.type = "available"
    /\ startedJoining' = FALSE
    /\ participants' = participants \cup {pres.from}
    /\ told' = (IF startedJoining THEN told \ participants ELSE told) \cup {pres.from}
    /\ isJoined' = (isJoined \/ pres.from = nick)
    /\ role' = IF pres.from = nick /\ ~isJoined THEN pres.role ELSE role
    /\ UNCHANGED <<nick, wants, turnedAway>>

\* The first presence after a join takes back, for the application only, every
\* participant left from before.
AvailableReceived(pres) ==
    /\ pres.type = "available"
    /\ startedJoining' = FALSE
    /\ participants' = participants \cup {pres.from}
    /\ told' = (IF startedJoining THEN told \ participants ELSE told) \cup {pres.from}
    /\ isJoined' = (isJoined \/ pres.from = nick)
    /\ role' = IF pres.from = nick THEN pres.role ELSE role
    /\ UNCHANGED <<nick, wants, turnedAway>>

UnavailableReceived(pres) ==
    /\ pres.type = "unavailable"
    /\ nick' = Resource(pres)
    /\ LET own == pres.from = Resource(pres)
       IN  /\ participants' = IF own THEN {} ELSE participants \ {pres.from}
           /\ told' = IF own THEN {} ELSE told \ {pres.from}
           /\ isJoined' = (isJoined /\ ~own)
           /\ role' = IF own THEN pres.role ELSE role
           /\ turnedAway' = (turnedAway \/ own)
    /\ UNCHANGED <<startedJoining, wants>>

handlePresence ==
    /\ toClient # <<>>
    /\ toClient' = Tail(toClient)
    /\ \/ ErrorReceived(Head(toClient))
       \/ AvailableReceived(Head(toClient))
       \/ UnavailableReceived(Head(toClient))
    /\ UNCHANGED <<connected, serverVars, toRoom>>

-----------------------------------------------------------------------------
(* The client connects and disconnects                                     *)

\* A room that was wanted is joined again, unless a join is thought to be under way.
onConnected ==
    /\ ~connected
    /\ connected' = TRUE
    /\ \/ wants /\ ~startedJoining /\ Joining(TRUE, TRUE)
       \/ ~(wants /\ ~startedJoining) /\ UNCHANGED <<startedJoining, wants, toRoom, turnedAway>>
    /\ UNCHANGED <<nick, isJoined, participants, role, serverVars, toClient, told>>

\* A slip: a join that the connection took with it is still thought to be under way.
onDisconnected_StillJoining ==
    /\ connected' = FALSE
    /\ isJoined' = FALSE
    /\ participants' = IF isJoined THEN {} ELSE participants
    /\ told' = IF isJoined THEN {} ELSE told
    /\ me' = NoNick
    /\ myRole' = "none"
    /\ toRoom' = <<>>
    /\ toClient' = <<>>
    /\ UNCHANGED <<nick, startedJoining, wants, role, others, turnedAway>>

\* disconnected(), of a connection or of an attempt that failed.  The server
\* takes the client out of the room.
onDisconnected ==
    /\ connected' = FALSE
    /\ startedJoining' = FALSE
    /\ isJoined' = FALSE
    /\ participants' = IF isJoined THEN {} ELSE participants
    /\ told' = IF isJoined THEN {} ELSE told
    /\ me' = NoNick
    /\ myRole' = "none"
    /\ toRoom' = <<>>
    /\ toClient' = <<>>
    /\ UNCHANGED <<nick, wants, role, others, turnedAway>>

-----------------------------------------------------------------------------
(* The room                                                                *)

Available(n, r) == [type |-> "available", from |-> n, newNick |-> NoNick, role |-> r]
Unavailable(n, new, r) == [type |-> "unavailable", from |-> n, newNick |-> new, role |-> r]
Error(n) == [type |-> "error", from |-> n, newNick |-> NoNick, role |-> "none"]

Says(presences) == toClient' = toClient \o presences

SomeRole == CHOOSE r \in Roles : TRUE

\* Every other occupant in some order, then the newcomer itself.
ShowsEveryone(n) ==
    \E order \in SetToSeqs(others) :
        Says([i \in DOMAIN order |-> Available(order[i], SomeRole)] \o <<Available(n, myRole')>>)

Rename(n) ==
    /\ me' = n
    /\ UNCHANGED myRole
    /\ Says(<<Unavailable(me, n, myRole), Available(n, myRole)>>)

\* What the room makes of a stanza: it lets the client in, shows it everyone
\* again, changes its nickname, lets it out, or refuses.
LetsIn(request) ==
    /\ request.kind = "enter" /\ request.nick \notin others
    /\ \/ me = NoNick /\ me' = request.nick /\ myRole' \in Roles /\ ShowsEveryone(request.nick)
       \/ me = request.nick /\ UNCHANGED <<me, myRole>> /\ ShowsEveryone(request.nick)
       \/ me \notin {NoNick, request.nick} /\ Rename(request.nick)

HearsPresence(request) ==
    /\ request.kind = "presence" /\ me # NoNick /\ request.nick \notin others
    /\ \/ me = request.nick /\ UNCHANGED <<me, myRole>> /\ Says(<<Available(me, myRole)>>)
       \/ me # request.nick /\ Rename(request.nick)

LetsOut(request) ==
    /\ request.kind = "leave"
    /\ me' = NoNick
    /\ myRole' = "none"
    /\ Says(IF me = NoNick THEN <<>> ELSE <<Unavailable(me, NoNick, "none")>>)

\* A nickname that is taken, a presence from outside, or a newcomer who may not enter.
Refuses(request) ==
    /\ \/ request.kind = "enter" /\ (me = NoNick \/ request.nick \in others)
       \/ request.kind = "presence" /\ (me = NoNick \/ request.nick \in others)
    /\ UNCHANGED <<me, myRole>>
    /\ Says(<<Error(request.nick)>>)

RoomAnswers ==
    /\ toRoom # <<>>
    /\ toRoom' = Tail(toRoom)
    /\ LET request == Head(toRoom)
       IN  LetsIn(request) \/ HearsPresence(request) \/ LetsOut(request) \/ Refuses(request)
    /\ UNCHANGED <<roomVars, connected, others, appVars>>

\* Whoever is inside hears of it.
Announces(pres) == toClient' = IF me = NoNick THEN toClient ELSE Append(toClient, pres)

OtherEnters(n) ==
    /\ Roomy
    /\ n \notin others \cup {me}
    /\ others' = others \cup {n}
    /\ Announces(Available(n, SomeRole))
    /\ UNCHANGED <<roomVars, connected, me, myRole, toRoom, appVars>>

OtherLeaves(n) ==
    /\ Roomy
    /\ n \in others
    /\ others' = others \ {n}
    /\ Announces(Unavailable(n, NoNick, "none"))
    /\ UNCHANGED <<roomVars, connected, me, myRole, toRoom, appVars>>

Kicks ==
    /\ Roomy
    /\ me # NoNick
    /\ me' = NoNick
    /\ myRole' = "none"
    /\ Says(<<Unavailable(me, NoNick, "none")>>)
    /\ UNCHANGED <<roomVars, connected, others, toRoom, appVars>>

ChangesRole(r) ==
    /\ Roomy
    /\ me # NoNick
    /\ myRole' = r
    /\ Says(<<Available(me, r)>>)
    /\ UNCHANGED <<roomVars, connected, others, me, toRoom, appVars>>

-----------------------------------------------------------------------------

Next ==
    \/ \E available \in BOOLEAN : join(available) \/ setPresence(available)
    \/ leave
    \/ \E n \in Nicks : setNick(n)
    \/ handlePresence
    \/ onConnected
    \/ onDisconnected
    \/ RoomAnswers
    \/ \E n \in Nicks : OtherEnters(n) \/ OtherLeaves(n)
    \/ Kicks
    \/ \E r \in Roles : ChangesRole(r)

Spec == Init /\ [][Next]_vars

\* The room answers and the stream delivers; the others and the application owe nothing.
FairSpec == Spec /\ WF_vars(RoomAnswers) /\ WF_vars(handlePresence)

-----------------------------------------------------------------------------
(* Properties                                                              *)

\* Nothing is under way: what the client and the room believe must agree.
Settled == connected /\ toRoom = <<>> /\ toClient = <<>>

\* isJoined(), nick() and role() say what the room says whenever nothing is
\* under way, whatever joins, refusals, renames, kicks and broken connections
\* came before: handlePresence compares every presence with a nickname that
\* handlePresence itself may just have changed.
JoinAgrees ==
    Settled =>
        /\ isJoined = (me # NoNick)
        /\ isJoined => nick = me /\ role = myRole

\* An application that follows presenceReceived() and leaved() sees exactly the
\* occupants: the unavailable presences that handlePresence makes up for the
\* participants of an earlier join cover whoever left meanwhile.
ViewAgrees == Settled /\ isJoined => told = others \cup {me}

\* No occupant is missing from participantsHash, which realJid() reads, although
\* it is never emptied by a join.
NobodyMissing == Settled /\ isJoined => others \cup {me} \subseteq participants

\* startedJoining is never left set when nothing is under way: join() would
\* return without doing anything and so would the join of onConnected.
NoStuckJoin == Settled => ~startedJoining

\* Room, client and application agree whenever nothing is under way: on who is
\* inside, under which nickname and role, and that no join is pending.
RoomAgrees == JoinAgrees /\ ViewAgrees /\ NobodyMissing /\ NoStuckJoin

\* mucroom.h of RoleNone: "Not present in room."  So a room that is not joined
\* has no role; onDisconnected leaves the one it had.
NotPresentHasNoRole == ~isJoined => role = "none"

\* A room that is wanted is entered, or the application hears why not: the join
\* that onConnected sends is never lost to one thought to be under way.
WantedIsEntered ==
    (connected /\ wants) ~> (isJoined \/ turnedAway \/ ~wants \/ ~connected)

\* When nothing is under way it is entered, or the application has heard why not.
WantedIsKnown == Settled /\ wants => isJoined \/ turnedAway

-----------------------------------------------------------------------------
(* What makes RoomAgrees inductive, of an application that is not careless:  *)
(* what client and application will believe when all has arrived.            *)

\* The client's nickname when the i-th presence under way arrives.
NickAt(i, n) ==
    \/ /\ n = nick
       /\ \A m \in 1 .. i - 1 : toClient[m].newNick = NoNick
    \/ \E k \in 1 .. i - 1 :
          /\ toClient[k].newNick = n /\ n # NoNick
          /\ \A m \in k + 1 .. i - 1 : toClient[m].newNick = NoNick

\* The presences that it will take for its own: it is inside, or no more.
OwnPlaces == {i \in DOMAIN toClient : NickAt(i, toClient[i].from)}
OwnShown == {i \in OwnPlaces : toClient[i].type = "available"}
OwnLeaves ==
    {i \in OwnPlaces : toClient[i].type = "unavailable" /\ toClient[i].newNick = NoNick}

\* An own presence with the role it has, and what takes this role away.
InRole == {i \in OwnShown : toClient[i].role = myRole}
OffRole == OwnLeaves \cup {i \in OwnShown : toClient[i].role # myRole}

\* The presences that show an occupant to the application, or take it away.
Shown(n) == {i \in DOMAIN toClient : toClient[i].type = "available" /\ toClient[i].from = n}
Gone(n) ==
    {i \in DOMAIN toClient : toClient[i].type = "unavailable" /\ toClient[i].from = n}
        \cup OwnLeaves

\* Whom a client that is inside should see.
Inside == IF me = NoNick THEN {} ELSE others \cup {me}

\* Nothing is under way without a connection, and the room gives no name twice.
OfConnection ==
    ~connected => /\ me = NoNick /\ toRoom = <<>> /\ toClient = <<>>
                  /\ ~startedJoining /\ ~isJoined
NamesApart == me \notin others

\* Only the client changes its nickname, and ends with the one the room knows.
Renames ==
    \A i \in DOMAIN toClient : toClient[i].newNick # NoNick =>
        /\ toClient[i].type = "unavailable" /\ i \in OwnPlaces
        /\ toClient[i].newNick # toClient[i].from
Called == me # NoNick => NickAt(Len(toClient) + 1, me)

\* A request to enter carries the nickname, and no change of it is before it.
Enters == {i \in DOMAIN toRoom : toRoom[i].kind = "enter"}
EntersUnrenamed ==
    \A i \in Enters : /\ \A k \in 1 .. i : toRoom[k].nick = nick
                      /\ \A m \in DOMAIN toClient : toClient[m].newNick = NoNick

\* The client will know that it is inside, and in which role, or that it is not.
Entered ==
    /\ me # NoNick => InTheEnd(isJoined /\ role = myRole, InRole, OffRole)
    /\ me = NoNick => ~InTheEnd(isJoined, OwnShown, OwnLeaves)

\* The application will know every occupant, unless a request to enter is under
\* way, which the room answers with all of them;
NobodyLost ==
    Enters = {} => \A n \in Inside :
        InTheEnd(n \in told /\ ~startedJoining, Shown(n), Gone(n))

\* and nobody else, except that what it knew before a join is taken back by the
\* first presence behind it,
TakenBack ==
    startedJoining /\ \E i \in DOMAIN toClient :
        /\ toClient[i].type = "available"
        /\ \A k \in 1 .. i : toClient[k].type # "error"

\* and what a broken connection left when it is not inside yet: then one
\* request to enter, or its refusal, is under way at most.
Asked == {i \in DOMAIN toRoom : toRoom[i].kind # "leave"}
BeforeEntry ==
    /\ me = NoNick /\ ~isJoined
    /\ \/ ~startedJoining /\ toClient = <<>> /\ Asked = {}
       \/ startedJoining /\ toClient = <<>> /\ \E i \in Enters : Asked = {i}
       \/ /\ startedJoining /\ Len(toClient) = 1 /\ toClient[1].type = "error"
          /\ Asked = {}

NobodyMadeUp ==
    \A n \in Nicks \ Inside :
        ~InTheEnd(n \in told /\ ~TakenBack /\ ~BeforeEntry, Shown(n), Gone(n))

\* A join thought to be under way will be answered.
JoinAnswered ==
    startedJoining =>
        Enters # {} \/ \E i \in DOMAIN toClient : toClient[i].type # "unavailable"

\* As long as a room is wanted, the client is inside, a request to enter is under
\* way, or there is a reason why not, which the application has heard or will hear.
WantedAnswered ==
    connected /\ wants =>
        \/ isJoined \/ turnedAway \/ me # NoNick \/ Enters # {} \/ OwnLeaves # {}
        \/ \E i \in DOMAIN toClient : toClient[i].type = "error"
WantedInv == TypeOK /\ WantedAnswered /\ WantedIsKnown

ToldListed == told \subseteq participants

RoomInv ==
    /\ TypeOK
    /\ OfConnection /\ NamesApart
    /\ Renames /\ Called /\ EntersUnrenamed
    /\ Entered /\ NobodyLost /\ NobodyMadeUp
    /\ JoinAnswered /\ ToldListed

=============================================================================
