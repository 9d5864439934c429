---------------------------- MODULE PrivacyManager ----------------------------
(***************************************************************************)
(* Privacy lists (src/src/privacymanager.cpp) and the server that keeps    *)
(* them.                                                                   *)
(*                                                                         *)
(* The manager remembers the names of all lists, which of them is the      *)
(* default and which the active one, and the items of the list it received *)
(* last.  The server is external: it answers in order, pushes the name of  *)
(* each list that changes, and drops the active list with the connection.  *)
(* Both directions of the stream are queues and are lost with it.          *)
(*                                                                         *)
(* The items of a list are one value.                                      *)
(***************************************************************************)
EXTENDS Queues

CONSTANTS
    Names,         \* names of lists
    NoName,        \* the empty name
    Contents,      \* what a list can hold
    Empty,         \* the items of a list that is empty, or does not exist
    Echoes,        \* whether the server may repeat the query in an error, or not
    Careless,      \* what applications do that the manager does not bear
    MaxId,         \* bound: ids of setters in use at one time
    MaxUnderWay    \* bound: stanzas under way when somebody acts

ASSUME NamesAssumption == NoName \notin Names /\ Empty \notin Contents
ASSUME EchoesAssumption == Echoes \subseteq BOOLEAN /\ Echoes # {}
ASSUME CarelessAssumption == Careless \subseteq {"unrequested"}
ASSUME BoundsAssumption == MaxId \in Nat \ {0} /\ MaxUnderWay \in Nat \ {0}

VARIABLES
    \* --- PrivacyManagerPrivate
    defaultList,
    activeList,
    lists,
    activeListSetter,   \* pairs of an id and a name
    defaultListSetter,
    listRequests,
    last,               \* lastListName and lastList
    validServer,
    \* --- the client and the application
    connected,
    requested,          \* request() has been called in this connection
    waiting,            \* lists asked for with requestList() and not yet received
    \* --- the server and the wire
    peer,               \* whether the server knows privacy lists, and the errors it sends
    kept,               \* the items of each list
    serverDefault,
    serverActive,       \* of this connection
    toServer,
    toClient

setters == <<activeListSetter, defaultListSetter>>
known == <<defaultList, activeList, lists>>
application == <<connected, requested, waiting>>
server == <<kept, serverDefault, serverActive>>
vars == <<known, setters, listRequests, last, validServer, application,
          peer, server, toServer, toClient>>

MaybeName == Names \cup {NoName}
Items == Contents \cup {Empty}
Ids == 1 .. MaxId
NoList == [name |-> NoName, items |-> Empty]

Requests == [kind : {"all"}] \cup [kind : {"get"}, name : Names]
                \cup [kind : {"active", "default"}, id : Ids, name : MaybeName]
                \cup [kind : {"set"}, name : Names, items : Items]
Answers == [kind : {"lists"}, names : SUBSET Names, active : MaybeName, default : MaybeName]
               \cup [kind : {"list"}, name : Names, items : Contents]
               \cup [kind : {"done"}, of : Requests]
               \cup [kind : {"error"}, of : Requests, echo : BOOLEAN, unavailable : BOOLEAN]
               \cup [kind : {"push"}, name : Names]

\* A server repeats the query in every error it sends, or in some.
Manners == {Echoes \cap {TRUE}, Echoes} \ {{}}

TypeOK ==
    /\ defaultList \in MaybeName
    /\ activeList \in MaybeName
    /\ lists \subseteq Names
    /\ activeListSetter \subseteq Ids \X MaybeName
    /\ defaultListSetter \subseteq Ids \X MaybeName
    /\ listRequests \subseteq Names
    /\ last \in [name : Names, items : Items] \cup {NoList}
    /\ validServer \in BOOLEAN
    /\ connected \in BOOLEAN
    /\ requested \in BOOLEAN
    /\ waiting \subseteq Names
    /\ peer \in [supported : BOOLEAN, echoes : Manners]
    /\ kept \in [Names -> Items]
    /\ serverDefault \in MaybeName
    /\ serverActive \in MaybeName
    /\ toServer \in Seq(Requests)
    /\ toClient \in Seq(Answers)

Existing == {n \in Names : kept[n] # Empty}

Init ==
    /\ defaultList = NoName
    /\ activeList = NoName
    /\ lists = {}
    /\ activeListSetter = {}
    /\ defaultListSetter = {}
    /\ listRequests = {}
    /\ last = NoList
    /\ validServer = TRUE
    /\ connected = FALSE
    /\ requested = FALSE
    /\ waiting = {}
    /\ peer \in [supported : BOOLEAN, echoes : Manners]
    /\ kept \in [Names -> IF peer.supported THEN Items ELSE {Empty}]
    /\ serverDefault \in Existing \cup {NoName}
    /\ serverActive = NoName
    /\ toServer = <<>>
    /\ toClient = <<>>

Roomy == Len(toServer) + Len(toClient) < MaxUnderWay

-----------------------------------------------------------------------------
(* The application and the manager                                         *)

\* The application asks for everything before it does anything else.
Prepared == requested \/ "unrequested" \in Careless

\* Client::send: an IQ of a client that is not connected goes nowhere.
Sends(iq) == toServer' = IF connected THEN Append(toServer, iq) ELSE toServer

\* A slip: what was asked for in the last connection stays noted.
request_KeepsRequests ==
    /\ Roomy
    /\ validServer
    /\ Sends([kind |-> "all"])
    /\ last' = NoList
    /\ activeListSetter' = {}
    /\ defaultListSetter' = {}
    /\ requested' = connected
    /\ UNCHANGED <<known, listRequests, validServer, connected, waiting, peer, server, toClient>>

request ==
    /\ Roomy
    /\ validServer        \* otherwise it only says so
    /\ Sends([kind |-> "all"])
    /\ last' = NoList
    /\ listRequests' = {}
    /\ activeListSetter' = {}
    /\ defaultListSetter' = {}
    /\ requested' = connected
    /\ UNCHANGED <<known, validServer, connected, waiting, peer, server, toClient>>

\* An id that nobody uses: those of the program are never used twice.
FreeIds ==
    Ids \ ({s[1] : s \in activeListSetter \cup defaultListSetter}
           \cup {toServer[i].id : i \in {k \in DOMAIN toServer :
                                             toServer[k].kind \in {"active", "default"}}}
           \cup {toClient[i].of.id : i \in {k \in DOMAIN toClient :
                                               /\ toClient[k].kind \in {"done", "error"}
                                               /\ toClient[k].of.kind \in {"active", "default"}}})

NewId == CHOOSE id \in FreeIds : TRUE

CanSet == Roomy /\ Prepared /\ validServer

setActiveList(name) ==
    /\ CanSet /\ FreeIds # {}
    /\ activeListSetter' = activeListSetter \cup {<<NewId, name>>}
    /\ Sends([kind |-> "active", id |-> NewId, name |-> name])
    /\ UNCHANGED <<known, defaultListSetter, listRequests, last, validServer, application,
                   peer, server, toClient>>

setDefaultList(name) ==
    /\ CanSet /\ FreeIds # {}
    /\ defaultListSetter' = defaultListSetter \cup {<<NewId, name>>}
    /\ Sends([kind |-> "default", id |-> NewId, name |-> name])
    /\ UNCHANGED <<known, activeListSetter, listRequests, last, validServer, application,
                   peer, server, toClient>>

\* And removeList, which sets a list without items.
setList(name, items) ==
    /\ CanSet
    /\ Sends([kind |-> "set", name |-> name, items |-> items])
    /\ UNCHANGED <<known, setters, listRequests, last, validServer, application,
                   peer, server, toClient>>

\* Lists that are not at hand, not known to be missing and not asked for yet.
\* In the first two cases listReceived() is emitted at once.
requestList(name) ==
    /\ Roomy /\ Prepared
    /\ last.name # name
    /\ name \in lists /\ validServer
    /\ waiting' = waiting \cup {name}
    /\ IF name \in listRequests
       THEN UNCHANGED <<listRequests, toServer>>
       ELSE /\ listRequests' = listRequests \cup {name}
            /\ Sends([kind |-> "get", name |-> name])
    /\ UNCHANGED <<known, setters, last, validServer, connected, requested,
                   peer, server, toClient>>

-----------------------------------------------------------------------------
(* What the stream delivers                                                *)

\* QHash::take, the empty name if there is no such id.
Taken(setter, id) ==
    IF \E name \in MaybeName : <<id, name>> \in setter
    THEN CHOOSE name \in MaybeName : <<id, name>> \in setter
    ELSE NoName

Without(setter, id) == {s \in setter : s[1] # id}

\* The answer to setActiveList,
ActiveListSet(of) ==
    /\ of.kind = "active"
    /\ activeList' = Taken(activeListSetter, of.id)
    /\ activeListSetter' = Without(activeListSetter, of.id)
    /\ UNCHANGED <<defaultList, defaultListSetter>>

\* to setDefaultList,
DefaultListSet(of) ==
    /\ of.kind = "default"
    /\ defaultList' = Taken(defaultListSetter, of.id)
    /\ defaultListSetter' = Without(defaultListSetter, of.id)
    /\ UNCHANGED <<activeList, activeListSetter>>

\* and to setList, which is sent with the context of setDefaultList and has
\* no setter: the default list is taken to be none.
ListSet(of) ==
    /\ of.kind = "set"
    /\ defaultList' = NoName
    /\ UNCHANGED <<activeList, setters>>

DoneReceived(answer) ==
    /\ answer.kind = "done"
    /\ ActiveListSet(answer.of) \/ DefaultListSet(answer.of) \/ ListSet(answer.of)
    /\ UNCHANGED <<lists, listRequests, last, validServer, waiting>>

\* A slip: the answered request stays noted.
OnList_KeepsRequest(name, items) ==
    /\ last' = [name |-> name, items |-> items]
    /\ lists' = IF items = Empty THEN lists \ {name} ELSE lists
    /\ waiting' = waiting \ {name}
    /\ UNCHANGED listRequests

\* RequestList, with a query in the answer.
OnList(name, items) ==
    /\ last' = [name |-> name, items |-> items]
    /\ lists' = IF items = Empty THEN lists \ {name} ELSE lists
    /\ listRequests' = listRequests \ {name}
    /\ waiting' = waiting \ {name}

ListReceived(answer) ==
    /\ answer.kind = "list"
    /\ OnList(answer.name, answer.items)
    /\ UNCHANGED <<defaultList, activeList, setters, validServer>>

\* RequestAll, with a query in the answer.
OnLists(names, active, default) ==
    /\ lists' = names
    /\ defaultList' = default
    /\ activeList' = IF active = NoName THEN default ELSE active

ListsReceived(answer) ==
    /\ answer.kind = "lists"
    /\ OnLists(answer.names, answer.active, answer.default)
    /\ UNCHANGED <<setters, listRequests, last, validServer, waiting>>

\* An error: a setter is forgotten,
SetterRefused(of) ==
    /\ of.kind \in {"active", "default"}
    /\ activeListSetter' = IF of.kind = "active"
                           THEN Without(activeListSetter, of.id) ELSE activeListSetter
    /\ defaultListSetter' = IF of.kind = "default"
                            THEN Without(defaultListSetter, of.id) ELSE defaultListSetter
    /\ UNCHANGED <<known, listRequests, last, waiting>>

\* and a query it repeats is taken for an answer, without items
EchoOfList(of) ==
    /\ of.kind = "get"
    /\ OnList(of.name, Empty)
    /\ UNCHANGED <<defaultList, activeList, setters>>

\* or without lists.
EchoOfLists(of) ==
    /\ of.kind = "all"
    /\ OnLists({}, NoName, NoName)
    /\ UNCHANGED <<setters, listRequests, last, waiting>>

\* Without a query listReceived() names no list.
NothingReceived(answer) ==
    /\ answer.of.kind = "set" \/ (answer.of.kind \in {"get", "all"} /\ ~answer.echo)
    /\ UNCHANGED <<known, setters, listRequests, last, waiting>>

ErrorReceived(answer) ==
    /\ answer.kind = "error"
    /\ validServer' = (validServer /\ ~answer.unavailable)
    /\ \/ SetterRefused(answer.of)
       \/ answer.echo /\ EchoOfList(answer.of)
       \/ answer.echo /\ EchoOfLists(answer.of)
       \/ NothingReceived(answer)

\* A slip: the list at hand is not forgotten.
PushReceived_KeepsLast(answer) ==
    /\ answer.kind = "push"
    /\ lists' = lists \cup {answer.name}
    /\ UNCHANGED <<last, defaultList, activeList, setters, listRequests, validServer, waiting>>

\* A list has changed, also one that is gone now.
PushReceived(answer) ==
    /\ answer.kind = "push"
    /\ last' = IF last.name = answer.name THEN NoList ELSE last
    /\ lists' = lists \cup {answer.name}
    /\ UNCHANGED <<defaultList, activeList, setters, listRequests, validServer, waiting>>

handleIQ ==
    /\ toClient # <<>>
    /\ toClient' = Tail(toClient)
    /\ \/ DoneReceived(Head(toClient))
       \/ ListReceived(Head(toClient))
       \/ ListsReceived(Head(toClient))
       \/ ErrorReceived(Head(toClient))
       \/ PushReceived(Head(toClient))
    /\ UNCHANGED <<connected, requested, peer, server, toServer>>

Connects ==
    /\ ~connected
    /\ connected' = TRUE
    /\ UNCHANGED <<known, setters, listRequests, last, validServer, requested, waiting,
                   peer, server, toServer, toClient>>

\* The manager does not hear of it; who waits for a list has to start over.
Disconnects ==
    /\ connected
    /\ connected' = FALSE
    /\ requested' = FALSE
    /\ waiting' = {}
    /\ serverActive' = NoName
    /\ toServer' = <<>>
    /\ toClient' = <<>>
    /\ UNCHANGED <<known, setters, listRequests, last, validServer, peer, kept,
                   serverDefault>>

-----------------------------------------------------------------------------
(* The server                                                              *)

Says(answers) == toClient' = toClient \o answers

Refuses(iq) ==
    /\ \E echo \in peer.echoes :
           Says(<<[kind |-> "error", of |-> iq, echo |-> echo, unavailable |-> ~peer.supported]>>)
    /\ UNCHANGED server

SaysAll(iq) ==
    /\ iq.kind = "all"
    /\ Says(<<[kind |-> "lists", names |-> Existing, active |-> serverActive,
               default |-> serverDefault]>>)
    /\ UNCHANGED server

SaysList(iq) ==
    /\ iq.kind = "get"
    /\ IF iq.name \in Existing
       THEN /\ Says(<<[kind |-> "list", name |-> iq.name, items |-> kept[iq.name]]>>)
            /\ UNCHANGED server
       ELSE Refuses(iq)

TakesActive(iq) ==
    /\ iq.kind = "active"
    /\ IF iq.name \in Existing \cup {NoName}
       THEN /\ serverActive' = iq.name
            /\ Says(<<[kind |-> "done", of |-> iq]>>)
            /\ UNCHANGED <<kept, serverDefault>>
       ELSE Refuses(iq)

TakesDefault(iq) ==
    /\ iq.kind = "default"
    /\ IF iq.name \in Existing \cup {NoName}
       THEN /\ serverDefault' = iq.name
            /\ Says(<<[kind |-> "done", of |-> iq]>>)
            /\ UNCHANGED <<kept, serverActive>>
       ELSE Refuses(iq)

\* A list that is removed is neither the default nor the active one any more.
Alters(name, items) ==
    /\ kept' = [kept EXCEPT ![name] = items]
    /\ serverDefault' = IF serverDefault = name /\ items = Empty THEN NoName ELSE serverDefault
    /\ serverActive' = IF serverActive = name /\ items = Empty THEN NoName ELSE serverActive

\* The push goes to the client that made the change as well.
TakesList(iq) ==
    /\ iq.kind = "set"
    /\ IF kept[iq.name] # iq.items \/ iq.items # Empty
       THEN /\ Alters(iq.name, iq.items)
            /\ LET done == [kind |-> "done", of |-> iq]
                   push == [kind |-> "push", name |-> iq.name]
               IN  Says(<<done, push>>) \/ Says(<<push, done>>)
       ELSE Refuses(iq)

ServerAnswers ==
    /\ toServer # <<>>
    /\ toServer' = Tail(toServer)
    /\ LET iq == Head(toServer)
       IN  IF peer.supported
           THEN SaysAll(iq) \/ SaysList(iq) \/ TakesActive(iq) \/ TakesDefault(iq) \/ TakesList(iq)
           ELSE Refuses(iq)
    /\ UNCHANGED <<known, setters, listRequests, last, validServer, application, peer>>

\* Another client of the account; it cannot remove a list that is in use here.
OthersChange(name, items) ==
    /\ Roomy
    /\ peer.supported
    /\ kept[name] # items
    /\ items = Empty => name \notin {serverDefault, serverActive}
    /\ Alters(name, items)
    /\ toClient' = IF connected THEN Append(toClient, [kind |-> "push", name |-> name])
                   ELSE toClient
    /\ UNCHANGED <<known, setters, listRequests, last, validServer, application, peer,
                   toServer>>

-----------------------------------------------------------------------------

Next ==
    \/ request
    \/ \E name \in MaybeName : setActiveList(name) \/ setDefaultList(name)
    \/ \E name \in Names, items \in Items : setList(name, items) \/ OthersChange(name, items)
    \/ \E name \in Names : requestList(name)
    \/ handleIQ
    \/ Connects
    \/ Disconnects
    \/ ServerAnswers

Spec == Init /\ [][Next]_vars

\* What is under way arrives and is answered, unless the connection is lost.
FairSpec == Spec /\ WF_vars(handleIQ) /\ WF_vars(ServerAnswers)

-----------------------------------------------------------------------------
(* Properties                                                              *)

\* What the answer says of a list that has changed.
PushesOf(name) == [kind : {"push"}, name : {name}]
Pushed(name) == Has(toClient, PushesOf(name))

\* Requests of a kind, those granted and those refused.
Asking(kinds) == {iq \in Requests : iq.kind \in kinds}
Granting(kinds) == {a \in Answers : a.kind = "done" /\ a.of.kind \in kinds}
Refusing(kinds) == {a \in Answers : a.kind = "error" /\ a.of.kind \in kinds}
Listing == {a \in Answers : a.kind = "lists"}

\* A request of a kind that the server has still to get or the client to hear of.
UnderWay(kinds) ==
    \/ Has(toServer, Asking(kinds))
    \/ Has(toClient, Granting(kinds) \cup Refusing(kinds))

\* Everything has been requested in this connection, and has arrived.
Synced == connected /\ requested /\ ~UnderWay({"all"}) /\ ~Has(toClient, Listing)

\* The list at hand, which requestList() hands out without asking, is the
\* server's, or the news that it is not is on its way.
CacheHonest ==
    connected /\ requested /\ last.name # NoName =>
        last.items = kept[last.name] \/ Pushed(last.name)

\* No list of the server is unknown to the client: requestList() of an unknown
\* one tells the application that it is empty.  The client may know of more.
NamesKnown == Synced => \A name \in Existing : name \in lists \/ Pushed(name)

\* The default list is the server's, or none after setList(); never another one.
DefaultAgrees ==
    Synced /\ ~UnderWay({"default", "set"}) => defaultList \in {serverDefault, NoName}

\* The active list is the server's, if it has one for this connection.
ActiveAgrees ==
    Synced /\ ~UnderWay({"active", "set"}) /\ serverActive # NoName =>
        activeList = serverActive

\* The lists in use are the server's, in whatever order setters, errors and
\* whole answers crossed, and whatever request() forgot of them.
ListsInUseAgree == DefaultAgrees /\ ActiveAgrees

\* What the manager remembers is the server's, or the news that it is not is on
\* its way: the list at hand, the names, the default and the active list.
MirrorHonest == CacheHonest /\ NamesKnown /\ ListsInUseAgree

\* A list that is asked for is received, unless the connection is lost: no call
\* of requestList() is swallowed by an earlier one that is over.  A server that
\* leaves the query out of its errors is beyond it.
ListAnswered ==
    \A name \in Names :
        (name \in waiting /\ peer.echoes = {TRUE}) ~> name \notin waiting

\* The request for a list that the server has still to get, or the answer with
\* which the list is received.
RequestsOf(name) == [kind : {"get"}, name : {name}]
AnswersOf(name) ==
    {a \in Answers :
        \/ a.kind = "list" /\ a.name = name
        \/ a.kind = "error" /\ a.of.kind = "get" /\ a.of.name = name /\ a.echo}
OnItsWay(name) == Has(toServer, RequestsOf(name)) \/ Has(toClient, AnswersOf(name))

\* Nobody waits for a list that will not come: neither the application nor the
\* note that the list was asked for, for which another call is swallowed.  As
\* above it takes everything to be requested first, and errors with the query.
NobodyWaitsInVain ==
    Careless = {} /\ peer.echoes = {TRUE} =>
        /\ \A name \in waiting : OnItsWay(name)
        /\ requested => \A name \in listRequests : OnItsWay(name)

-----------------------------------------------------------------------------
(* What makes MirrorHonest inductive: whatever an answer under way says of  *)
(* the server and is not so any more, another behind it puts right.         *)

\* Answers that say of a list what it does not hold (any more), with which the
\* list at hand is replaced;
StaleItems(name) ==
    {a \in Answers :
        \/ a.kind = "list" /\ a.name = name /\ a.items # kept[name]
        \/ a.kind = "error" /\ a.of.kind = "get" /\ a.of.name = name /\ kept[name] # Empty}

\* that leave out a list;
StaleNames(name) == {a \in Listing : name \in Existing /\ name \notin a.names}

\* and that name another default or another active list.
StaleDefault ==
    {a \in Listing : a.default # serverDefault}
        \cup {a \in Granting({"default"}) : a.of.name # serverDefault}
StaleActive ==
    {a \in Listing : serverActive # NoName /\ a.active # serverActive}
        \cup {a \in Granting({"active"}) : serverActive # NoName /\ a.of.name # serverActive}

Corrected ==
    /\ \A name \in Names : Followed(toClient, StaleItems(name), PushesOf(name))
    /\ \A name \in Names : Followed(toClient, StaleNames(name), PushesOf(name))
    /\ Followed(toClient, StaleDefault, Granting({"default", "set"}))
    /\ Followed(toClient, StaleActive, Granting({"active"}))

\* A setter under way that the manager has forgotten will be made up for by
\* all lists, asked for later.
ForgottenRequests == {iq \in Asking({"active"}) : <<iq.id, iq.name>> \notin activeListSetter}
ForgottenAnswers ==
    {a \in Granting({"active"}) : <<a.of.id, a.of.name>> \notin activeListSetter}

MadeUpFor ==
    /\ Followed(toServer, ForgottenRequests, Asking({"all"}))
    /\ Has(toServer, Asking({"all"})) \/ Followed(toClient, ForgottenAnswers, Listing)

\* An id has one setter and one request.
SetterIds(q) == {i \in DOMAIN q : q[i].kind \in {"active", "default"}}
AnsweredIds(q) ==
    {i \in DOMAIN q : q[i].kind \in {"done", "error"} /\ q[i].of.kind \in {"active", "default"}}

IdsApart ==
    /\ \A i, k \in SetterIds(toServer) : toServer[i].id = toServer[k].id => i = k
    /\ \A i, k \in AnsweredIds(toClient) : toClient[i].of.id = toClient[k].of.id => i = k
    /\ \A i \in SetterIds(toServer), k \in AnsweredIds(toClient) :
           toServer[i].id # toClient[k].of.id

\* The setter, if it is not forgotten, holds the name that was sent.
SetsAsSaid(iq) ==
    /\ iq.kind = "active" => \A s \in activeListSetter : s[1] = iq.id => s[2] = iq.name
    /\ iq.kind = "default" => \A s \in defaultListSetter : s[1] = iq.id => s[2] = iq.name
SettersMatch ==
    /\ \A i \in SetterIds(toServer) : SetsAsSaid(toServer[i])
    /\ \A i \in AnsweredIds(toClient) : SetsAsSaid(toClient[i].of)

\* Without a connection there is nothing under way; a server without privacy
\* lists has none and only refuses; one that has them says what they are.
OfConnection ==
    ~connected => ~requested /\ toServer = <<>> /\ toClient = <<>> /\ serverActive = NoName
OfServer ==
    /\ ~peer.supported =>
        /\ \A name \in Names : kept[name] = Empty
        /\ serverDefault = NoName /\ serverActive = NoName /\ defaultList = NoName
        /\ \A i \in DOMAIN toClient : toClient[i].kind = "error"
    /\ peer.supported => ~Has(toClient, Refusing({"all"}))

\* What makes NobodyWaitsInVain inductive: nothing is asked for without a
\* connection.
WaitInv == TypeOK /\ OfConnection /\ NobodyWaitsInVain

\* Between two setters the lists in use are the server's.
InUse ==
    /\ Synced /\ ~Has(toClient, Granting({"default", "set"})) =>
        defaultList \in {serverDefault, NoName}
    /\ Synced /\ ~Has(toClient, Granting({"active"})) /\ serverActive # NoName =>
        activeList = serverActive

MirrorInv ==
    /\ TypeOK
    /\ OfConnection /\ OfServer
    /\ IdsApart /\ SettersMatch /\ MadeUpFor
    /\ Corrected
    /\ CacheHonest /\ NamesKnown /\ InUse

=============================================================================
