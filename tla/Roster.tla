------------------------------- MODULE Roster -------------------------------
(***************************************************************************)
(* The roster (src/src/abstractroster.cpp) and the server that keeps the   *)
(* account's contacts.                                                     *)
(*                                                                         *)
(* The server is external.  It remembers in which version every contact    *)
(* changed last, removals included, and answers a request for the roster   *)
(* with the whole of it, or with an empty result and the changes since the *)
(* version the client names.  Whoever asked for the roster in this         *)
(* connection is told of every change.  Both directions of the stream are  *)
(* queues and are lost with the connection.                                *)
(*                                                                         *)
(* What a contact is called stands for all of its data.                    *)
(***************************************************************************)
EXTENDS Queues, SequencesExt, FiniteSets

CONSTANTS
    Jids,          \* contacts
    Names,         \* what a contact can be called
    Absent,        \* of a contact that is not in a roster
    EchoesErrors,  \* the server repeats the query in an error
    MaxVersion,    \* bound: changes of the server's roster
    MaxUnderWay    \* bound: stanzas under way when somebody acts

ASSUME AbsentAssumption == Absent \notin Names
ASSUME FiniteAssumption == IsFiniteSet(Jids) /\ IsFiniteSet(Names)
ASSUME EchoesErrorsAssumption == EchoesErrors \in BOOLEAN
ASSUME BoundsAssumption == MaxVersion \in Nat /\ MaxUnderWay \in Nat \ {0}

NoVersion == 0     \* the empty version string

VARIABLES
    \* --- AbstractRosterPrivate
    items,         \* the name of every contact in the hash
    version,
    changed,       \* changed_items: contacts of the hash
    orphans,       \* changed_items: objects that have left the hash
    \* --- the client
    connected,
    loaded,        \* the roster has been received in this connection
    \* --- the application
    cache,         \* what it saved for the next start
    \* --- the server and the wire
    kept,          \* the server's roster
    stamp,         \* the version in which a contact changed last
    versioned,     \* whether the server supports versions
    interested,    \* the roster has been requested in this connection
    toServer,
    toClient,
    \* --- what the code has lost track of
    dropped        \* contacts with a local edit that the server never took

rosterVars == <<items, version, changed, orphans>>
serverVars == <<kept, stamp, versioned, interested>>
wire == <<toServer, toClient>>
vars == <<rosterVars, connected, loaded, cache, serverVars, wire, dropped>>

Values == Names \cup {Absent}
Rosters == [Jids -> Values]
Empty == [j \in Jids |-> Absent]

Orphans == [jid : Jids, name : Names]
Requests == [kind : {"load"}, ver : Nat] \cup [kind : {"set"}, jid : Jids, name : Values]
Answers == [kind : {"roster"}, ver : Nat, items : Rosters]
               \cup [kind : {"push"}, ver : Nat, jid : Jids, name : Values]
               \cup [kind : {"current", "error"}]

TypeOK ==
    /\ items \in Rosters
    /\ version \in Nat
    /\ changed \subseteq Jids
    /\ orphans \subseteq Orphans
    /\ connected \in BOOLEAN
    /\ loaded \in BOOLEAN
    /\ cache \in [ver : Nat, items : Rosters]
    /\ kept \in Rosters
    /\ stamp \in [Jids -> Nat]
    /\ versioned \in BOOLEAN
    /\ interested \in BOOLEAN
    /\ toServer \in Seq(Requests)
    /\ toClient \in Seq(Answers)
    /\ dropped \subseteq Jids

Init ==
    /\ items = Empty
    /\ version = NoVersion
    /\ changed = {}
    /\ orphans = {}
    /\ connected = FALSE
    /\ loaded = FALSE
    /\ cache = [ver |-> NoVersion, items |-> Empty]
    /\ kept \in Rosters
    /\ stamp = [j \in Jids |-> IF kept[j] = Absent THEN 0 ELSE 1]
    /\ versioned \in BOOLEAN
    /\ interested = FALSE
    /\ toServer = <<>>
    /\ toClient = <<>>
    /\ dropped = {}

Roomy == Len(toServer) + Len(toClient) < MaxUnderWay

\* The contacts that a request under way edits.
Editing == {toServer[i].jid : i \in {k \in DOMAIN toServer : toServer[k].kind = "set"}}

-----------------------------------------------------------------------------
(* The application and the roster                                          *)

\* Client::send: an IQ of a client that is not connected goes nowhere.
Sends(requests) == toServer' = IF connected THEN toServer \o requests ELSE toServer

load ==
    /\ Roomy
    /\ Sends(<<[kind |-> "load", ver |-> version]>>)
    /\ UNCHANGED <<rosterVars, connected, loaded, cache, serverVars, toClient, dropped>>

\* RosterItem::setName of a contact that is in the roster (of one that has left
\* it, setChanged would note a null pointer): at once here, at the server
\* when synchronize is called.
setName(j, name) ==
    /\ items[j] \notin {Absent, name}
    /\ items' = [items EXCEPT ![j] = name]
    /\ changed' = changed \cup {j}
    /\ UNCHANGED <<version, orphans, connected, loaded, cache, serverVars, wire, dropped>>

Edits == {[kind |-> "set", jid |-> j, name |-> items[j]] : j \in changed}
             \cup {[kind |-> "set", jid |-> o.jid, name |-> o.name] : o \in orphans}

\* Every changed object, in the order of a hash, whether or not it can be sent.
synchronize ==
    /\ Roomy
    /\ changed \cup orphans # {}
    /\ \E order \in SetToSeqs(Edits) : Sends(order)
    /\ changed' = {}
    /\ orphans' = {}
    /\ dropped' = IF connected THEN dropped ELSE dropped \cup changed
    /\ UNCHANGED <<items, version, connected, loaded, cache, serverVars, toClient>>

add(j, name) ==
    /\ Roomy /\ connected
    /\ Sends(<<[kind |-> "set", jid |-> j, name |-> name]>>)
    /\ UNCHANGED <<rosterVars, connected, loaded, cache, serverVars, toClient, dropped>>

remove(j) ==
    /\ Roomy /\ connected
    /\ Sends(<<[kind |-> "set", jid |-> j, name |-> Absent]>>)
    /\ UNCHANGED <<rosterVars, connected, loaded, cache, serverVars, toClient, dropped>>

\* The application saves a roster in which nothing of its own is unconfirmed.
Save ==
    /\ changed \cup dropped \cup Editing = {}
    /\ cache' = [ver |-> version, items |-> items]
    /\ cache' # cache
    /\ UNCHANGED <<rosterVars, connected, loaded, serverVars, wire, dropped>>

\* The application ends, of its own will or not, and starts again: a new roster
\* object, filled with fillRoster.
Restart ==
    /\ ~connected
    /\ version' = cache.ver
    /\ items' = cache.items
    /\ changed' = {}
    /\ orphans' = {}
    /\ dropped' = {}
    /\ UNCHANGED <<connected, loaded, cache, serverVars, wire>>

-----------------------------------------------------------------------------
(* What the stream delivers                                                *)

\* A slip: whatever leaves is taken for changed, also what never was there.
Orphaned_All(gone) == {[jid |-> j, name |-> items[j]] : j \in gone}

\* Objects that leave the hash stay among the changed ones.
Orphaned(gone) == {[jid |-> j, name |-> items[j]] : j \in changed \cap gone}

\* A slip: contacts that are not listed stay.
onLoaded_KeepsUnlisted(listed) ==
    /\ items' = [j \in Jids |-> IF listed[j] = Absent THEN items[j] ELSE listed[j]]
    /\ UNCHANGED <<orphans, changed>>

\* AbstractRoster::onLoaded: contacts that are not listed go.
onLoaded(listed) ==
    LET gone == {j \in Jids : items[j] # Absent /\ listed[j] = Absent}
    IN  /\ items' = listed
        /\ orphans' = orphans \cup Orphaned(gone)
        /\ changed' = changed \ gone

\* LoadRoster of handleIQ: the reply holds a roster,
RosterReceived(answer) ==
    /\ answer.kind = "roster"
    /\ version' = answer.ver
    /\ onLoaded(answer.items)
    /\ loaded' = TRUE
    /\ dropped' = {}

\* or none because the one the client has is the latest,
CurrentReceived(answer) ==
    /\ answer.kind = "current"
    /\ loaded' = TRUE
    /\ UNCHANGED <<rosterVars, dropped>>

\* or none because the request has failed: the same signal.
ErrorReceived(answer) ==
    /\ answer.kind = "error"
    /\ UNCHANGED <<rosterVars, loaded, dropped>>

\* A slip: a push updates only contacts the roster has.
PushReceived_KnownOnly(answer) ==
    /\ answer.kind = "push"
    /\ version' = answer.ver
    /\ items' = [items EXCEPT ![answer.jid] = IF @ = Absent THEN @ ELSE answer.name]
    /\ dropped' = dropped \ {answer.jid}
    /\ UNCHANGED <<changed, orphans, loaded>>

\* The first handleIQ: a change, from whichever client.
PushReceived(answer) ==
    /\ answer.kind = "push"
    /\ version' = answer.ver
    /\ items' = [items EXCEPT ![answer.jid] = answer.name]
    /\ LET gone == IF answer.name = Absent THEN {answer.jid} ELSE {}
       IN  /\ orphans' = orphans \cup Orphaned(gone)
           /\ changed' = changed \ gone
    /\ dropped' = dropped \ {answer.jid}
    /\ UNCHANGED loaded

handleIQ ==
    /\ toClient # <<>>
    /\ toClient' = Tail(toClient)
    /\ \/ RosterReceived(Head(toClient))
       \/ CurrentReceived(Head(toClient))
       \/ ErrorReceived(Head(toClient))
       \/ PushReceived(Head(toClient))
    /\ UNCHANGED <<connected, cache, serverVars, toServer>>

Connects ==
    /\ ~connected
    /\ connected' = TRUE
    /\ UNCHANGED <<rosterVars, loaded, cache, serverVars, wire, dropped>>

\* The roster does not hear of it: edits under way are forgotten.
Disconnects ==
    /\ connected
    /\ connected' = FALSE
    /\ loaded' = FALSE
    /\ interested' = FALSE
    /\ toServer' = <<>>
    /\ toClient' = <<>>
    /\ dropped' = dropped \cup Editing
    /\ UNCHANGED <<rosterVars, cache, kept, stamp, versioned>>

-----------------------------------------------------------------------------
(* The server                                                              *)

Latest == CHOOSE v \in {stamp[j] : j \in Jids} \cup {0} : \A j \in Jids : stamp[j] <= v

\* The version the server states: none if it supports none.
Ver(v) == IF versioned THEN v ELSE NoVersion

Push(j) == [kind |-> "push", ver |-> Ver(stamp[j]), jid |-> j, name |-> kept[j]]

\* The changes since a version, the oldest first.
Changes(since) ==
    LET later == {j \in Jids : stamp[j] > since}
        orders == {s \in SetToSeqs(later) :
                       \A i, k \in DOMAIN s : i < k => stamp[s[i]] <= stamp[s[k]]}
    IN  {[i \in DOMAIN s |-> Push(s[i])] : s \in orders}

Says(answers) == toClient' = toClient \o answers

SendsRoster ==
    /\ Says(<<[kind |-> "roster", ver |-> Ver(Latest), items |-> kept]>>)
    /\ interested' = TRUE

SendsChanges(since) ==
    /\ versioned /\ since # NoVersion
    /\ \E changes \in Changes(since) : Says(<<[kind |-> "current"]>> \o changes)
    /\ interested' = TRUE

RefusesLoad(since) ==
    /\ Says(<<IF EchoesErrors THEN [kind |-> "roster", ver |-> since, items |-> Empty]
                              ELSE [kind |-> "error"]>>)
    /\ UNCHANGED interested

Loads(request) ==
    /\ request.kind = "load"
    /\ SendsRoster \/ SendsChanges(request.ver) \/ RefusesLoad(request.ver)
    /\ UNCHANGED <<kept, stamp, dropped>>

Alters(j, name) ==
    /\ Latest < MaxVersion
    /\ kept' = [kept EXCEPT ![j] = name]
    /\ stamp' = [stamp EXCEPT ![j] = Latest + 1]
    /\ toClient' = IF interested
                   THEN Append(toClient, [kind |-> "push", ver |-> Ver(Latest + 1),
                                          jid |-> j, name |-> name])
                   ELSE toClient

TakesEdit(request) ==
    /\ request.kind = "set"
    /\ Alters(request.jid, request.name)
    /\ UNCHANGED <<interested, dropped>>

RefusesEdit(request) ==
    /\ request.kind = "set"
    /\ Says(<<[kind |-> "error"]>>)
    /\ dropped' = dropped \cup {request.jid}
    /\ UNCHANGED <<kept, stamp, interested>>

ServerAnswers ==
    /\ toServer # <<>>
    /\ toServer' = Tail(toServer)
    /\ LET request == Head(toServer)
       IN  Loads(request) \/ TakesEdit(request) \/ RefusesEdit(request)
    /\ UNCHANGED <<rosterVars, connected, loaded, cache, versioned>>

\* Another client of the account, or a contact's answer.
OthersChange(j, name) ==
    /\ Roomy
    /\ kept[j] # name
    /\ Alters(j, name)
    /\ UNCHANGED <<rosterVars, connected, loaded, cache, versioned, interested, toServer, dropped>>

-----------------------------------------------------------------------------

Next ==
    \/ load
    \/ \E j \in Jids, name \in Names : setName(j, name) \/ add(j, name)
    \/ \E j \in Jids : remove(j)
    \/ synchronize
    \/ Save
    \/ Restart
    \/ handleIQ
    \/ Connects
    \/ Disconnects
    \/ ServerAnswers
    \/ \E j \in Jids, name \in Values : OthersChange(j, name)

Spec == Init /\ [][Next]_vars

-----------------------------------------------------------------------------
(* Properties                                                              *)

\* A contact whose local edit is not known to have reached the server.
Unsettled == changed \cup dropped \cup Editing

\* The version vouches for the roster, at every moment and across restarts and
\* broken connections: what changed up to it is known here.  Otherwise the
\* server, asked for the changes since that version, would never send it.
VersionHonest ==
    versioned => \A j \in Jids \ Unsettled : stamp[j] <= version => items[j] = kept[j]

\* The saved roster is honest in the same way.
CacheHonest ==
    versioned => \A j \in Jids : stamp[j] <= cache.ver => cache.items[j] = kept[j]

\* Neither version, the one in use nor the saved one, runs ahead of its items.
VersionsHonest == VersionHonest /\ CacheHonest

\* Once the roster is loaded and nothing is under way, it is the server's, but
\* for contacts with an edit of its own: whole rosters, changes since a version
\* and pushes of other clients add up, in whatever order they came.
Converges ==
    connected /\ loaded /\ toServer = <<>> /\ toClient = <<>> =>
        \A j \in Jids \ Unsettled : items[j] = kept[j]

-----------------------------------------------------------------------------
(* What makes them inductive, of a server that does not repeat the query in *)
(* an error.                                                                *)

\* Answers that tell of a contact what the server has of it, and those that
\* tell otherwise (any more).
Right(j) ==
    {a \in Answers : \/ a.kind = "roster" /\ a.items[j] = kept[j]
                     \/ a.kind = "push" /\ a.jid = j /\ a.name = kept[j]}
Wrong(j) ==
    {a \in Answers : \/ a.kind = "roster" /\ a.items[j] # kept[j]
                     \/ a.kind = "push" /\ a.jid = j /\ a.name # kept[j]}

\* What is wrong is put right by an answer behind it.
Corrected == \A j \in Jids : Followed(toClient, Wrong(j), Right(j))

\* A contact is the server's, or the news of it is on its way.
Known(j) == items[j] = kept[j] \/ Has(toClient, Right(j))

\* Whoever has asked for the roster knows all of it, or will.
AllKnown == interested => \A j \in Jids \ Unsettled : Known(j)

\* A version that the server is asked for the changes since vouches for what
\* the client knows, or will when the server gets to it,
LoadsHonest ==
    versioned => \A i \in DOMAIN toServer : toServer[i].kind = "load" =>
        \A j \in Jids \ Unsettled : stamp[j] <= toServer[i].ver => Known(j)

\* and one that an answer brings, for what the client knows with this answer.
Versions(q) == {i \in DOMAIN q : q[i].kind \in {"roster", "push"}}
Vouched(i, j) ==
    /\ j \notin Unsettled =>
           items[j] = kept[j] \/ \E m \in DOMAIN toClient : m <= i /\ toClient[m] \in Right(j)
    /\ \A m \in DOMAIN toClient : m <= i /\ toClient[m] \in Wrong(j) =>
           \E n \in DOMAIN toClient : m < n /\ n <= i /\ toClient[n] \in Right(j)
AnswersHonest ==
    versioned => \A i \in Versions(toClient), j \in Jids :
        stamp[j] <= toClient[i].ver => Vouched(i, j)

\* Only versions the server has had are named, and no two changes share one.
LatestIs == \E v \in {stamp[j] : j \in Jids} \cup {0} : \A j \in Jids : stamp[j] <= v
VersionsNamed ==
    versioned =>
        /\ version <= Latest
        /\ cache.ver <= Latest
        /\ \A i \in DOMAIN toServer : toServer[i].kind = "load" => toServer[i].ver <= Latest
        /\ \A i \in Versions(toClient) : toClient[i].ver <= Latest
StampsApart == \A j, k \in Jids : stamp[j] = stamp[k] /\ j # k => stamp[j] <= 1

\* Nothing is under way without a connection, and nothing of the roster before
\* it has been asked for.
OfConnection ==
    ~connected => ~interested /\ ~loaded /\ toServer = <<>> /\ toClient = <<>>
OfInterest ==
    ~interested => ~loaded /\ \A i \in DOMAIN toClient : toClient[i].kind = "error"

\* A contact that is noted as changed is in the hash.
ChangedHeld == \A j \in changed : items[j] # Absent

RosterInv ==
    /\ TypeOK /\ ChangedHeld
    /\ OfConnection /\ OfInterest
    /\ LatestIs /\ VersionsNamed /\ StampsApart
    /\ Corrected /\ AllKnown /\ LoadsHonest /\ AnswersHonest
    /\ VersionsHonest

=============================================================================
