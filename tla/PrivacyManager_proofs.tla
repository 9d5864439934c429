------------------------ MODULE PrivacyManager_proofs ------------------------
(***************************************************************************)
(* Theorems about the privacy manager, its server and other clients, for   *)
(* any lists, any contents and any number of stanzas under way.            *)
(***************************************************************************)
EXTENDS PrivacyManager, Queues_proofs

---------------------------------------------------------------------------
\* Stanzas.

\* What a request holds.
LEMMA RequestKinds ==
  ASSUME NEW r \in Requests
  PROVE  /\ r.kind \in {"all", "get", "active", "default", "set"}
         /\ r.kind \in {"get", "set"} => r.name \in Names
         /\ r.kind \in {"active", "default"} => r.id \in Ids /\ r.name \in MaybeName
         /\ r.kind = "set" => r.items \in Items
  BY DEF Requests

\* What an answer holds.
LEMMA AnswerKinds ==
  ASSUME NEW a \in Answers
  PROVE  /\ a.kind \in {"lists", "list", "done", "error", "push"}
         /\ a.kind = "lists" => /\ a.names \subseteq Names
                                /\ a.active \in MaybeName /\ a.default \in MaybeName
         /\ a.kind = "list" => a.name \in Names /\ a.items \in Contents
         /\ a.kind \in {"done", "error"} => a.of \in Requests
         /\ a.kind = "error" => a.echo \in BOOLEAN /\ a.unavailable \in BOOLEAN
         /\ a.kind = "push" => a.name \in Names
  BY DEF Answers

\* The requests the manager makes.
LEMMA RequestsMade ==
  /\ [kind |-> "all"] \in Requests
  /\ \A name \in Names : [kind |-> "get", name |-> name] \in Requests
  /\ \A id \in Ids, name \in MaybeName :
        /\ [kind |-> "active", id |-> id, name |-> name] \in Requests
        /\ [kind |-> "default", id |-> id, name |-> name] \in Requests
  /\ \A name \in Names, items \in Items :
        [kind |-> "set", name |-> name, items |-> items] \in Requests
  BY DEF Requests

\* The answers the server makes.
LEMMA AnswersMade ==
  /\ \A r \in Requests, e \in BOOLEAN, u \in BOOLEAN :
        [kind |-> "error", of |-> r, echo |-> e, unavailable |-> u] \in Answers
  /\ \A r \in Requests : [kind |-> "done", of |-> r] \in Answers
  /\ \A name \in Names : [kind |-> "push", name |-> name] \in Answers
  /\ \A name \in Names, items \in Contents :
        [kind |-> "list", name |-> name, items |-> items] \in Answers
  /\ \A names \in SUBSET Names, active \in MaybeName, default \in MaybeName :
        [kind |-> "lists", names |-> names, active |-> active, default |-> default] \in Answers
  BY DEF Answers

\* What is sent goes to the end of what is under way (Client::send).
LEMMA Sent ==
  ASSUME TypeOK, NEW r \in Requests, Sends(r)
  PROVE  toServer' \in Seq(Requests)
  BY DEF TypeOK, Sends

---------------------------------------------------------------------------
\* Types.

\* The manager starts knowing nothing.
THEOREM InitTypeOK == Init => TypeOK
  <1> SUFFICES ASSUME Init PROVE TypeOK
    OBVIOUS
  <1>1. kept \in [Names -> Items]
    BY DEF Init, Items
  <1>2. serverDefault \in MaybeName
    BY DEF Init, Existing, MaybeName
  <1>3. toServer \in Seq(Requests) /\ toClient \in Seq(Answers)
    BY DEF Init
  <1>4. last \in [name : Names, items : Items] \cup {NoList}
    BY DEF Init
  <1>5. /\ activeListSetter \subseteq Ids \X MaybeName
        /\ defaultListSetter \subseteq Ids \X MaybeName
        /\ lists \subseteq Names /\ listRequests \subseteq Names /\ waiting \subseteq Names
    BY DEF Init
  <1>6. /\ defaultList \in MaybeName /\ activeList \in MaybeName /\ serverActive \in MaybeName
        /\ validServer \in BOOLEAN /\ connected \in BOOLEAN /\ requested \in BOOLEAN
        /\ peer \in [supported : BOOLEAN, echoes : Manners]
    BY DEF Init, MaybeName
  <1> QED
    BY <1>1, <1>2, <1>3, <1>4, <1>5, <1>6 DEF TypeOK

\* A new id is one of those counted.
LEMMA NewIdIs ==
  ASSUME FreeIds # {}
  PROVE  NewId \in FreeIds /\ NewId \in Ids
  BY DEF NewId, FreeIds

\* What the application asks of the manager.
LEMMA CallsTypeOK ==
  ASSUME TypeOK,
         \/ request
         \/ \E name \in MaybeName : setActiveList(name) \/ setDefaultList(name)
         \/ \E name \in Names, items \in Items : setList(name, items)
         \/ \E name \in Names : requestList(name)
  PROVE  TypeOK'
  <1> USE DEF TypeOK, known, setters, application, server
  <1>1. CASE request
    BY <1>1, RequestsMade, Sent DEF request
  <1>2. ASSUME NEW name \in MaybeName, setActiveList(name)
        PROVE  TypeOK'
    <2>1. NewId \in Ids
      BY <1>2, NewIdIs DEF setActiveList, CanSet
    <2>2. [kind |-> "active", id |-> NewId, name |-> name] \in Requests
      BY <2>1, RequestsMade
    <2>3. toServer' \in Seq(Requests)
      BY <1>2, <2>2, Sent DEF setActiveList
    <2>4. activeListSetter' \subseteq Ids \X MaybeName
      BY <1>2, <2>1 DEF setActiveList
    <2> QED
      BY <1>2, <2>3, <2>4 DEF setActiveList
  <1>3. ASSUME NEW name \in MaybeName, setDefaultList(name)
        PROVE  TypeOK'
    <2>1. NewId \in Ids
      BY <1>3, NewIdIs DEF setDefaultList, CanSet
    <2>2. [kind |-> "default", id |-> NewId, name |-> name] \in Requests
      BY <2>1, RequestsMade
    <2>3. toServer' \in Seq(Requests)
      BY <1>3, <2>2, Sent DEF setDefaultList
    <2>4. defaultListSetter' \subseteq Ids \X MaybeName
      BY <1>3, <2>1 DEF setDefaultList
    <2> QED
      BY <1>3, <2>3, <2>4 DEF setDefaultList
  <1>4. ASSUME NEW name \in Names, NEW items \in Items, setList(name, items)
        PROVE  TypeOK'
    BY <1>4, RequestsMade, Sent DEF setList
  <1>5. ASSUME NEW name \in Names, requestList(name)
        PROVE  TypeOK'
    BY <1>5, RequestsMade, Sent DEF requestList
  <1> QED
    BY <1>1, <1>2, <1>3, <1>4, <1>5

\* A setter that is taken was set, or names nothing (QHash::take).
LEMMA TakenIs ==
  ASSUME NEW setter \in SUBSET (Ids \X MaybeName), NEW id
  PROVE  /\ Taken(setter, id) \in MaybeName
         /\ Taken(setter, id) = NoName \/ <<id, Taken(setter, id)>> \in setter
         /\ (\E name \in MaybeName : <<id, name>> \in setter) =>
            <<id, Taken(setter, id)>> \in setter
         /\ Without(setter, id) \subseteq setter
  BY DEF Taken, MaybeName, Without

\* An answer is handled.
LEMMA handleIQTypeOK ==
  ASSUME TypeOK, handleIQ
  PROVE  TypeOK'
  <1> DEFINE answer == Head(toClient)
  <1>1. answer \in Answers /\ toClient' \in Seq(Answers)
    BY TailIs DEF TypeOK, handleIQ
  <1>2. SUFFICES /\ defaultList' \in MaybeName
                 /\ activeList' \in MaybeName
                 /\ lists' \subseteq Names
                 /\ activeListSetter' \subseteq Ids \X MaybeName
                 /\ defaultListSetter' \subseteq Ids \X MaybeName
                 /\ listRequests' \subseteq Names
                 /\ last' \in [name : Names, items : Items] \cup {NoList}
                 /\ validServer' \in BOOLEAN
                 /\ waiting' \subseteq Names
    BY <1>1 DEF TypeOK, handleIQ, server
  <1> USE <1>1 DEF TypeOK, known, setters
  <1> HIDE DEF answer
  <1>3. CASE DoneReceived(answer)
    <2>1. /\ Taken(activeListSetter, answer.of.id) \in MaybeName
          /\ Taken(defaultListSetter, answer.of.id) \in MaybeName
          /\ Without(activeListSetter, answer.of.id) \subseteq activeListSetter
          /\ Without(defaultListSetter, answer.of.id) \subseteq defaultListSetter
      BY TakenIs
    <2> QED
      BY <1>3, <2>1
         DEF DoneReceived, ActiveListSet, DefaultListSet, ListSet, MaybeName
  <1>4. CASE ListReceived(answer)
    BY <1>4, AnswerKinds DEF ListReceived, OnList, Items
  <1>5. CASE ListsReceived(answer)
    BY <1>5, AnswerKinds DEF ListsReceived, OnLists
  <1>6. CASE ErrorReceived(answer)
    <2>1. answer.of \in Requests /\ answer.unavailable \in BOOLEAN
      BY <1>6, AnswerKinds DEF ErrorReceived
    <2>2. CASE SetterRefused(answer.of)
      BY <1>6, <2>1, <2>2 DEF SetterRefused, ErrorReceived, Without
    <2>3. CASE EchoOfList(answer.of)
      BY <1>6, <2>1, <2>3, RequestKinds DEF EchoOfList, OnList, ErrorReceived, Items
    <2>4. CASE EchoOfLists(answer.of)
      BY <1>6, <2>1, <2>4 DEF EchoOfLists, OnLists, ErrorReceived, MaybeName
    <2>5. CASE NothingReceived(answer)
      BY <1>6, <2>1, <2>5 DEF NothingReceived, ErrorReceived
    <2> QED
      BY <1>6, <2>2, <2>3, <2>4, <2>5 DEF ErrorReceived
  <1>7. CASE PushReceived(answer)
    BY <1>7, AnswerKinds DEF PushReceived
  <1> QED
    BY <1>3, <1>4, <1>5, <1>6, <1>7 DEF handleIQ, answer

\* What the server says goes to the end of what is under way.
LEMMA SaidTypeOK ==
  ASSUME TypeOK
  PROVE  /\ \A a \in Answers : toClient \o <<a>> \in Seq(Answers)
         /\ \A a, b \in Answers : toClient \o <<a, b>> \in Seq(Answers)
  <1>1. ASSUME NEW a \in Answers PROVE toClient \o <<a>> \in Seq(Answers)
    <2>1. <<a>> \in Seq(Answers)
      OBVIOUS
    <2> QED
      BY <2>1 DEF TypeOK
  <1>2. ASSUME NEW a \in Answers, NEW b \in Answers
        PROVE  toClient \o <<a, b>> \in Seq(Answers)
    <2>1. <<a, b>> \in Seq(Answers)
      OBVIOUS
    <2> QED
      BY <2>1 DEF TypeOK
  <1> QED
    BY <1>1, <1>2

\* The server answers a request, in the order of its queue.
LEMMA ServerAnswersTypeOK ==
  ASSUME TypeOK, ServerAnswers
  PROVE  TypeOK'
  <1> DEFINE iq == Head(toServer)
  <1>1. iq \in Requests /\ toServer' \in Seq(Requests)
    BY TailIs DEF TypeOK, ServerAnswers
  <1>2. SUFFICES /\ kept' \in [Names -> Items]
                 /\ serverDefault' \in MaybeName
                 /\ serverActive' \in MaybeName
                 /\ toClient' \in Seq(Answers)
    BY <1>1 DEF TypeOK, ServerAnswers, application, known, setters
  <1> USE <1>1 DEF TypeOK, server, Says
  <1> HIDE DEF iq
  <1>3. CASE Refuses(iq)
    <2>1. PICK echo \in peer.echoes : toClient' = toClient \o
             <<[kind |-> "error", of |-> iq, echo |-> echo, unavailable |-> ~peer.supported]>>
      BY <1>3 DEF Refuses
    <2>2. echo \in BOOLEAN
      BY <2>1, EchoesAssumption DEF Manners
    <2> DEFINE refusal == [kind |-> "error", of |-> iq, echo |-> echo,
                           unavailable |-> ~peer.supported]
    <2>3. refusal \in Answers
      BY <2>2 DEF Answers
    <2>4. toClient' \in Seq(Answers)
      BY <2>1, <2>3, SaidTypeOK
    <2> QED
      BY <1>3, <2>4 DEF Refuses
  <1>4. CASE SaysAll(iq)
    <2>1. Existing \in SUBSET Names
      BY DEF Existing
    <2> DEFINE all == [kind |-> "lists", names |-> Existing, active |-> serverActive,
                       default |-> serverDefault]
    <2>2. all \in Answers
      BY <2>1, AnswersMade
    <2>3. toClient' = toClient \o <<all>>
      BY <1>4 DEF SaysAll
    <2>4. toClient' \in Seq(Answers)
      BY <2>2, <2>3, SaidTypeOK
    <2> QED
      BY <1>4, <2>4 DEF SaysAll
  <1>5. CASE SaysList(iq)
    <2>1. CASE iq.name \in Existing
      <3>1. iq.name \in Names /\ kept[iq.name] \in Contents
        BY <2>1 DEF Existing, Items
      <3> DEFINE list == [kind |-> "list", name |-> iq.name, items |-> kept[iq.name]]
      <3>2. list \in Answers
        BY <3>1, AnswersMade
      <3>3. toClient' = toClient \o <<list>>
        BY <1>5, <2>1 DEF SaysList
      <3>4. toClient' \in Seq(Answers)
        BY <3>2, <3>3, SaidTypeOK
      <3> QED
        BY <1>5, <2>1, <3>4 DEF SaysList
    <2> QED
      BY <1>3, <1>5, <2>1 DEF SaysList
  <1>6. CASE TakesActive(iq) \/ TakesDefault(iq)
    <2>1. CASE iq.name \in Existing \cup {NoName}
      <3> DEFINE done == [kind |-> "done", of |-> iq]
      <3>1. done \in Answers
        BY AnswersMade
      <3>2. toClient' = toClient \o <<done>>
        BY <1>6, <2>1 DEF TakesActive, TakesDefault
      <3>3. toClient' \in Seq(Answers)
        BY <3>1, <3>2, SaidTypeOK
      <3> QED
        BY <1>6, <2>1, <3>3 DEF TakesActive, TakesDefault, MaybeName, Existing
    <2> QED
      BY <1>3, <1>6, <2>1 DEF TakesActive, TakesDefault
  <1>7. CASE TakesList(iq)
    <2>1. iq.name \in Names /\ iq.items \in Items
      BY <1>7, RequestKinds DEF TakesList
    <2>2. CASE kept[iq.name] # iq.items \/ iq.items # Empty
      <3> DEFINE done == [kind |-> "done", of |-> iq]
                 push == [kind |-> "push", name |-> iq.name]
      <3>1. done \in Answers /\ push \in Answers
        BY <2>1, AnswersMade
      <3>2. toClient' \in Seq(Answers)
        <4>1. \/ toClient' = toClient \o <<done, push>>
              \/ toClient' = toClient \o <<push, done>>
          BY <1>7, <2>2 DEF TakesList
        <4> QED
          BY <3>1, <4>1, SaidTypeOK
      <3>3. Alters(iq.name, iq.items)
        BY <1>7, <2>2 DEF TakesList
      <3> QED
        BY <2>1, <3>2, <3>3 DEF Alters, MaybeName
    <2> QED
      BY <1>3, <1>7, <2>2 DEF TakesList
  <1> QED
    BY <1>3, <1>4, <1>5, <1>6, <1>7 DEF ServerAnswers, iq

\* Every step keeps the types.
THEOREM NextTypeOK ==
  ASSUME TypeOK, [Next]_vars
  PROVE  TypeOK'
  <1> USE DEF TypeOK, known, setters, application, server
  <1>1. ASSUME NEW name \in Names, NEW items \in Items, OthersChange(name, items)
        PROVE  TypeOK'
    <2> DEFINE push == [kind |-> "push", name |-> name]
    <2>1. push \in Answers
      BY AnswersMade
    <2>2. toClient' \in Seq(Answers)
      BY <1>1, <2>1 DEF OthersChange
    <2>3. kept' \in [Names -> Items] /\ serverDefault' \in MaybeName /\ serverActive' \in MaybeName
      BY <1>1 DEF OthersChange, Alters, MaybeName
    <2> QED
      BY <1>1, <2>2, <2>3 DEF OthersChange
  <1>2. CASE Connects
    BY <1>2 DEF Connects
  <1>3. CASE Disconnects
    <2>1. toServer' \in Seq(Requests) /\ toClient' \in Seq(Answers)
      BY <1>3 DEF Disconnects
    <2>2. serverActive' \in MaybeName /\ waiting' \subseteq Names
      BY <1>3 DEF Disconnects, MaybeName
    <2> QED
      BY <1>3, <2>1, <2>2 DEF Disconnects
  <1>4. CASE UNCHANGED vars
    BY <1>4 DEF vars
  <1> QED
    BY <1>1, <1>2, <1>3, <1>4, CallsTypeOK, handleIQTypeOK, ServerAnswersTypeOK DEF Next

\* What the manager remembers are lists, and what is under way are stanzas
\* of the protocol.
THEOREM SpecTypeOK == Spec => []TypeOK
  <1> QED
    BY InitTypeOK, NextTypeOK, PTL DEF Spec

---------------------------------------------------------------------------
\* What the manager remembers is the server's.

\* At the start nothing is under way and nothing is remembered.
LEMMA InitMirrorInv == Init => MirrorInv
  <1> SUFFICES ASSUME Init PROVE MirrorInv
    OBVIOUS
  <1>1. TypeOK
    BY InitTypeOK
  <1>2. toClient = <<>> /\ toServer = <<>> /\ ~connected /\ ~requested /\ serverActive = NoName
    BY DEF Init
  <1>3. OfConnection
    BY <1>2 DEF OfConnection
  <1>4. OfServer
    <2>1. ~peer.supported => \A name \in Names : kept[name] = Empty
      BY DEF Init
    <2>2. ~peer.supported => serverDefault = NoName /\ defaultList = NoName
      BY <2>1 DEF Init, Existing
    <2>3. ~Has(toClient, Refusing({"all"}))
      BY <1>2, NothingUnderWay
    <2> QED
      BY <1>2, <2>1, <2>2, <2>3 DEF OfServer
  <1>5. IdsApart /\ SettersMatch
    BY <1>2 DEF IdsApart, SettersMatch, SetterIds, AnsweredIds
  <1>6. MadeUpFor
    BY <1>2, NothingUnderWay DEF MadeUpFor
  <1>7. Corrected
    BY <1>2, NothingUnderWay DEF Corrected
  <1>8. CacheHonest /\ NamesKnown /\ InUse
    BY <1>2 DEF CacheHonest, NamesKnown, InUse, Synced
  <1> QED
    BY <1>1, <1>3, <1>4, <1>5, <1>6, <1>7, <1>8 DEF MirrorInv

\* What nothing but the server and what it says have to do with.
LEMMA ServerPartsKept ==
  ASSUME MirrorInv, UNCHANGED <<peer, server, toClient, defaultList>>
  PROVE  OfServer' /\ Corrected'
  <1>1. OfServer'
    BY DEF MirrorInv, OfServer, server, Has, Refusing
  <1>2. Corrected'
    <2> USE DEF MirrorInv, Corrected, server, Followed
    <2>1. \A name \in Names : StaleItems(name)' = StaleItems(name)
      BY DEF StaleItems
    <2>2. \A name \in Names : StaleNames(name)' = StaleNames(name)
      BY DEF StaleNames, Existing
    <2>3. StaleDefault' = StaleDefault /\ StaleActive' = StaleActive
      BY DEF StaleDefault, StaleActive
    <2> QED
      BY <2>1, <2>2, <2>3
  <1> QED
    BY <1>1, <1>2

\* A step that touches nothing the mirror is about.
LEMMA NothingMirrorInv ==
  ASSUME MirrorInv, TypeOK',
         UNCHANGED <<known, setters, last, connected, requested, peer, server, toServer, toClient>>
  PROVE  MirrorInv'
  <1> USE DEF known, setters, server
  <1>1. OfServer' /\ Corrected'
    BY ServerPartsKept
  <1>2. OfConnection'
    BY DEF MirrorInv, OfConnection
  <1>3. IdsApart' /\ SettersMatch'
    BY DEF MirrorInv, IdsApart, SettersMatch, SetterIds, AnsweredIds, SetsAsSaid
  <1>4. MadeUpFor'
    BY DEF MirrorInv, MadeUpFor, ForgottenRequests, ForgottenAnswers, Has, Followed
  <1>5. CacheHonest'
    BY DEF MirrorInv, CacheHonest, Pushed, Has
  <1>6. Synced' = Synced
    BY DEF Synced, UnderWay, Has
  <1>7. NamesKnown' /\ InUse'
    BY <1>6 DEF MirrorInv, NamesKnown, InUse, Existing, Pushed, Has
  <1> QED
    BY <1>1, <1>2, <1>3, <1>4, <1>5, <1>7 DEF MirrorInv

\* request() forgets the setters and asks for everything.
LEMMA requestMirrorInv ==
  ASSUME MirrorInv, request
  PROVE  MirrorInv'
  <1> DEFINE all == [kind |-> "all"]
  <1>1. TypeOK'
    BY CallsTypeOK DEF MirrorInv
  <1>2. OfServer' /\ Corrected'
    BY ServerPartsKept DEF request, known
  <1>3. all \in Requests /\ all \in Asking({"all"})
    BY RequestsMade DEF Asking
  <1>4. toServer \in Seq(Requests)
    BY DEF MirrorInv, TypeOK
  <1>5. CASE ~connected
    <2>1. ~connected' /\ ~requested' /\ toServer' = <<>> /\ toClient' = <<>> /\
          serverActive' = NoName
      BY <1>5 DEF request, MirrorInv, OfConnection, Sends, server
    <2>2. OfConnection'
      BY <2>1 DEF OfConnection
    <2>3. IdsApart' /\ SettersMatch'
      BY <2>1 DEF IdsApart, SettersMatch, SetterIds, AnsweredIds
    <2>4. MadeUpFor'
      BY <2>1 DEF MadeUpFor, Followed
    <2>5. CacheHonest' /\ NamesKnown' /\ InUse'
      BY <2>1 DEF CacheHonest, NamesKnown, InUse, Synced
    <2> QED
      BY <1>1, <1>2, <2>2, <2>3, <2>4, <2>5 DEF MirrorInv
  <1>6. CASE connected
    <2>1. /\ connected' /\ toClient' = toClient /\ last' = NoList
          /\ activeListSetter' = {} /\ defaultListSetter' = {}
          /\ toServer' = Append(toServer, all)
      BY <1>6 DEF request, Sends
    <2>2. toServer' = toServer \o <<all>> /\ <<all>> \in Seq(Requests)
      BY <1>3, <1>4, <2>1, AppendIs
    <2>3. Has(toServer', Asking({"all"}))
      BY <1>3, <1>4, <2>2, HasConcat, OneUnderWay
    <2>4. OfConnection'
      BY <2>1 DEF OfConnection
    <2>5. IdsApart'
      <3>1. SetterIds(toServer') \subseteq SetterIds(toServer)
        BY <1>3, <1>4, <2>1, AppendIs DEF SetterIds
      <3>2. \A i \in SetterIds(toServer) : toServer'[i] = toServer[i]
        BY <1>3, <1>4, <2>1, AppendIs DEF SetterIds
      <3> QED
        BY <2>1, <3>1, <3>2 DEF IdsApart, MirrorInv, SetterIds, AnsweredIds
    <2>6. SettersMatch'
      BY <2>1 DEF SettersMatch, SetsAsSaid
    <2>7. MadeUpFor'
      <3>1. Has(<<all>>, Asking({"all"}))
        BY <1>3, OneUnderWay
      <3>2. Followed(<<all>>, ForgottenRequests', Asking({"all"}))
        BY OneUnderWay DEF ForgottenRequests, Asking
      <3>3. Followed(toServer, ForgottenRequests, Asking({"all"}))
        BY DEF MirrorInv, MadeUpFor
      <3>4. Followed(toServer \o <<all>>, ForgottenRequests', Asking({"all"}))
        BY <1>4, <2>2, <3>1, <3>2, <3>3, FollowedConcat
      <3> QED
        BY <2>2, <2>3, <3>4 DEF MadeUpFor
    <2>8. CacheHonest'
      BY <2>1 DEF CacheHonest, NoList
    <2>9. NamesKnown' /\ InUse'
      BY <2>3 DEF NamesKnown, InUse, Synced, UnderWay
    <2> QED
      BY <1>1, <1>2, <2>4, <2>5, <2>6, <2>7, <2>8, <2>9 DEF MirrorInv
  <1> QED
    BY <1>5, <1>6 DEF MirrorInv, TypeOK

\* Nothing that is under way or waits for its answer has the new id.
LEMMA FreeIdIs ==
  ASSUME NEW id \in FreeIds
  PROVE  /\ \A s \in activeListSetter \cup defaultListSetter : s[1] # id
         /\ \A i \in SetterIds(toServer) : toServer[i].id # id
         /\ \A i \in AnsweredIds(toClient) : toClient[i].of.id # id
  BY DEF FreeIds, SetterIds, AnsweredIds

\* The manager sends a request, other than for everything, and notes the
\* setter if it is one.
LEMMA CallMirrorInv ==
  ASSUME MirrorInv, TypeOK', NEW r \in Requests, Sends(r), r.kind # "all",
         UNCHANGED <<known, last, requested, connected, peer, server, toClient>>,
         r.kind \in {"active", "default"} => r.id \in FreeIds,
         activeListSetter' = activeListSetter \cup
             (IF r.kind = "active" THEN {<<r.id, r.name>>} ELSE {}),
         defaultListSetter' = defaultListSetter \cup
             (IF r.kind = "default" THEN {<<r.id, r.name>>} ELSE {})
  PROVE  MirrorInv'
  <1>1. OfServer' /\ Corrected'
    BY ServerPartsKept DEF known
  <1>2. OfConnection'
    BY DEF MirrorInv, OfConnection, Sends, server
  <1>3. toServer \in Seq(Requests) /\ connected \in BOOLEAN
    BY DEF MirrorInv, TypeOK
  <1>4. \A i \in DOMAIN toServer : i \in DOMAIN toServer' /\ toServer'[i] = toServer[i]
    BY <1>3, AppendIs DEF Sends
  <1> DEFINE n == Len(toServer) + 1
  <1>5. \A i \in DOMAIN toServer' :
            \/ i \in DOMAIN toServer /\ toServer'[i] = toServer[i]
            \/ i = n /\ toServer'[i] = r
    <2>1. CASE connected
      <3>1. toServer' = Append(toServer, r)
        BY <2>1 DEF Sends
      <3> QED
        BY <1>3, <3>1, AppendIs
    <2>2. CASE ~connected
      BY <2>2 DEF Sends
    <2> QED
      BY <1>3, <2>1, <2>2
  <1> HIDE DEF n
  <1>6. /\ \A s \in activeListSetter' :
              s \in activeListSetter \/ (r.kind = "active" /\ s = <<r.id, r.name>>)
        /\ \A s \in defaultListSetter' :
              s \in defaultListSetter \/ (r.kind = "default" /\ s = <<r.id, r.name>>)
        /\ activeListSetter \subseteq activeListSetter'
        /\ r.kind = "active" => <<r.id, r.name>> \in activeListSetter'
    OBVIOUS
  <1>7. IdsApart'
    <2>1. ASSUME NEW i \in SetterIds(toServer)', NEW k \in SetterIds(toServer)',
                 toServer'[i].id = toServer'[k].id
          PROVE  i = k
      <3>1. CASE i \in SetterIds(toServer) /\ k \in SetterIds(toServer)
        BY <1>4, <2>1, <3>1 DEF MirrorInv, IdsApart, SetterIds
      <3>2. \A m \in SetterIds(toServer)' :
               \/ m \in SetterIds(toServer) /\ toServer'[m] = toServer[m]
               \/ m = n /\ toServer'[m] = r /\ r.kind \in {"active", "default"}
        BY <1>5 DEF SetterIds
      <3>3. r.kind \in {"active", "default"} =>
                \A m \in SetterIds(toServer) : toServer[m].id # r.id
        BY FreeIdIs
      <3>4. CASE i \notin SetterIds(toServer) \/ k \notin SetterIds(toServer)
        BY <2>1, <3>2, <3>3, <3>4
      <3> QED
        BY <3>1, <3>4
    <2>2. ASSUME NEW i \in SetterIds(toServer)', NEW k \in AnsweredIds(toClient)
          PROVE  toServer'[i].id # toClient[k].of.id
      <3>1. CASE i \in SetterIds(toServer)
        BY <1>4, <3>1 DEF MirrorInv, IdsApart, SetterIds
      <3>2. CASE i \notin SetterIds(toServer)
        BY <1>4, <1>5, <3>2, FreeIdIs DEF SetterIds
      <3> QED
        BY <3>1, <3>2
    <2> QED
      BY <2>1, <2>2 DEF MirrorInv, IdsApart, SetterIds, AnsweredIds
  <1>8. SettersMatch'
    <2>1. ASSUME NEW x, SetsAsSaid(x),
                 r.kind \in {"active", "default"} => x.id # r.id
          PROVE  /\ x.kind = "active" => \A s \in activeListSetter' : s[1] = x.id => s[2] = x.name
                 /\ x.kind = "default" => \A s \in defaultListSetter' : s[1] = x.id => s[2] = x.name
      BY <1>6, <2>1 DEF SetsAsSaid
    <2>2. /\ r.kind = "active" => \A s \in activeListSetter' : s[1] = r.id => s[2] = r.name
          /\ r.kind = "default" => \A s \in defaultListSetter' : s[1] = r.id => s[2] = r.name
      BY <1>6, FreeIdIs
    <2>3. ASSUME NEW i \in SetterIds(toServer)'
          PROVE  SetsAsSaid(toServer[i])'
      <3>1. CASE i \in SetterIds(toServer)
        <4>1. SetsAsSaid(toServer[i]) /\ toServer'[i] = toServer[i]
          BY <1>4, <3>1 DEF MirrorInv, SettersMatch, SetterIds
        <4>2. r.kind \in {"active", "default"} => toServer[i].id # r.id
          BY <3>1, FreeIdIs
        <4> QED
          BY <2>1, <4>1, <4>2 DEF SetsAsSaid
      <3>2. CASE i \notin SetterIds(toServer)
        <4>1. toServer'[i] = r
          BY <1>4, <1>5, <2>3, <3>2 DEF SetterIds
        <4> QED
          BY <2>2, <4>1 DEF SetsAsSaid
      <3> QED
        BY <3>1, <3>2
    <2>4. ASSUME NEW i \in AnsweredIds(toClient)
          PROVE  SetsAsSaid(toClient[i].of)'
      <3>1. SetsAsSaid(toClient[i].of) /\ toClient' = toClient
        BY DEF MirrorInv, SettersMatch
      <3>2. r.kind \in {"active", "default"} => toClient[i].of.id # r.id
        BY FreeIdIs
      <3> QED
        BY <2>1, <3>1, <3>2 DEF SetsAsSaid
    <2> QED
      BY <2>3, <2>4 DEF SettersMatch, SetterIds, AnsweredIds
  <1>9. MadeUpFor'
    <2>1. Followed(toServer', ForgottenRequests', Asking({"all"}))
      <3>1. ASSUME NEW i \in DOMAIN toServer', toServer'[i] \in ForgottenRequests'
            PROVE  toServer[i] \in ForgottenRequests /\ i \in DOMAIN toServer
        <4>1. toServer'[i] # r
          BY <1>6, <3>1 DEF ForgottenRequests, Asking
        <4>2. i \in DOMAIN toServer /\ toServer'[i] = toServer[i]
          BY <1>5, <4>1
        <4> QED
          BY <1>6, <3>1, <4>2 DEF ForgottenRequests
      <3>2. Followed(toServer, ForgottenRequests, Asking({"all"}))
        BY DEF MirrorInv, MadeUpFor
      <3> QED
        BY <1>4, <3>1, <3>2 DEF Followed
    <2>2. Has(toServer, Asking({"all"})) => Has(toServer', Asking({"all"}))
      BY <1>4 DEF Has
    <2>3. Followed(toClient, ForgottenAnswers, Listing) =>
              Followed(toClient', ForgottenAnswers', Listing)
      BY <1>6 DEF Followed, ForgottenAnswers
    <2> QED
      BY <2>1, <2>2, <2>3 DEF MirrorInv, MadeUpFor
  <1>10. CacheHonest'
    BY DEF MirrorInv, CacheHonest, server, Pushed, Has
  <1>11. Synced' => Synced
    <2>1. Has(toServer, Asking({"all"})) => Has(toServer', Asking({"all"}))
      BY <1>4 DEF Has
    <2> QED
      BY <2>1 DEF Synced, UnderWay
  <1>12. NamesKnown'
    BY <1>11 DEF MirrorInv, NamesKnown, known, server, Existing, Pushed, Has
  <1>13. InUse'
    BY <1>11 DEF MirrorInv, InUse, known, server, Has
  <1> QED
    BY <1>1, <1>2, <1>7, <1>8, <1>9, <1>10, <1>12, <1>13 DEF MirrorInv

\* The four calls that send something of one list.
LEMMA CallsMirrorInv ==
  ASSUME MirrorInv,
         \/ \E name \in MaybeName : setActiveList(name) \/ setDefaultList(name)
         \/ \E name \in Names, items \in Items : setList(name, items)
         \/ \E name \in Names : requestList(name)
  PROVE  MirrorInv'
  <1>1. TypeOK /\ TypeOK'
    BY CallsTypeOK DEF MirrorInv
  <1> USE DEF setters, application
  <1>2. ASSUME NEW name \in MaybeName, setActiveList(name)
        PROVE  MirrorInv'
    <2> DEFINE r == [kind |-> "active", id |-> NewId, name |-> name]
    <2>1. r \in Requests /\ r.kind = "active" /\ r.id \in FreeIds /\ r.id = NewId /\ r.name = name
      BY <1>2, NewIdIs, RequestsMade DEF setActiveList
    <2>2. Sends(r)
      BY <1>2 DEF setActiveList
    <2>3. /\ activeListSetter' = activeListSetter \cup {<<r.id, r.name>>}
          /\ defaultListSetter' = defaultListSetter
      BY <1>2, <2>1 DEF setActiveList
    <2>4. UNCHANGED <<known, last, requested, connected, peer, server, toClient>>
      BY <1>2 DEF setActiveList
    <2> HIDE DEF r
    <2> QED
      BY <1>1, <2>1, <2>2, <2>3, <2>4, CallMirrorInv
  <1>3. ASSUME NEW name \in MaybeName, setDefaultList(name)
        PROVE  MirrorInv'
    <2> DEFINE r == [kind |-> "default", id |-> NewId, name |-> name]
    <2>1. r \in Requests /\ r.kind = "default" /\ r.id \in FreeIds /\ r.id = NewId /\ r.name = name
      BY <1>3, NewIdIs, RequestsMade DEF setDefaultList
    <2>2. Sends(r)
      BY <1>3 DEF setDefaultList
    <2>3. /\ defaultListSetter' = defaultListSetter \cup {<<r.id, r.name>>}
          /\ activeListSetter' = activeListSetter
      BY <1>3, <2>1 DEF setDefaultList
    <2>4. UNCHANGED <<known, last, requested, connected, peer, server, toClient>>
      BY <1>3 DEF setDefaultList
    <2> HIDE DEF r
    <2> QED
      BY <1>1, <2>1, <2>2, <2>3, <2>4, CallMirrorInv
  <1>4. ASSUME NEW name \in Names, NEW items \in Items, setList(name, items)
        PROVE  MirrorInv'
    <2> DEFINE r == [kind |-> "set", name |-> name, items |-> items]
    <2>1. r \in Requests /\ r.kind = "set"
      BY RequestsMade
    <2>2. Sends(r)
      BY <1>4 DEF setList
    <2>3. /\ defaultListSetter' = defaultListSetter
          /\ activeListSetter' = activeListSetter
          /\ UNCHANGED <<known, last, requested, connected, peer, server, toClient>>
      BY <1>4 DEF setList
    <2> HIDE DEF r
    <2> QED
      BY <1>1, <2>1, <2>2, <2>3, CallMirrorInv
  <1>5. ASSUME NEW name \in Names, requestList(name)
        PROVE  MirrorInv'
    <2>1. UNCHANGED <<known, setters, last, requested, connected, peer, server, toClient>>
      BY <1>5 DEF requestList
    <2>2. CASE name \in listRequests
      <3>1. toServer' = toServer
        BY <1>5, <2>2 DEF requestList
      <3> QED
        BY <1>1, <2>1, <3>1, NothingMirrorInv
    <2>3. CASE name \notin listRequests
      <3> DEFINE r == [kind |-> "get", name |-> name]
      <3>1. r \in Requests /\ r.kind = "get"
        BY RequestsMade
      <3>2. Sends(r)
        BY <1>5, <2>3 DEF requestList
      <3> HIDE DEF r
      <3> QED
        BY <1>1, <2>1, <3>1, <3>2, CallMirrorInv
    <2> QED
      BY <2>2, <2>3
  <1> QED
    BY <1>2, <1>3, <1>4, <1>5

\* What an answer does to the setters.
LEMMA SettersTaken ==
  ASSUME TypeOK, handleIQ
  PROVE  /\ activeListSetter' \subseteq activeListSetter
         /\ defaultListSetter' \subseteq defaultListSetter
         /\ \A s \in activeListSetter : s \in activeListSetter' \/
               /\ Head(toClient).kind \in {"done", "error"}
               /\ Head(toClient).of.kind = "active" /\ s[1] = Head(toClient).of.id
  <1> DEFINE answer == Head(toClient)
  <1> USE DEF setters, known
  <1> HIDE DEF answer
  <1>1. CASE DoneReceived(answer)
    BY <1>1 DEF DoneReceived, ActiveListSet, DefaultListSet, ListSet, Without, answer
  <1>2. CASE ListReceived(answer) \/ ListsReceived(answer) \/ PushReceived(answer)
    BY <1>2 DEF ListReceived, ListsReceived, PushReceived
  <1>3. CASE ErrorReceived(answer)
    BY <1>3 DEF ErrorReceived, SetterRefused, EchoOfList, EchoOfLists, NothingReceived, Without,
                answer
  <1> QED
    BY <1>1, <1>2, <1>3 DEF handleIQ, answer

\* What an answer does to the list at hand.
LEMMA LastReplaced ==
  ASSUME TypeOK, handleIQ
  PROVE  \/ last' = last /\ Head(toClient) \notin PushesOf(last.name)
         \/ last' = NoList
         \/ \E name \in Names, items \in Items :
                /\ last' = [name |-> name, items |-> items]
                /\ items # kept[name] => Head(toClient) \in StaleItems(name)
  <1> DEFINE answer == Head(toClient)
  <1>1. answer \in Answers
    BY TailIs DEF TypeOK, handleIQ
  <1> HIDE DEF answer
  <1>2. CASE DoneReceived(answer)
    BY <1>2 DEF DoneReceived, PushesOf, answer
  <1>3. CASE ListReceived(answer)
    <2>1. answer.name \in Names /\ answer.items \in Items
      BY <1>1, <1>3, AnswerKinds DEF ListReceived, Items
    <2>2. last' = [name |-> answer.name, items |-> answer.items]
      BY <1>3 DEF ListReceived, OnList
    <2>3. answer.items # kept[answer.name] => answer \in StaleItems(answer.name)
      BY <1>1, <1>3 DEF StaleItems, ListReceived
    <2> QED
      BY <2>1, <2>2, <2>3 DEF answer
  <1>4. CASE ListsReceived(answer)
    BY <1>4 DEF ListsReceived, PushesOf, answer
  <1>5. CASE ErrorReceived(answer)
    <2>1. CASE EchoOfList(answer.of)
      <3>1. answer.of.name \in Names /\ Empty \in Items /\ kept[answer.of.name] \in Items
        BY <1>1, <1>5, <2>1, AnswerKinds, RequestKinds DEF ErrorReceived, EchoOfList, Items, TypeOK
      <3>2. last' = [name |-> answer.of.name, items |-> Empty]
        BY <2>1 DEF EchoOfList, OnList
      <3>3. Empty # kept[answer.of.name] => answer \in StaleItems(answer.of.name)
        BY <1>1, <1>5, <2>1 DEF StaleItems, ErrorReceived, EchoOfList
      <3> QED
        BY <3>1, <3>2, <3>3 DEF answer
    <2>2. CASE SetterRefused(answer.of) \/ EchoOfLists(answer.of) \/ NothingReceived(answer)
      BY <1>5, <2>2 DEF SetterRefused, EchoOfLists, NothingReceived, ErrorReceived, PushesOf, answer
    <2> QED
      BY <1>5, <2>1, <2>2 DEF ErrorReceived
  <1>6. CASE PushReceived(answer)
    BY <1>6 DEF PushReceived, PushesOf, answer
  <1> QED
    BY <1>2, <1>3, <1>4, <1>5, <1>6 DEF handleIQ, answer

\* What an answer does to the names of the lists.
LEMMA NamesReplaced ==
  ASSUME TypeOK, handleIQ
  PROVE  \/ Head(toClient) \in Listing /\ lists' = Head(toClient).names
         \/ Head(toClient) \in Refusing({"all"})
         \/ /\ Head(toClient) \notin Listing \cup Granting({"all"})
            /\ \A name \in lists : name \in lists' \/ (kept[name] # Empty =>
                                                          Head(toClient) \in StaleItems(name))
            /\ \A name \in Names : Head(toClient) \in PushesOf(name) => name \in lists'
  <1> DEFINE answer == Head(toClient)
  <1>1. answer \in Answers
    BY TailIs DEF TypeOK, handleIQ
  <1> HIDE DEF answer
  <1> USE DEF known, Listing, Granting, Refusing, PushesOf
  <1>2. CASE DoneReceived(answer)
    BY <1>2 DEF DoneReceived, answer, ActiveListSet, DefaultListSet, ListSet
  <1>3. CASE ListReceived(answer)
    <2>1. answer.items # Empty
      BY <1>1, <1>3, AnswerKinds, NamesAssumption DEF ListReceived
    <2> QED
      BY <1>3, <2>1 DEF ListReceived, OnList, answer
  <1>4. CASE ListsReceived(answer)
    BY <1>1, <1>4 DEF ListsReceived, OnLists, answer
  <1>5. CASE ErrorReceived(answer)
    <2>1. CASE EchoOfList(answer.of)
      <3>1. kept[answer.of.name] # Empty => answer \in StaleItems(answer.of.name)
        BY <1>1, <1>5, <2>1 DEF StaleItems, ErrorReceived, EchoOfList
      <3> QED
        BY <1>5, <2>1, <3>1 DEF EchoOfList, OnList, ErrorReceived, answer
    <2>2. CASE EchoOfLists(answer.of)
      BY <1>1, <1>5, <2>2 DEF EchoOfLists, ErrorReceived, answer
    <2>3. CASE SetterRefused(answer.of) \/ NothingReceived(answer)
      BY <1>1, <1>5, <2>3 DEF SetterRefused, NothingReceived, ErrorReceived, answer
    <2> QED
      BY <1>5, <2>1, <2>2, <2>3 DEF ErrorReceived
  <1>6. CASE PushReceived(answer)
    BY <1>1, <1>6 DEF PushReceived, answer
  <1> QED
    BY <1>2, <1>3, <1>4, <1>5, <1>6 DEF handleIQ, answer

\* What an answer does to the default list.
LEMMA DefaultReplaced ==
  ASSUME TypeOK, handleIQ
  PROVE  \/ Head(toClient) \in Listing /\ defaultList' = Head(toClient).default
         \/ Head(toClient) \in Refusing({"all"}) /\ defaultList' \in {defaultList, NoName}
         \/ /\ Head(toClient) \in Granting({"default"})
            /\ defaultList' = Taken(defaultListSetter, Head(toClient).of.id)
         \/ Head(toClient) \in Granting({"set"}) /\ defaultList' = NoName
         \/ /\ Head(toClient) \notin Listing \cup Granting({"all", "default", "set"})
            /\ defaultList' = defaultList
  <1> DEFINE answer == Head(toClient)
  <1>1. answer \in Answers
    BY TailIs DEF TypeOK, handleIQ
  <1> HIDE DEF answer
  <1> USE DEF known, Listing, Granting, Refusing
  <1>2. CASE DoneReceived(answer)
    BY <1>1, <1>2 DEF DoneReceived, answer, ActiveListSet, DefaultListSet, ListSet
  <1>3. CASE ListReceived(answer) \/ PushReceived(answer)
    BY <1>3 DEF ListReceived, PushReceived, answer
  <1>4. CASE ListsReceived(answer)
    BY <1>1, <1>4 DEF ListsReceived, OnLists, answer
  <1>5. CASE ErrorReceived(answer)
    BY <1>1, <1>5 DEF ErrorReceived, SetterRefused, EchoOfList, EchoOfLists, OnLists,
                      NothingReceived, answer
  <1> QED
    BY <1>2, <1>3, <1>4, <1>5 DEF handleIQ, answer

\* What an answer does to the active list.
LEMMA ActiveReplaced ==
  ASSUME TypeOK, handleIQ
  PROVE  \/ /\ Head(toClient) \in Listing
            /\ Head(toClient).active # NoName => activeList' = Head(toClient).active
         \/ Head(toClient) \in Refusing({"all"})
         \/ /\ Head(toClient) \in Granting({"active"})
            /\ activeList' = Taken(activeListSetter, Head(toClient).of.id)
         \/ /\ Head(toClient) \notin Listing \cup Granting({"all", "active"})
            /\ activeList' = activeList
  <1> DEFINE answer == Head(toClient)
  <1>1. answer \in Answers
    BY TailIs DEF TypeOK, handleIQ
  <1> HIDE DEF answer
  <1> USE DEF known, Listing, Granting, Refusing
  <1>2. CASE DoneReceived(answer)
    BY <1>1, <1>2 DEF DoneReceived, answer, ActiveListSet, DefaultListSet, ListSet
  <1>3. CASE ListReceived(answer) \/ PushReceived(answer)
    BY <1>3 DEF ListReceived, PushReceived, answer
  <1>4. CASE ListsReceived(answer)
    BY <1>1, <1>4 DEF ListsReceived, OnLists, answer
  <1>5. CASE ErrorReceived(answer)
    BY <1>1, <1>5 DEF ErrorReceived, SetterRefused, EchoOfList, EchoOfLists, OnLists,
                      NothingReceived, answer
  <1> QED
    BY <1>2, <1>3, <1>4, <1>5 DEF handleIQ, answer

\* Whatever is wrong in an answer that is handled, the news of it is on its way.
LEMMA handleIQMirrorInv ==
  ASSUME MirrorInv, handleIQ
  PROVE  MirrorInv'
  <1> DEFINE answer == Head(toClient)
  <1>1. /\ TypeOK /\ TypeOK'
        /\ toClient \in Seq(Answers) /\ toClient # <<>> /\ toClient' = Tail(toClient)
        /\ answer \in Answers
        /\ UNCHANGED <<connected, requested, peer, kept, serverDefault, serverActive, toServer>>
    BY handleIQTypeOK, TailIs DEF MirrorInv, TypeOK, handleIQ, server
  <1>2. connected
    BY <1>1 DEF MirrorInv, OfConnection
  <1>3. /\ 1 \in DOMAIN toClient /\ toClient[1] = answer
        /\ \A i \in DOMAIN toClient' : /\ i \in Int /\ i >= 1
                                      /\ i + 1 \in DOMAIN toClient
                                      /\ toClient'[i] = toClient[i + 1]
    BY <1>1, TailIs
  <1>4. /\ activeListSetter' \subseteq activeListSetter
        /\ defaultListSetter' \subseteq defaultListSetter
        /\ \A s \in activeListSetter : s \in activeListSetter' \/
               (1 \in AnsweredIds(toClient) /\ answer.of.kind = "active" /\ s[1] = answer.of.id)
    BY <1>1, <1>3, SettersTaken DEF AnsweredIds
  <1> HIDE DEF answer
  <1>5. OfConnection'
    BY <1>1, <1>2 DEF OfConnection
  <1>6. \A S : Has(toClient', S) => Has(toClient, S)
    BY <1>1, HasTail
  <1>7. \A S : Has(toClient, S) => answer \in S \/ Has(toClient', S)
    BY <1>1, HasTail DEF answer
  <1>8. \A S, T : Followed(toClient, S, T) =>
             Followed(toClient', S, T) /\ (answer \in S => Has(toClient', T))
    BY <1>1, FollowedTail DEF answer
  <1>9. OfServer'
    <2>1. ~peer.supported => /\ \A i \in DOMAIN toClient' : toClient'[i].kind = "error"
                             /\ answer.kind = "error" /\ defaultList = NoName
      BY <1>3 DEF MirrorInv, OfServer
    <2>2. ~peer.supported => defaultList' = NoName
      BY <1>1, <2>1, DefaultReplaced DEF Listing, Granting, answer
    <2>3. peer.supported => ~Has(toClient', Refusing({"all"}))
      BY <1>6 DEF MirrorInv, OfServer
    <2>4. (~Has(toClient, Refusing({"all"})))' <=> ~Has(toClient', Refusing({"all"}))
      BY DEF Has, Refusing
    <2> QED
      BY <1>1, <2>1, <2>2, <2>3, <2>4 DEF MirrorInv, OfServer
  <1>10. \A i \in AnsweredIds(toClient)' :
             /\ i + 1 \in AnsweredIds(toClient) /\ i + 1 # 1 /\ i \in Int
             /\ toClient'[i] = toClient[i + 1]
    BY <1>3 DEF AnsweredIds
  <1>11. SetterIds(toServer)' = SetterIds(toServer)
    BY <1>1 DEF SetterIds
  <1>12. IdsApart'
    <2>1. ASSUME NEW i \in AnsweredIds(toClient)', NEW k \in AnsweredIds(toClient)',
                 toClient'[i].of.id = toClient'[k].of.id
          PROVE  i = k
      <3>1. i + 1 = k + 1
        BY <1>10, <2>1 DEF MirrorInv, IdsApart
      <3> QED
        BY <1>10, <3>1
    <2>2. ASSUME NEW i \in SetterIds(toServer)', NEW k \in AnsweredIds(toClient)'
          PROVE  toServer'[i].id # toClient'[k].of.id
      <3>1. i \in SetterIds(toServer) /\ toServer'[i] = toServer[i]
        BY <1>1, <1>11
      <3>2. k + 1 \in AnsweredIds(toClient) /\ toClient'[k] = toClient[k + 1]
        BY <1>10
      <3>3. toServer[i].id # toClient[k + 1].of.id
        BY <3>1, <3>2 DEF MirrorInv, IdsApart
      <3> QED
        BY <3>1, <3>2, <3>3
    <2>3. \A i, k \in SetterIds(toServer)' : toServer'[i].id = toServer'[k].id => i = k
      BY <1>1, <1>11 DEF MirrorInv, IdsApart
    <2> QED
      BY <2>1, <2>2, <2>3 DEF IdsApart, SetterIds, AnsweredIds
  <1>13. SettersMatch'
    <2>1. ASSUME NEW x, SetsAsSaid(x)
          PROVE  /\ x.kind = "active" => \A s \in activeListSetter' : s[1] = x.id => s[2] = x.name
                 /\ x.kind = "default" => \A s \in defaultListSetter' : s[1] = x.id => s[2] = x.name
      BY <1>4, <2>1 DEF SetsAsSaid
    <2>2. ASSUME NEW i \in SetterIds(toServer)' PROVE SetsAsSaid(toServer[i])'
      <3>1. SetsAsSaid(toServer[i]) /\ toServer'[i] = toServer[i]
        BY <1>1, <1>11 DEF MirrorInv, SettersMatch
      <3> QED
        BY <2>1, <3>1 DEF SetsAsSaid
    <2>3. ASSUME NEW i \in AnsweredIds(toClient)' PROVE SetsAsSaid(toClient[i].of)'
      <3>1. SetsAsSaid(toClient[i + 1].of) /\ toClient'[i] = toClient[i + 1]
        BY <1>10 DEF MirrorInv, SettersMatch
      <3> QED
        BY <2>1, <3>1 DEF SetsAsSaid
    <2> QED
      BY <2>2, <2>3 DEF SettersMatch, SetterIds, AnsweredIds
  <1>14. MadeUpFor'
    <2>1. ASSUME NEW i \in DOMAIN toServer, toServer[i] \in ForgottenRequests'
          PROVE  toServer[i] \in ForgottenRequests
      <3>1. i \in SetterIds(toServer) /\ toServer[i] \in Asking({"active"})
            /\ <<toServer[i].id, toServer[i].name>> \notin activeListSetter'
        BY <2>1 DEF ForgottenRequests, Asking, SetterIds
      <3>2. 1 \in AnsweredIds(toClient) => toServer[i].id # answer.of.id
        BY <1>3, <3>1 DEF MirrorInv, IdsApart
      <3> QED
        BY <1>4, <3>1, <3>2 DEF ForgottenRequests
    <2>2. Followed(toServer, ForgottenRequests', Asking({"all"}))
      BY <2>1, FollowedWeaker DEF MirrorInv, MadeUpFor
    <2>3. ASSUME NEW i \in DOMAIN toClient', toClient'[i] \in ForgottenAnswers'
          PROVE  toClient'[i] \in ForgottenAnswers
      <3>1. /\ i \in AnsweredIds(toClient)' /\ toClient'[i] \in Granting({"active"})
            /\ <<toClient'[i].of.id, toClient'[i].of.name>> \notin activeListSetter'
        BY <2>3 DEF ForgottenAnswers, Granting, AnsweredIds
      <3>2. 1 \in AnsweredIds(toClient) => toClient'[i].of.id # answer.of.id
        BY <1>3, <1>10, <3>1 DEF MirrorInv, IdsApart
      <3> QED
        BY <1>4, <3>1, <3>2 DEF ForgottenAnswers
    <2>4. Followed(toClient, ForgottenAnswers, Listing) =>
              Followed(toClient', ForgottenAnswers', Listing)
      BY <1>8, <2>3, FollowedWeaker
    <2> QED
      BY <1>1, <2>2, <2>4 DEF MirrorInv, MadeUpFor
  <1>15. /\ \A name \in Names : StaleItems(name)' = StaleItems(name)
         /\ \A name \in Names : StaleNames(name)' = StaleNames(name)
         /\ StaleDefault' = StaleDefault /\ StaleActive' = StaleActive
    BY <1>1 DEF StaleItems, StaleNames, Existing, StaleDefault, StaleActive
  <1>16. Corrected'
    <2>1. \A name \in Names : Followed(toClient', StaleItems(name)', PushesOf(name))
      BY <1>8, <1>15 DEF MirrorInv, Corrected
    <2>2. \A name \in Names : Followed(toClient', StaleNames(name)', PushesOf(name))
      BY <1>8, <1>15 DEF MirrorInv, Corrected
    <2>3. Followed(toClient', StaleDefault', Granting({"default", "set"}))
      BY <1>8, <1>15 DEF MirrorInv, Corrected
    <2>4. Followed(toClient', StaleActive', Granting({"active"}))
      BY <1>8, <1>15 DEF MirrorInv, Corrected
    <2> QED
      BY <2>1, <2>2, <2>3, <2>4 DEF Corrected
  <1>17. CacheHonest'
    <2>1. SUFFICES ASSUME requested, last'.name # NoName
                   PROVE  last'.items = kept[last'.name] \/ Has(toClient', PushesOf(last'.name))
      BY <1>1 DEF CacheHonest, Pushed
    <2>2. CASE last' = last /\ answer \notin PushesOf(last.name)
      BY <1>2, <1>7, <2>1, <2>2 DEF MirrorInv, CacheHonest, Pushed
    <2>3. CASE last' = NoList
      BY <2>1, <2>3 DEF NoList
    <2>4. ASSUME NEW name \in Names, NEW items \in Items,
                 last' = [name |-> name, items |-> items],
                 items # kept[name] => answer \in StaleItems(name)
          PROVE  last'.items = kept[last'.name] \/ Has(toClient', PushesOf(last'.name))
      <3>1. Followed(toClient, StaleItems(name), PushesOf(name))
        BY DEF MirrorInv, Corrected
      <3> QED
        BY <1>8, <2>4, <3>1
    <2> QED
      BY <1>1, <2>2, <2>3, <2>4, LastReplaced DEF answer
  <1>18. ASSUME Synced'
         PROVE  /\ connected /\ requested
                /\ ~Has(toServer, Asking({"all"})) /\ ~Has(toClient', Listing)
                /\ ~Has(toClient', Granting({"all"}) \cup Refusing({"all"}))
    BY <1>1, <1>18 DEF Synced, UnderWay
  <1>19. ASSUME Synced',
                answer \notin Listing, answer \notin Granting({"all"}),
                answer \notin Refusing({"all"})
         PROVE  Synced
    BY <1>7, <1>18, <1>19 DEF Synced, UnderWay
  <1>20. ASSUME answer \in Refusing({"all"})
         PROVE  ~peer.supported
    BY <1>3, <1>20 DEF MirrorInv, OfServer, Has
  <1>21. NamesKnown'
    <2>1. SUFFICES ASSUME Synced', NEW name \in Existing
                   PROVE  name \in lists' \/ Has(toClient', PushesOf(name))
      BY <1>1 DEF NamesKnown, Pushed, Existing
    <2>2. name \in Names /\ kept[name] # Empty
      BY DEF Existing
    <2>3. /\ answer \in StaleItems(name) => Has(toClient', PushesOf(name))
          /\ answer \in StaleNames(name) => Has(toClient', PushesOf(name))
      BY <1>8, <2>2 DEF MirrorInv, Corrected
    <2>4. CASE answer \in Listing /\ lists' = answer.names
      BY <2>1, <2>3, <2>4 DEF StaleNames
    <2>5. CASE answer \in Refusing({"all"})
      BY <1>20, <2>2, <2>5 DEF MirrorInv, OfServer
    <2>6. CASE /\ answer \notin Listing \cup Granting({"all"}) /\ answer \notin Refusing({"all"})
               /\ \A n \in lists : n \in lists' \/ (kept[n] # Empty => answer \in StaleItems(n))
               /\ \A n \in Names : answer \in PushesOf(n) => n \in lists'
      <3>1. name \in lists \/ Has(toClient, PushesOf(name))
        BY <1>19, <2>1, <2>6 DEF MirrorInv, NamesKnown, Pushed
      <3> QED
        BY <1>7, <2>2, <2>3, <2>6, <3>1
    <2> QED
      BY <1>1, <2>4, <2>5, <2>6, NamesReplaced DEF answer
  <1>22. ASSUME Synced', ~Has(toClient', Granting({"default", "set"}))
         PROVE  defaultList' \in {serverDefault, NoName}
    <2>1. answer \notin StaleDefault
      BY <1>8, <1>22 DEF MirrorInv, Corrected
    <2>2. CASE answer \in Listing /\ defaultList' = answer.default
      BY <1>1, <2>1, <2>2 DEF StaleDefault
    <2>3. CASE answer \in Refusing({"all"}) /\ defaultList' \in {defaultList, NoName}
      BY <1>20, <2>3 DEF MirrorInv, OfServer
    <2>4. CASE /\ answer \in Granting({"default"})
               /\ defaultList' = Taken(defaultListSetter, answer.of.id)
      <3>1. 1 \in AnsweredIds(toClient) /\ answer.of.kind = "default"
        BY <1>3, <2>4 DEF AnsweredIds, Granting
      <3>2. \A s \in defaultListSetter : s[1] = answer.of.id => s[2] = answer.of.name
        BY <1>3, <3>1 DEF MirrorInv, SettersMatch, SetsAsSaid
      <3>3. answer.of.name = serverDefault
        BY <2>1, <2>4 DEF StaleDefault
      <3>4. \/ defaultList' = NoName
            \/ <<answer.of.id, defaultList'>> \in defaultListSetter
        BY <1>1, <2>4, TakenIs DEF TypeOK
      <3> QED
        BY <3>2, <3>3, <3>4
    <2>5. CASE answer \in Granting({"set"}) /\ defaultList' = NoName
      BY <2>5
    <2>6. CASE /\ answer \notin Listing \cup Granting({"all", "default", "set"})
               /\ answer \notin Refusing({"all"})
               /\ defaultList' = defaultList
      <3>1. answer \notin Granting({"all"}) /\ answer \notin Granting({"default", "set"})
        BY <2>6 DEF Granting
      <3>2. Synced
        BY <1>19, <1>22, <2>6, <3>1
      <3> QED
        BY <1>7, <1>22, <2>6, <3>1, <3>2 DEF MirrorInv, InUse
    <2> QED
      BY <1>1, <1>20, <2>2, <2>3, <2>4, <2>5, <2>6, DefaultReplaced DEF answer, Refusing
  <1>23. ASSUME Synced', ~Has(toClient', Granting({"active"})), serverActive # NoName
         PROVE  activeList' = serverActive
    <2>1. answer \notin StaleActive
      BY <1>8, <1>23 DEF MirrorInv, Corrected
    <2>2. answer \notin Refusing({"all"})
      BY <1>20, <1>23 DEF MirrorInv, OfServer
    <2>3. CASE answer \in Listing /\ (answer.active # NoName => activeList' = answer.active)
      BY <1>23, <2>1, <2>3 DEF StaleActive
    <2>4. CASE /\ answer \in Granting({"active"})
               /\ activeList' = Taken(activeListSetter, answer.of.id)
      <3>1. 1 \in AnsweredIds(toClient) /\ answer.of.kind = "active" /\ answer.of \in Requests
        BY <1>1, <1>3, <2>4, AnswerKinds DEF AnsweredIds, Granting
      <3>2. \A s \in activeListSetter : s[1] = answer.of.id => s[2] = answer.of.name
        BY <1>3, <3>1 DEF MirrorInv, SettersMatch, SetsAsSaid
      <3>3. answer.of.name = serverActive
        BY <1>23, <2>1, <2>4 DEF StaleActive
      <3>4. Followed(toClient, ForgottenAnswers, Listing)
        BY <1>18, <1>23 DEF MirrorInv, MadeUpFor
      <3>5. answer \notin ForgottenAnswers
        BY <1>8, <1>18, <1>23, <3>4
      <3>6. <<answer.of.id, answer.of.name>> \in activeListSetter
        BY <2>4, <3>5 DEF ForgottenAnswers
      <3>7. answer.of.name \in MaybeName
        BY <3>1, RequestKinds
      <3>8. <<answer.of.id, activeList'>> \in activeListSetter
        BY <1>1, <2>4, <3>6, <3>7, TakenIs DEF TypeOK
      <3> QED
        BY <3>2, <3>3, <3>8
    <2>5. CASE answer \notin Listing \cup Granting({"all", "active"}) /\ activeList' = activeList
      <3>1. answer \notin Granting({"all"}) /\ answer \notin Granting({"active"})
        BY <2>5 DEF Granting
      <3>2. Synced
        BY <1>19, <1>23, <2>2, <2>5, <3>1
      <3> QED
        BY <1>7, <1>23, <2>5, <3>1, <3>2 DEF MirrorInv, InUse
    <2> QED
      BY <1>1, <2>2, <2>3, <2>4, <2>5, ActiveReplaced DEF answer
  <1>24. InUse'
    <2>1. (Has(toClient, Granting({"default", "set"})))' =
              Has(toClient', Granting({"default", "set"}))
      BY DEF Has, Granting
    <2>2. (Has(toClient, Granting({"active"})))' = Has(toClient', Granting({"active"}))
      BY DEF Has, Granting
    <2> QED
      BY <1>1, <1>22, <1>23, <2>1, <2>2 DEF InUse
  <1> QED
    BY <1>1, <1>5, <1>9, <1>12, <1>13, <1>14, <1>16, <1>17, <1>21, <1>24 DEF MirrorInv

\* A step with which the server says w: what has changed, and nothing wrong.
Told(w) ==
    /\ \A name \in Names : kept'[name] = kept[name] \/ Has(w, PushesOf(name))
    /\ serverDefault' = serverDefault \/ Has(w, Granting({"default", "set"}))
    /\ serverActive' \in {serverActive, NoName} \/ Has(w, Granting({"active"}))
    /\ \A name \in Names : /\ Followed(w, StaleItems(name)', PushesOf(name))
                           /\ Followed(w, StaleNames(name)', PushesOf(name))
    /\ Followed(w, StaleDefault', Granting({"default", "set"}))
    /\ Followed(w, StaleActive', Granting({"active"}))

\* When what has changed is said and nothing wrong, the mirror stays honest.
LEMMA ToldMirror ==
  ASSUME MirrorInv, NEW w \in Seq(Answers), toClient' = toClient \o w, connected,
         UNCHANGED <<known, last, connected, requested>>,
         Synced' => Synced,
         Told(w)
  PROVE  Corrected' /\ CacheHonest' /\ NamesKnown' /\ InUse'
  <1>1. toClient \in Seq(Answers)
    BY DEF MirrorInv, TypeOK
  <1>2. \A S : Has(toClient', S) <=> Has(toClient, S) \/ Has(w, S)
    BY <1>1, HasConcat
  <1>3. ASSUME NEW name \in Names
        PROVE  Followed(toClient', StaleItems(name)', PushesOf(name))
    <2>1. Followed(toClient, StaleItems(name), PushesOf(name))
      BY DEF MirrorInv, Corrected
    <2>2. Has(w, PushesOf(name)) \/ \A i \in DOMAIN toClient :
              toClient[i] \in StaleItems(name)' => toClient[i] \in StaleItems(name)
      BY DEF StaleItems, Told
    <2> QED
      BY <1>1, <2>1, <2>2, FollowedConcat DEF Told
  <1>4. ASSUME NEW name \in Names
        PROVE  Followed(toClient', StaleNames(name)', PushesOf(name))
    <2>1. Followed(toClient, StaleNames(name), PushesOf(name))
      BY DEF MirrorInv, Corrected
    <2>2. Has(w, PushesOf(name)) \/ \A i \in DOMAIN toClient :
              toClient[i] \in StaleNames(name)' => toClient[i] \in StaleNames(name)
      BY DEF StaleNames, Existing, Told
    <2> QED
      BY <1>1, <2>1, <2>2, FollowedConcat DEF Told
  <1>5. Followed(toClient', StaleDefault', Granting({"default", "set"}))
    <2>1. Followed(toClient, StaleDefault, Granting({"default", "set"}))
      BY DEF MirrorInv, Corrected
    <2>2. Has(w, Granting({"default", "set"})) \/ \A i \in DOMAIN toClient :
              toClient[i] \in StaleDefault' => toClient[i] \in StaleDefault
      BY DEF StaleDefault, Told
    <2> QED
      BY <1>1, <2>1, <2>2, FollowedConcat DEF Told
  <1>6. Followed(toClient', StaleActive', Granting({"active"}))
    <2>1. Followed(toClient, StaleActive, Granting({"active"}))
      BY DEF MirrorInv, Corrected
    <2>2. Has(w, Granting({"active"})) \/ \A i \in DOMAIN toClient :
              toClient[i] \in StaleActive' => toClient[i] \in StaleActive
      BY DEF StaleActive, Told
    <2> QED
      BY <1>1, <2>1, <2>2, FollowedConcat DEF Told
  <1>7. Corrected'
    BY <1>3, <1>4, <1>5, <1>6 DEF Corrected
  <1>8. CacheHonest'
    <2>1. SUFFICES ASSUME requested, last.name # NoName
                   PROVE  last.items = kept'[last.name] \/ Has(toClient', PushesOf(last.name))
      BY DEF CacheHonest, Pushed
    <2>2. last.name \in Names
      BY <2>1 DEF MirrorInv, TypeOK, NoList
    <2>3. last.items = kept[last.name] \/ Has(toClient, PushesOf(last.name))
      BY <2>1 DEF MirrorInv, CacheHonest, Pushed
    <2> QED
      BY <1>2, <2>2, <2>3 DEF Told
  <1>9. NamesKnown'
    <2>1. SUFFICES ASSUME Synced', NEW name \in Names, kept'[name] # Empty
                   PROVE  name \in lists \/ Has(toClient', PushesOf(name))
      BY DEF NamesKnown, Pushed, Existing, known
    <2>2. kept[name] # Empty => name \in lists \/ Has(toClient, PushesOf(name))
      BY <2>1 DEF MirrorInv, NamesKnown, Pushed, Existing
    <2> QED
      BY <1>2, <2>1, <2>2 DEF Told
  <1>10. InUse'
    <2>1. (Has(toClient, Granting({"default", "set"})))' =
              Has(toClient', Granting({"default", "set"}))
      BY DEF Has, Granting
    <2>2. (Has(toClient, Granting({"active"})))' = Has(toClient', Granting({"active"}))
      BY DEF Has, Granting
    <2>3. ASSUME Synced', ~Has(toClient', Granting({"default", "set"}))
          PROVE  defaultList \in {serverDefault', NoName}
      BY <1>2, <2>3 DEF MirrorInv, InUse, Told
    <2>4. ASSUME Synced', ~Has(toClient', Granting({"active"})), serverActive' # NoName
          PROVE  activeList = serverActive'
      BY <1>2, <2>4 DEF MirrorInv, InUse, Told
    <2> QED
      BY <2>1, <2>2, <2>3, <2>4 DEF InUse, known
  <1> QED
    BY <1>7, <1>8, <1>9, <1>10

\* Another client changes a list; all that use privacy lists are told.
LEMMA OthersMirrorInv ==
  ASSUME MirrorInv, NEW name \in Names, NEW items \in Items, OthersChange(name, items)
  PROVE  MirrorInv'
  <1> DEFINE push == [kind |-> "push", name |-> name]
  <1>1. /\ TypeOK /\ TypeOK'
        /\ UNCHANGED <<known, setters, last, connected, requested, peer, toServer>>
        /\ UNCHANGED <<activeListSetter, defaultListSetter, defaultList>>
        /\ peer.supported
    <2>1. [Next]_vars
      BY DEF Next
    <2> QED
      BY <2>1, NextTypeOK DEF MirrorInv, OthersChange, application, setters, known
  <1>2. UNCHANGED <<serverDefault, serverActive>>
    BY DEF OthersChange, Alters
  <1>3. \A n \in Names : n # name => kept'[n] = kept[n]
    BY <1>1 DEF OthersChange, Alters, TypeOK
  <1>4. push \in Answers /\ push \in PushesOf(name) /\ push.kind = "push"
    BY AnswersMade DEF PushesOf
  <1>5. \A i \in DOMAIN toClient' :
             toClient'[i] = push \/ (i \in DOMAIN toClient /\ toClient'[i] = toClient[i])
    BY <1>1, <1>4, AppendIs DEF OthersChange, TypeOK
  <1>6. \A i \in DOMAIN toClient : i \in DOMAIN toClient' /\ toClient'[i] = toClient[i]
    BY <1>1, <1>4, AppendIs DEF OthersChange, TypeOK
  <1>7. OfConnection'
    BY <1>1, <1>2 DEF MirrorInv, OfConnection, OthersChange
  <1>8. OfServer'
    <2>1. ~Has(toClient', Refusing({"all"}))
      BY <1>1, <1>4, <1>5 DEF MirrorInv, OfServer, Has, Refusing
    <2>2. (Has(toClient, Refusing({"all"})))' = Has(toClient', Refusing({"all"}))
      BY DEF Has, Refusing
    <2> QED
      BY <1>1, <2>1, <2>2 DEF OfServer
  <1>9. /\ SetterIds(toServer)' = SetterIds(toServer)
        /\ AnsweredIds(toClient)' \subseteq AnsweredIds(toClient)
        /\ \A i \in AnsweredIds(toClient)' : toClient'[i] = toClient[i]
    BY <1>1, <1>4, <1>5 DEF SetterIds, AnsweredIds
  <1>10. IdsApart'
    BY <1>1, <1>9 DEF MirrorInv, IdsApart, SetterIds, AnsweredIds
  <1>11. SettersMatch'
    BY <1>1, <1>9 DEF MirrorInv, SettersMatch, SetsAsSaid, SetterIds, AnsweredIds
  <1>12. MadeUpFor'
    <2>1. Followed(toServer', ForgottenRequests', Asking({"all"}))
      BY <1>1 DEF MirrorInv, MadeUpFor, Followed, ForgottenRequests
    <2>2. Followed(toClient, ForgottenAnswers, Listing) =>
              Followed(toClient', ForgottenAnswers', Listing)
      BY <1>1, <1>4, <1>5, <1>6 DEF Followed, ForgottenAnswers, Granting
    <2> QED
      BY <1>1, <2>1, <2>2 DEF MirrorInv, MadeUpFor
  <1>13. CASE ~connected
    <2>1. toClient' = <<>> /\ ~connected'
      BY <1>1, <1>13 DEF OthersChange, MirrorInv, OfConnection
    <2>2. Corrected'
      BY <2>1, NothingUnderWay DEF Corrected
    <2>3. CacheHonest' /\ NamesKnown' /\ InUse'
      BY <2>1 DEF CacheHonest, NamesKnown, InUse, Synced
    <2> QED
      BY <1>1, <1>7, <1>8, <1>10, <1>11, <1>12, <2>2, <2>3 DEF MirrorInv
  <1>14. CASE connected
    <2>1. toClient' = toClient \o <<push>> /\ <<push>> \in Seq(Answers)
      BY <1>1, <1>4, <1>14, AppendIs DEF OthersChange, TypeOK
    <2>2. Synced' => Synced
      BY <1>1, <1>6 DEF Synced, UnderWay, Has
    <2>3. Has(<<push>>, PushesOf(name))
      BY <1>4, OneUnderWay
    <2>4. /\ \A n \in Names : push \notin StaleItems(n)' /\ push \notin StaleNames(n)'
          /\ push \notin StaleDefault' /\ push \notin StaleActive'
      BY <1>4 DEF StaleItems, StaleNames, StaleDefault, StaleActive, Listing, Granting
    <2>5. /\ \A n \in Names : Followed(<<push>>, StaleItems(n)', PushesOf(n))
          /\ \A n \in Names : Followed(<<push>>, StaleNames(n)', PushesOf(n))
          /\ Followed(<<push>>, StaleDefault', Granting({"default", "set"}))
          /\ Followed(<<push>>, StaleActive', Granting({"active"}))
      BY <2>4, OneUnderWay
    <2> HIDE DEF push
    <2>6. Told(<<push>>)
      BY <1>2, <1>3, <2>3, <2>5 DEF Told
    <2>7. Corrected' /\ CacheHonest' /\ NamesKnown' /\ InUse'
      BY <1>1, <1>14, <2>1, <2>2, <2>6, ToldMirror
    <2> QED
      BY <1>1, <1>7, <1>8, <1>10, <1>11, <1>12, <2>7 DEF MirrorInv
  <1> QED
    BY <1>1, <1>13, <1>14 DEF TypeOK

\* What the server says of a request: one answer to it, which is a list of
\* everything or none if it was asked for everything.
AnswersTo(iq, w) ==
    /\ \A i \in DOMAIN w : w[i].kind \in {"done", "error"} => w[i].of = iq
    /\ \A i, k \in DOMAIN w :
           w[i].kind \in {"done", "error"} /\ w[k].kind \in {"done", "error"} => i = k
    /\ iq.kind = "all" => Has(w, Listing) \/ Has(w, Refusing({"all"}))
    /\ peer.supported => ~Has(w, Refusing({"all"}))
    /\ ~peer.supported => UNCHANGED server /\ \A i \in DOMAIN w : w[i].kind = "error"

\* A single answer, if it is true, is all the server has to say.
LEMMA OneAnswer ==
  ASSUME NEW iq \in Requests, NEW a \in Answers,
         a.kind \in {"done", "error"} => a.of = iq,
         iq.kind = "all" => a \in Listing \cup Refusing({"all"}),
         peer.supported => a \notin Refusing({"all"}),
         ~peer.supported => UNCHANGED server /\ a.kind = "error",
         kept' = kept,
         serverDefault' = serverDefault \/ a \in Granting({"default"}),
         serverActive' = serverActive \/ a \in Granting({"active"}),
         \A name \in Names : a \notin StaleItems(name)' /\ a \notin StaleNames(name)',
         a \notin StaleDefault', a \notin StaleActive'
  PROVE  <<a>> \in Seq(Answers) /\ Told(<<a>>) /\ AnswersTo(iq, <<a>>)
  <1>1. \A S : Has(<<a>>, S) <=> a \in S
    BY OneUnderWay
  <1>2. \A S, T : a \notin S => Followed(<<a>>, S, T)
    BY OneUnderWay
  <1>3. a \in Granting({"default"}) => a \in Granting({"default", "set"})
    BY DEF Granting
  <1>4. \A i \in DOMAIN <<a>> : i = 1 /\ <<a>>[i] = a
    OBVIOUS
  <1>5. <<a>> \in Seq(Answers)
    OBVIOUS
  <1>6. Told(<<a>>)
    BY <1>1, <1>2, <1>3 DEF Told
  <1>7. AnswersTo(iq, <<a>>)
    BY <1>1, <1>4 DEF AnswersTo
  <1> QED
    BY <1>5, <1>6, <1>7

\* A request that is refused.
LEMMA RefusesTells ==
  ASSUME MirrorInv, NEW iq \in Requests, Refuses(iq),
         peer.supported => iq.kind # "all",
         iq.kind = "get" => kept[iq.name] = Empty
  PROVE  \E w \in Seq(Answers) : toClient' = toClient \o w /\ Told(w) /\ AnswersTo(iq, w)
  <1>1. PICK echo \in peer.echoes : toClient' = toClient \o
           <<[kind |-> "error", of |-> iq, echo |-> echo, unavailable |-> ~peer.supported]>>
    BY DEF Refuses, Says
  <1>2. echo \in BOOLEAN
    BY <1>1, EchoesAssumption DEF Manners, MirrorInv, TypeOK
  <1> DEFINE a == [kind |-> "error", of |-> iq, echo |-> echo, unavailable |-> ~peer.supported]
  <1>3. a \in Answers /\ a.kind = "error" /\ a.of = iq
    BY <1>2 DEF Answers
  <1>4. toClient' = toClient \o <<a>>
    BY <1>1
  <1>5. UNCHANGED <<kept, serverDefault, serverActive>>
    BY DEF Refuses, server
  <1> HIDE DEF a
  <1>6. iq.kind = "all" => a \in Refusing({"all"})
    BY <1>3 DEF Refusing
  <1>7. peer.supported => a \notin Refusing({"all"})
    BY <1>3 DEF Refusing
  <1>8. /\ \A name \in Names : a \notin StaleItems(name)' /\ a \notin StaleNames(name)'
        /\ a \notin StaleDefault' /\ a \notin StaleActive'
    BY <1>3, <1>5 DEF StaleItems, StaleNames, StaleDefault, StaleActive, Listing, Granting
  <1>9. <<a>> \in Seq(Answers) /\ Told(<<a>>) /\ AnswersTo(iq, <<a>>)
    BY <1>3, <1>5, <1>6, <1>7, <1>8, OneAnswer DEF server
  <1> QED
    BY <1>4, <1>9

\* A request for what there is.
LEMMA SaysTells ==
  ASSUME MirrorInv, NEW iq \in Requests, peer.supported, SaysAll(iq) \/ SaysList(iq)
  PROVE  \E w \in Seq(Answers) : toClient' = toClient \o w /\ Told(w) /\ AnswersTo(iq, w)
  <1>1. CASE SaysAll(iq)
    <2> DEFINE a == [kind |-> "lists", names |-> Existing, active |-> serverActive,
                     default |-> serverDefault]
    <2>1. /\ a \in Answers /\ a.kind = "lists" /\ a.names = Existing
          /\ a.active = serverActive /\ a.default = serverDefault
      BY AnswersMade DEF MirrorInv, TypeOK, Existing
    <2>2. toClient' = toClient \o <<a>> /\ UNCHANGED <<kept, serverDefault, serverActive>>
      BY <1>1 DEF SaysAll, Says, server
    <2> HIDE DEF a
    <2>3. a \in Listing /\ a \notin Refusing({"all"}) /\ a.kind \notin {"done", "error"}
      BY <2>1 DEF Listing, Refusing
    <2>4. /\ \A name \in Names : a \notin StaleItems(name)' /\ a \notin StaleNames(name)'
          /\ a \notin StaleDefault' /\ a \notin StaleActive'
      BY <2>1, <2>2 DEF StaleItems, StaleNames, StaleDefault, StaleActive, Granting, Existing
    <2>5. <<a>> \in Seq(Answers) /\ Told(<<a>>) /\ AnswersTo(iq, <<a>>)
      BY <2>1, <2>2, <2>3, <2>4, OneAnswer
    <2> QED
      BY <2>2, <2>5
  <1>2. CASE SaysList(iq) /\ iq.name \in Existing
    <2> DEFINE a == [kind |-> "list", name |-> iq.name, items |-> kept[iq.name]]
    <2>1. iq.name \in Names /\ kept[iq.name] \in Contents
      BY <1>2 DEF MirrorInv, TypeOK, Existing, Items
    <2>2. a \in Answers /\ a.kind = "list" /\ a.name = iq.name /\ a.items = kept[iq.name]
      BY <2>1, AnswersMade
    <2>3. /\ toClient' = toClient \o <<a>> /\ UNCHANGED <<kept, serverDefault, serverActive>>
          /\ iq.kind = "get"
      BY <1>2 DEF SaysList, Says, server
    <2> HIDE DEF a
    <2>4. a \notin Refusing({"all"}) /\ a.kind \notin {"done", "error"}
      BY <2>2 DEF Refusing
    <2>5. /\ \A name \in Names : a \notin StaleItems(name)' /\ a \notin StaleNames(name)'
          /\ a \notin StaleDefault' /\ a \notin StaleActive'
      BY <2>2, <2>3 DEF StaleItems, StaleNames, StaleDefault, StaleActive, Granting, Listing
    <2>6. <<a>> \in Seq(Answers) /\ Told(<<a>>) /\ AnswersTo(iq, <<a>>)
      BY <2>2, <2>3, <2>4, <2>5, OneAnswer
    <2> QED
      BY <2>3, <2>6
  <1>3. CASE SaysList(iq) /\ iq.name \notin Existing
    <2>1. Refuses(iq) /\ iq.kind = "get" /\ kept[iq.name] = Empty
      BY <1>3, RequestKinds DEF SaysList, Existing
    <2> QED
      BY <2>1, RefusesTells
  <1> QED
    BY <1>1, <1>2, <1>3

\* A request to use a list.
LEMMA TakesUseTells ==
  ASSUME MirrorInv, NEW iq \in Requests, peer.supported, TakesActive(iq) \/ TakesDefault(iq)
  PROVE  \E w \in Seq(Answers) : toClient' = toClient \o w /\ Told(w) /\ AnswersTo(iq, w)
  <1> DEFINE a == [kind |-> "done", of |-> iq]
  <1>1. a \in Answers /\ a.kind = "done" /\ a.of = iq
    BY AnswersMade
  <1> HIDE DEF a
  <1>2. CASE TakesActive(iq) /\ iq.name \in Existing \cup {NoName}
    <2>1. /\ toClient' = toClient \o <<a>> /\ UNCHANGED <<kept, serverDefault>>
          /\ iq.kind = "active" /\ serverActive' = iq.name
      BY <1>2 DEF TakesActive, Says, a
    <2>2. a \in Granting({"active"}) /\ a \notin Refusing({"all"})
      BY <1>1, <2>1 DEF Granting, Refusing
    <2>3. /\ \A name \in Names : a \notin StaleItems(name)' /\ a \notin StaleNames(name)'
          /\ a \notin StaleDefault' /\ a \notin StaleActive'
      BY <1>1, <2>1 DEF StaleItems, StaleNames, StaleDefault, StaleActive, Granting, Listing
    <2>4. <<a>> \in Seq(Answers) /\ Told(<<a>>) /\ AnswersTo(iq, <<a>>)
      BY <1>1, <2>1, <2>2, <2>3, OneAnswer
    <2> QED
      BY <2>1, <2>4
  <1>3. CASE TakesDefault(iq) /\ iq.name \in Existing \cup {NoName}
    <2>1. /\ toClient' = toClient \o <<a>> /\ UNCHANGED <<kept, serverActive>>
          /\ iq.kind = "default" /\ serverDefault' = iq.name
      BY <1>3 DEF TakesDefault, Says, a
    <2>2. a \in Granting({"default"}) /\ a \notin Refusing({"all"})
      BY <1>1, <2>1 DEF Granting, Refusing
    <2>3. /\ \A name \in Names : a \notin StaleItems(name)' /\ a \notin StaleNames(name)'
          /\ a \notin StaleDefault' /\ a \notin StaleActive'
      BY <1>1, <2>1 DEF StaleItems, StaleNames, StaleDefault, StaleActive, Granting, Listing
    <2>4. <<a>> \in Seq(Answers) /\ Told(<<a>>) /\ AnswersTo(iq, <<a>>)
      BY <1>1, <2>1, <2>2, <2>3, OneAnswer
    <2> QED
      BY <2>1, <2>4
  <1>4. CASE iq.name \notin Existing \cup {NoName}
    <2>1. Refuses(iq) /\ iq.kind \in {"active", "default"}
      BY <1>4 DEF TakesActive, TakesDefault
    <2> QED
      BY <2>1, RefusesTells
  <1> QED
    BY <1>2, <1>3, <1>4

\* A request to change a list; the push goes to who changed it as well.
LEMMA TakesListTells ==
  ASSUME MirrorInv, NEW iq \in Requests, peer.supported, TakesList(iq)
  PROVE  \E w \in Seq(Answers) : toClient' = toClient \o w /\ Told(w) /\ AnswersTo(iq, w)
  <1> DEFINE done == [kind |-> "done", of |-> iq]
             push == [kind |-> "push", name |-> iq.name]
  <1>1. iq.kind = "set" /\ iq.name \in Names /\ iq.items \in Items
    BY RequestKinds DEF TakesList
  <1>2. /\ done \in Answers /\ done.kind = "done" /\ done.of = iq
        /\ push \in Answers /\ push.kind = "push" /\ push.name = iq.name
    BY <1>1, AnswersMade
  <1> HIDE DEF done, push
  <1>3. CASE kept[iq.name] # iq.items \/ iq.items # Empty
    <2>1. PICK w \in {<<done, push>>, <<push, done>>} : toClient' = toClient \o w
      BY <1>3 DEF TakesList, Says, done, push
    <2>2. w \in Seq(Answers)
      <3>1. \A a, b \in Answers : <<a, b>> \in Seq(Answers)
        OBVIOUS
      <3> QED
        BY <1>2, <2>1, <3>1
    <2>3. \A i \in DOMAIN w : w[i] \in {done, push}
      BY <2>1
    <2>4. (\E i \in DOMAIN w : w[i] = done) /\ (\E i \in DOMAIN w : w[i] = push)
      <3>1. CASE w = <<done, push>>
        <4>1. 1 \in DOMAIN w /\ w[1] = done /\ 2 \in DOMAIN w /\ w[2] = push
          BY <3>1
        <4> QED
          BY <4>1
      <3>2. CASE w = <<push, done>>
        <4>1. 2 \in DOMAIN w /\ w[2] = done /\ 1 \in DOMAIN w /\ w[1] = push
          BY <3>2
        <4> QED
          BY <4>1
      <3> QED
        BY <2>1, <3>1, <3>2
    <2>5. \A i, k \in DOMAIN w : w[i] = done /\ w[k] = done => i = k
      <3>1. done # push
        BY <1>2
      <3>2. \A a, b : a # b =>
                \A i, k \in DOMAIN <<a, b>> : <<a, b>>[i] = a /\ <<a, b>>[k] = a => i = k
        OBVIOUS
      <3>3. \A a, b : a # b =>
                \A i, k \in DOMAIN <<a, b>> : <<a, b>>[i] = b /\ <<a, b>>[k] = b => i = k
        OBVIOUS
      <3>4. CASE w = <<done, push>>
        BY <3>1, <3>2, <3>4
      <3>5. CASE w = <<push, done>>
        BY <3>1, <3>3, <3>5
      <3> QED
        BY <2>1, <3>4, <3>5
    <2>6. Alters(iq.name, iq.items)
      BY <1>3 DEF TakesList
    <2>7. /\ \A n \in Names : n # iq.name => kept'[n] = kept[n]
          /\ serverActive' \in {serverActive, NoName}
      BY <1>1, <2>6 DEF Alters, MirrorInv, TypeOK
    <2>8. done \in Granting({"default", "set"}) /\ push \in PushesOf(iq.name)
      BY <1>1, <1>2 DEF Granting, PushesOf, push
    <2>9. \A a \in {done, push} :
              /\ \A name \in Names : a \notin StaleItems(name)' /\ a \notin StaleNames(name)'
              /\ a \notin StaleDefault' /\ a \notin StaleActive' /\ a \notin Refusing({"all"})
      BY <1>1, <1>2 DEF StaleItems, StaleNames, StaleDefault, StaleActive, Granting, Listing,
         Refusing
    <2>10. Told(w)
      <3>1. Has(w, PushesOf(iq.name)) /\ Has(w, Granting({"default", "set"}))
        BY <2>4, <2>8 DEF Has
      <3>2. \A S, T : done \notin S /\ push \notin S => Followed(w, S, T)
        BY <2>3 DEF Followed
      <3> QED
        BY <2>7, <2>9, <3>1, <3>2 DEF Told
    <2>11. AnswersTo(iq, w)
      <3>1. ~Has(w, Refusing({"all"}))
        BY <2>3, <2>9 DEF Has
      <3> QED
        BY <1>1, <1>2, <2>3, <2>5, <3>1 DEF AnswersTo
    <2> QED
      BY <2>1, <2>2, <2>10, <2>11
  <1>4. CASE ~(kept[iq.name] # iq.items \/ iq.items # Empty)
    <2>1. Refuses(iq)
      BY <1>4 DEF TakesList
    <2> QED
      BY <1>1, <2>1, RefusesTells
  <1> QED
    BY <1>3, <1>4

\* The server answers a request.
LEMMA ServerAnswersTells ==
  ASSUME MirrorInv, ServerAnswers
  PROVE  \E w \in Seq(Answers) :
             toClient' = toClient \o w /\ Told(w) /\ AnswersTo(Head(toServer), w)
  <1> DEFINE iq == Head(toServer)
  <1>1. iq \in Requests
    BY TailIs DEF MirrorInv, TypeOK, ServerAnswers
  <1> HIDE DEF iq
  <1>2. CASE ~peer.supported
    <2>1. Refuses(iq)
      BY <1>2 DEF ServerAnswers, iq
    <2>2. iq.kind = "get" => kept[iq.name] = Empty
      BY <1>1, <1>2, RequestKinds DEF MirrorInv, OfServer
    <2> QED
      BY <1>1, <1>2, <2>1, <2>2, RefusesTells DEF iq
  <1>3. CASE peer.supported
    <2>1. SaysAll(iq) \/ SaysList(iq) \/ TakesActive(iq) \/ TakesDefault(iq) \/ TakesList(iq)
      BY <1>3 DEF ServerAnswers, iq
    <2> QED
      BY <1>1, <1>3, <2>1, SaysTells, TakesUseTells, TakesListTells DEF iq
  <1> QED
    BY <1>2, <1>3 DEF MirrorInv, TypeOK

\* A request becomes its answer; whatever it changes is said with it.
LEMMA ServerAnswersMirrorInv ==
  ASSUME MirrorInv, ServerAnswers
  PROVE  MirrorInv'
  <1> DEFINE iq == Head(toServer)
  <1>1. /\ TypeOK /\ TypeOK'
        /\ toServer \in Seq(Requests) /\ toServer # <<>> /\ toServer' = Tail(toServer)
        /\ toClient \in Seq(Answers)
        /\ UNCHANGED <<known, last, connected, requested, peer>>
        /\ UNCHANGED <<activeListSetter, defaultListSetter, defaultList>>
    BY ServerAnswersTypeOK DEF MirrorInv, TypeOK, ServerAnswers, setters, known, application
  <1>2. connected
    BY <1>1 DEF MirrorInv, OfConnection
  <1>3. PICK w \in Seq(Answers) : toClient' = toClient \o w /\ Told(w) /\ AnswersTo(iq, w)
    BY ServerAnswersTells
  <1>4. /\ 1 \in DOMAIN toServer /\ toServer[1] = iq /\ iq \in Requests
        /\ \A i \in DOMAIN toServer' : /\ i \in Int /\ i >= 1
                                      /\ i + 1 \in DOMAIN toServer
                                      /\ toServer'[i] = toServer[i + 1]
    BY <1>1, TailIs
  <1>5. /\ \A S : Has(toServer', S) => Has(toServer, S)
        /\ \A S : Has(toServer, S) => iq \in S \/ Has(toServer', S)
    BY <1>1, HasTail
  <1>6. \A S : Has(toClient', S) <=> Has(toClient, S) \/ Has(w, S)
    BY <1>1, <1>3, HasConcat
  <1> HIDE DEF iq
  <1>7. \A i \in DOMAIN toClient' :
            \/ i \in DOMAIN toClient /\ toClient'[i] = toClient[i]
            \/ /\ i \in Int /\ i > Len(toClient)
               /\ i - Len(toClient) \in DOMAIN w /\ toClient'[i] = w[i - Len(toClient)]
    <2>1. SUFFICES ASSUME NEW i \in DOMAIN toClient', i \notin DOMAIN toClient
                   PROVE  /\ i \in Int /\ i > Len(toClient)
                          /\ i - Len(toClient) \in DOMAIN w
                          /\ toClient'[i] = w[i - Len(toClient)]
      BY <1>1, <1>3, ConcatIs
    <2> QED
      BY <1>1, <1>3, <2>1
  <1>8. OfConnection'
    BY <1>1, <1>2 DEF OfConnection
  <1>9. OfServer'
    <2>1. ASSUME ~peer.supported
          PROVE  /\ UNCHANGED <<kept, serverDefault, serverActive>>
                 /\ \A i \in DOMAIN toClient' : toClient'[i].kind = "error"
      BY <1>3, <1>7, <2>1 DEF AnswersTo, server, MirrorInv, OfServer
    <2>2. ASSUME peer.supported PROVE ~Has(toClient', Refusing({"all"}))
      BY <1>3, <1>6, <2>2 DEF AnswersTo, MirrorInv, OfServer
    <2>3. (Has(toClient, Refusing({"all"})))' = Has(toClient', Refusing({"all"}))
      BY DEF Has, Refusing
    <2> QED
      BY <1>1, <2>1, <2>2, <2>3 DEF MirrorInv, OfServer
  <1>10. \A i \in SetterIds(toServer)' :
             /\ i + 1 \in SetterIds(toServer) /\ i + 1 # 1 /\ i \in Int
             /\ toServer'[i] = toServer[i + 1]
    BY <1>4 DEF SetterIds
  <1>11. \A i \in AnsweredIds(toClient)' :
             \/ i \in AnsweredIds(toClient) /\ toClient'[i] = toClient[i]
             \/ toClient'[i].of = iq /\ 1 \in SetterIds(toServer)
    BY <1>3, <1>4, <1>7 DEF AnsweredIds, SetterIds, AnswersTo
  <1>12. \A i, k \in AnsweredIds(toClient)' :
             i \in AnsweredIds(toClient) \/ k \in AnsweredIds(toClient) \/ i = k
    <2>1. SUFFICES ASSUME NEW i \in AnsweredIds(toClient)', NEW k \in AnsweredIds(toClient)',
                          i \notin AnsweredIds(toClient), k \notin AnsweredIds(toClient)
                   PROVE  i = k
      OBVIOUS
    <2>2. /\ i \in Int /\ i - Len(toClient) \in DOMAIN w
          /\ w[i - Len(toClient)].kind \in {"done", "error"}
          /\ k \in Int /\ k - Len(toClient) \in DOMAIN w
          /\ w[k - Len(toClient)].kind \in {"done", "error"}
      BY <1>7, <2>1 DEF AnsweredIds
    <2>3. i - Len(toClient) = k - Len(toClient)
      BY <1>3, <2>2 DEF AnswersTo
    <2> QED
      BY <1>1, <2>2, <2>3
  <1>13. IdsApart'
    <2>1. ASSUME NEW i \in SetterIds(toServer)', NEW k \in SetterIds(toServer)',
                 toServer'[i].id = toServer'[k].id
          PROVE  i = k
      <3>1. i + 1 = k + 1
        BY <1>10, <2>1 DEF MirrorInv, IdsApart
      <3> QED
        BY <1>10, <3>1
    <2>2. ASSUME NEW i \in AnsweredIds(toClient)', NEW k \in AnsweredIds(toClient)',
                 toClient'[i].of.id = toClient'[k].of.id
          PROVE  i = k
      <3>1. CASE i \in AnsweredIds(toClient) /\ k \in AnsweredIds(toClient)
        <4>1. \A m \in AnsweredIds(toClient) : toClient'[m] = toClient[m]
          BY <1>1, <1>3, ConcatIs DEF AnsweredIds
        <4> QED
          BY <2>2, <3>1, <4>1 DEF MirrorInv, IdsApart
      <3>2. \A m \in AnsweredIds(toClient) : toClient'[m] = toClient[m]
        BY <1>1, <1>3, ConcatIs DEF AnsweredIds
      <3>3. \A m \in AnsweredIds(toClient) :
                1 \in SetterIds(toServer) => iq.id # toClient[m].of.id
        BY <1>4 DEF MirrorInv, IdsApart
      <3>4. CASE i \in AnsweredIds(toClient) /\ k \notin AnsweredIds(toClient)
        BY <1>11, <2>2, <3>2, <3>3, <3>4
      <3>5. CASE k \in AnsweredIds(toClient) /\ i \notin AnsweredIds(toClient)
        BY <1>11, <2>2, <3>2, <3>3, <3>5
      <3> QED
        BY <1>12, <3>1, <3>4, <3>5
    <2>3. ASSUME NEW i \in SetterIds(toServer)', NEW k \in AnsweredIds(toClient)'
          PROVE  toServer'[i].id # toClient'[k].of.id
      <3>1. i + 1 \in SetterIds(toServer) /\ toServer'[i] = toServer[i + 1] /\ i + 1 # 1
        BY <1>10
      <3>2. CASE k \in AnsweredIds(toClient) /\ toClient'[k] = toClient[k]
        <4>1. toServer[i + 1].id # toClient[k].of.id
          BY <3>1, <3>2 DEF MirrorInv, IdsApart
        <4> QED
          BY <3>1, <3>2, <4>1
      <3>3. CASE toClient'[k].of = iq /\ 1 \in SetterIds(toServer)
        <4>1. toServer[i + 1].id # toServer[1].id
          BY <3>1, <3>3 DEF MirrorInv, IdsApart
        <4> QED
          BY <1>4, <3>1, <3>3, <4>1
      <3> QED
        BY <1>11, <3>2, <3>3
    <2> QED
      BY <2>1, <2>2, <2>3 DEF IdsApart, SetterIds, AnsweredIds
  <1>14. SettersMatch'
    <2>1. \A x : SetsAsSaid(x)' = SetsAsSaid(x)
      BY <1>1 DEF SetsAsSaid
    <2>2. ASSUME NEW i \in SetterIds(toServer)' PROVE SetsAsSaid(toServer'[i])
      BY <1>10 DEF MirrorInv, SettersMatch
    <2>3. ASSUME NEW i \in AnsweredIds(toClient)' PROVE SetsAsSaid(toClient'[i].of)
      <3>1. 1 \in SetterIds(toServer) => SetsAsSaid(iq)
        BY <1>4 DEF MirrorInv, SettersMatch
      <3>2. i \in AnsweredIds(toClient) => SetsAsSaid(toClient[i].of)
        BY DEF MirrorInv, SettersMatch
      <3> QED
        BY <1>11, <3>1, <3>2
    <2> QED
      BY <1>1, <2>2, <2>3 DEF SettersMatch, SetterIds, AnsweredIds, SetsAsSaid
  <1>15. MadeUpFor'
    <2>1. ForgottenRequests' = ForgottenRequests /\ ForgottenAnswers' = ForgottenAnswers
      BY <1>1 DEF ForgottenRequests, ForgottenAnswers
    <2>2. /\ Followed(toServer', ForgottenRequests, Asking({"all"}))
          /\ iq \in ForgottenRequests => Has(toServer', Asking({"all"}))
      BY <1>1, FollowedTail DEF MirrorInv, MadeUpFor, iq
    <2>3. Has(toServer', Asking({"all"})) \/ Followed(toClient', ForgottenAnswers, Listing)
      <3>1. CASE ~peer.supported
        <4>1. \A i \in DOMAIN toClient' : toClient'[i] \notin ForgottenAnswers
          BY <1>1, <1>9, <3>1 DEF OfServer, ForgottenAnswers, Granting
        <4> QED
          BY <4>1 DEF Followed
      <3>2. CASE peer.supported /\ iq.kind = "all"
        <4>1. Has(w, Listing)
          BY <1>3, <3>2 DEF AnswersTo
        <4>2. \A i \in DOMAIN w : w[i] \notin ForgottenAnswers
          BY <1>3, <3>2 DEF AnswersTo, ForgottenAnswers, Granting
        <4>3. Followed(w, ForgottenAnswers, Listing)
          BY <4>2 DEF Followed
        <4>4. Followed(toClient, {}, Listing)
          BY DEF Followed
        <4> QED
          BY <1>1, <1>3, <4>1, <4>3, <4>4, FollowedConcat
      <3>3. CASE peer.supported /\ iq.kind # "all" /\ ~Has(toServer', Asking({"all"}))
        <4>1. Followed(toClient, ForgottenAnswers, Listing)
          BY <1>5, <3>3 DEF MirrorInv, MadeUpFor, Asking
        <4>2. iq \notin ForgottenRequests
          BY <2>2, <3>3
        <4>3. \A i \in DOMAIN w : w[i] \notin ForgottenAnswers
          BY <1>3, <1>4, <4>2
             DEF AnswersTo, ForgottenAnswers, Granting, ForgottenRequests, Asking
        <4>4. Followed(w, ForgottenAnswers, Listing)
          BY <4>3 DEF Followed
        <4> QED
          BY <1>1, <1>3, <4>1, <4>4, FollowedConcat
      <3> QED
        BY <1>1, <3>1, <3>2, <3>3 DEF TypeOK
    <2>4. (Has(toServer, Asking({"all"})))' = Has(toServer', Asking({"all"}))
      BY DEF Has, Asking
    <2> QED
      BY <2>1, <2>2, <2>3, <2>4 DEF MadeUpFor
  <1>16. Synced' => Synced
    <2>1. SUFFICES ASSUME connected, requested,
                          ~Has(toServer', Asking({"all"})), ~Has(toClient', Listing),
                          ~Has(toClient', Granting({"all"}) \cup Refusing({"all"}))
                   PROVE  Synced
      BY <1>1 DEF Synced, UnderWay
    <2>2. iq.kind # "all"
      <3>1. Has(w, Refusing({"all"})) => Has(w, Granting({"all"}) \cup Refusing({"all"}))
        BY DEF Has
      <3> QED
        BY <1>3, <1>6, <2>1, <3>1 DEF AnswersTo
    <2>3. iq \notin Asking({"all"})
      BY <2>2 DEF Asking
    <2> QED
      BY <1>5, <1>6, <2>1, <2>3 DEF Synced, UnderWay
  <1>17. Corrected' /\ CacheHonest' /\ NamesKnown' /\ InUse'
    BY <1>1, <1>2, <1>3, <1>16, ToldMirror
  <1> QED
    BY <1>1, <1>8, <1>9, <1>13, <1>14, <1>15, <1>17 DEF MirrorInv

\* A connection comes and goes with what is under way.
LEMMA ConnectionMirrorInv ==
  ASSUME MirrorInv, TypeOK', Connects \/ Disconnects
  PROVE  MirrorInv'
  <1>1. /\ toServer' = <<>> /\ toClient' = <<>> /\ ~requested' /\ serverActive' = NoName
        /\ UNCHANGED <<defaultList, peer, kept, serverDefault>>
    BY DEF Connects, Disconnects, MirrorInv, OfConnection, known, server
  <1>2. OfConnection'
    BY <1>1 DEF OfConnection
  <1>3. OfServer'
    BY <1>1 DEF MirrorInv, OfServer, Has
  <1>4. IdsApart' /\ SettersMatch'
    BY <1>1 DEF IdsApart, SettersMatch, SetterIds, AnsweredIds
  <1>5. MadeUpFor'
    BY <1>1 DEF MadeUpFor, Followed
  <1>6. Corrected'
    BY <1>1 DEF Corrected, Followed
  <1>7. CacheHonest' /\ NamesKnown' /\ InUse'
    BY <1>1 DEF CacheHonest, NamesKnown, InUse, Synced
  <1> QED
    BY <1>2, <1>3, <1>4, <1>5, <1>6, <1>7 DEF MirrorInv

\* Every step keeps the invariant.
LEMMA NextMirrorInv ==
  ASSUME MirrorInv, [Next]_vars
  PROVE  MirrorInv'
  <1>1. TypeOK'
    BY NextTypeOK DEF MirrorInv
  <1>2. CASE UNCHANGED vars
    BY <1>1, <1>2, NothingMirrorInv DEF vars, application, server
  <1> QED
    BY <1>1, <1>2, requestMirrorInv, CallsMirrorInv, handleIQMirrorInv, ConnectionMirrorInv,
       ServerAnswersMirrorInv, OthersMirrorInv DEF Next

\* Without requests and answers on their way between two setters the lists in
\* use are the server's; so they are when there is no setter under way.
LEMMA MirrorInvHonest == MirrorInv => MirrorHonest
  <1> SUFFICES ASSUME MirrorInv PROVE MirrorHonest
    OBVIOUS
  <1>1. ~UnderWay({"default", "set"}) => ~Has(toClient, Granting({"default", "set"}))
    BY DEF UnderWay, Has
  <1>2. ~UnderWay({"active", "set"}) => ~Has(toClient, Granting({"active"}))
    BY DEF UnderWay, Has, Granting
  <1>3. DefaultAgrees /\ ActiveAgrees
    BY <1>1, <1>2 DEF MirrorInv, InUse, DefaultAgrees, ActiveAgrees
  <1> QED
    BY <1>3 DEF MirrorInv, MirrorHonest, ListsInUseAgree

\* What the manager remembers of the server's lists is true, or the news that
\* it is not is on its way, whatever crosses on the stream and whoever changes
\* the lists: for any lists and any number of stanzas under way.
THEOREM SpecMirrorHonest == Spec => []MirrorHonest
  <1>1. Init => MirrorInv
    BY InitMirrorInv
  <1>2. MirrorInv /\ [Next]_vars => MirrorInv'
    BY NextMirrorInv
  <1>3. MirrorInv => MirrorHonest
    BY MirrorInvHonest
  <1> QED
    BY <1>1, <1>2, <1>3, PTL DEF Spec

---------------------------------------------------------------------------
\* Nobody waits in vain.

\* A list that is on its way stays so as long as nothing arrives.
LEMMA MoreOnItsWay ==
  ASSUME TypeOK, NEW w \in Seq(Requests), NEW c \in Seq(Answers),
         toServer' = toServer \o w, toClient' = toClient \o c,
         NEW name, OnItsWay(name)
  PROVE  OnItsWay(name)'
  <1>1. Has(toServer, RequestsOf(name)) => Has(toServer', RequestsOf(name))
    BY HasConcat DEF TypeOK
  <1>2. Has(toClient, AnswersOf(name)) => Has(toClient', AnswersOf(name))
    BY HasConcat DEF TypeOK
  <1> QED
    BY <1>1, <1>2 DEF OnItsWay, RequestsOf, AnswersOf

\* What is sent is behind what was sent before, unless it goes nowhere.
LEMMA SendsIs ==
  ASSUME TypeOK, NEW r \in Requests, Sends(r)
  PROVE  /\ \E w \in Seq(Requests) : toServer' = toServer \o w
         /\ connected => Has(toServer', {r})
  <1>1. <<r>> \in Seq(Requests) /\ <<>> \in Seq(Requests) /\ toServer \o <<>> = toServer
    BY DEF TypeOK
  <1>2. connected => toServer' = toServer \o <<r>>
    BY AppendIs DEF TypeOK, Sends
  <1>3. connected => Has(toServer', {r})
    <2>1. Has(<<r>>, {r})
      BY DEF Has
    <2>2. Has(toServer \o <<r>>, {r})
      BY <1>1, <2>1, HasConcat DEF TypeOK
    <2> QED
      BY <1>2, <2>2
  <1> QED
    BY <1>1, <1>2, <1>3 DEF Sends

\* What the application asks for loses nothing; a list is asked for once.
LEMMA CallsWait ==
  ASSUME WaitInv,
         \/ request
         \/ \E name \in MaybeName : setActiveList(name) \/ setDefaultList(name)
         \/ \E name \in Names, items \in Items : setList(name, items)
         \/ \E name \in Names : requestList(name)
  PROVE  NobodyWaitsInVain'
  <1> SUFFICES ASSUME Careless = {}, peer'.echoes = {TRUE}
               PROVE  /\ \A name \in waiting' : OnItsWay(name)'
                      /\ requested' => \A name \in listRequests' : OnItsWay(name)'
    BY DEF NobodyWaitsInVain
  <1>1. peer' = peer /\ toClient' = toClient /\ TypeOK
    BY DEF request, setActiveList, setDefaultList, setList, requestList, WaitInv
  <1>2. PICK r \in Requests :
            \/ Sends(r)
            \/ toServer' = toServer /\ \E name \in Names : requestList(name)
    <2>1. ASSUME NEW name \in MaybeName, setActiveList(name) \/ setDefaultList(name)
          PROVE  \E r \in Requests : Sends(r)
      <3>1. NewId \in Ids
        BY <2>1, NewIdIs DEF setActiveList, setDefaultList
      <3> QED
        BY <2>1, <3>1, RequestsMade DEF setActiveList, setDefaultList
    <2>2. request => \E r \in Requests : Sends(r)
      BY RequestsMade DEF request
    <2>3. (\E name \in Names, items \in Items : setList(name, items)) => \E r \in Requests : Sends(r)
      BY RequestsMade DEF setList
    <2>4. ASSUME NEW name \in Names, requestList(name)
          PROVE  \E r \in Requests : Sends(r) \/ toServer' = toServer
      BY <2>4, RequestsMade DEF requestList
    <2> QED
      BY <2>1, <2>2, <2>3, <2>4
  <1>3. \E w \in Seq(Requests) : toServer' = toServer \o w
    <2>1. toServer \o <<>> = toServer /\ <<>> \in Seq(Requests)
      BY <1>1 DEF TypeOK
    <2> QED
      BY <1>1, <1>2, <2>1, SendsIs
  <1>4. toClient' = toClient \o <<>> /\ <<>> \in Seq(Answers)
    BY <1>1 DEF TypeOK
  <1>5. \A name : OnItsWay(name) => OnItsWay(name)'
    BY <1>1, <1>3, <1>4, MoreOnItsWay
  <1>6. /\ \A name \in waiting : OnItsWay(name)
        /\ requested => \A name \in listRequests : OnItsWay(name)
    BY <1>1 DEF WaitInv, NobodyWaitsInVain
  <1>7. ASSUME NEW name \in Names, requestList(name)
        PROVE  /\ waiting' = waiting \cup {name} /\ listRequests' = listRequests \cup {name}
               /\ requested' = requested /\ OnItsWay(name)'
    <2>1. requested /\ connected
      BY <1>7 DEF requestList, Prepared, WaitInv, OfConnection
    <2>2. CASE name \in listRequests
      BY <1>5, <1>6, <1>7, <2>1, <2>2 DEF requestList
    <2>3. CASE name \notin listRequests
      <3> DEFINE get == [kind |-> "get", name |-> name]
      <3>1. Sends(get) /\ get \in Requests
        BY <1>7, <2>3, RequestsMade DEF requestList
      <3>2. Has(toServer', {get})
        BY <1>1, <2>1, <3>1, SendsIs
      <3>3. Has(toServer', RequestsOf(name))
        BY <3>2 DEF Has, RequestsOf
      <3> QED
        BY <1>7, <2>3, <3>3 DEF requestList, OnItsWay, RequestsOf, AnswersOf
    <2> QED
      BY <2>2, <2>3
  <1>8. CASE \E name \in Names : requestList(name)
    BY <1>5, <1>6, <1>7, <1>8
  <1>9. CASE request
    BY <1>5, <1>6, <1>9 DEF request
  <1>10. CASE \/ \E name \in MaybeName : setActiveList(name) \/ setDefaultList(name)
              \/ \E name \in Names, items \in Items : setList(name, items)
    <2>1. UNCHANGED <<waiting, requested, listRequests>>
      BY <1>10 DEF setActiveList, setDefaultList, setList, application
    <2> QED
      BY <1>5, <1>6, <2>1
  <1> QED
    BY <1>8, <1>9, <1>10

\* When an answer arrives nobody waits any more for what it is the answer to.
LEMMA HandledWait ==
  ASSUME TypeOK, handleIQ, NEW name
  PROVE  /\ name \in waiting' => name \in waiting /\ Head(toClient) \notin AnswersOf(name)
         /\ name \in listRequests' =>
               name \in listRequests /\ Head(toClient) \notin AnswersOf(name)
  <1> DEFINE a == Head(toClient)
  <1>1. a \in Answers
    BY TailIs DEF TypeOK, handleIQ
  <1> HIDE DEF a
  <1>2. CASE DoneReceived(a) \/ ListsReceived(a) \/ PushReceived(a)
    BY <1>2 DEF DoneReceived, ListsReceived, PushReceived, AnswersOf, a
  <1>3. CASE ListReceived(a)
    BY <1>3 DEF ListReceived, OnList, AnswersOf, a
  <1>4. CASE ErrorReceived(a)
    <2>1. a.kind = "error"
      BY <1>4 DEF ErrorReceived
    <2>2. CASE SetterRefused(a.of)
      BY <2>1, <2>2 DEF SetterRefused, AnswersOf, a
    <2>3. CASE EchoOfList(a.of)
      BY <2>1, <2>3 DEF EchoOfList, OnList, AnswersOf, a
    <2>4. CASE EchoOfLists(a.of)
      BY <2>1, <2>4 DEF EchoOfLists, AnswersOf, a
    <2>5. CASE NothingReceived(a)
      BY <2>1, <2>5 DEF NothingReceived, AnswersOf, a
    <2> QED
      BY <1>4, <2>2, <2>3, <2>4, <2>5 DEF ErrorReceived
  <1> QED
    BY <1>2, <1>3, <1>4 DEF handleIQ, a

\* The server leaves no request for a list without the answer to it.
LEMMA GetAnswered ==
  ASSUME TypeOK, peer.echoes = {TRUE}, NEW iq \in Requests, iq.kind = "get",
         IF peer.supported
         THEN SaysAll(iq) \/ SaysList(iq) \/ TakesActive(iq) \/ TakesDefault(iq) \/ TakesList(iq)
         ELSE Refuses(iq)
  PROVE  \E a \in AnswersOf(iq.name) : toClient' = toClient \o <<a>>
  <1>1. iq.name \in Names
    BY RequestKinds
  <1>2. CASE Refuses(iq)
    <2> DEFINE a == [kind |-> "error", of |-> iq, echo |-> TRUE, unavailable |-> ~peer.supported]
    <2>1. toClient' = toClient \o <<a>>
      BY <1>2 DEF Refuses, Says
    <2>2. a \in Answers
      BY AnswersMade DEF TypeOK
    <2> QED
      BY <2>1, <2>2 DEF AnswersOf
  <1>3. CASE ~Refuses(iq)
    <2> DEFINE a == [kind |-> "list", name |-> iq.name, items |-> kept[iq.name]]
    <2>1. SaysList(iq) /\ iq.name \in Existing
      BY <1>3 DEF SaysAll, SaysList, TakesActive, TakesDefault, TakesList
    <2>2. toClient' = toClient \o <<a>>
      BY <2>1 DEF SaysList, Says
    <2>3. kept[iq.name] \in Contents
      BY <1>1, <2>1 DEF Existing, TypeOK, Items
    <2>4. a \in Answers
      BY <1>1, <2>3, AnswersMade
    <2> QED
      BY <2>2, <2>4 DEF AnswersOf
  <1> QED
    BY <1>2, <1>3

\* Every step keeps the invariant.
LEMMA NextWaits ==
  ASSUME MirrorInv, NobodyWaitsInVain, [Next]_vars
  PROVE  NobodyWaitsInVain'
  <1>1. TypeOK /\ WaitInv /\ TypeOK'
    BY NextTypeOK DEF MirrorInv, WaitInv
  <1>2. CASE UNCHANGED vars
    BY <1>2 DEF NobodyWaitsInVain, OnItsWay, RequestsOf, AnswersOf, vars, application
  <1>3. CASE handleIQ
    <2>1. SUFFICES ASSUME Careless = {}, peer.echoes = {TRUE}, NEW name,
                          name \in waiting' \/ (requested' /\ name \in listRequests')
                   PROVE  OnItsWay(name)'
      BY <1>3 DEF NobodyWaitsInVain, handleIQ
    <2>2. OnItsWay(name) /\ Head(toClient) \notin AnswersOf(name)
      BY <1>1, <1>3, <2>1, HandledWait DEF NobodyWaitsInVain, handleIQ
    <2>3. toClient # <<>> /\ toClient' = Tail(toClient) /\ toServer' = toServer
      BY <1>3 DEF handleIQ
    <2>4. Has(toClient, AnswersOf(name)) => Has(toClient', AnswersOf(name))
      BY <1>1, <2>2, <2>3, HasTail DEF TypeOK
    <2> QED
      BY <2>2, <2>3, <2>4 DEF OnItsWay, RequestsOf, AnswersOf
  <1>4. CASE ServerAnswers
    <2> DEFINE iq == Head(toServer)
    <2>1. SUFFICES ASSUME Careless = {}, peer.echoes = {TRUE}, NEW name, OnItsWay(name)
                   PROVE  OnItsWay(name)'
      BY <1>4 DEF NobodyWaitsInVain, ServerAnswers, application
    <2>2. iq \in Requests /\ toServer # <<>> /\ toServer' = Tail(toServer)
      BY <1>1, <1>4, TailIs DEF TypeOK, ServerAnswers
    <2>3. PICK w \in Seq(Answers) : toClient' = toClient \o w
      BY <1>4, ServerAnswersTells
    <2>4. Has(toClient, AnswersOf(name)) => Has(toClient', AnswersOf(name))
      BY <1>1, <2>3, HasConcat DEF TypeOK
    <2>5. ASSUME iq \in RequestsOf(name)
          PROVE  Has(toClient', AnswersOf(name))
      <3>1. iq.kind = "get" /\ iq.name = name
        BY <2>5 DEF RequestsOf
      <3>2. PICK a \in AnswersOf(name) : toClient' = toClient \o <<a>>
        BY <1>1, <1>4, <2>1, <2>2, <3>1, GetAnswered DEF ServerAnswers
      <3>3. a \in Answers /\ <<a>> \in Seq(Answers)
        BY <3>2 DEF AnswersOf
      <3> QED
        BY <1>1, <3>2, <3>3, HasConcat, OneUnderWay DEF TypeOK
    <2>6. Has(toServer, RequestsOf(name)) =>
              Has(toServer', RequestsOf(name)) \/ Has(toClient', AnswersOf(name))
      BY <1>1, <2>2, <2>5, HasTail DEF TypeOK
    <2> QED
      BY <2>1, <2>4, <2>6 DEF OnItsWay, RequestsOf, AnswersOf
  <1>5. ASSUME NEW l \in Names, NEW items \in Items, OthersChange(l, items)
        PROVE  NobodyWaitsInVain'
    <2> DEFINE push == [kind |-> "push", name |-> l]
    <2>1. push \in Answers /\ <<push>> \in Seq(Answers) /\ <<>> \in Seq(Answers)
      BY AnswersMade
    <2>2. toServer' = toServer \o <<>> /\ <<>> \in Seq(Requests)
      BY <1>1, <1>5 DEF OthersChange, TypeOK
    <2>3. toClient' = toClient \o <<push>> \/ toClient' = toClient \o <<>>
      BY <1>1, <1>5, <2>1, AppendIs DEF OthersChange, TypeOK
    <2>4. \A name : OnItsWay(name) => OnItsWay(name)'
      BY <1>1, <2>1, <2>2, <2>3, MoreOnItsWay
    <2> QED
      BY <1>5, <2>4 DEF NobodyWaitsInVain, OthersChange, application
  <1>6. CASE Connects
    BY <1>1, <1>6 DEF Connects, NobodyWaitsInVain, OnItsWay, RequestsOf, AnswersOf
  <1>7. CASE Disconnects
    BY <1>7 DEF Disconnects, NobodyWaitsInVain
  <1> QED
    BY <1>1, <1>2, <1>3, <1>4, <1>5, <1>6, <1>7, CallsWait DEF Next

\* As long as somebody waits for a list its request or its answer is on its way,
\* through any number of request(), broken connections and refusals: no call of
\* requestList() is swallowed by one that is over.  With the fairness of what is
\* under way this is why ListAnswered holds.
THEOREM SpecWaitInv == Spec => []WaitInv
  <1> DEFINE Inv == MirrorInv /\ NobodyWaitsInVain
  <1>1. Init => Inv
    BY InitMirrorInv DEF Init, NobodyWaitsInVain
  <1>2. Inv /\ [Next]_vars => Inv'
    BY NextMirrorInv, NextWaits
  <1>3. Inv => WaitInv
    BY DEF MirrorInv, WaitInv
  <1> HIDE DEF Inv
  <1> QED
    BY <1>1, <1>2, <1>3, PTL DEF Spec

=============================================================================
