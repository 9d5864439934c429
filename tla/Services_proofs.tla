--------------------------- MODULE Services_proofs ---------------------------
(***************************************************************************)
(* Theorems about the managers on one connection, for any number of        *)
(* requests under way, any cards and any answers about storage.            *)
(***************************************************************************)
EXTENDS Services, TLAPS

---------------------------------------------------------------------------
\* Hashes by id.

\* A hash without an entry keeps the others (QHash::take).
LEMMA WithoutIs ==
  ASSUME NEW f, NEW id
  PROVE  /\ DOMAIN Without(f, id) = DOMAIN f \ {id}
         /\ \A n \in DOMAIN f \ {id} : Without(f, id)[n] = f[n]
  BY DEF Without

\* Two hashes in one, the first before the second.
LEMMA BothIs ==
  ASSUME NEW f, NEW g
  PROVE  /\ DOMAIN Both(f, g) = DOMAIN f \cup DOMAIN g
         /\ \A n \in DOMAIN f : Both(f, g)[n] = f[n]
         /\ \A n \in DOMAIN g \ DOMAIN f : Both(f, g)[n] = g[n]
  BY DEF Both

\* The empty hash has no entry.
LEMMA NobodyIs == DOMAIN Nobody = {}
  BY DEF Nobody

\* A new id is nobody's.
LEMMA NewIdIsFree ==
  ASSUME FreeIds # {}
  PROVE  NewId \in Ids /\ NewId \notin DOMAIN tracks /\ NewId \notin DOMAIN doomed
  BY DEF NewId, FreeIds

\* What is under way after several requests have been sent: what was, and each of them.
LEMMA TrackedAllIs ==
  ASSUME NEW requests, NewIds(requests) # {}
  PROVE  \E ids \in NewIds(requests) :
            /\ DOMAIN TrackedAll(requests) = DOMAIN tracks \cup {ids[k] : k \in DOMAIN requests}
            /\ \A k \in DOMAIN requests : TrackedAll(requests)[ids[k]] = requests[k]
            /\ \A n \in DOMAIN tracks : TrackedAll(requests)[n] = tracks[n]
  <1> DEFINE ids == CHOOSE f \in NewIds(requests) : TRUE
             sent == [id \in {ids[k] : k \in DOMAIN requests} |->
                         requests[CHOOSE k \in DOMAIN requests : ids[k] = id]]
  <1>1. ids \in NewIds(requests)
    OBVIOUS
  <1>2. ids \in [DOMAIN requests -> FreeIds]
        /\ \A i, j \in DOMAIN requests : i # j => ids[i] # ids[j]
    BY <1>1 DEF NewIds
  <1>3. ASSUME NEW k \in DOMAIN requests
        PROVE  sent[ids[k]] = requests[k]
    <2> DEFINE K == CHOOSE x \in DOMAIN requests : ids[x] = ids[k]
    <2>1. K \in DOMAIN requests /\ ids[K] = ids[k]
      OBVIOUS
    <2>2. K = k
      BY <2>1, <1>2
    <2>3. sent[ids[k]] = requests[K]
      OBVIOUS
    <2> QED
      BY <2>2, <2>3
  <1>4. DOMAIN sent = {ids[k] : k \in DOMAIN requests}
    OBVIOUS
  <1>5. DOMAIN tracks \cap DOMAIN sent = {}
    BY <1>2, <1>4 DEF FreeIds
  <1>6. TrackedAll(requests) = Both(sent, tracks)
    BY DEF TrackedAll
  <1> HIDE DEF ids, sent
  <1>7. /\ DOMAIN Both(sent, tracks) = DOMAIN sent \cup DOMAIN tracks
        /\ \A n \in DOMAIN sent : Both(sent, tracks)[n] = sent[n]
        /\ \A n \in DOMAIN tracks \ DOMAIN sent : Both(sent, tracks)[n] = tracks[n]
    BY BothIs
  <1> QED
    BY <1>1, <1>3, <1>4, <1>5, <1>6, <1>7

---------------------------------------------------------------------------
\* What is under way and what is left to delete stay requests.

\* When one request has been sent (Client::send), iqTracks holds requests.
LEMMA RepliesTracked ==
  ASSUME TypeOK, FreeIds # {}, NEW r \in Requests
  PROVE  IsReplies(Tracked(r), Requests)
  <1>1. /\ DOMAIN Tracked(r) = DOMAIN tracks \cup {NewId}
        /\ Tracked(r)[NewId] = r
        /\ \A n \in DOMAIN tracks : n # NewId => Tracked(r)[n] = tracks[n]
    BY DEF Tracked, With
  <1> QED
    BY <1>1, NewIdIsFree DEF TypeOK, IsReplies

\* When a whole queue has been sent (handleConnection), it still does.
LEMMA RepliesTrackedAll ==
  ASSUME TypeOK, NEW rs \in Seq(Requests), NewIds(rs) # {}
  PROVE  IsReplies(TrackedAll(rs), Requests)
  <1>1. PICK ids \in NewIds(rs) :
          /\ DOMAIN TrackedAll(rs) = DOMAIN tracks \cup {ids[k] : k \in DOMAIN rs}
          /\ \A k \in DOMAIN rs : TrackedAll(rs)[ids[k]] = rs[k]
          /\ \A n \in DOMAIN tracks : TrackedAll(rs)[n] = tracks[n]
    BY TrackedAllIs
  <1>2. \A k \in DOMAIN rs : ids[k] \in Ids /\ rs[k] \in Requests
    BY DEF NewIds, FreeIds
  <1> QED
    BY <1>1, <1>2 DEF TypeOK, IsReplies

\* An answer moves a request from iqTracks to those left to delete (handleStanza).
LEMMA RepliesTaken ==
  ASSUME TypeOK, NEW id \in DOMAIN tracks, Take(id)
  PROVE  IsReplies(tracks', Requests) /\ IsReplies(doomed', Requests)
  <1>1. /\ DOMAIN tracks' = DOMAIN tracks \ {id}
        /\ \A n \in DOMAIN tracks \ {id} : tracks'[n] = tracks[n]
    BY WithoutIs DEF Take
  <1>2. /\ DOMAIN doomed' = DOMAIN doomed \cup {id}
        /\ doomed'[id] = tracks[id]
        /\ \A n \in DOMAIN doomed : n # id => doomed'[n] = doomed[n]
    BY DEF Take, With
  <1> QED
    BY <1>1, <1>2 DEF TypeOK, IsReplies

\* The end of a connection moves all of them there (_q_disconnected).
LEMMA RepliesLost ==
  ASSUME TypeOK, ConnectionLost
  PROVE  IsReplies(tracks', Requests) /\ IsReplies(doomed', Requests)
  <1>1. DOMAIN tracks' = {}
    BY NobodyIs DEF ConnectionLost
  <1>2. /\ DOMAIN doomed' = DOMAIN tracks \cup DOMAIN doomed
        /\ \A n \in DOMAIN tracks : doomed'[n] = tracks[n]
        /\ \A n \in DOMAIN doomed \ DOMAIN tracks : doomed'[n] = doomed[n]
    BY BothIs DEF ConnectionLost
  <1> QED
    BY <1>1, <1>2 DEF TypeOK, IsReplies

---------------------------------------------------------------------------
\* Types.

\* The managers start with the types they keep.
THEOREM InitTypeOK == Init => TypeOK
  <1> SUFFICES ASSUME Init PROVE TypeOK
    OBVIOUS
  <1>1. IsReplies(tracks, Requests) /\ IsReplies(doomed, Requests)
    BY NobodyIs DEF Init, LayerInit, IsReplies
  <1>2. ReplyTypeOK
    BY NobodyIs DEF Init, ReplyInit, ReplyTypeOK
  <1>3. RegistrationTypeOK
    <2>1. iqs \in Seq(RegistrationRequests) /\ Len(iqs) <= MaxQueue
      BY MaxQueueAssumption DEF Init, RegistrationInit
    <2>2. own \in Configs
      BY DEF Init, LayerInit, RegistrationInit
    <2> QED
      BY <2>1, <2>2 DEF Init, RegistrationInit, RegistrationTypeOK
  <1> QED
    BY <1>1, <1>2, <1>3 DEF Init, LayerInit, TypeOK, Links, Configs

\* The managers that wait for replies.
LEMMA AskingTypeOK ==
  ASSUME TypeOK, Asking, UNCHANGED registrationVars
  PROVE  TypeOK'
  <1> USE DEF TypeOK, ReplyTypeOK, layer, replyVars
  <1>1. RegistrationTypeOK'
    BY DEF registrationVars, RegistrationTypeOK
  <1>2. FreeIds # {}
    BY DEF Asking, fetch, Ask, AskPrivate, publishItems, MaySend
  <1>3. NewId \in Ids
    BY <1>2, NewIdIsFree
  <1>4. \A r \in Requests : IsReplies(Tracked(r), Requests)
    BY <1>2, RepliesTracked
  <1>5. ASSUME NEW j \in Jids, fetch(j)
        PROVE  TypeOK'
    <2>1. CardOf(j) \in Requests
      BY DEF Requests, ReplyRequests
    <2>2. IsReplies(tracks', Requests)
      BY <1>4, <1>5, <2>1 DEF fetch
    <2>3. hash' \in [Jids -> {NoReply, Orphan} \cup Ids] /\ waiting' \subseteq Ids \cup {Orphan}
      <3>1. CASE hash[j] # NoReply
        BY <1>5, <3>1 DEF fetch
      <3>2. CASE hash[j] = NoReply
        <4> DEFINE reply == IF CanSend(FALSE) THEN NewId ELSE Orphan
        <4>1. reply \in Ids \cup {Orphan}
          BY <1>3
        <4>2. hash' = [hash EXCEPT ![j] = reply] /\ waiting' = waiting \cup {reply}
          BY <1>5, <3>2 DEF fetch
        <4> HIDE DEF reply
        <4> QED
          BY <4>1, <4>2
      <3> QED
        BY <3>1, <3>2
    <2> QED
      BY <1>1, <1>5, <2>2, <2>3 DEF fetch
  <1>6. ASSUME NEW r \in {Store, Discover("info"), Discover("items")}, Ask(r)
        PROVE  TypeOK'
    <2>1. r \in Requests
      BY DEF Requests, ReplyRequests
    <2> QED
      BY <1>1, <1>3, <1>4, <1>6, <2>1 DEF Ask
  <1>7. ASSUME NEW s \in Storages, NEW r \in {ReadOf(s), WriteOf(s)}, AskPrivate(r)
        PROVE  TypeOK'
    <2>1. r \in Requests /\ r.of = s
      BY DEF Requests, ReplyRequests, ReadOf, WriteOf
    <2>2. DOMAIN handlers' \subseteq Ids /\ \A id \in DOMAIN handlers' : handlers'[id] \in Storages
      BY <1>3, <1>7, <2>1 DEF AskPrivate, With
    <2> QED
      BY <1>1, <1>4, <1>7, <2>1, <2>2 DEF AskPrivate
  <1>8. ASSUME publishItems
        PROVE  TypeOK'
    <2>1. Publish \in Requests
      BY DEF Requests, ReplyRequests
    <2> QED
      BY <1>1, <1>4, <1>8, <2>1 DEF publishItems
  <1> QED
    BY <1>5, <1>6, <1>7, <1>8 DEF Asking

\* The manager that registers.
LEMMA RegistrationSends ==
  ASSUME TypeOK, NEW request \in RegistrationRequests, NEW wait \in BOOLEAN,
         sendIQ(request, wait)
  PROVE  /\ IsReplies(tracks', Requests)
         /\ iqs' \in Seq(RegistrationRequests) /\ Len(iqs') <= MaxQueue
  <1>1. /\ IsReplies(tracks, Requests)
        /\ iqs \in Seq(RegistrationRequests) /\ Len(iqs) <= MaxQueue
    BY DEF TypeOK, RegistrationTypeOK
  <1>2. CASE wait
    <2>1. Len(iqs) < MaxQueue /\ iqs' = Append(iqs, request) /\ tracks' = tracks
      BY <1>2 DEF sendIQ
    <2>2. iqs' \in Seq(RegistrationRequests) /\ Len(iqs') = Len(iqs) + 1
      BY <1>1, <2>1
    <2>3. Len(iqs) \in Nat
      BY <1>1
    <2>4. Len(iqs') <= MaxQueue
      BY <2>1, <2>2, <2>3, MaxQueueAssumption
    <2> QED
      BY <1>1, <2>1, <2>2, <2>4 DEF IsReplies
  <1>3. CASE ~ wait
    <2>1. request \in Requests
      BY DEF Requests
    <2>2. FreeIds # {} /\ tracks' = (IF CanSend(TRUE) THEN Tracked(request) ELSE tracks)
          /\ iqs' = iqs
      BY <1>3 DEF sendIQ
    <2>3. IsReplies(Tracked(request), Requests)
      BY <2>1, <2>2, RepliesTracked
    <2> QED
      BY <1>1, <2>2, <2>3
  <1> QED
    BY <1>2, <1>3

\* What handleConnection sends is a queue of forms and results.
LEMMA QueuedIs ==
  ASSUME TypeOK
  PROVE  /\ Queued \in Seq(Requests)
         /\ ~ fieldsReceived => \E k \in DOMAIN Queued : Queued[k] = Form
  <1>1. iqs \in Seq(Requests) /\ Form \in Requests
    BY DEF TypeOK, RegistrationTypeOK, Requests, RegistrationRequests
  <1>2. CASE fieldsReceived
    BY <1>1, <1>2 DEF Queued
  <1>3. CASE ~ fieldsReceived
    <2>1. Queued = iqs \o <<Form>>
      BY <1>3 DEF Queued
    <2>2. Len(Queued) = Len(iqs) + 1 /\ Queued[Len(iqs) + 1] = Form /\ Queued \in Seq(Requests)
      BY <1>1, <2>1
    <2>3. Len(iqs) + 1 \in DOMAIN Queued
      BY <1>1, <2>2
    <2> QED
      BY <2>2, <2>3
  <1> QED
    BY <1>2, <1>3

\* The steps of the registration manager keep the types.
LEMMA RegisteringTypeOK ==
  ASSUME TypeOK, Registering, UNCHANGED replyVars
  PROVE  TypeOK'
  <1>1. ReplyTypeOK'
    BY DEF TypeOK, ReplyTypeOK, replyVars
  <1>2. SUFFICES /\ link' \in Links /\ authorization' \in Configs
                 /\ IsReplies(tracks', Requests) /\ IsReplies(doomed', Requests)
                 /\ RegistrationTypeOK'
    BY <1>1 DEF TypeOK, IsReplies
  <1> USE DEF TypeOK, RegistrationTypeOK, Links, Configs, Opened
  <1>3. CASE registerAtServer
    BY <1>3 DEF registerAtServer
  <1>4. CASE registerAtService
    <2>1. sendIQ(Form, FALSE) /\ Form \in RegistrationRequests
      BY <1>4 DEF registerAtService, RegistrationRequests
    <2>2. /\ IsReplies(tracks', Requests)
          /\ iqs' \in Seq(RegistrationRequests) /\ Len(iqs') <= MaxQueue
      BY <2>1, RegistrationSends
    <2>3. /\ waitingForConnection' = FALSE
          /\ UNCHANGED <<link, authorization, doomed, fieldsReceived, configs, feature, listening,
                         scheduled, offers, own, reported>>
      BY <1>4 DEF registerAtService
    <2>4. RegistrationTypeOK'
      BY <2>2, <2>3
    <2> QED
      BY <2>2, <2>3, <2>4
  <1>5. CASE fetchFields
    <2>1. sendIQ(Form, waitingForConnection) /\ Form \in RegistrationRequests
      BY <1>5 DEF fetchFields, RegistrationRequests
    <2>2. /\ IsReplies(tracks', Requests)
          /\ iqs' \in Seq(RegistrationRequests) /\ Len(iqs') <= MaxQueue
      BY <2>1, RegistrationSends
    <2> QED
      BY <1>5, <2>2 DEF fetchFields
  <1>6. CASE send
    <2>1. sendIQ(Result, waitingForConnection) /\ Result \in RegistrationRequests
      BY <1>6 DEF send, RegistrationRequests
    <2>2. /\ IsReplies(tracks', Requests)
          /\ iqs' \in Seq(RegistrationRequests) /\ Len(iqs') <= MaxQueue
      BY <2>1, RegistrationSends
    <2> QED
      BY <1>6, <2>2 DEF send
  <1>7. ASSUME NEW config \in Configs, setFeatureConfig(config)
        PROVE  /\ link' \in Links /\ authorization' \in Configs
               /\ IsReplies(tracks', Requests) /\ IsReplies(doomed', Requests)
               /\ RegistrationTypeOK'
    BY <1>7 DEF setFeatureConfig
  <1>8. CASE handleConnection
    <2>1. IsReplies(tracks', Requests)
      BY <1>8, QueuedIs, RepliesTrackedAll DEF handleConnection
    <2>2. iqs' \in Seq(RegistrationRequests) /\ Len(iqs') <= MaxQueue
      BY <1>8, MaxQueueAssumption DEF handleConnection
    <2> QED
      BY <1>8, <2>1, <2>2 DEF handleConnection
  <1>9. CASE Reconnect
    <2>1. RegistrationTypeOK'
      BY <1>9 DEF Reconnect
    <2>2. link' \in Links
      BY <1>9 DEF Reconnect
    <2> QED
      BY <1>9, <2>1, <2>2 DEF Reconnect
  <1> QED
    BY <1>3, <1>4, <1>5, <1>6, <1>7, <1>8, <1>9 DEF Registering

\* The end of a connection.
LEMMA LostTypeOK ==
  ASSUME TypeOK, ConnectionLost, ReplyLost, NEW unsupported \in BOOLEAN,
         onDisconnect(unsupported), UNCHANGED authorization
  PROVE  TypeOK'
  <1>1. IsReplies(tracks', Requests) /\ IsReplies(doomed', Requests)
    BY RepliesLost
  <1>2. ReplyTypeOK'
    BY NobodyIs DEF ReplyLost, TypeOK, ReplyTypeOK
  <1>3. RegistrationTypeOK'
    <2> USE DEF TypeOK, RegistrationTypeOK, onDisconnect
    <2>1. waitingForConnection' \in BOOLEAN /\ scheduled' \in BOOLEAN
      OBVIOUS
    <2>2. reported' \in {"none", "waiting", "form", "error", "unsupported", "success"}
      OBVIOUS
    <2> QED
      BY <2>1, <2>2
  <1>4. link' \in Links /\ authorization' \in Configs
    BY DEF TypeOK, ConnectionLost, Links
  <1> QED
    BY <1>1, <1>2, <1>3, <1>4 DEF TypeOK

\* Answers keep the types.
LEMMA AnswerTypeOK ==
  ASSUME TypeOK, NEW id \in Ids, Answer(id)
  PROVE  TypeOK'
  <1>1. Take(id) /\ id \in DOMAIN tracks
    BY DEF Answer, ReplyAnswered, RegistrationAnswered
  <1>2. IsReplies(tracks', Requests) /\ IsReplies(doomed', Requests)
    BY <1>1, RepliesTaken
  <1>3. ASSUME NEW answer \in Answers, ReplyAnswered(id, answer), UNCHANGED registrationVars
        PROVE  TypeOK'
    <2>1. RegistrationTypeOK'
      BY <1>3 DEF TypeOK, RegistrationTypeOK, registrationVars
    <2>2. DOMAIN handlers' \subseteq Ids /\ \A n \in DOMAIN handlers' : handlers'[n] \in Storages
      BY <1>3 DEF TypeOK, ReplyTypeOK, ReplyAnswered, Without
    <2>3. ReplyTypeOK'
      BY <1>3, <2>2 DEF TypeOK, ReplyTypeOK, ReplyAnswered
    <2> QED
      BY <1>2, <1>3, <2>1, <2>3 DEF TypeOK, ReplyAnswered
  <1>4. ASSUME NEW answer \in Answers, RegistrationAnswered(id, answer), UNCHANGED replyVars
        PROVE  TypeOK'
    <2>1. ReplyTypeOK'
      BY <1>4 DEF TypeOK, ReplyTypeOK, replyVars
    <2>2. RegistrationTypeOK' /\ authorization' \in Configs
      <3> USE DEF TypeOK, RegistrationTypeOK
      <3>1. CASE formReceived(answer)
        BY <3>1 DEF formReceived
      <3>2. CASE resultReceived(answer)
        BY <3>2 DEF resultReceived
      <3> QED
        BY <1>4, <3>1, <3>2 DEF RegistrationAnswered
    <2> QED
      BY <1>2, <1>4, <2>1, <2>2 DEF TypeOK, RegistrationAnswered
  <1>5. (IF IsPrivate(tracks[id]) THEN StorageAnswers ELSE Answers) \subseteq Answers
    BY StorageAssumption DEF Answers
  <1>6. CASE \E answer \in IF IsPrivate(tracks[id]) THEN StorageAnswers ELSE Answers :
                ReplyAnswered(id, answer) /\ UNCHANGED registrationVars
    BY <1>3, <1>5, <1>6
  <1>7. CASE \E answer \in Answers : RegistrationAnswered(id, answer) /\ UNCHANGED replyVars
    BY <1>4, <1>7
  <1> QED
    BY <1>6, <1>7 DEF Answer

\* Deleting a reply keeps the types.
LEMMA DeleteTypeOK ==
  ASSUME TypeOK, NEW id \in Ids, Delete(id)
  PROVE  TypeOK'
  <1>1. RegistrationTypeOK'
    BY DEF TypeOK, RegistrationTypeOK, Delete, registrationVars
  <1>2. IsReplies(doomed', Requests)
    <2>1. doomed' = Without(doomed, id)
      BY DEF Delete, Deleted
    <2>2. /\ DOMAIN doomed' = DOMAIN doomed \ {id}
          /\ \A n \in DOMAIN doomed' : doomed'[n] = doomed[n]
      BY <2>1, WithoutIs
    <2> QED
      BY <2>2 DEF TypeOK, IsReplies
  <1>3. hash' \in [Jids -> {NoReply, Orphan} \cup Ids]
    BY DEF Delete, Deleted, Removed, TypeOK, ReplyTypeOK
  <1>4. UNCHANGED <<link, authorization, tracks, handlers, expecting>> /\ waiting' \subseteq waiting
    BY DEF Delete, Deleted
  <1>5. ReplyTypeOK'
    BY <1>3, <1>4 DEF TypeOK, ReplyTypeOK
  <1> QED
    BY <1>1, <1>2, <1>4, <1>5 DEF TypeOK, IsReplies

\* Every step keeps the types.
THEOREM NextTypeOK ==
  ASSUME TypeOK, [Next]_vars
  PROVE  TypeOK'
  <1>1. CASE Asking /\ UNCHANGED registrationVars
    BY <1>1, AskingTypeOK
  <1>2. CASE Registering /\ UNCHANGED replyVars
    BY <1>2, RegisteringTypeOK
  <1>3. CASE connectToServer
    BY <1>3 DEF connectToServer, Opened, Links, TypeOK, ReplyTypeOK, RegistrationTypeOK,
                replyVars, registrationVars
  <1>4. CASE handleConnect
    <2>1. ServerInfo \in Requests
      BY DEF Requests, ReplyRequests
    <2>2. IsReplies(tracks', Requests)
      BY <1>4, <2>1, RepliesTracked DEF handleConnect
    <2> QED
      BY <1>4, <2>2 DEF handleConnect, Links, TypeOK, ReplyTypeOK, RegistrationTypeOK,
                        replyVars, registrationVars
  <1>5. CASE NotSupported
    BY <1>5, LostTypeOK DEF NotSupported
  <1>6. CASE Drop
    BY <1>6, LostTypeOK DEF Drop
  <1>7. CASE \E id \in Ids : Answer(id)
    BY <1>7, AnswerTypeOK
  <1>8. CASE \E id \in Ids : Delete(id)
    BY <1>8, DeleteTypeOK
  <1>9. CASE UNCHANGED vars
    BY <1>9 DEF vars, layer, replyVars, registrationVars, TypeOK, ReplyTypeOK, RegistrationTypeOK
  <1> QED
    BY <1>1, <1>2, <1>3, <1>4, <1>5, <1>6, <1>7, <1>8, <1>9 DEF Next

\* What is under way and what is left to delete are requests the managers
\* make, and every member of a manager has its type.
THEOREM SpecTypeOK == Spec => []TypeOK
  <1> QED
    BY InitTypeOK, NextTypeOK, PTL DEF Spec

---------------------------------------------------------------------------
\* Replies and who keeps them.  A vCard's reply is accounted for while it
\* lives, under way or left to delete; what a step does to the two hashes
\* decides what it does to the replies that live.

\* A reply lives while it is tracked or left to delete.
LEMMA LivingIs ==
  /\ DOMAIN Living = DOMAIN tracks \cup DOMAIN doomed
  /\ \A n \in DOMAIN tracks : Living[n] = tracks[n]
  /\ \A n \in DOMAIN doomed \ DOMAIN tracks : Living[n] = doomed[n]
  BY DEF Living, Both

\* A request is sent: it is one more that lives.
LEMMA LivingTracked ==
  ASSUME Apart, FreeIds # {}, NEW r, tracks' = Tracked(r), doomed' = doomed
  PROVE  /\ Apart'
         /\ NewId \in Ids \ DOMAIN Living
         /\ DOMAIN Living' = DOMAIN Living \cup {NewId}
         /\ Living'[NewId] = r
         /\ \A n \in DOMAIN Living : Living'[n] = Living[n]
  <1>1. NewId \in Ids /\ NewId \notin DOMAIN tracks /\ NewId \notin DOMAIN doomed
    BY NewIdIsFree
  <1>2. /\ DOMAIN tracks' = DOMAIN tracks \cup {NewId}
        /\ tracks'[NewId] = r
        /\ \A n \in DOMAIN tracks : n # NewId => tracks'[n] = tracks[n]
    BY DEF Tracked, With
  <1> QED
    BY <1>1, <1>2, LivingIs DEF Apart, Living, Both

\* An answer or the end of the connection: none dies.
LEMMA LivingTaken ==
  ASSUME Apart, NEW id \in DOMAIN tracks, Take(id)
  PROVE  Apart' /\ DOMAIN Living' = DOMAIN Living /\ \A n \in DOMAIN Living : Living'[n] = Living[n]
  <1>1. /\ DOMAIN tracks' = DOMAIN tracks \ {id}
        /\ \A n \in DOMAIN tracks \ {id} : tracks'[n] = tracks[n]
    BY DEF Take, Without
  <1>2. /\ DOMAIN doomed' = DOMAIN doomed \cup {id}
        /\ doomed'[id] = tracks[id]
        /\ \A n \in DOMAIN doomed : n # id => doomed'[n] = doomed[n]
    BY DEF Take, With
  <1> QED
    BY <1>1, <1>2 DEF Apart, Living, Both

\* With the connection all are left to delete, and none dies.
LEMMA LivingLost ==
  ASSUME Apart, ConnectionLost
  PROVE  Apart' /\ DOMAIN Living' = DOMAIN Living /\ \A n \in DOMAIN Living : Living'[n] = Living[n]
  <1>1. DOMAIN tracks' = {}
    BY NobodyIs DEF ConnectionLost
  <1>2. /\ DOMAIN doomed' = DOMAIN tracks \cup DOMAIN doomed
        /\ \A n \in DOMAIN tracks : doomed'[n] = tracks[n]
        /\ \A n \in DOMAIN doomed \ DOMAIN tracks : doomed'[n] = doomed[n]
    BY DEF ConnectionLost, Both
  <1> QED
    BY <1>1, <1>2 DEF Apart, Living, Both

\* The event loop deletes one: it is gone.
LEMMA LivingDeleted ==
  ASSUME Apart, NEW id \in DOMAIN doomed, tracks' = tracks, doomed' = Without(doomed, id)
  PROVE  /\ Apart'
         /\ DOMAIN Living' = DOMAIN Living \ {id}
         /\ Living[id] = doomed[id]
         /\ \A n \in DOMAIN Living' : Living'[n] = Living[n]
  <1>1. /\ DOMAIN doomed' = DOMAIN doomed \ {id}
        /\ \A n \in DOMAIN doomed \ {id} : doomed'[n] = doomed[n]
    BY DEF Without
  <1> QED
    BY <1>1 DEF Apart, Living, Both

\* Requests that no card and no storage waits for.
Plain(r) == r \in Requests /\ r.call \notin {"fetch", "request", "keep"}

\* Sending requests that no card and no storage waits for keeps all accounted for.
LEMMA PlainSent ==
  ASSUME RepliesInv, doomed' = doomed, hash' = hash, handlers' = handlers,
         NEW new \in SUBSET FreeIds,
         DOMAIN tracks' = DOMAIN tracks \cup new,
         \A n \in DOMAIN tracks : tracks'[n] = tracks[n],
         \A n \in new : Plain(tracks'[n])
  PROVE  Apart' /\ RepliesAccounted'
  <1>1. new \cap DOMAIN tracks = {} /\ new \cap DOMAIN doomed = {}
    BY DEF FreeIds
  <1>2. /\ Apart'
        /\ DOMAIN Living' = DOMAIN Living \cup new
        /\ \A n \in DOMAIN Living : Living'[n] = Living[n]
        /\ \A n \in new : Living'[n] = tracks'[n]
    BY <1>1 DEF RepliesInv, Apart, Living, Both
  <1>3. \A n \in new : /\ \A j \in Jids : tracks'[n] # CardOf(j)
                       /\ ~ IsPrivate(tracks'[n])
    BY DEF Plain, CardOf, IsPrivate
  <1>4. CardsAccounted'
    BY <1>2, <1>3 DEF RepliesInv, RepliesAccounted, CardsAccounted
  <1>5. HandlersAccounted'
    BY <1>1, <1>3 DEF RepliesInv, RepliesAccounted, HandlersAccounted
  <1> QED
    BY <1>2, <1>4, <1>5 DEF RepliesAccounted

\* One such request.
LEMMA PlainTracked ==
  ASSUME RepliesInv, FreeIds # {}, NEW r, Plain(r), tracks' = Tracked(r),
         doomed' = doomed, hash' = hash, handlers' = handlers
  PROVE  Apart' /\ RepliesAccounted'
  <1>1. NewId \in FreeIds /\ NewId \notin DOMAIN tracks
    BY NewIdIsFree DEF NewId
  <1>2. /\ DOMAIN tracks' = DOMAIN tracks \cup {NewId}
        /\ tracks'[NewId] = r
        /\ \A n \in DOMAIN tracks : n # NewId => tracks'[n] = tracks[n]
    BY DEF Tracked, With
  <1> QED
    BY <1>1, <1>2, PlainSent

\* So does a step that touches no reply.
LEMMA NothingSent ==
  ASSUME RepliesInv, UNCHANGED <<tracks, doomed, hash, handlers>>
  PROVE  Apart' /\ RepliesAccounted'
  BY DEF RepliesInv, Apart, RepliesAccounted, CardsAccounted, HandlersAccounted, Living

\* Before anything is asked, all replies are accounted for: there are none.
THEOREM InitRepliesInv == Init => RepliesInv
  <1> SUFFICES ASSUME Init PROVE RepliesInv
    OBVIOUS
  <1>1. DOMAIN tracks = {} /\ DOMAIN doomed = {} /\ DOMAIN handlers = {}
    BY NobodyIs DEF Init, LayerInit, ReplyInit
  <1>2. DOMAIN Living = {}
    BY <1>1, LivingIs
  <1>3. \A j \in Jids : hash[j] \notin Ids
    BY MaxIdsAssumption DEF Init, ReplyInit, NoReply, Ids
  <1>4. RepliesAccounted
    BY <1>1, <1>2, <1>3 DEF RepliesAccounted, CardsAccounted, HandlersAccounted
  <1> QED
    BY <1>1, <1>4, InitTypeOK DEF RepliesInv, Apart

\* VCardManager::fetch enters the new reply in the hash, or finds the one there.
LEMMA FetchReplies ==
  ASSUME RepliesInv, NEW j \in Jids, fetch(j)
  PROVE  Apart' /\ RepliesAccounted'
  <1>1. CASE hash[j] # NoReply \/ ~ CanSend(FALSE)
    <2>1. UNCHANGED <<tracks, doomed, handlers>>
      BY <1>1 DEF fetch
    <2>2. \A i \in Jids : hash'[i] = hash[i] \/ (hash[i] \notin Ids /\ hash'[i] \notin Ids)
      <3>1. CASE hash[j] # NoReply
        BY <3>1 DEF fetch
      <3>2. CASE hash[j] = NoReply
        <4>1. hash' = [hash EXCEPT ![j] = Orphan]
          BY <1>1, <3>2 DEF fetch
        <4>2. NoReply \notin Ids /\ Orphan \notin Ids
          BY MaxIdsAssumption DEF NoReply, Orphan, Ids
        <4>3. hash'[j] = Orphan /\ \A i \in Jids \ {j} : hash'[i] = hash[i]
          BY <4>1 DEF RepliesInv, TypeOK, ReplyTypeOK
        <4> QED
          BY <3>2, <4>2, <4>3
      <3> QED
        BY <3>1, <3>2
    <2>3. Living' = Living /\ DOMAIN Living \subseteq Ids
      BY <2>1, LivingIs DEF Living, RepliesInv, TypeOK, IsReplies
    <2>4. CardsAccounted'
      BY <2>2, <2>3 DEF RepliesInv, RepliesAccounted, CardsAccounted
    <2> QED
      BY <2>1, <2>4 DEF RepliesInv, Apart, RepliesAccounted, HandlersAccounted
  <1>2. CASE hash[j] = NoReply /\ CanSend(FALSE)
    <2>1. /\ FreeIds # {}
          /\ tracks' = Tracked(CardOf(j)) /\ doomed' = doomed /\ handlers' = handlers
          /\ hash' = [hash EXCEPT ![j] = NewId]
      BY <1>2 DEF fetch, MaySend
    <2>2. /\ Apart'
          /\ NewId \in Ids \ DOMAIN Living
          /\ DOMAIN Living' = DOMAIN Living \cup {NewId}
          /\ Living'[NewId] = CardOf(j)
          /\ \A n \in DOMAIN Living : Living'[n] = Living[n]
      BY <2>1, LivingTracked DEF RepliesInv
    <2>3. hash'[j] = NewId /\ \A i \in Jids \ {j} : hash'[i] = hash[i]
      BY <2>1 DEF RepliesInv, TypeOK, ReplyTypeOK
    <2>4. \A i \in Jids : CardOf(i) = CardOf(j) => i = j
      BY DEF CardOf
    <2>5. \A n \in DOMAIN Living : Living[n] # CardOf(j)
      BY <1>2, MaxIdsAssumption, LivingIs
         DEF RepliesInv, RepliesAccounted, CardsAccounted, TypeOK, IsReplies, NoReply, Ids
    <2>6. CardsAccounted'
      BY <2>2, <2>3, <2>4, <2>5 DEF RepliesInv, RepliesAccounted, CardsAccounted
    <2>7. HandlersAccounted'
      <3>1. ~ IsPrivate(CardOf(j))
        BY DEF IsPrivate, CardOf
      <3>2. /\ DOMAIN tracks' = DOMAIN tracks \cup {NewId}
            /\ tracks'[NewId] = CardOf(j)
            /\ \A n \in DOMAIN tracks : n # NewId => tracks'[n] = tracks[n]
            /\ NewId \notin DOMAIN tracks
        BY <2>1, NewIdIsFree DEF Tracked, With
      <3> QED
        BY <2>1, <3>1, <3>2 DEF RepliesInv, RepliesAccounted, HandlersAccounted
    <2> QED
      BY <2>2, <2>6, <2>7 DEF RepliesAccounted
  <1> QED
    BY <1>1, <1>2

\* PrivateXml::request and store enter their handler with the request.
LEMMA PrivateReplies ==
  ASSUME RepliesInv, NEW s \in Storages, NEW r \in {ReadOf(s), WriteOf(s)}, AskPrivate(r)
  PROVE  Apart' /\ RepliesAccounted'
  <1>1. CASE ~ CanSend(FALSE)
    BY <1>1, NothingSent DEF AskPrivate
  <1>2. CASE CanSend(FALSE)
    <2>1. /\ FreeIds # {}
          /\ tracks' = Tracked(r) /\ doomed' = doomed /\ hash' = hash
          /\ handlers' = With(handlers, NewId, r.of)
      BY <1>2 DEF AskPrivate, MaySend
    <2>2. /\ Apart'
          /\ NewId \in Ids \ DOMAIN Living
          /\ DOMAIN Living' = DOMAIN Living \cup {NewId}
          /\ Living'[NewId] = r
          /\ \A n \in DOMAIN Living : Living'[n] = Living[n]
      BY <2>1, LivingTracked DEF RepliesInv
    <2>3. IsPrivate(r) /\ \A j \in Jids : r # CardOf(j)
      BY DEF IsPrivate, ReadOf, WriteOf, CardOf
    <2>4. CardsAccounted'
      BY <2>1, <2>2, <2>3 DEF RepliesInv, RepliesAccounted, CardsAccounted
    <2>5. /\ DOMAIN tracks' = DOMAIN tracks \cup {NewId}
          /\ tracks'[NewId] = r
          /\ \A n \in DOMAIN tracks : n # NewId => tracks'[n] = tracks[n]
          /\ NewId \notin DOMAIN tracks
      BY <2>1, NewIdIsFree DEF Tracked, With
    <2>6. /\ DOMAIN handlers' = DOMAIN handlers \cup {NewId}
          /\ handlers'[NewId] = r.of
          /\ \A n \in DOMAIN handlers : n # NewId => handlers'[n] = handlers[n]
      BY <2>1 DEF With
    <2>7. HandlersAccounted'
      BY <2>3, <2>5, <2>6 DEF RepliesInv, RepliesAccounted, HandlersAccounted
    <2> QED
      BY <2>2, <2>4, <2>7 DEF RepliesAccounted
  <1> QED
    BY <1>1, <1>2

\* Whatever the application asks for.
LEMMA AskingReplies ==
  ASSUME RepliesInv, Asking
  PROVE  Apart' /\ RepliesAccounted'
  <1>1. ASSUME NEW r \in {Store, Discover("info"), Discover("items")}, Ask(r)
        PROVE  Apart' /\ RepliesAccounted'
    <2>1. Plain(r)
      BY DEF Plain, Requests, ReplyRequests, Store, Discover
    <2>2. CASE CanSend(FALSE)
      BY <1>1, <2>1, <2>2, PlainTracked DEF Ask, MaySend
    <2>3. CASE ~ CanSend(FALSE)
      BY <1>1, <2>3, NothingSent DEF Ask
    <2> QED
      BY <2>2, <2>3
  <1>2. CASE publishItems
    <2>1. Plain(Publish)
      BY DEF Plain, Requests, ReplyRequests, Publish
    <2> QED
      BY <1>2, <2>1, PlainTracked DEF publishItems, MaySend, replyVars
  <1> QED
    BY <1>1, <1>2, FetchReplies, PrivateReplies DEF Asking

\* A registration sends only requests that no card and no storage waits for.
LEMMA RegisteringReplies ==
  ASSUME RepliesInv, Registering, UNCHANGED replyVars
  PROVE  Apart' /\ RepliesAccounted'
  <1>1. \A r \in RegistrationRequests : Plain(r)
    BY DEF Plain, Requests, RegistrationRequests, Form, Result
  <1>2. hash' = hash /\ handlers' = handlers
    BY DEF replyVars
  <1>3. ASSUME NEW r \in RegistrationRequests, NEW wait \in BOOLEAN, sendIQ(r, wait),
               doomed' = doomed
        PROVE  Apart' /\ RepliesAccounted'
    <2>1. CASE tracks' = tracks
      BY <1>2, <1>3, <2>1, NothingSent
    <2>2. CASE tracks' # tracks
      <3>1. FreeIds # {} /\ tracks' = Tracked(r)
        BY <1>3, <2>2 DEF sendIQ
      <3> QED
        BY <1>1, <1>2, <1>3, <3>1, PlainTracked
    <2> QED
      BY <2>1, <2>2
  <1>4. CASE registerAtService \/ fetchFields \/ send
    <2>1. waitingForConnection \in BOOLEAN
      BY DEF RepliesInv, TypeOK, RegistrationTypeOK
    <2> QED
      BY <1>3, <1>4, <2>1 DEF registerAtService, fetchFields, send, RegistrationRequests
  <1>5. CASE handleConnection
    <2>1. /\ NewIds(Queued) # {} /\ tracks' = TrackedAll(Queued) /\ doomed' = doomed
          /\ Queued \in Seq(RegistrationRequests)
      <3>1. iqs \in Seq(RegistrationRequests) /\ <<Form>> \in Seq(RegistrationRequests)
        BY DEF RepliesInv, TypeOK, RegistrationTypeOK, RegistrationRequests
      <3> QED
        BY <1>5, <3>1 DEF handleConnection, Queued
    <2>2. PICK ids \in NewIds(Queued) :
            /\ DOMAIN tracks' = DOMAIN tracks \cup {ids[k] : k \in DOMAIN Queued}
            /\ \A k \in DOMAIN Queued : tracks'[ids[k]] = Queued[k]
            /\ \A n \in DOMAIN tracks : tracks'[n] = tracks[n]
      BY <2>1, TrackedAllIs
    <2> DEFINE new == {ids[k] : k \in DOMAIN Queued}
    <2>3. new \in SUBSET FreeIds
      BY DEF NewIds
    <2>4. \A n \in new : Plain(tracks'[n])
      BY <1>1, <2>1, <2>2
    <2> HIDE DEF new
    <2> QED
      BY <1>2, <2>1, <2>2, <2>3, <2>4, PlainSent DEF new
  <1>6. CASE UNCHANGED <<tracks, doomed>>
    BY <1>2, <1>6, NothingSent
  <1>7. registerAtServer \/ Reconnect \/ (\E config \in Configs : setFeatureConfig(config))
          => UNCHANGED <<tracks, doomed>>
    BY DEF registerAtServer, Reconnect, setFeatureConfig
  <1> QED
    BY <1>4, <1>5, <1>6, <1>7 DEF Registering

\* Neither an answer nor the end of a connection makes a reply die, and
\* what dies with an answer or a connection is not looked for any more.
LEMMA StayingReplies ==
  ASSUME RepliesInv, Apart', hash' = hash, DOMAIN Living' = DOMAIN Living,
         \A n \in DOMAIN Living : Living'[n] = Living[n]
  PROVE  CardsAccounted'
  BY DEF RepliesInv, RepliesAccounted, CardsAccounted

\* An answer takes the handler with its request and lets the card live.
LEMMA AnswerReplies ==
  ASSUME RepliesInv, NEW id \in Ids, Answer(id)
  PROVE  Apart' /\ RepliesAccounted'
  <1>1. Take(id) /\ id \in DOMAIN tracks /\ hash' = hash
    BY DEF Answer, ReplyAnswered, RegistrationAnswered, replyVars
  <1>2. Apart' /\ CardsAccounted'
    BY <1>1, LivingTaken, StayingReplies DEF RepliesInv
  <1>3. /\ DOMAIN tracks' = DOMAIN tracks \ {id}
        /\ \A n \in DOMAIN tracks \ {id} : tracks'[n] = tracks[n]
    BY <1>1 DEF Take, Without
  <1>4. /\ DOMAIN handlers' = DOMAIN handlers \ {id}
        /\ \A n \in DOMAIN handlers \ {id} : handlers'[n] = handlers[n]
    <2>1. CASE tracks[id] \in ReplyRequests /\ handlers' = Without(handlers, id)
      BY <2>1 DEF Without
    <2>2. CASE tracks[id] \in RegistrationRequests /\ handlers' = handlers
      <3>1. ~ IsPrivate(tracks[id])
        BY <2>2 DEF IsPrivate, RegistrationRequests, Form, Result
      <3> QED
        BY <2>2, <3>1 DEF RepliesInv, RepliesAccounted, HandlersAccounted
    <2> QED
      BY <2>1, <2>2 DEF Answer, ReplyAnswered, replyVars
  <1>5. HandlersAccounted'
    BY <1>3, <1>4 DEF RepliesInv, RepliesAccounted, HandlersAccounted
  <1> QED
    BY <1>2, <1>5 DEF RepliesAccounted

\* The end of a connection takes all handlers and lets the cards live.
LEMMA LostReplies ==
  ASSUME RepliesInv, ConnectionLost, ReplyLost
  PROVE  Apart' /\ RepliesAccounted'
  <1>1. Apart' /\ CardsAccounted'
    BY LivingLost, StayingReplies DEF RepliesInv, ReplyLost
  <1>2. HandlersAccounted'
    BY NobodyIs DEF HandlersAccounted, ReplyLost, ConnectionLost
  <1> QED
    BY <1>1, <1>2 DEF RepliesAccounted

\* The event loop deletes a reply, and its card leaves the hash (~VCardReply).
LEMMA DeleteReplies ==
  ASSUME RepliesInv, NEW id \in Ids, Delete(id)
  PROVE  Apart' /\ RepliesAccounted'
  <1>1. /\ id \in DOMAIN doomed /\ tracks' = tracks /\ handlers' = handlers
        /\ doomed' = Without(doomed, id)
        /\ hash' = [j \in Jids |-> IF doomed[id] = CardOf(j) THEN NoReply ELSE hash[j]]
    BY DEF Delete, Deleted, Removed
  <1>2. /\ Apart'
        /\ DOMAIN Living' = DOMAIN Living \ {id}
        /\ Living[id] = doomed[id]
        /\ \A n \in DOMAIN Living' : Living'[n] = Living[n]
        /\ id \in DOMAIN Living
    BY <1>1, LivingDeleted, LivingIs DEF RepliesInv
  <1>3. NoReply \notin Ids
    BY MaxIdsAssumption DEF NoReply, Ids
  <1>4. CardsAccounted'
    BY <1>1, <1>2, <1>3 DEF RepliesInv, RepliesAccounted, CardsAccounted
  <1> QED
    BY <1>1, <1>2, <1>4 DEF RepliesInv, RepliesAccounted, HandlersAccounted

\* Every step keeps the replies accounted for.
THEOREM NextRepliesInv ==
  ASSUME RepliesInv, [Next]_vars
  PROVE  RepliesInv'
  <1>1. TypeOK'
    BY NextTypeOK DEF RepliesInv
  <1>2. SUFFICES Apart' /\ RepliesAccounted'
    BY <1>1 DEF RepliesInv
  <1>3. CASE Asking /\ UNCHANGED registrationVars
    BY <1>3, AskingReplies
  <1>4. CASE Registering /\ UNCHANGED replyVars
    BY <1>4, RegisteringReplies
  <1>5. CASE connectToServer
    BY <1>5, NothingSent DEF connectToServer, replyVars
  <1>6. CASE handleConnect
    <2>1. Plain(ServerInfo)
      BY DEF Plain, Requests, ReplyRequests, ServerInfo
    <2> QED
      BY <1>6, <2>1, PlainTracked DEF handleConnect, replyVars
  <1>7. CASE NotSupported \/ Drop
    BY <1>7, LostReplies DEF NotSupported, Drop
  <1>8. CASE \E id \in Ids : Answer(id)
    BY <1>8, AnswerReplies
  <1>9. CASE \E id \in Ids : Delete(id)
    BY <1>9, DeleteReplies
  <1>10. CASE UNCHANGED vars
    BY <1>10, NothingSent DEF vars, layer, replyVars
  <1> QED
    BY <1>3, <1>4, <1>5, <1>6, <1>7, <1>8, <1>9, <1>10 DEF Next

\* Whatever is asked, answered, lost and deleted in whatever order, the
\* manager of vCards finds a reply exactly while it lives, so that a card
\* has one reply, and a storage's answer finds its handler.
THEOREM SpecRepliesAccounted == Spec => []RepliesAccounted
  <1>1. RepliesInv => RepliesAccounted
    BY DEF RepliesInv
  <1> QED
    BY <1>1, InitRepliesInv, NextRepliesInv, PTL DEF Spec

---------------------------------------------------------------------------
\* Registrations, of an application that registers once at a time, asks
\* nothing before it has said where and leaves Authorization alone after.

\* Before anything is registered the settings are the application's.
LEMMA InitRegistrationInv == Init => RegistrationInv
  <1> SUFFICES ASSUME Init PROVE RegistrationInv
    OBVIOUS
  <1>1. DOMAIN tracks = {}
    BY NobodyIs DEF Init, LayerInit
  <1> QED
    BY <1>1, InitTypeOK
       DEF Init, LayerInit, RegistrationInit, RegistrationInv, Alone, RegistrationAccounts

\* A step that leaves the registration alone, adds requests only on a
\* connection that is made and takes none.
LEMMA AskedRegistration ==
  ASSUME RegistrationInv,
         UNCHANGED <<link, authorization>>, UNCHANGED registrationVars,
         tracks' = tracks \/ (link = "connected" /\ FreeIds # {})
  PROVE  Alone' /\ RegistrationAccounts'
  BY DEF RegistrationInv, Alone, RegistrationAccounts, registrationVars

\* What the other managers ask for leaves the registration alone.
LEMMA AskingRegistration ==
  ASSUME RegistrationInv, Asking, UNCHANGED registrationVars
  PROVE  Alone' /\ RegistrationAccounts'
  <1>1. UNCHANGED <<link, authorization>>
    BY DEF Asking, fetch, Ask, AskPrivate, publishItems
  <1>2. FreeIds # {}
    BY DEF Asking, fetch, Ask, AskPrivate, publishItems, MaySend
  <1>3. tracks' = tracks \/ CanSend(FALSE)
    BY DEF Asking, fetch, Ask, AskPrivate, publishItems
  <1> QED
    BY <1>1, <1>2, <1>3, AskedRegistration DEF CanSend

\* A form or a result is queued or sent.
LEMMA SentRegistration ==
  ASSUME RegistrationInv, "early" \notin Careless,
         NEW r \in RegistrationRequests, sendIQ(r, waitingForConnection), Chosen,
         UNCHANGED <<link, authorization, waitingForConnection, fieldsReceived, configs,
                     feature, listening, own>>
  PROVE  Alone' /\ RegistrationAccounts'
  <1>1. waitingForConnection \in BOOLEAN /\ feature \in BOOLEAN
    BY DEF RegistrationInv, TypeOK, RegistrationTypeOK
  <1>2. CASE waitingForConnection
    <2>1. feature /\ tracks' = tracks
      BY <1>2 DEF sendIQ, Chosen
    <2> QED
      BY <1>2, <2>1 DEF RegistrationInv, Alone, RegistrationAccounts
  <1>3. CASE ~ waitingForConnection
    <2>1. iqs' = iqs /\ FreeIds # {}
      BY <1>3 DEF sendIQ
    <2>2. CASE tracks' = tracks
      BY <1>3, <2>1, <2>2 DEF RegistrationInv, Alone, RegistrationAccounts
    <2>3. CASE CanSend(TRUE) /\ tracks' = Tracked(r)
      <3>1. \A n \in DOMAIN tracks : n \in DOMAIN tracks' /\ tracks'[n] = tracks[n]
        BY <2>1, <2>3, NewIdIsFree DEF Tracked, With
      <3>2. link # "closed" /\ ~ (feature /\ link = "open")
        BY <1>3, <2>3 DEF CanSend, RegistrationInv, RegistrationAccounts
      <3> QED
        BY <1>3, <2>1, <3>1, <3>2 DEF RegistrationInv, Alone, RegistrationAccounts
    <2> QED
      BY <1>3, <2>2, <2>3 DEF sendIQ
  <1> QED
    BY <1>1, <1>2, <1>3

\* The queue goes out, the form among it or before it.
LEMMA HandledRegistration ==
  ASSUME RegistrationInv, handleConnection
  PROVE  Alone' /\ RegistrationAccounts'
  <1>1. PICK ids \in NewIds(Queued) :
          /\ DOMAIN tracks' = DOMAIN tracks \cup {ids[k] : k \in DOMAIN Queued}
          /\ \A k \in DOMAIN Queued : tracks'[ids[k]] = Queued[k]
    BY TrackedAllIs DEF handleConnection
  <1>2. ASSUME ~ fieldsReceived
        PROVE  \E id \in DOMAIN tracks' : tracks'[id] = Form
    BY <1>1, <1>2, QueuedIs DEF RegistrationInv
  <1> QED
    BY <1>2 DEF handleConnection, RegistrationInv, Alone, RegistrationAccounts

\* Each step of the manager and of its feature.
LEMMA RegisteringRegistration ==
  ASSUME RegistrationInv, Registering,
         Careless \cap {"twice", "early", "reconfigure"} = {}
  PROVE  Alone' /\ RegistrationAccounts'
  <1> USE DEF RegistrationInv, Alone, RegistrationAccounts
  <1>1. CASE registerAtServer
    BY <1>1 DEF registerAtServer, Opened
  <1>2. CASE registerAtService
    <2>1. ~ feature /\ ~ feature' /\ link = "connected" /\ link' = link
      BY <1>2 DEF registerAtService
    <2>2. iqs' = iqs
      BY <1>2 DEF registerAtService, sendIQ
    <2> QED
      BY <1>2, <2>1, <2>2 DEF registerAtService
  <1>3. CASE fetchFields \/ send
    BY <1>3, SentRegistration DEF fetchFields, send, RegistrationRequests
  <1>4. CASE \E config \in Configs \ {"Disable"} : setFeatureConfig(config)
    <2>1. ~ feature /\ configs = NoConfig
      BY <1>4 DEF setFeatureConfig
    <2> QED
      BY <1>4, <2>1 DEF setFeatureConfig
  <1>5. CASE handleConnection
    BY <1>5, HandledRegistration
  <1>6. CASE Reconnect
    BY <1>6 DEF Reconnect, Opened
  <1> QED
    BY <1>1, <1>2, <1>3, <1>4, <1>5, <1>6 DEF Registering

\* The end of a connection makes the manager wait again, if it listens.
LEMMA LostRegistration ==
  ASSUME RegistrationInv, ConnectionLost, NEW unsupported \in BOOLEAN,
         onDisconnect(unsupported), UNCHANGED authorization
  PROVE  Alone' /\ RegistrationAccounts'
  <1>1. DOMAIN tracks' = {} /\ link' = "closed"
    BY NobodyIs DEF ConnectionLost
  <1>2. /\ waitingForConnection' = (waitingForConnection \/ listening)
        /\ UNCHANGED <<fieldsReceived, iqs, configs, feature, listening, own>>
    BY DEF onDisconnect
  <1> QED
    BY <1>1, <1>2 DEF RegistrationInv, Alone, RegistrationAccounts

\* An answer takes the form only when the fields have come, and a result
\* ends a registration only after its queue has gone out.
LEMMA AnswerRegistration ==
  ASSUME RegistrationInv, NEW id \in Ids, Answer(id)
  PROVE  Alone' /\ RegistrationAccounts'
  <1>1. id \in DOMAIN tracks /\ Take(id) /\ link' = link
    BY DEF Answer, ReplyAnswered, RegistrationAnswered
  <1>2. /\ DOMAIN tracks' = DOMAIN tracks \ {id}
        /\ \A n \in DOMAIN tracks' : tracks'[n] = tracks[n]
    BY <1>1 DEF Take, Without
  <1>3. link # "closed" /\ ~ (feature /\ link = "open")
    BY <1>1 DEF RegistrationInv, Alone
  <1>4. feature => link = "registering"
    BY <1>3 DEF RegistrationInv, Alone, TypeOK, Links
  <1>5. CASE tracks[id] # Form /\ UNCHANGED <<authorization, registrationVars>>
    BY <1>1, <1>2, <1>3, <1>5
       DEF RegistrationInv, Alone, RegistrationAccounts, registrationVars
  <1>6. ASSUME NEW answer \in Answers, formReceived(answer)
        PROVE  Alone' /\ RegistrationAccounts'
    BY <1>1, <1>3, <1>6 DEF formReceived, RegistrationInv, Alone, RegistrationAccounts
  <1>7. ASSUME NEW answer \in Answers, tracks[id] # Form, resultReceived(answer)
        PROVE  Alone' /\ RegistrationAccounts'
    <2>1. UNCHANGED <<waitingForConnection, fieldsReceived, iqs, configs, own>>
      BY <1>7 DEF resultReceived
    <2>2. CASE UNCHANGED <<authorization, feature, listening>>
      BY <1>1, <1>2, <1>3, <1>7, <2>1, <2>2
         DEF RegistrationInv, Alone, RegistrationAccounts
    <2>3. CASE /\ ~ feature'
               /\ authorization' = IF configs = NoConfig THEN authorization ELSE configs
      <3>1. authorization' = own
        <4>1. CASE feature
          BY <2>3, <4>1 DEF RegistrationInv, RegistrationAccounts, TypeOK,
                RegistrationTypeOK, Configs, NoConfig
        <4>2. CASE ~ feature
          BY <2>3, <4>2 DEF RegistrationInv, Alone, RegistrationAccounts
        <4> QED
          BY <4>1, <4>2
      <3>2. iqs = <<>>
        BY <1>4 DEF RegistrationInv, Alone, RegistrationAccounts
      <3> QED
        BY <1>1, <1>3, <2>1, <2>3, <3>1, <3>2
           DEF RegistrationInv, Alone, RegistrationAccounts
    <2> QED
      BY <1>7, <2>2, <2>3 DEF resultReceived
  <1>8. CASE tracks[id] \in ReplyRequests /\ UNCHANGED registrationVars
             /\ UNCHANGED authorization
    <2>1. tracks[id] # Form
      BY <1>8 DEF ReplyRequests, CardOf, Store, Publish, ServerInfo, Discover, ReadOf,
                  WriteOf, Form
    <2> QED
      BY <1>5, <1>8, <2>1
  <1>9. ASSUME NEW answer \in Answers, RegistrationAnswered(id, answer)
        PROVE  Alone' /\ RegistrationAccounts'
    BY <1>6, <1>7, <1>9 DEF RegistrationAnswered
  <1> QED
    BY <1>8, <1>9 DEF Answer, ReplyAnswered

\* Every step of such an application keeps its registration accounted for.
THEOREM NextRegistrationInv ==
  ASSUME RegistrationInv, [Next]_vars,
         Careless \cap {"twice", "early", "reconfigure"} = {}
  PROVE  RegistrationInv'
  <1>1. TypeOK'
    BY NextTypeOK DEF RegistrationInv
  <1>2. SUFFICES Alone' /\ RegistrationAccounts'
    BY <1>1 DEF RegistrationInv
  <1>3. CASE Asking /\ UNCHANGED registrationVars
    BY <1>3, AskingRegistration
  <1>4. CASE Registering /\ UNCHANGED replyVars
    BY <1>4, RegisteringRegistration
  <1>5. CASE connectToServer
    BY <1>5 DEF connectToServer, Opened, registrationVars, RegistrationInv, Alone,
                RegistrationAccounts
  <1>6. CASE handleConnect
    <2>1. ~ feature
      BY <1>6 DEF handleConnect, RegistrationInv, RegistrationAccounts
    <2> QED
      BY <1>6, <2>1 DEF handleConnect, registrationVars, RegistrationInv, Alone,
                        RegistrationAccounts
  <1>7. CASE NotSupported \/ Drop
    BY <1>7, LostRegistration DEF NotSupported, Drop
  <1>8. CASE \E id \in Ids : Answer(id)
    BY <1>8, AnswerRegistration
  <1>9. CASE (\E id \in Ids : Delete(id)) \/ UNCHANGED vars
    <2>1. UNCHANGED <<link, authorization, tracks>> /\ UNCHANGED registrationVars
      BY <1>9 DEF Delete, Deleted, vars, layer
    <2> QED
      BY <2>1, AskedRegistration
  <1> QED
    BY <1>3, <1>4, <1>5, <1>6, <1>7, <1>8, <1>9 DEF Next

\* However often the connection breaks while an account is registered, the
\* application's setting is in force again after it, what was asked while
\* the manager waited is under way when it waits no more, and the fields
\* are asked for.
THEOREM SpecRegistrationAccounts ==
  ASSUME Careless \cap {"twice", "early", "reconfigure"} = {}
  PROVE  Spec => []RegistrationAccounts
  <1>1. RegistrationInv => RegistrationAccounts
    BY DEF RegistrationInv
  <1>2. RegistrationInv /\ [Next]_vars => RegistrationInv'
    BY NextRegistrationInv
  <1> QED
    BY <1>1, <1>2, InitRegistrationInv, PTL DEF Spec

---------------------------------------------------------------------------
\* Who waits, and for what.

\* A step that only adds requests takes nothing from those that live.
LEMMA LivingSent ==
  ASSUME doomed' = doomed, NEW new \in SUBSET FreeIds,
         DOMAIN tracks' = DOMAIN tracks \cup new,
         \A n \in DOMAIN tracks : tracks'[n] = tracks[n]
  PROVE  /\ \A n \in DOMAIN Living : n \in DOMAIN Living' /\ Living'[n] = Living[n]
         /\ \A n \in new : n \in DOMAIN Living' /\ Living'[n] = tracks'[n]
  <1>1. new \cap DOMAIN tracks = {} /\ new \cap DOMAIN doomed = {}
    BY DEF FreeIds
  <1> QED
    BY <1>1 DEF Living, Both

\* Whoever begins to wait with such a step waits for one of these requests.
LEMMA AwaitedSent ==
  ASSUME RepliesAwaited, doomed' = doomed, NEW new \in SUBSET FreeIds,
         DOMAIN tracks' = DOMAIN tracks \cup new,
         \A n \in DOMAIN tracks : tracks'[n] = tracks[n],
         waiting' \subseteq waiting \cup {n \in new : HasReply(tracks'[n])},
         \A s \in expecting' : s \in expecting \/ \E n \in new : tracks'[n] = ReadOf(s)
  PROVE  RepliesAwaited'
  <1>1. /\ \A n \in DOMAIN Living : n \in DOMAIN Living' /\ Living'[n] = Living[n]
        /\ \A n \in new : n \in DOMAIN Living' /\ Living'[n] = tracks'[n]
    BY LivingSent
  <1>2. ASSUME Careless \cap {"offlineFetch", "offlineAsk"} = {}, NEW id \in waiting'
        PROVE  id \in DOMAIN Living' /\ HasReply(Living'[id])
    <2>1. CASE id \in waiting
      BY <1>1, <1>2, <2>1 DEF RepliesAwaited
    <2>2. CASE id \in new /\ HasReply(tracks'[id])
      BY <1>1, <2>2
    <2> QED
      BY <1>2, <2>1, <2>2
  <1>3. ASSUME StorageAnswers \subseteq {"payload"}, NEW s \in expecting'
        PROVE  \E id \in DOMAIN tracks' : tracks'[id] = ReadOf(s)
    BY <1>3 DEF RepliesAwaited
  <1> QED
    BY <1>2, <1>3 DEF RepliesAwaited

\* One request.
LEMMA TrackedIsSent ==
  ASSUME FreeIds # {}, NEW r, tracks' = Tracked(r)
  PROVE  /\ {NewId} \in SUBSET FreeIds
         /\ DOMAIN tracks' = DOMAIN tracks \cup {NewId}
         /\ tracks'[NewId] = r
         /\ \A n \in DOMAIN tracks : tracks'[n] = tracks[n]
  <1>1. NewId \in FreeIds /\ NewId \notin DOMAIN tracks
    BY NewIdIsFree DEF NewId
  <1> QED
    BY <1>1 DEF Tracked, With

\* A step after which nobody waits who did not, and nothing is missing.
LEMMA AwaitedUnsent ==
  ASSUME RepliesAwaited, UNCHANGED <<tracks, doomed>>,
         waiting' \subseteq waiting, expecting' \subseteq expecting
  PROVE  RepliesAwaited'
  BY DEF RepliesAwaited, Living

\* VCardManager::fetch: the reply that is found lives and is a card's.
LEMMA FetchAwaited ==
  ASSUME RepliesInv, NoOrphans, RepliesAwaited, NEW j \in Jids, fetch(j)
  PROVE  NoOrphans' /\ RepliesAwaited'
  <1>1. /\ NoReply \notin Ids /\ Orphan \notin Ids /\ NoReply # Orphan
        /\ hash \in [Jids -> {NoReply, Orphan} \cup Ids]
    BY MaxIdsAssumption DEF NoReply, Orphan, Ids, RepliesInv, TypeOK, ReplyTypeOK
  <1>2. HasReply(CardOf(j))
    BY DEF HasReply, CardOf
  <1>3. CASE hash[j] # NoReply
    <2>1. UNCHANGED <<tracks, doomed, expecting, hash>> /\ waiting' = waiting \cup {hash[j]}
      BY <1>3 DEF fetch
    <2>2. ASSUME "offlineFetch" \notin Careless
          PROVE  hash[j] \in DOMAIN Living /\ HasReply(Living[hash[j]])
      <3>1. hash[j] \in Ids
        BY <1>1, <1>3, <2>2 DEF NoOrphans
      <3> QED
        BY <1>2, <3>1 DEF RepliesInv, RepliesAccounted, CardsAccounted
    <2>3. Living' = Living
      BY <2>1 DEF Living
    <2>4. RepliesAwaited'
      BY <2>1, <2>2, <2>3 DEF RepliesAwaited
    <2> QED
      BY <2>1, <2>4 DEF NoOrphans
  <1>4. CASE hash[j] = NoReply /\ CanSend(FALSE)
    <2>1. /\ FreeIds # {}
          /\ tracks' = Tracked(CardOf(j)) /\ doomed' = doomed /\ expecting' = expecting
          /\ hash' = [hash EXCEPT ![j] = NewId] /\ waiting' = waiting \cup {NewId}
      BY <1>4 DEF fetch, MaySend
    <2>2. /\ {NewId} \in SUBSET FreeIds
          /\ DOMAIN tracks' = DOMAIN tracks \cup {NewId}
          /\ tracks'[NewId] = CardOf(j)
          /\ \A n \in DOMAIN tracks : tracks'[n] = tracks[n]
      BY <2>1, TrackedIsSent
    <2>3. RepliesAwaited'
      BY <1>2, <2>1, <2>2, AwaitedSent
    <2>4. NewId # Orphan
      BY <1>1, <2>1, NewIdIsFree
    <2> QED
      BY <1>1, <2>1, <2>3, <2>4 DEF NoOrphans
  <1>5. CASE hash[j] = NoReply /\ ~ CanSend(FALSE)
    <2>1. "offlineFetch" \in Careless
      BY <1>5 DEF fetch, Careful, CanSend
    <2>2. UNCHANGED <<tracks, expecting>>
      BY <1>5 DEF fetch
    <2> QED
      BY <2>1, <2>2 DEF NoOrphans, RepliesAwaited
  <1> QED
    BY <1>3, <1>4, <1>5

\* Whatever the application asks for.
LEMMA AskingAwaited ==
  ASSUME RepliesInv, NoOrphans, RepliesAwaited, Asking
  PROVE  NoOrphans' /\ RepliesAwaited'
  <1>1. ASSUME NEW r \in {Store, Discover("info"), Discover("items")}, Ask(r)
        PROVE  NoOrphans' /\ RepliesAwaited'
    <2>1. NoOrphans' /\ doomed' = doomed /\ expecting' = expecting
      BY <1>1 DEF Ask, NoOrphans
    <2>2. CASE CanSend(FALSE)
      <3>1. FreeIds # {} /\ tracks' = Tracked(r) /\ waiting' = waiting \cup {NewId}
        BY <1>1, <2>2 DEF Ask, MaySend
      <3>2. HasReply(r)
        BY DEF HasReply, Store, Discover
      <3>3. /\ {NewId} \in SUBSET FreeIds
            /\ DOMAIN tracks' = DOMAIN tracks \cup {NewId}
            /\ tracks'[NewId] = r
            /\ \A n \in DOMAIN tracks : tracks'[n] = tracks[n]
        BY <3>1, TrackedIsSent
      <3> QED
        BY <2>1, <3>1, <3>2, <3>3, AwaitedSent
    <2>3. CASE ~ CanSend(FALSE)
      <3>1. "offlineAsk" \in Careless /\ tracks' = tracks
        BY <1>1, <2>3 DEF Ask, Careful, CanSend
      <3> QED
        BY <2>1, <3>1 DEF RepliesAwaited
    <2> QED
      BY <2>2, <2>3
  <1>2. ASSUME NEW s \in Storages, NEW r \in {ReadOf(s), WriteOf(s)}, AskPrivate(r)
        PROVE  NoOrphans' /\ RepliesAwaited'
    <2>1. NoOrphans' /\ doomed' = doomed /\ waiting' = waiting
      BY <1>2 DEF AskPrivate, NoOrphans
    <2>2. CASE CanSend(FALSE)
      <3>1. FreeIds # {} /\ tracks' = Tracked(r)
        BY <1>2, <2>2 DEF AskPrivate, MaySend
      <3>2. \A t \in expecting' : t \in expecting \/ r = ReadOf(t)
        <4>1. expecting' = expecting \cup (IF r.call = "request" THEN {r.of} ELSE {})
          BY <1>2, <2>2 DEF AskPrivate
        <4>2. r.call = "request" => r = ReadOf(r.of)
          BY DEF ReadOf, WriteOf
        <4> QED
          BY <4>1, <4>2
      <3>3. /\ {NewId} \in SUBSET FreeIds
            /\ DOMAIN tracks' = DOMAIN tracks \cup {NewId}
            /\ tracks'[NewId] = r
            /\ \A n \in DOMAIN tracks : tracks'[n] = tracks[n]
        BY <3>1, TrackedIsSent
      <3> QED
        BY <2>1, <3>2, <3>3, AwaitedSent
    <2>3. CASE ~ CanSend(FALSE)
      BY <1>2, <2>1, <2>3, AwaitedUnsent DEF AskPrivate
    <2> QED
      BY <2>2, <2>3
  <1>3. CASE publishItems
    <2>1. FreeIds # {} /\ tracks' = Tracked(Publish) /\ doomed' = doomed /\ UNCHANGED replyVars
      BY <1>3 DEF publishItems, MaySend
    <2>2. /\ {NewId} \in SUBSET FreeIds
          /\ DOMAIN tracks' = DOMAIN tracks \cup {NewId}
          /\ \A n \in DOMAIN tracks : tracks'[n] = tracks[n]
      BY <2>1, TrackedIsSent
    <2>3. RepliesAwaited'
      BY <2>1, <2>2, AwaitedSent DEF replyVars
    <2> QED
      BY <2>1, <2>3 DEF NoOrphans, replyVars
  <1> QED
    BY <1>1, <1>2, <1>3, FetchAwaited DEF Asking

\* A registration only adds requests; while it waits for the form, it has asked
\* for it as soon as the server lets it.
LEMMA RegisteringSends ==
  ASSUME TypeOK, Registering
  PROVE  /\ doomed' = doomed
         /\ \E new \in SUBSET FreeIds : DOMAIN tracks' = DOMAIN tracks \cup new
         /\ \A n \in DOMAIN tracks : tracks'[n] = tracks[n]
         /\ handleConnection /\ ~ fieldsReceived => \E id \in DOMAIN tracks' : tracks'[id] = Form
  <1>1. ASSUME NEW r, NEW wait \in BOOLEAN, sendIQ(r, wait)
        PROVE  /\ \E new \in SUBSET FreeIds : DOMAIN tracks' = DOMAIN tracks \cup new
               /\ \A n \in DOMAIN tracks : tracks'[n] = tracks[n]
    <2>1. CASE tracks' = tracks
      <3>1. {} \in SUBSET FreeIds /\ DOMAIN tracks' = DOMAIN tracks \cup {}
        BY <2>1
      <3> QED
        BY <2>1, <3>1
    <2>2. CASE tracks' # tracks
      <3>1. FreeIds # {} /\ tracks' = Tracked(r)
        BY <1>1, <2>2 DEF sendIQ
      <3> QED
        BY <3>1, TrackedIsSent
    <2> QED
      BY <2>1, <2>2
  <1>2. waitingForConnection \in BOOLEAN
    BY DEF TypeOK, RegistrationTypeOK
  <1>3. CASE handleConnection
    <2>1. NewIds(Queued) # {} /\ tracks' = TrackedAll(Queued) /\ doomed' = doomed
      BY <1>3 DEF handleConnection
    <2>2. PICK ids \in NewIds(Queued) :
            /\ DOMAIN tracks' = DOMAIN tracks \cup {ids[k] : k \in DOMAIN Queued}
            /\ \A k \in DOMAIN Queued : tracks'[ids[k]] = Queued[k]
            /\ \A n \in DOMAIN tracks : tracks'[n] = tracks[n]
      BY <2>1, TrackedAllIs
    <2>3. {ids[k] : k \in DOMAIN Queued} \in SUBSET FreeIds
      BY DEF NewIds
    <2>4. ASSUME ~ fieldsReceived
          PROVE  \E id \in DOMAIN tracks' : tracks'[id] = Form
      <3>1. PICK k \in DOMAIN Queued : Queued[k] = Form
        BY <2>4, QueuedIs
      <3> QED
        BY <2>2, <3>1
    <2> QED
      BY <2>1, <2>2, <2>3, <2>4
  <1>4. ASSUME ~ handleConnection
        PROVE  /\ doomed' = doomed
               /\ \E new \in SUBSET FreeIds : DOMAIN tracks' = DOMAIN tracks \cup new
               /\ \A n \in DOMAIN tracks : tracks'[n] = tracks[n]
    <2>1. CASE registerAtService \/ fetchFields \/ send
      BY <1>1, <1>2, <2>1 DEF registerAtService, fetchFields, send
    <2>2. CASE registerAtServer \/ Reconnect \/ \E config \in Configs : setFeatureConfig(config)
      <3>1. UNCHANGED <<tracks, doomed>>
        BY <2>2 DEF registerAtServer, Reconnect, setFeatureConfig
      <3>2. {} \in SUBSET FreeIds /\ DOMAIN tracks' = DOMAIN tracks \cup {}
        BY <3>1
      <3> QED
        BY <3>1, <3>2
    <2> QED
      BY <1>4, <2>1, <2>2 DEF Registering
  <1> QED
    BY <1>3, <1>4

\* An answer to a storage's request is handed on, so the storage waits no more;
\* the other answers leave theirs under way.
LEMMA AnswerAwaited ==
  ASSUME RepliesInv, NoOrphans, RepliesAwaited, NEW id \in Ids, Answer(id)
  PROVE  NoOrphans' /\ RepliesAwaited'
  <1>1. /\ Take(id) /\ id \in DOMAIN tracks /\ hash' = hash
        /\ waiting' \subseteq waiting /\ expecting' \subseteq expecting
    BY DEF Answer, ReplyAnswered, RegistrationAnswered, replyVars
  <1>2. /\ DOMAIN Living' = DOMAIN Living
        /\ \A n \in DOMAIN Living : Living'[n] = Living[n]
    BY <1>1, LivingTaken DEF RepliesInv
  <1>3. /\ DOMAIN tracks' = DOMAIN tracks \ {id}
        /\ \A n \in DOMAIN tracks \ {id} : tracks'[n] = tracks[n]
    BY <1>1 DEF Take, Without
  <1>4. ASSUME StorageAnswers \subseteq {"payload"}, NEW s \in expecting'
        PROVE  tracks[id] # ReadOf(s)
    <2> SUFFICES ASSUME tracks[id] = ReadOf(s) PROVE FALSE
      OBVIOUS
    <2>1. IsPrivate(tracks[id]) /\ tracks[id].call = "request" /\ tracks[id].of = s
      BY DEF IsPrivate, ReadOf
    <2>2. tracks[id] \notin RegistrationRequests
      BY <2>1 DEF RegistrationRequests, Form, Result
    <2>3. ReplyAnswered(id, "payload")
      BY <1>4, <2>1, <2>2 DEF Answer
    <2>4. HandedOn(tracks[id], "payload") = {s}
      BY <2>1 DEF HandedOn, PrivateResult
    <2> QED
      BY <1>4, <2>1, <2>3, <2>4 DEF ReplyAnswered
  <1>5. RepliesAwaited'
    <2>1. ASSUME StorageAnswers \subseteq {"payload"}, NEW s \in expecting'
          PROVE  \E n \in DOMAIN tracks' : tracks'[n] = ReadOf(s)
      <3>1. PICK n \in DOMAIN tracks : tracks[n] = ReadOf(s)
        BY <1>1, <2>1 DEF RepliesAwaited
      <3> QED
        BY <1>3, <1>4, <2>1, <3>1
    <2>2. ASSUME Careless \cap {"offlineFetch", "offlineAsk"} = {}, NEW n \in waiting'
          PROVE  n \in DOMAIN Living' /\ HasReply(Living'[n])
      BY <1>1, <1>2, <2>2 DEF RepliesAwaited
    <2> QED
      BY <2>1, <2>2 DEF RepliesAwaited
  <1> QED
    BY <1>1, <1>5 DEF NoOrphans

\* The end of a connection leaves the replies to the event loop, and no storage
\* waits any more.
LEMMA LostAwaited ==
  ASSUME RepliesInv, NoOrphans, RepliesAwaited, ConnectionLost, ReplyLost
  PROVE  NoOrphans' /\ RepliesAwaited'
  <1>1. hash' = hash /\ waiting' = waiting /\ expecting' = {}
    BY DEF ReplyLost
  <1>2. /\ DOMAIN Living' = DOMAIN Living
        /\ \A n \in DOMAIN Living : Living'[n] = Living[n]
    BY LivingLost DEF RepliesInv
  <1> QED
    BY <1>1, <1>2 DEF NoOrphans, RepliesAwaited

\* The event loop deletes a reply: who waits for it knows.
LEMMA DeleteAwaited ==
  ASSUME RepliesInv, NoOrphans, RepliesAwaited, NEW id \in Ids, Delete(id)
  PROVE  NoOrphans' /\ RepliesAwaited'
  <1>1. /\ id \in DOMAIN doomed /\ tracks' = tracks /\ expecting' = expecting
        /\ doomed' = Without(doomed, id) /\ waiting' = waiting \ {id}
        /\ hash' = [j \in Jids |-> IF doomed[id] = CardOf(j) THEN NoReply ELSE hash[j]]
    BY DEF Delete, Deleted, Removed
  <1>2. /\ DOMAIN Living' = DOMAIN Living \ {id}
        /\ \A n \in DOMAIN Living' : Living'[n] = Living[n]
    BY <1>1, LivingDeleted DEF RepliesInv
  <1>3. NoReply # Orphan
    BY MaxIdsAssumption DEF NoReply, Orphan
  <1>4. RepliesAwaited'
    BY <1>1, <1>2 DEF RepliesAwaited
  <1> QED
    BY <1>1, <1>3, <1>4 DEF NoOrphans

\* Every step keeps who waits for a reply or a storage waiting for something.
LEMMA NextRepliesAwaited ==
  ASSUME RepliesInv, NoOrphans, RepliesAwaited, [Next]_vars
  PROVE  NoOrphans' /\ RepliesAwaited'
  <1>1. CASE Asking
    BY <1>1, AskingAwaited
  <1>2. CASE Registering /\ UNCHANGED replyVars
    BY <1>2, RegisteringSends, AwaitedSent DEF RepliesInv, NoOrphans, replyVars
  <1>3. CASE connectToServer \/ UNCHANGED vars
    BY <1>3, AwaitedUnsent DEF connectToServer, vars, layer, replyVars, NoOrphans
  <1>4. CASE handleConnect
    <2>1. FreeIds # {} /\ tracks' = Tracked(ServerInfo) /\ doomed' = doomed /\ UNCHANGED replyVars
      BY <1>4 DEF handleConnect
    <2>2. /\ {NewId} \in SUBSET FreeIds
          /\ DOMAIN tracks' = DOMAIN tracks \cup {NewId}
          /\ \A n \in DOMAIN tracks : tracks'[n] = tracks[n]
      BY <2>1, TrackedIsSent
    <2>3. RepliesAwaited'
      BY <2>1, <2>2, AwaitedSent DEF replyVars
    <2> QED
      BY <2>1, <2>3 DEF NoOrphans, replyVars
  <1>5. CASE NotSupported \/ Drop
    BY <1>5, LostAwaited DEF NotSupported, Drop
  <1>6. CASE \E id \in Ids : Answer(id)
    BY <1>6, AnswerAwaited
  <1>7. CASE \E id \in Ids : Delete(id)
    BY <1>7, DeleteAwaited
  <1> QED
    BY <1>1, <1>2, <1>3, <1>4, <1>5, <1>6, <1>7 DEF Next

\* Every step keeps a registration that waits for the form going.
LEMMA NextRegistrationAwaited ==
  ASSUME TypeOK, RegistrationAwaited, [Next]_vars
  PROVE  RegistrationAwaited'
  <1>1. CASE Asking /\ UNCHANGED registrationVars
    <2>1. UNCHANGED <<link, authorization>>
      BY <1>1 DEF Asking, fetch, Ask, AskPrivate, publishItems
    <2>2. \A n \in DOMAIN tracks : n \in DOMAIN tracks' /\ tracks'[n] = tracks[n]
      <3>1. tracks' = tracks \/ (FreeIds # {} /\ \E r : tracks' = Tracked(r))
        BY <1>1 DEF Asking, fetch, Ask, AskPrivate, publishItems, MaySend
      <3> QED
        BY <3>1, TrackedIsSent
    <2> QED
      BY <1>1, <2>1, <2>2 DEF RegistrationAwaited, registrationVars
  <1>2. CASE Registering
    <2>1. \A n \in DOMAIN tracks : n \in DOMAIN tracks' /\ tracks'[n] = tracks[n]
      BY <1>2, RegisteringSends
    <2>2. CASE registerAtServer
      BY <2>2 DEF registerAtServer, Opened, RegistrationAwaited
    <2>3. CASE registerAtService \/ fetchFields \/ send
      <3>1. UNCHANGED <<link, authorization, feature, listening, fieldsReceived, scheduled,
                        reported>>
        BY <2>3 DEF registerAtService, fetchFields, send
      <3> QED
        BY <2>1, <3>1 DEF RegistrationAwaited
    <2>4. CASE \E config \in Configs : setFeatureConfig(config)
      BY <2>4 DEF setFeatureConfig, RegistrationAwaited
    <2>5. CASE handleConnection
      <3>1. ~ fieldsReceived => \E id \in DOMAIN tracks' : tracks'[id] = Form
        BY <1>2, <2>5, RegisteringSends
      <3> QED
        BY <2>5, <3>1 DEF handleConnection, RegistrationAwaited
    <2>6. CASE Reconnect
      BY <2>6 DEF Reconnect, Opened, RegistrationAwaited
    <2> QED
      BY <1>2, <2>2, <2>3, <2>4, <2>5, <2>6 DEF Registering
  <1>3. CASE connectToServer
    BY <1>3 DEF connectToServer, Opened, registrationVars, RegistrationAwaited
  <1>4. CASE handleConnect
    BY <1>4 DEF handleConnect, registrationVars, RegistrationAwaited
  <1>5. CASE NotSupported
    BY <1>5 DEF NotSupported, onDisconnect, RegistrationAwaited
  <1>6. CASE Drop
    BY <1>6 DEF Drop, onDisconnect, ConnectionLost, RegistrationAwaited
  <1>7. ASSUME NEW id \in Ids, Answer(id)
        PROVE  RegistrationAwaited'
    <2>1. CASE /\ UNCHANGED registrationVars /\ tracks[id] \in ReplyRequests
               /\ \E answer \in Answers \cup StorageAnswers : ReplyAnswered(id, answer)
      <3>1. /\ UNCHANGED <<link, authorization>>
            /\ \A n \in DOMAIN tracks \ {id} : n \in DOMAIN tracks' /\ tracks'[n] = tracks[n]
        <4>1. UNCHANGED <<link, authorization>> /\ tracks' = Without(tracks, id)
          BY <2>1 DEF ReplyAnswered, Take
        <4> QED
          BY <4>1 DEF Without
      <3>2. tracks[id] # Form
        BY <2>1 DEF ReplyRequests, CardOf, Store, Publish, ServerInfo, Discover, ReadOf, WriteOf,
                    Form
      <3> QED
        BY <2>1, <3>1, <3>2 DEF RegistrationAwaited, registrationVars
    <2>2. CASE \E answer \in Answers : RegistrationAnswered(id, answer)
      <3>1. reported' # "waiting"
        BY <2>2 DEF RegistrationAnswered, formReceived, resultReceived
      <3> QED
        BY <3>1 DEF RegistrationAwaited
    <2> QED
      BY <1>7, <2>1, <2>2 DEF Answer
  <1>8. CASE (\E id \in Ids : Delete(id)) \/ UNCHANGED vars
    BY <1>8 DEF Delete, Deleted, vars, layer, registrationVars, RegistrationAwaited
  <1> QED
    BY <1>1, <1>2, <1>3, <1>4, <1>5, <1>6, <1>7, <1>8 DEF Next

\* Whoever waits for a reply, a storage or the form of a registration waits for
\* something: for any number of requests, any cards and any order of answers,
\* losses and deletions.
THEOREM SpecAwaitedInv == Spec => []AwaitedInv
  <1>1. Init => NoOrphans /\ RepliesAwaited /\ RegistrationAwaited
    BY MaxIdsAssumption DEF Init, ReplyInit, RegistrationInit, NoOrphans, NoReply, Orphan,
       RepliesAwaited, RegistrationAwaited
  <1>2. RepliesInv /\ NoOrphans /\ RepliesAwaited /\ RegistrationAwaited /\ [Next]_vars =>
            (NoOrphans /\ RepliesAwaited /\ RegistrationAwaited)'
    BY NextRepliesAwaited, NextRegistrationAwaited DEF RepliesInv
  <1>3. RepliesInv /\ RepliesAwaited /\ RegistrationAwaited => AwaitedInv
    BY DEF RepliesInv, AwaitedInv
  <1> QED
    BY <1>1, <1>2, <1>3, InitRepliesInv, NextRepliesInv, PTL DEF Spec

=============================================================================
