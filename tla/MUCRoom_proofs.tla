--------------------------- MODULE MUCRoom_proofs ---------------------------
(***************************************************************************)
(* Theorems about a room and the client that joins it, for any nicknames,  *)
(* any roles and any number of stanzas under way.                          *)
(***************************************************************************)
EXTENDS MUCRoom, Queues_proofs

---------------------------------------------------------------------------
\* Stanzas.

\* The room has a role for its occupants.
LEMMA SomeRoleIs == SomeRole \in Roles
  BY RolesAssumption DEF SomeRole

\* The presences the room sends.
LEMMA PresencesMade ==
  /\ \A n \in Nicks, r \in Roles \cup {"none"} :
        /\ Available(n, r) \in Presences
        /\ \A new \in Nicks \cup {NoNick} : Unavailable(n, new, r) \in Presences
  /\ \A n \in Nicks : Error(n) \in Presences
  BY DEF Presences, Available, Unavailable, Error

\* What a presence holds.
LEMMA PresenceIs ==
  ASSUME NEW p \in Presences
  PROVE  /\ p.type \in {"available", "unavailable", "error"}
         /\ p.from \in Nicks /\ p.newNick \in Nicks \cup {NoNick} /\ p.role \in Roles \cup {"none"}
  BY DEF Presences

\* The requests of the client.
LEMMA RequestsMade ==
  \A k \in {"enter", "presence", "leave"}, n \in Nicks : [kind |-> k, nick |-> n] \in Requests
  BY DEF Requests

\* No stanza is under way.
LEMMA NoneIs == <<>> \in Seq(Requests) /\ <<>> \in Seq(Presences)
  OBVIOUS

\* What a request holds.
LEMMA RequestIs ==
  ASSUME NEW r \in Requests
  PROVE  r.kind \in {"enter", "presence", "leave"} /\ r.nick \in Nicks
  BY DEF Requests

\* The newcomer is shown every other occupant, and itself last.
LEMMA EveryoneIsShown ==
  ASSUME TypeOK, NEW n \in Nicks, myRole' \in Roles \cup {"none"}, ShowsEveryone(n)
  PROVE  \E w \in Seq(Presences) :
            /\ toClient' = toClient \o w
            /\ Len(w) \in DOMAIN w /\ w[Len(w)] = Available(n, myRole')
            /\ \A i \in DOMAIN w : i = Len(w) \/ \E o \in others : w[i] = Available(o, SomeRole)
            /\ \A o \in others : \E i \in DOMAIN w : w[i] = Available(o, SomeRole)
  <1>1. PICK order \in SetToSeqs(others) :
            Says([i \in DOMAIN order |-> Available(order[i], SomeRole)]
                    \o <<Available(n, myRole')>>)
    BY DEF ShowsEveryone
  <1> DEFINE others1 == [i \in DOMAIN order |-> Available(order[i], SomeRole)]
             w == others1 \o <<Available(n, myRole')>>
  <1>2. IsFiniteSet(others)
    BY NicksAssumption, FS_Subset DEF TypeOK
  <1>3. /\ order \in Seq(others)
        /\ \A i \in DOMAIN order : order[i] \in others
        /\ \A o \in others : \E i \in DOMAIN order : order[i] = o
    BY <1>2, OrderCovers
  <1>4. others \subseteq Nicks
    BY DEF TypeOK
  <1>5. \A o \in others : Available(o, SomeRole) \in Presences
    BY <1>4, SomeRoleIs, PresencesMade
  <1>6. others1 \in Seq(Presences) /\ DOMAIN others1 = DOMAIN order
    BY <1>3, <1>5
  <1>7. Available(n, myRole') \in Presences
    BY PresencesMade
  <1>8. \A i \in DOMAIN others1 : others1[i] = Available(order[i], SomeRole)
    OBVIOUS
  <1> HIDE DEF others1
  <1>9. /\ w \in Seq(Presences) /\ Len(w) = Len(others1) + 1
        /\ Len(w) \in DOMAIN w /\ w[Len(w)] = Available(n, myRole')
        /\ \A i \in DOMAIN w : i = Len(w) \/ (i \in DOMAIN others1 /\ w[i] = others1[i])
        /\ \A i \in DOMAIN others1 : i \in DOMAIN w /\ w[i] = others1[i]
    BY <1>6, <1>7
  <1>10. \A i \in DOMAIN w : i = Len(w) \/ \E o \in others : w[i] = Available(o, SomeRole)
    BY <1>3, <1>6, <1>8, <1>9
  <1>11. \A o \in others : \E i \in DOMAIN w : w[i] = Available(o, SomeRole)
    BY <1>3, <1>6, <1>8, <1>9
  <1>12. toClient' = toClient \o w
    BY <1>1 DEF Says, others1
  <1> QED
    BY <1>9, <1>10, <1>11, <1>12

---------------------------------------------------------------------------
\* Type correctness.

\* What the room makes of a stanza is of its type.
LEMMA AnswerType ==
  ASSUME TypeOK, RoomAnswers
  PROVE  me' \in Nicks \cup {NoNick} /\ myRole' \in Roles \cup {"none"}
         /\ toClient' \in Seq(Presences) /\ toRoom' \in Seq(Requests)
  <1> DEFINE r == Head(toRoom)
  <1>1. r \in Requests /\ r.nick \in Nicks /\ toRoom' \in Seq(Requests)
    BY RequestIs DEF TypeOK, RoomAnswers
  <1>2. me \in Nicks \cup {NoNick} /\ myRole \in Roles \cup {"none"} /\ toClient \in Seq(Presences)
    BY DEF TypeOK
  <1> HIDE DEF r
  <1>3. ASSUME NEW n \in Nicks, ShowsEveryone(n), myRole' \in Roles \cup {"none"}
        PROVE  toClient' \in Seq(Presences)
    <2>1. PICK w \in Seq(Presences) : toClient' = toClient \o w
      BY <1>3, EveryoneIsShown
    <2> QED
      BY <2>1, <1>2
  <1>4. ASSUME NEW n \in Nicks, me \in Nicks, Rename(n)
        PROVE  me' = n /\ myRole' = myRole /\ toClient' \in Seq(Presences)
    <2>1. Unavailable(me, n, myRole) \in Presences /\ Available(n, myRole) \in Presences
      BY <1>2, <1>4, PresencesMade
    <2> QED
      BY <1>2, <1>4, <2>1 DEF Rename, Says
  <1>5. CASE LetsIn(r)
    <2>1. CASE me = NoNick /\ me' = r.nick /\ myRole' \in Roles /\ ShowsEveryone(r.nick)
      BY <1>1, <1>3, <2>1
    <2>2. CASE me = r.nick /\ UNCHANGED <<me, myRole>> /\ ShowsEveryone(r.nick)
      BY <1>1, <1>2, <1>3, <2>2
    <2>3. CASE me \notin {NoNick, r.nick} /\ Rename(r.nick)
      BY <1>1, <1>2, <1>4, <2>3
    <2> QED
      BY <1>1, <1>5, <2>1, <2>2, <2>3 DEF LetsIn
  <1>6. CASE HearsPresence(r)
    <2>1. CASE me = r.nick /\ UNCHANGED <<me, myRole>> /\ Says(<<Available(me, myRole)>>)
      <3>1. Available(me, myRole) \in Presences
        BY <1>1, <1>2, <2>1, PresencesMade
      <3> QED
        BY <1>1, <1>2, <2>1, <3>1 DEF Says
    <2>2. CASE me # r.nick /\ Rename(r.nick)
      BY <1>1, <1>2, <1>4, <1>6, <2>2 DEF HearsPresence
    <2> QED
      BY <1>6, <2>1, <2>2 DEF HearsPresence
  <1>7. CASE LetsOut(r)
    <2>1. CASE me = NoNick
      <3>1. toClient' = toClient \o <<>>
        BY <1>7, <2>1 DEF LetsOut, Says
      <3> QED
        BY <1>1, <1>2, <1>7, <3>1 DEF LetsOut
    <2>2. CASE me # NoNick
      <3>1. toClient' = toClient \o <<Unavailable(me, NoNick, "none")>>
        BY <1>7, <2>2 DEF LetsOut, Says
      <3>2. Unavailable(me, NoNick, "none") \in Presences
        BY <1>2, <2>2, PresencesMade
      <3> QED
        BY <1>1, <1>2, <1>7, <3>1, <3>2 DEF LetsOut
    <2> QED
      BY <2>1, <2>2
  <1>8. CASE Refuses(r)
    <2>1. Error(r.nick) \in Presences
      BY <1>1, PresencesMade
    <2> QED
      BY <1>1, <1>2, <1>8, <2>1 DEF Refuses, Says
  <1> QED
    BY <1>5, <1>6, <1>7, <1>8 DEF RoomAnswers, r

\* Every step keeps the variables in their types.
LEMMA StepType ==
  ASSUME TypeOK, [Next]_vars
  PROVE  TypeOK'
  <1>1. ASSUME NEW k \in {"enter", "presence", "leave"}, NEW n \in Nicks, Sends(k, n)
        PROVE  toRoom' \in Seq(Requests)
    BY <1>1, RequestsMade DEF TypeOK, Sends
  <1>2. ASSUME NEW available \in BOOLEAN, NEW online \in BOOLEAN, Joining(available, online)
        PROVE  /\ startedJoining' \in BOOLEAN /\ wants' \in BOOLEAN /\ turnedAway' \in BOOLEAN
               /\ toRoom' \in Seq(Requests)
    <2> DEFINE r == [kind |-> IF available THEN "enter" ELSE "leave", nick |-> nick]
    <2>1. r \in Requests
      BY RequestsMade, available = TRUE \/ available = FALSE, nick \in Nicks DEF TypeOK
    <2>2. toRoom' = IF online THEN Append(toRoom, r) ELSE toRoom
      BY <1>2 DEF Joining
    <2> HIDE DEF r
    <2>3. toRoom \in Seq(Requests)
      BY DEF TypeOK
    <2>4. toRoom' \in Seq(Requests)
      BY <2>1, <2>2, <2>3
    <2> QED
      BY <1>2, <2>4 DEF Joining
  <1>3. ASSUME NEW available \in BOOLEAN, join(available)
        PROVE  TypeOK'
    <2>1. Joining(available, connected)
      BY <1>3 DEF join
    <2> QED
      BY <1>2, <1>3, <2>1, connected \in BOOLEAN DEF join, TypeOK, serverVars
  <1>4. ASSUME NEW available \in BOOLEAN, setPresence(available)
        PROVE  TypeOK'
    <2>1. toRoom' \in Seq(Requests)
      BY <1>1, <1>4 DEF setPresence, TypeOK
    <2> QED
      BY <1>4, <2>1 DEF setPresence, TypeOK, roomVars, serverVars, appVars
  <1>5. CASE leave
    BY <1>1, <1>5 DEF leave, TypeOK, serverVars, appVars
  <1>6. CASE \E n \in Nicks : setNick(n)
    BY <1>1, <1>6 DEF setNick, TypeOK, serverVars, appVars
  <1>7. CASE handlePresence
    <2> DEFINE pres == Head(toClient)
    <2>1. pres \in Presences /\ toClient' \in Seq(Presences)
      BY <1>7 DEF TypeOK, handlePresence
    <2>2. /\ pres.from \in Nicks /\ pres.newNick \in Nicks \cup {NoNick}
          /\ pres.role \in Roles \cup {"none"}
      BY <2>1, PresenceIs
    <2> HIDE DEF pres
    <2>3. Resource(pres) \in Nicks
      BY <2>2 DEF Resource, Renamed, TypeOK
    <2>4. CASE ErrorReceived(pres)
      BY <1>7, <2>1, <2>4 DEF ErrorReceived, handlePresence, TypeOK, serverVars
    <2>5. CASE AvailableReceived(pres)
      <3>1. told' \subseteq Nicks /\ participants' \subseteq Nicks
        BY <2>2, <2>5 DEF AvailableReceived, TypeOK
      <3>2. role' \in Roles \cup {"none"} /\ isJoined' \in BOOLEAN
        BY <2>2, <2>5 DEF AvailableReceived, TypeOK
      <3> QED
        BY <1>7, <2>1, <2>5, <3>1, <3>2
           DEF AvailableReceived, handlePresence, TypeOK, serverVars
    <2>6. CASE UnavailableReceived(pres)
      BY <1>7, <2>1, <2>2, <2>3, <2>6 DEF UnavailableReceived, handlePresence, TypeOK, serverVars
    <2> QED
      BY <1>7, <2>4, <2>5, <2>6 DEF handlePresence, pres
  <1>8. CASE onConnected
    BY <1>2, <1>8 DEF onConnected, TypeOK, serverVars
  <1>9. CASE onDisconnected
    BY <1>9, NoneIs DEF onDisconnected, TypeOK
  <1>10. CASE RoomAnswers
    BY <1>10, AnswerType DEF RoomAnswers, TypeOK, roomVars, appVars
  <1>11. CASE \E n \in Nicks : OtherEnters(n) \/ OtherLeaves(n)
    <2>1. PICK n \in Nicks : OtherEnters(n) \/ OtherLeaves(n)
      BY <1>11
    <2>2. Available(n, SomeRole) \in Presences /\ Unavailable(n, NoNick, "none") \in Presences
      BY SomeRoleIs, PresencesMade
    <2> QED
      BY <2>1, <2>2 DEF OtherEnters, OtherLeaves, Announces, TypeOK, roomVars, appVars
  <1>12. CASE Kicks
    <2>1. Unavailable(me, NoNick, "none") \in Presences
      BY <1>12, PresencesMade DEF Kicks, TypeOK
    <2> QED
      BY <1>12, <2>1 DEF Kicks, Says, TypeOK, roomVars, appVars
  <1>13. CASE \E r \in Roles : ChangesRole(r)
    <2>1. PICK r \in Roles : ChangesRole(r)
      BY <1>13
    <2>2. Available(me, r) \in Presences
      BY <2>1, PresencesMade DEF ChangesRole, TypeOK
    <2> QED
      BY <2>1, <2>2 DEF ChangesRole, Says, TypeOK, roomVars, appVars
  <1>14. CASE UNCHANGED vars
    BY <1>14 DEF vars, TypeOK, roomVars, serverVars, wire, appVars
  <1> QED
    BY <1>3, <1>4, <1>5, <1>6, <1>7, <1>8, <1>9, <1>10, <1>11, <1>12, <1>13, <1>14 DEF Next

\* The initial state is of its type.
LEMMA InitType == Init => TypeOK
  BY NoneIs DEF Init, TypeOK

\* The room, the client and the stanzas between them are of their types in
\* every state, whatever the application does.
THEOREM SpecTypeOK == Spec => []TypeOK
  BY InitType, StepType, PTL DEF Spec

---------------------------------------------------------------------------
\* The places of the presences under way.

\* The places are numbers of stanzas.
LEMMA PlacesAre ==
  ASSUME TypeOK
  PROVE  /\ Len(toClient) \in Nat /\ DOMAIN toClient = 1 .. Len(toClient)
         /\ \A i \in DOMAIN toClient : toClient[i] \in Presences
         /\ \A i \in DOMAIN toClient : i \in Nat \ {0} /\ i <= Len(toClient)
         /\ OwnPlaces \subseteq DOMAIN toClient /\ OwnShown \subseteq DOMAIN toClient
         /\ OwnLeaves \subseteq DOMAIN toClient
         /\ InRole \subseteq DOMAIN toClient /\ OffRole \subseteq DOMAIN toClient
         /\ \A n : Shown(n) \subseteq DOMAIN toClient /\ Gone(n) \subseteq DOMAIN toClient
  <1>1. /\ Len(toClient) \in Nat /\ DOMAIN toClient = 1 .. Len(toClient)
        /\ \A i \in DOMAIN toClient : toClient[i] \in Presences
    BY DEF TypeOK
  <1>2. OwnPlaces \subseteq DOMAIN toClient
    BY DEF OwnPlaces
  <1>3. OwnShown \subseteq DOMAIN toClient /\ OwnLeaves \subseteq DOMAIN toClient
    BY <1>2 DEF OwnShown, OwnLeaves
  <1>4. InRole \subseteq DOMAIN toClient /\ OffRole \subseteq DOMAIN toClient
    BY <1>3 DEF InRole, OffRole
  <1>5. \A n : Shown(n) \subseteq DOMAIN toClient /\ Gone(n) \subseteq DOMAIN toClient
    BY <1>3 DEF Shown, Gone
  <1> QED
    BY <1>1, <1>2, <1>3, <1>4, <1>5

\* The client has one nickname when a presence arrives.
LEMMA NickUnique ==
  ASSUME TypeOK, NEW i \in Nat, NEW a, NEW b, NickAt(i, a), NickAt(i, b)
  PROVE  a = b
  <1>1. CASE /\ a = nick
             /\ \A m \in 1 .. i - 1 : toClient[m].newNick = NoNick
    BY <1>1 DEF NickAt
  <1>2. CASE /\ b = nick
             /\ \A m \in 1 .. i - 1 : toClient[m].newNick = NoNick
    BY <1>2 DEF NickAt
  <1>3. ASSUME NEW k \in 1 .. i - 1, toClient[k].newNick = a, a # NoNick,
               \A m \in k + 1 .. i - 1 : toClient[m].newNick = NoNick,
               NEW l \in 1 .. i - 1, toClient[l].newNick = b, b # NoNick,
               \A m \in l + 1 .. i - 1 : toClient[m].newNick = NoNick
        PROVE  a = b
    <2>1. CASE k < l
      <3>1. l \in k + 1 .. i - 1
        BY <2>1
      <3> QED
        BY <1>3, <3>1
    <2>2. CASE l < k
      <3>1. k \in l + 1 .. i - 1
        BY <2>2
      <3> QED
        BY <1>3, <3>1
    <2>3. k < l \/ l < k \/ k = l
      OBVIOUS
    <2> QED
      BY <1>3, <2>1, <2>2, <2>3
  <1> QED
    BY <1>1, <1>2, <1>3 DEF NickAt

\* Without changes of it the nickname is the one it is.
LEMMA NickNow ==
  ASSUME NEW i \in Nat \ {0}, \A m \in 1 .. i - 1 : toClient[m].newNick = NoNick
  PROVE  \A n : NickAt(i, n) <=> n = nick
  BY DEF NickAt

---------------------------------------------------------------------------
\* The first presence arrives.

\* What was meant for a presence is meant for it when it is one further in front.
LEMMA NickArrives ==
  ASSUME TypeOK, Renames, handlePresence, NEW i \in 1 .. Len(toClient), NEW n
  PROVE  NickAt(i, n)' <=> NickAt(i + 1, n)
  <1> DEFINE h == toClient[1]
  <1>1. /\ \A m \in 1 .. i - 1 : toClient'[m] = toClient[m + 1]
        /\ h = Head(toClient) /\ h \in Presences /\ 1 \in DOMAIN toClient
    BY DEF TypeOK, handlePresence
  <1>2. /\ \A m \in 2 .. i : m - 1 \in 1 .. i - 1 /\ toClient[m] = toClient'[m - 1]
        /\ \A m \in 1 .. i - 1 : m + 1 \in 2 .. i
        /\ 1 .. i = {1} \cup (2 .. i) /\ (i + 1) - 1 = i
    <2>1. ASSUME NEW m \in 2 .. i PROVE m - 1 \in 1 .. i - 1 /\ toClient[m] = toClient'[m - 1]
      <3>1. m - 1 \in 1 .. i - 1 /\ (m - 1) + 1 = m
        OBVIOUS
      <3> QED
        BY <1>1, <3>1
    <2> QED
      BY <2>1
  <1>3. (\A m \in 1 .. i - 1 : toClient'[m].newNick = NoNick)
           <=> \A m \in 2 .. i : toClient[m].newNick = NoNick
    BY <1>1, <1>2
  <1>4. ASSUME NEW k \in 1 .. i - 1
        PROVE  (\A m \in k + 1 .. i - 1 : toClient'[m].newNick = NoNick)
                  <=> \A m \in (k + 1) + 1 .. i : toClient[m].newNick = NoNick
    <2>1. ASSUME NEW m \in (k + 1) + 1 .. i
          PROVE  m - 1 \in k + 1 .. i - 1 /\ m \in 2 .. i
      OBVIOUS
    <2>2. ASSUME NEW m \in k + 1 .. i - 1
          PROVE  m + 1 \in (k + 1) + 1 .. i /\ m \in 1 .. i - 1
      OBVIOUS
    <2>3. ASSUME \A m \in k + 1 .. i - 1 : toClient'[m].newNick = NoNick,
                 NEW m \in (k + 1) + 1 .. i
          PROVE  toClient[m].newNick = NoNick
      <3>1. toClient[m] = toClient'[m - 1] /\ m - 1 \in k + 1 .. i - 1
        BY <1>2, <2>1
      <3> QED
        BY <2>3, <3>1
    <2>4. ASSUME \A m \in (k + 1) + 1 .. i : toClient[m].newNick = NoNick,
                 NEW m \in k + 1 .. i - 1
          PROVE  toClient'[m].newNick = NoNick
      <3>1. toClient'[m] = toClient[m + 1] /\ m + 1 \in (k + 1) + 1 .. i
        BY <1>1, <2>2
      <3> QED
        BY <2>4, <3>1
    <2> QED
      BY <2>3, <2>4
  <1> DEFINE Here(k) == /\ toClient[k].newNick = n /\ n # NoNick
                        /\ \A m \in k + 1 .. i : toClient[m].newNick = NoNick
             Thence(k) == /\ toClient'[k].newNick = n /\ n # NoNick
                          /\ \A m \in k + 1 .. i - 1 : toClient'[m].newNick = NoNick
  <1>5. \A k \in 1 .. i - 1 : Thence(k) <=> Here(k + 1)
    BY <1>1, <1>4
  <1>6. \A k \in 2 .. i : Here(k) <=> Thence(k - 1)
    <2>1. ASSUME NEW k \in 2 .. i PROVE k - 1 \in 1 .. i - 1 /\ (k - 1) + 1 = k
      OBVIOUS
    <2> QED
      BY <1>5, <2>1
  <1>7. NickAt(i + 1, n) <=> \/ n = nick /\ h.newNick = NoNick
                                /\ \A m \in 2 .. i : toClient[m].newNick = NoNick
                             \/ Here(1)
                             \/ \E k \in 2 .. i : Here(k)
    BY <1>2 DEF NickAt
  <1>8. NickAt(i, n)' <=> \/ n = nick' /\ \A m \in 1 .. i - 1 : toClient'[m].newNick = NoNick
                          \/ \E k \in 1 .. i - 1 : Thence(k)
    BY DEF NickAt
  <1>9. (\E k \in 1 .. i - 1 : Thence(k)) <=> \E k \in 2 .. i : Here(k)
    BY <1>2, <1>5, <1>6
  <1>10. CASE h.newNick = NoNick
    <2>1. nick' = nick
      BY <1>1, <1>10
         DEF handlePresence, ErrorReceived, AvailableReceived, UnavailableReceived,
             Resource, Renamed
    <2>2. ~Here(1)
      BY <1>10
    <2> QED
      BY <1>3, <1>7, <1>8, <1>9, <1>10, <2>1, <2>2
  <1>11. CASE h.newNick # NoNick
    <2>1. h.type = "unavailable" /\ NickAt(1, h.from)
      BY <1>1, <1>11 DEF Renames, OwnPlaces
    <2>2. h.from = nick
      BY <2>1 DEF NickAt
    <2>3. nick' = h.newNick
      BY <1>1, <1>11, <2>1, <2>2
         DEF handlePresence, ErrorReceived, AvailableReceived, UnavailableReceived,
             Resource, Renamed
    <2>4. Here(1) <=> n = nick' /\ \A m \in 2 .. i : toClient[m].newNick = NoNick
      BY <1>11, <2>3
    <2> HIDE DEF Here, Thence
    <2> QED
      BY <1>3, <1>7, <1>8, <1>9, <1>11, <2>4
  <1> QED
    BY <1>10, <1>11

\* Every place is one further in front.
LEMMA PlacesArrive ==
  ASSUME TypeOK, Renames, handlePresence, NEW i \in Nat \ {0}
  PROVE  /\ i \in OwnPlaces' <=> i + 1 \in OwnPlaces
         /\ i \in OwnShown' <=> i + 1 \in OwnShown
         /\ i \in OwnLeaves' <=> i + 1 \in OwnLeaves
         /\ i \in InRole' <=> i + 1 \in InRole
         /\ i \in OffRole' <=> i + 1 \in OffRole
         /\ \A n : i \in Shown(n)' <=> i + 1 \in Shown(n)
         /\ \A n : i \in Gone(n)' <=> i + 1 \in Gone(n)
  <1>1. /\ i \in DOMAIN toClient' <=> i + 1 \in DOMAIN toClient
        /\ i \in DOMAIN toClient' => toClient'[i] = toClient[i + 1] /\ i \in 1 .. Len(toClient)
        /\ myRole' = myRole
    BY DEF TypeOK, handlePresence, serverVars
  <1>2. i \in OwnPlaces' <=> i + 1 \in OwnPlaces
    <2>1. ASSUME i \in DOMAIN toClient'
          PROVE  NickAt(i, toClient[i].from)' <=> NickAt(i + 1, toClient[i + 1].from)
      <3>1. i \in 1 .. Len(toClient) /\ toClient'[i] = toClient[i + 1]
        BY <1>1, <2>1
      <3>2. \A n : NickAt(i, n)' <=> NickAt(i + 1, n)
        BY <3>1, NickArrives
      <3> QED
        BY <3>1, <3>2
    <2> QED
      BY <1>1, <2>1 DEF OwnPlaces
  <1>3. i \in OwnPlaces' => i \in DOMAIN toClient'
    BY DEF OwnPlaces
  <1>4. i + 1 \in OwnPlaces => i + 1 \in DOMAIN toClient
    BY DEF OwnPlaces
  <1>5. i \in OwnShown' <=> i + 1 \in OwnShown
    BY <1>1, <1>2, <1>3 DEF OwnShown
  <1>6. i \in OwnLeaves' <=> i + 1 \in OwnLeaves
    BY <1>1, <1>2, <1>3 DEF OwnLeaves
  <1>7. i \in OwnShown' => i \in OwnPlaces'
    BY DEF OwnShown
  <1>8. i \in InRole' <=> i + 1 \in InRole
    BY <1>1, <1>3, <1>5, <1>7 DEF InRole
  <1>9. i \in OffRole' <=> i + 1 \in OffRole
    BY <1>1, <1>3, <1>5, <1>6, <1>7 DEF OffRole
  <1>10. \A n : i \in Shown(n)' <=> i + 1 \in Shown(n)
    BY <1>1 DEF Shown
  <1>11. \A n : i \in Gone(n)' <=> i + 1 \in Gone(n)
    BY <1>1, <1>6 DEF Gone
  <1> QED
    BY <1>2, <1>5, <1>6, <1>8, <1>9, <1>10, <1>11

\* What the first presence says of the client, when it has arrived.
LEMMA OwnArrives ==
  ASSUME RoomInv, handlePresence
  PROVE  /\ isJoined' = IF 1 \in OwnShown THEN TRUE ELSE IF 1 \in OwnLeaves THEN FALSE ELSE isJoined
         /\ 1 \in OwnShown => role' = toClient[1].role
         /\ 1 \notin OwnShown \cup OwnLeaves => role' = role
  <1> DEFINE h == toClient[1]
  <1>1. h = Head(toClient) /\ 1 \in DOMAIN toClient /\ h \in Presences
    BY DEF RoomInv, TypeOK, handlePresence
  <1>2. 1 \in OwnPlaces <=> h.from = nick
    BY <1>1 DEF OwnPlaces, NickAt
  <1>3. h.newNick # NoNick => h.from = nick /\ h.newNick # h.from /\ h.type = "unavailable"
    BY <1>1, <1>2 DEF RoomInv, Renames
  <1>4. 1 \in OwnShown <=> h.type = "available" /\ h.from = nick
    BY <1>2 DEF OwnShown
  <1>5. 1 \in OwnLeaves <=> h.type = "unavailable" /\ h.from = nick /\ h.newNick = NoNick
    BY <1>2 DEF OwnLeaves
  <1>6. isJoined \in BOOLEAN
    BY DEF RoomInv, TypeOK
  <1> HIDE DEF h
  <1>7. CASE ErrorReceived(h)
    BY <1>4, <1>5, <1>6, <1>7 DEF ErrorReceived
  <1>8. CASE AvailableReceived(h)
    BY <1>4, <1>5, <1>6, <1>8 DEF AvailableReceived, h
  <1>9. CASE UnavailableReceived(h)
    <2>1. h.from = Resource(h) <=> h.from = nick /\ h.newNick = NoNick
      BY <1>3 DEF Resource, Renamed
    <2> QED
      BY <1>4, <1>5, <1>6, <1>9, <2>1 DEF UnavailableReceived
  <1> QED
    BY <1>1, <1>7, <1>8, <1>9 DEF handlePresence

\* What the first presence says of an occupant, when it has arrived.
LEMMA OthersArrive ==
  ASSUME RoomInv, handlePresence, NEW n
  PROVE  /\ 1 \in Shown(n) => n \in told' /\ ~startedJoining'
         /\ 1 \in Gone(n) => n \notin told'
         /\ 1 \notin Shown(n) \cup Gone(n) =>
               /\ n \in told /\ ~startedJoining => n \in told' /\ ~startedJoining'
               /\ n \in told' => n \in told
               /\ n \in told' /\ toClient[1].type = "available" => ~startedJoining
         /\ startedJoining' => startedJoining /\ toClient[1].type = "unavailable"
         /\ toClient[1].type = "unavailable" => startedJoining' = startedJoining
         /\ told' \subseteq participants'
  <1> DEFINE h == toClient[1]
  <1>1. h = Head(toClient) /\ 1 \in DOMAIN toClient /\ h \in Presences
    BY DEF RoomInv, TypeOK, handlePresence
  <1>2. 1 \in OwnPlaces <=> h.from = nick
    BY <1>1 DEF OwnPlaces, NickAt
  <1>3. h.newNick # NoNick => h.from = nick /\ h.newNick # h.from /\ h.type = "unavailable"
    BY <1>1, <1>2 DEF RoomInv, Renames
  <1>4. 1 \in Shown(n) <=> h.type = "available" /\ h.from = n
    BY <1>1 DEF Shown
  <1>5. 1 \in Gone(n) <=> \/ h.type = "unavailable" /\ h.from = n
                          \/ h.type = "unavailable" /\ h.from = nick /\ h.newNick = NoNick
    BY <1>1, <1>2 DEF Gone, OwnLeaves
  <1>6. startedJoining \in BOOLEAN /\ told \subseteq participants
    BY DEF RoomInv, TypeOK, ToldListed
  <1> HIDE DEF h
  <1>7. CASE ErrorReceived(h)
    BY <1>4, <1>5, <1>6, <1>7 DEF ErrorReceived, h
  <1>8. CASE AvailableReceived(h)
    BY <1>4, <1>5, <1>6, <1>8 DEF AvailableReceived, h
  <1>9. CASE UnavailableReceived(h)
    <2>1. h.from = Resource(h) <=> h.from = nick /\ h.newNick = NoNick
      BY <1>3 DEF Resource, Renamed
    <2> QED
      BY <1>4, <1>5, <1>6, <1>9, <2>1 DEF UnavailableReceived, h
  <1> QED
    BY <1>1, <1>7, <1>8, <1>9 DEF handlePresence

\* The client still gets to know whether it is inside.
LEMMA ArrivalEntered ==
  ASSUME RoomInv, TypeOK', handlePresence
  PROVE  Entered'
  <1>1. /\ me' = me /\ myRole' = myRole
        /\ isJoined \in BOOLEAN /\ isJoined' \in BOOLEAN /\ TypeOK
    BY DEF RoomInv, TypeOK, handlePresence, serverVars
  <1>2. /\ InRole \in SUBSET (Nat \ {0}) /\ OffRole \in SUBSET (Nat \ {0})
        /\ OwnShown \in SUBSET (Nat \ {0}) /\ OwnLeaves \in SUBSET (Nat \ {0})
    BY <1>1, PlacesAre
  <1>3. /\ InRole' \in SUBSET (Nat \ {0}) /\ OffRole' \in SUBSET (Nat \ {0})
        /\ OwnShown' \in SUBSET (Nat \ {0}) /\ OwnLeaves' \in SUBSET (Nat \ {0})
    <2>1. DOMAIN toClient' \subseteq Nat \ {0}
      BY DEF TypeOK
    <2> QED
      BY <2>1 DEF InRole, OffRole, OwnShown, OwnLeaves, OwnPlaces
  <1>4. \A i \in Nat \ {0} : /\ i \in InRole' <=> i + 1 \in InRole
                             /\ i \in OffRole' <=> i + 1 \in OffRole
                             /\ i \in OwnShown' <=> i + 1 \in OwnShown
                             /\ i \in OwnLeaves' <=> i + 1 \in OwnLeaves
    BY <1>1, PlacesArrive DEF RoomInv
  <1>5. 1 \notin OwnShown \cap OwnLeaves /\ 1 \notin InRole \cap OffRole
    BY DEF OwnShown, OwnLeaves, InRole, OffRole
  <1>6. 1 \in InRole <=> 1 \in OwnShown /\ toClient[1].role = myRole
    BY DEF InRole
  <1>7. 1 \in OffRole <=> 1 \in OwnLeaves \/ (1 \in OwnShown /\ toClient[1].role # myRole)
    BY DEF OffRole
  <1> DEFINE now == isJoined /\ role = myRole
             later == isJoined' /\ role' = myRole'
  <1>8. now \in BOOLEAN /\ later \in BOOLEAN
    BY <1>1
  <1>9. later = IF 1 \in InRole THEN TRUE ELSE IF 1 \in OffRole THEN FALSE ELSE now
    <2>1. CASE 1 \in OwnShown
      BY <2>1, <1>1, <1>5, <1>6, <1>7, OwnArrives
    <2>2. CASE 1 \in OwnLeaves
      BY <2>2, <1>1, <1>5, <1>6, <1>7, OwnArrives
    <2>3. CASE 1 \notin OwnShown \cup OwnLeaves
      BY <2>3, <1>1, <1>6, <1>7, OwnArrives
    <2> QED
      BY <2>1, <2>2, <2>3
  <1> HIDE DEF now, later
  <1>10. /\ OffRole = {} <=> OffRole' = {} /\ 1 \notin OffRole
         /\ LastOn(InRole, OffRole) <=> \/ LastOn(InRole', OffRole')
                                        \/ 1 \in InRole /\ OffRole' = {}
    <2>1. InRole \in SUBSET (Nat \ {0}) /\ OffRole \in SUBSET (Nat \ {0})
      BY <1>2
    <2>2. InRole' \in SUBSET (Nat \ {0}) /\ OffRole' \in SUBSET (Nat \ {0})
      BY <1>3
    <2>3. /\ \A i \in Nat \ {0} : i \in InRole' <=> i + 1 \in InRole
          /\ \A i \in Nat \ {0} : i \in OffRole' <=> i + 1 \in OffRole
      BY <1>4
    <2>4. 1 \notin InRole \cap OffRole
      BY <1>5
    <2> QED
      BY <2>1, <2>2, <2>3, <2>4, LastOnTail
  <1>11. /\ OwnLeaves = {} <=> OwnLeaves' = {} /\ 1 \notin OwnLeaves
         /\ LastOn(OwnShown, OwnLeaves) <=> \/ LastOn(OwnShown', OwnLeaves')
                                            \/ 1 \in OwnShown /\ OwnLeaves' = {}
    <2>1. OwnShown \in SUBSET (Nat \ {0}) /\ OwnLeaves \in SUBSET (Nat \ {0})
      BY <1>2
    <2>2. OwnShown' \in SUBSET (Nat \ {0}) /\ OwnLeaves' \in SUBSET (Nat \ {0})
      BY <1>3
    <2>3. /\ \A i \in Nat \ {0} : i \in OwnShown' <=> i + 1 \in OwnShown
          /\ \A i \in Nat \ {0} : i \in OwnLeaves' <=> i + 1 \in OwnLeaves
      BY <1>4
    <2>4. 1 \notin OwnShown \cap OwnLeaves
      BY <1>5
    <2> QED
      BY <2>1, <2>2, <2>3, <2>4, LastOnTail
  <1>12. me # NoNick => (now /\ OffRole = {}) \/ LastOn(InRole, OffRole)
    BY DEF RoomInv, Entered, InTheEnd, now
  <1>13. me # NoNick => (later /\ OffRole' = {}) \/ LastOn(InRole', OffRole')
    BY <1>9, <1>10, <1>12
  <1>14. me = NoNick => ~(isJoined /\ OwnLeaves = {}) /\ ~LastOn(OwnShown, OwnLeaves)
    BY DEF RoomInv, Entered, InTheEnd
  <1>15. me = NoNick => ~(isJoined' /\ OwnLeaves' = {}) /\ ~LastOn(OwnShown', OwnLeaves')
    BY <1>5, <1>11, <1>14, OwnArrives
  <1> QED
    BY <1>1, <1>13, <1>15 DEF Entered, InTheEnd, later

\* What the queue says of an occupant when its first presence has arrived.
LEMMA ShownArrives ==
  ASSUME RoomInv, TypeOK', handlePresence, NEW n
  PROVE  /\ Gone(n) = {} <=> Gone(n)' = {} /\ 1 \notin Gone(n)
         /\ LastOn(Shown(n), Gone(n)) <=> \/ LastOn(Shown(n)', Gone(n)')
                                          \/ 1 \in Shown(n) /\ Gone(n)' = {}
  <1> DEFINE on == Shown(n)
             off == Gone(n)
             on2 == Shown(n)'
             off2 == Gone(n)'
  <1>1. TypeOK
    BY DEF RoomInv
  <1>2. on \in SUBSET (Nat \ {0}) /\ off \in SUBSET (Nat \ {0})
    BY <1>1, PlacesAre
  <1>3. on2 \in SUBSET (Nat \ {0}) /\ off2 \in SUBSET (Nat \ {0})
    <2>1. DOMAIN toClient' \subseteq Nat \ {0}
      BY DEF TypeOK
    <2> QED
      BY <2>1 DEF Shown, Gone, OwnLeaves, OwnPlaces
  <1>4. /\ \A i \in Nat \ {0} : i \in on2 <=> i + 1 \in on
        /\ \A i \in Nat \ {0} : i \in off2 <=> i + 1 \in off
    BY <1>1, PlacesArrive DEF RoomInv
  <1>5. 1 \notin on \cap off
    BY DEF Shown, Gone, OwnLeaves
  <1> HIDE DEF on, off, on2, off2
  <1>6. /\ off = {} <=> off2 = {} /\ 1 \notin off
        /\ LastOn(on, off) <=> LastOn(on2, off2) \/ (1 \in on /\ off2 = {})
    BY <1>2, <1>3, <1>4, <1>5, LastOnTail
  <1> QED
    BY <1>6 DEF on, off, on2, off2

\* The application still gets to know every occupant.
LEMMA ArrivalLost ==
  ASSUME RoomInv, TypeOK', handlePresence
  PROVE  NobodyLost'
  <1>1. Enters' = Enters /\ Inside' = Inside /\ TypeOK
    BY DEF RoomInv, handlePresence, serverVars, Enters, Inside
  <1>2. SUFFICES ASSUME Enters = {}, NEW n \in Inside,
                        InTheEnd(n \in told /\ ~startedJoining, Shown(n), Gone(n))
                 PROVE  InTheEnd(n \in told' /\ ~startedJoining', Shown(n)', Gone(n)')
    BY <1>1 DEF RoomInv, NobodyLost
  <1> DEFINE now == n \in told /\ ~startedJoining
             later == n \in told' /\ ~startedJoining'
             next == 1 \in Shown(n) \/ (1 \notin Gone(n) /\ now)
  <1>8. next => later
    BY OthersArrive
  <1>9. InTheEnd(now, Shown(n), Gone(n))
    BY <1>2
  <1>3. next <=> 1 \in Shown(n) \/ (1 \notin Gone(n) /\ now)
    OBVIOUS
  <1> HIDE DEF now, later, next
  <1>10. /\ Gone(n) = {} <=> Gone(n)' = {} /\ 1 \notin Gone(n)
         /\ LastOn(Shown(n), Gone(n)) <=> \/ LastOn(Shown(n)', Gone(n)')
                                          \/ 1 \in Shown(n) /\ Gone(n)' = {}
    BY ShownArrives
  <1>11. InTheEnd(now, Shown(n), Gone(n)) <=> (now /\ Gone(n) = {}) \/ LastOn(Shown(n), Gone(n))
    BY DEF InTheEnd
  <1>12. InTheEnd(later, Shown(n)', Gone(n)') <=> \/ later /\ Gone(n)' = {}
                                                 \/ LastOn(Shown(n)', Gone(n)')
    BY DEF InTheEnd
  <1>13. InTheEnd(later, Shown(n)', Gone(n)')
    BY <1>3, <1>8, <1>9, <1>10, <1>11, <1>12, Zenon
  <1> QED
    BY <1>13 DEF later

\* What the first presence does to what is taken back later.
LEMMA ArrivalTakesBack ==
  ASSUME RoomInv, handlePresence, TakenBack \/ BeforeEntry, toClient[1].type # "available"
  PROVE  TakenBack' \/ BeforeEntry'
  <1>1. TypeOK /\ toClient # <<>> /\ toClient' = Tail(toClient)
        /\ toRoom' = toRoom /\ me' = me
    BY DEF RoomInv, handlePresence, serverVars
  <1>2. toClient \in Seq(Presences)
    BY <1>1 DEF TypeOK
  <1>3. CASE TakenBack
    <2>1. PICK i \in DOMAIN toClient :
             /\ startedJoining /\ toClient[i].type = "available"
             /\ \A k \in 1 .. i : toClient[k].type # "error"
      BY <1>3 DEF TakenBack
    <2>2. i \in Nat /\ i > 1
      BY <1>2, <2>1
    <2>3. toClient[1].type = "unavailable"
      <3>1. 1 \in 1 .. i /\ 1 \in DOMAIN toClient /\ toClient[1] \in Presences
        BY <1>2, <2>2
      <3> QED
        BY <2>1, <3>1, PresenceIs
    <2>4. startedJoining'
      BY <2>1, <2>3, OthersArrive
    <2>5. i - 1 \in DOMAIN toClient' /\ toClient'[i - 1] = toClient[i]
      BY <1>1, <1>2, <2>2
    <2>6. ASSUME NEW k \in 1 .. i - 1 PROVE toClient'[k].type # "error"
      <3>1. k + 1 \in 1 .. i /\ toClient'[k] = toClient[k + 1]
        BY <1>1, <1>2, <2>2, <2>1
      <3> QED
        BY <2>1, <3>1
    <2> QED
      BY <2>1, <2>4, <2>5, <2>6 DEF TakenBack
  <1>4. CASE BeforeEntry
    <2>1. /\ me = NoNick /\ ~isJoined /\ Len(toClient) = 1 /\ toClient[1].type = "error"
          /\ Asked = {}
      BY <1>1, <1>4 DEF BeforeEntry
    <2>2. toClient' = <<>> /\ Asked' = {}
      BY <1>1, <1>2, <2>1 DEF Asked
    <2>3. ~startedJoining' /\ ~isJoined'
      BY <2>1, OthersArrive, OwnArrives DEF OwnShown
    <2> QED
      BY <1>1, <2>1, <2>2, <2>3 DEF BeforeEntry
  <1> QED
    BY <1>3, <1>4

\* The application still gets to know of nobody else.
LEMMA ArrivalMadeUp ==
  ASSUME RoomInv, TypeOK', handlePresence
  PROVE  NobodyMadeUp'
  <1>1. Inside' = Inside /\ TypeOK
    BY DEF RoomInv, handlePresence, serverVars, Inside
  <1>2. SUFFICES ASSUME NEW n \in Nicks \ Inside,
                        ~InTheEnd(n \in told /\ ~TakenBack /\ ~BeforeEntry, Shown(n), Gone(n))
                 PROVE  ~InTheEnd(n \in told' /\ ~TakenBack' /\ ~BeforeEntry', Shown(n)', Gone(n)')
    BY <1>1 DEF RoomInv, NobodyMadeUp
  <1> DEFINE now == n \in told /\ ~TakenBack /\ ~BeforeEntry
             later == n \in told' /\ ~TakenBack' /\ ~BeforeEntry'
             next == 1 \in Shown(n) \/ (1 \notin Gone(n) /\ now)
  <1>8. later => next
    <2>1. SUFFICES ASSUME later, 1 \notin Shown(n) PROVE next
      OBVIOUS
    <2>2. 1 \notin Gone(n)
      BY <2>1, OthersArrive
    <2>3. n \in told /\ (toClient[1].type = "available" => ~startedJoining)
      BY <2>1, <2>2, OthersArrive
    <2>4. CASE toClient[1].type # "available"
      BY <2>1, <2>2, <2>3, <2>4, ArrivalTakesBack
    <2>5. CASE toClient[1].type = "available"
      <3>1. ~startedJoining /\ ~TakenBack
        BY <2>3, <2>5 DEF TakenBack
      <3>2. ~BeforeEntry
        BY <3>1, <2>5 DEF BeforeEntry, handlePresence
      <3> QED
        BY <2>2, <2>3, <3>1, <3>2
    <2> QED
      BY <2>4, <2>5
  <1>9. ~InTheEnd(now, Shown(n), Gone(n))
    BY <1>2
  <1>3. next <=> 1 \in Shown(n) \/ (1 \notin Gone(n) /\ now)
    OBVIOUS
  <1> HIDE DEF now, later, next
  <1>10. /\ Gone(n) = {} <=> Gone(n)' = {} /\ 1 \notin Gone(n)
         /\ LastOn(Shown(n), Gone(n)) <=> \/ LastOn(Shown(n)', Gone(n)')
                                          \/ 1 \in Shown(n) /\ Gone(n)' = {}
    BY ShownArrives
  <1>11. InTheEnd(now, Shown(n), Gone(n)) <=> (now /\ Gone(n) = {}) \/ LastOn(Shown(n), Gone(n))
    BY DEF InTheEnd
  <1>12. InTheEnd(later, Shown(n)', Gone(n)') <=> \/ later /\ Gone(n)' = {}
                                                 \/ LastOn(Shown(n)', Gone(n)')
    BY DEF InTheEnd
  <1>13. ~InTheEnd(later, Shown(n)', Gone(n)')
    BY <1>3, <1>8, <1>9, <1>10, <1>11, <1>12, Zenon
  <1> QED
    BY <1>13 DEF later

\* The room keeps its invariant when a presence arrives.
LEMMA PresenceArrives ==
  ASSUME RoomInv, TypeOK', handlePresence
  PROVE  RoomInv'
  <1>1. /\ TypeOK /\ Renames /\ toClient # <<>> /\ toClient' = Tail(toClient)
        /\ toRoom' = toRoom /\ me' = me /\ others' = others /\ connected' = connected
    BY DEF RoomInv, handlePresence, serverVars
  <1>2. toClient \in Seq(Presences)
    BY <1>1 DEF TypeOK
  <1>3. /\ \A i \in DOMAIN toClient' : /\ i \in Nat \ {0} /\ i + 1 \in DOMAIN toClient
                                       /\ toClient'[i] = toClient[i + 1]
        /\ \A i \in DOMAIN toClient : i > 1 => /\ i - 1 \in DOMAIN toClient'
                                               /\ toClient'[i - 1] = toClient[i]
        /\ \A i \in DOMAIN toClient : i = 1 \/ i > 1
        /\ Len(toClient') = Len(toClient) - 1 /\ Len(toClient) \in Nat \ {0}
    BY <1>1, <1>2
  <1>4. OfConnection' /\ NamesApart'
    BY <1>1 DEF RoomInv, OfConnection, NamesApart
  <1>5. Renames'
    BY <1>1, <1>3, PlacesArrive DEF Renames
  <1>6. Called'
    <2>1. Len(toClient) \in 1 .. Len(toClient) /\ Len(toClient') + 1 = Len(toClient)
      BY <1>3
    <2>2. ASSUME NEW i \in 1 .. Len(toClient), NEW n, i = Len(toClient') + 1, n = me, n # NoNick
          PROVE  NickAt(i, n)'
      <3>1. NickAt(i + 1, n)
        BY <1>3, <2>2 DEF RoomInv, Called
      <3> QED
        BY <1>1, <3>1, NickArrives
    <2>3. ASSUME NEW i, NEW n, i = Len(toClient') + 1, n = me', NickAt(i, n)'
          PROVE  NickAt(Len(toClient) + 1, me)'
      BY <2>3 DEF NickAt
    <2> QED
      BY <1>1, <2>1, <2>2, <2>3 DEF Called
  <1>7. EntersUnrenamed'
    <2>1. SUFFICES ASSUME Enters # {} PROVE nick' = nick
      BY <1>1, <1>3 DEF RoomInv, EntersUnrenamed, Enters
    <2>2. \A m \in DOMAIN toClient : toClient[m].newNick = NoNick
      BY <2>1 DEF RoomInv, EntersUnrenamed
    <2>3. Head(toClient).newNick = NoNick
      BY <1>2, <2>2, <1>1
    <2> QED
      BY <2>3
         DEF handlePresence, ErrorReceived, AvailableReceived, UnavailableReceived,
             Resource, Renamed
  <1>8. Entered' /\ NobodyLost' /\ NobodyMadeUp'
    BY ArrivalEntered, ArrivalLost, ArrivalMadeUp
  <1>9. JoinAnswered'
    <2>1. SUFFICES ASSUME startedJoining', Enters = {}
                   PROVE  \E i \in DOMAIN toClient' : toClient'[i].type # "unavailable"
      BY <1>1 DEF JoinAnswered, Enters
    <2>2. startedJoining /\ toClient[1].type = "unavailable"
      BY <2>1, OthersArrive
    <2>3. PICK i \in DOMAIN toClient : toClient[i].type # "unavailable"
      BY <2>1, <2>2 DEF RoomInv, JoinAnswered
    <2>4. i - 1 \in DOMAIN toClient' /\ toClient'[i - 1] = toClient[i]
      BY <1>3, <2>2, <2>3
    <2> QED
      BY <2>3, <2>4
  <1>10. ToldListed'
    BY OthersArrive DEF ToldListed
  <1> QED
    BY <1>4, <1>5, <1>6, <1>7, <1>8, <1>9, <1>10 DEF RoomInv

---------------------------------------------------------------------------
\* The room sends presences.

\* What is meant for a presence under way does not change by what is sent behind it.
LEMMA NickBefore ==
  ASSUME TypeOK, NEW w \in Seq(Presences), toClient' = toClient \o w, nick' = nick,
         NEW i \in 1 .. Len(toClient) + 1, NEW n
  PROVE  NickAt(i, n)' <=> NickAt(i, n)
  <1>1. \A m \in 1 .. i - 1 : toClient'[m] = toClient[m]
    BY DEF TypeOK
  <1>2. (\A m \in 1 .. i - 1 : toClient'[m].newNick = NoNick)
           <=> \A m \in 1 .. i - 1 : toClient[m].newNick = NoNick
    BY <1>1
  <1>3. ASSUME NEW k \in 1 .. i - 1
        PROVE  /\ toClient'[k] = toClient[k]
               /\ (\A m \in k + 1 .. i - 1 : toClient'[m].newNick = NoNick)
                     <=> \A m \in k + 1 .. i - 1 : toClient[m].newNick = NoNick
    <2>1. \A m \in k + 1 .. i - 1 : m \in 1 .. i - 1
      OBVIOUS
    <2> QED
      BY <1>1, <2>1
  <1>4. (\E k \in 1 .. i - 1 : /\ toClient'[k].newNick = n /\ n # NoNick
                               /\ \A m \in k + 1 .. i - 1 : toClient'[m].newNick = NoNick)
           <=> \E k \in 1 .. i - 1 : /\ toClient[k].newNick = n /\ n # NoNick
                                     /\ \A m \in k + 1 .. i - 1 : toClient[m].newNick = NoNick
    BY <1>3
  <1> QED
    BY <1>2, <1>4 DEF NickAt

\* What is sent and does not change the nickname leaves it, for all that comes later.
LEMMA NickBehind ==
  ASSUME TypeOK, NEW w \in Seq(Presences), toClient' = toClient \o w, nick' = nick,
         NEW j \in 0 .. Len(w), \A m \in 1 .. j : w[m].newNick = NoNick,
         NEW i \in Nat, i = Len(toClient) + 1 + j, NEW n
  PROVE  NickAt(i, n)' <=> NickAt(Len(toClient) + 1, n)
  <1> DEFINE L == Len(toClient)
  <1>1. L \in Nat /\ i - 1 = L + j /\ (L + 1) - 1 = L /\ j \in Nat
    BY DEF TypeOK
  <1>2. /\ \A m \in 1 .. L : toClient'[m] = toClient[m]
        /\ \A m \in L + 1 .. L + j : m - L \in 1 .. j /\ toClient'[m] = w[m - L]
    BY <1>1 DEF TypeOK
  <1>3. \A m \in L + 1 .. L + j : toClient'[m].newNick = NoNick
    BY <1>2
  <1> HIDE DEF L
  <1>4. /\ \A m \in 1 .. L + j : m \in 1 .. L \/ m \in L + 1 .. L + j
        /\ \A m \in 1 .. L : m \in 1 .. L + j
    BY <1>1
  <1>5. (\A m \in 1 .. L + j : toClient'[m].newNick = NoNick)
           <=> \A m \in 1 .. L : toClient[m].newNick = NoNick
    BY <1>2, <1>3, <1>4
  <1>6. ASSUME NEW k \in 1 .. L
        PROVE  (\A m \in k + 1 .. L + j : toClient'[m].newNick = NoNick)
                  <=> \A m \in k + 1 .. L : toClient[m].newNick = NoNick
    <2>1. /\ \A m \in k + 1 .. L + j : m \in k + 1 .. L \/ m \in L + 1 .. L + j
          /\ \A m \in k + 1 .. L : m \in k + 1 .. L + j /\ m \in 1 .. L
      BY <1>1
    <2>2. ASSUME \A m \in k + 1 .. L + j : toClient'[m].newNick = NoNick,
                 NEW m \in k + 1 .. L
          PROVE  toClient[m].newNick = NoNick
      <3>1. m \in k + 1 .. L + j /\ m \in 1 .. L
        BY <2>1
      <3>2. toClient'[m] = toClient[m] /\ toClient'[m].newNick = NoNick
        BY <1>2, <2>2, <3>1
      <3> QED
        BY <3>2
    <2>3. ASSUME \A m \in k + 1 .. L : toClient[m].newNick = NoNick,
                 NEW m \in k + 1 .. L + j
          PROVE  toClient'[m].newNick = NoNick
      BY <1>2, <1>3, <2>1, <2>3
    <2> QED
      BY <2>2, <2>3
  <1> DEFINE Thence(k) == /\ toClient'[k].newNick = n /\ n # NoNick
                          /\ \A m \in k + 1 .. L + j : toClient'[m].newNick = NoNick
             Here(k) == /\ toClient[k].newNick = n /\ n # NoNick
                        /\ \A m \in k + 1 .. L : toClient[m].newNick = NoNick
  <1>7. \A k \in 1 .. L : Thence(k) <=> Here(k)
    BY <1>2, <1>6
  <1>8. \A k \in L + 1 .. L + j : ~Thence(k)
    BY <1>3
  <1>9. NickAt(i, n)' <=> \/ n = nick /\ \A m \in 1 .. L + j : toClient'[m].newNick = NoNick
                          \/ \E k \in 1 .. L + j : Thence(k)
    BY <1>1 DEF NickAt
  <1>10. NickAt(L + 1, n) <=> \/ n = nick /\ \A m \in 1 .. L : toClient[m].newNick = NoNick
                              \/ \E k \in 1 .. L : Here(k)
    BY <1>1 DEF NickAt
  <1> HIDE DEF Here, Thence
  <1> QED
    BY <1>4, <1>5, <1>7, <1>8, <1>9, <1>10 DEF L

\* The places of what was under way stay what they were.
LEMMA PlacesBefore ==
  ASSUME TypeOK, NEW w \in Seq(Presences), toClient' = toClient \o w, nick' = nick,
         NEW i \in 1 .. Len(toClient)
  PROVE  /\ i \in OwnPlaces' <=> i \in OwnPlaces
         /\ i \in OwnShown' <=> i \in OwnShown
         /\ i \in OwnLeaves' <=> i \in OwnLeaves
         /\ myRole' = myRole => /\ i \in InRole' <=> i \in InRole
                                /\ i \in OffRole' <=> i \in OffRole
         /\ \A n : i \in Shown(n)' <=> i \in Shown(n)
         /\ \A n : i \in Gone(n)' <=> i \in Gone(n)
  <1>1. i \in DOMAIN toClient /\ i \in DOMAIN toClient' /\ toClient'[i] = toClient[i]
    BY DEF TypeOK
  <1>2. \A n : NickAt(i, n)' <=> NickAt(i, n)
    <2>1. i \in 1 .. Len(toClient) + 1
      BY DEF TypeOK
    <2> QED
      BY <2>1, NickBefore
  <1>3. i \in OwnPlaces' <=> i \in OwnPlaces
    BY <1>1, <1>2 DEF OwnPlaces
  <1>4. i \in OwnShown' <=> i \in OwnShown
    BY <1>1, <1>3 DEF OwnShown
  <1>5. i \in OwnLeaves' <=> i \in OwnLeaves
    BY <1>1, <1>3 DEF OwnLeaves
  <1>6. myRole' = myRole => /\ i \in InRole' <=> i \in InRole
                            /\ i \in OffRole' <=> i \in OffRole
    BY <1>1, <1>4, <1>5 DEF InRole, OffRole
  <1>7. \A n : i \in Shown(n)' <=> i \in Shown(n)
    BY <1>1 DEF Shown
  <1>8. \A n : i \in Gone(n)' <=> i \in Gone(n)
    BY <1>1, <1>5 DEF Gone
  <1> QED
    BY <1>3, <1>4, <1>5, <1>6, <1>7, <1>8

\* The places of what is sent.
LEMMA PlacesBehind ==
  ASSUME TypeOK, NEW w \in Seq(Presences), toClient' = toClient \o w,
         NEW j \in DOMAIN w, NEW i \in Nat, i = Len(toClient) + j
  PROVE  /\ i \in DOMAIN toClient' /\ toClient'[i] = w[j]
         /\ i \in OwnPlaces' <=> NickAt(i, w[j].from)'
         /\ i \in OwnShown' <=> NickAt(i, w[j].from)' /\ w[j].type = "available"
         /\ i \in OwnLeaves' <=> /\ NickAt(i, w[j].from)' /\ w[j].type = "unavailable"
                                 /\ w[j].newNick = NoNick
         /\ i \in InRole' <=> i \in OwnShown' /\ w[j].role = myRole'
         /\ i \in OffRole' <=> i \in OwnLeaves' \/ (i \in OwnShown' /\ w[j].role # myRole')
  <1>1. i \in DOMAIN toClient' /\ toClient'[i] = w[j]
    BY DEF TypeOK
  <1>2. i \in OwnPlaces' <=> NickAt(i, w[j].from)'
    <2>1. ASSUME NEW n, n = w[j].from PROVE i \in OwnPlaces' <=> NickAt(i, n)'
      <3>1. n = toClient'[i].from
        BY <1>1, <2>1
      <3>2. i \in OwnPlaces' <=> NickAt(i, toClient[i].from)'
        BY <1>1 DEF OwnPlaces
      <3>3. NickAt(i, n)' <=> NickAt(i, toClient[i].from)'
        BY <3>1 DEF NickAt
      <3> QED
        BY <3>2, <3>3
    <2> QED
      BY <2>1
  <1>3. i \in OwnShown' <=> i \in OwnPlaces' /\ w[j].type = "available"
    BY <1>1 DEF OwnShown
  <1>4. i \in OwnLeaves' <=> i \in OwnPlaces' /\ w[j].type = "unavailable" /\ w[j].newNick = NoNick
    BY <1>1 DEF OwnLeaves
  <1>5. i \in InRole' <=> i \in OwnShown' /\ w[j].role = myRole'
    BY <1>1 DEF InRole
  <1>6. i \in OffRole' <=> i \in OwnLeaves' \/ (i \in OwnShown' /\ w[j].role # myRole')
    BY <1>1 DEF OffRole
  <1> QED
    BY <1>1, <1>2, <1>3, <1>4, <1>5, <1>6

\* Whom a presence that is sent shows, and whom it takes away.
LEMMA SentIs ==
  ASSUME TypeOK, NEW w \in Seq(Presences), toClient' = toClient \o w, NEW n, NEW j \in DOMAIN w
  PROVE  /\ Len(toClient) + j \in Shown(n)' <=> w[j].type = "available" /\ w[j].from = n
         /\ Len(toClient) + j \in Gone(n)' <=> \/ w[j].type = "unavailable" /\ w[j].from = n
                                               \/ Len(toClient) + j \in OwnLeaves'
  <1>1. Len(toClient) + j \in DOMAIN toClient' /\ toClient'[Len(toClient) + j] = w[j]
    BY DEF TypeOK
  <1> QED
    BY <1>1 DEF Shown, Gone

\* The same of a place that goes by a name of its own.
LEMMA NamesBehind ==
  ASSUME TypeOK, NEW w \in Seq(Presences), toClient' = toClient \o w,
         NEW j \in DOMAIN w, NEW i \in Nat, i = Len(toClient) + j, NEW n
  PROVE  /\ i \in Shown(n)' <=> w[j].type = "available" /\ w[j].from = n
         /\ i \in Gone(n)' <=> \/ w[j].type = "unavailable" /\ w[j].from = n
                               \/ i \in OwnLeaves'
  BY SentIs

\* There are no others.
LEMMA PlacesBoth ==
  ASSUME TypeOK, NEW w \in Seq(Presences), toClient' = toClient \o w
  PROVE  /\ \A i \in DOMAIN toClient' : /\ i \in Nat \ {0}
                                        /\ \/ i \in 1 .. Len(toClient)
                                           \/ \E j \in DOMAIN w : i = Len(toClient) + j
         /\ OwnPlaces' \subseteq DOMAIN toClient'
         /\ OwnShown' \subseteq OwnPlaces' /\ OwnLeaves' \subseteq OwnPlaces'
         /\ InRole' \subseteq OwnPlaces' /\ OffRole' \subseteq OwnPlaces'
         /\ \A n : Shown(n)' \subseteq DOMAIN toClient' /\ Gone(n)' \subseteq DOMAIN toClient'
  <1>1. ASSUME NEW i \in DOMAIN toClient'
        PROVE  /\ i \in Nat \ {0}
               /\ \/ i \in 1 .. Len(toClient)
                  \/ \E j \in DOMAIN w : i = Len(toClient) + j
    <2>1. toClient \in Seq(Presences) /\ i \in 1 .. Len(toClient) + Len(w)
      BY DEF TypeOK
    <2>2. CASE i > Len(toClient)
      <3>1. i - Len(toClient) \in DOMAIN w /\ i = Len(toClient) + (i - Len(toClient))
        BY <2>1, <2>2
      <3> QED
        BY <2>1, <3>1
    <2> QED
      BY <2>1, <2>2
  <1>2. OwnPlaces' \subseteq DOMAIN toClient'
    BY DEF OwnPlaces
  <1>3. OwnShown' \subseteq OwnPlaces' /\ OwnLeaves' \subseteq OwnPlaces'
    BY DEF OwnShown, OwnLeaves
  <1>4. InRole' \subseteq OwnPlaces' /\ OffRole' \subseteq OwnPlaces'
    BY <1>3 DEF InRole, OffRole
  <1>5. \A n : Shown(n)' \subseteq DOMAIN toClient' /\ Gone(n)' \subseteq DOMAIN toClient'
    BY <1>2, <1>3 DEF Shown, Gone
  <1> QED
    BY <1>1, <1>2, <1>3, <1>4, <1>5

\* Nothing that is sent takes an occupant away, or shows it; or the last of it does.
LEMMA SentOfOther ==
  ASSUME TypeOK, NEW w \in Seq(Presences), toClient' = toClient \o w, nick' = nick, NEW n
  PROVE  /\ (\A j \in DOMAIN w : Len(toClient) + j \notin Gone(n)')
               => /\ Gone(n)' = Gone(n)
                  /\ LastOn(Shown(n), Gone(n)) => LastOn(Shown(n)', Gone(n)')
         /\ (\A j \in DOMAIN w : Len(toClient) + j \notin Shown(n)')
               => /\ LastOn(Shown(n)', Gone(n)') => LastOn(Shown(n), Gone(n))
                  /\ Gone(n)' = {} => Gone(n) = {}
         /\ (\E j \in DOMAIN w : /\ Len(toClient) + j \in Shown(n)'
                                 /\ \A k \in DOMAIN w : Len(toClient) + k \in Gone(n)' => k < j)
               => LastOn(Shown(n)', Gone(n)')
         /\ (\E j \in DOMAIN w : /\ Len(toClient) + j \in Gone(n)'
                                 /\ \A k \in DOMAIN w : Len(toClient) + k \in Shown(n)' => k < j)
               => Gone(n)' # {} /\ ~LastOn(Shown(n)', Gone(n)')
  <1> DEFINE L == Len(toClient)
  <1>1. L \in Nat /\ DOMAIN toClient = 1 .. L /\ DOMAIN w \subseteq Nat \ {0}
    BY DEF TypeOK
  <1>2. Shown(n) \subseteq 1 .. L /\ Gone(n) \subseteq 1 .. L
    BY <1>1, PlacesAre
  <1>3. Shown(n)' \in SUBSET (Nat \ {0}) /\ Gone(n)' \in SUBSET (Nat \ {0})
    BY PlacesBoth
  <1>4. \A i \in Shown(n)' \cup Gone(n)' : i \in 1 .. L \/ \E j \in DOMAIN w : i = L + j
    BY PlacesBoth
  <1>5. /\ \A i \in 1 .. L : i \in Shown(n)' <=> i \in Shown(n)
        /\ \A i \in 1 .. L : i \in Gone(n)' <=> i \in Gone(n)
    BY PlacesBefore
  <1> HIDE DEF L
  <1>6. ASSUME \A j \in DOMAIN w : L + j \notin Gone(n)'
        PROVE  Gone(n)' = Gone(n) /\ (LastOn(Shown(n), Gone(n)) => LastOn(Shown(n)', Gone(n)'))
    <2>1. Gone(n)' \subseteq 1 .. L
      BY <1>4, <1>6
    <2> QED
      BY <1>2, <1>5, <2>1 DEF LastOn
  <1>7. ASSUME \A j \in DOMAIN w : L + j \notin Shown(n)'
        PROVE  /\ LastOn(Shown(n)', Gone(n)') => LastOn(Shown(n), Gone(n))
               /\ Gone(n)' = {} => Gone(n) = {}
    <2>1. Shown(n)' \subseteq 1 .. L
      BY <1>4, <1>7
    <2>2. Shown(n)' = Shown(n) /\ Gone(n) \subseteq Gone(n)'
      BY <1>2, <1>5, <2>1
    <2> QED
      BY <2>2 DEF LastOn
  <1>8. ASSUME NEW j \in DOMAIN w, L + j \in Shown(n)',
               \A k \in DOMAIN w : L + k \in Gone(n)' => k < j
        PROVE  LastOn(Shown(n)', Gone(n)')
    <2>1. ASSUME NEW k \in Gone(n)' PROVE k < L + j
      BY <1>1, <1>4, <1>8
    <2> QED
      BY <1>8, <2>1 DEF LastOn
  <1>9. ASSUME NEW j \in DOMAIN w, L + j \in Gone(n)',
               \A k \in DOMAIN w : L + k \in Shown(n)' => k < j
        PROVE  Gone(n)' # {} /\ ~LastOn(Shown(n)', Gone(n)')
    <2>1. ASSUME NEW k \in Shown(n)' PROVE k < L + j
      BY <1>1, <1>4, <1>9
    <2>2. L + j \in Nat /\ Shown(n)' \subseteq Nat
      BY <1>1, <1>3
    <2> QED
      BY <1>9, <2>1, <2>2 DEF LastOn
  <1> QED
    BY <1>6, <1>7, <1>8, <1>9 DEF L

\* Nothing that is sent is the client's own; or the last of it is.
LEMMA SentOfOwn ==
  ASSUME TypeOK, NEW w \in Seq(Presences), toClient' = toClient \o w, nick' = nick
  PROVE  /\ (\A j \in DOMAIN w : Len(toClient) + j \notin OwnShown' \cup OwnLeaves')
               => /\ OwnShown' = OwnShown /\ OwnLeaves' = OwnLeaves
                  /\ myRole' = myRole => InRole' = InRole /\ OffRole' = OffRole
         /\ (\E j \in DOMAIN w : /\ Len(toClient) + j \in InRole'
                                 /\ \A k \in DOMAIN w : Len(toClient) + k \in OffRole' => k < j)
               => LastOn(InRole', OffRole')
         /\ (\E j \in DOMAIN w : /\ Len(toClient) + j \in OwnLeaves'
                                 /\ \A k \in DOMAIN w : Len(toClient) + k \in OwnShown' => k < j)
               => OwnLeaves' # {} /\ ~LastOn(OwnShown', OwnLeaves')
  <1> DEFINE L == Len(toClient)
  <1>1. L \in Nat /\ DOMAIN toClient = 1 .. L /\ DOMAIN w \subseteq Nat \ {0}
    BY DEF TypeOK
  <1>2. /\ OwnShown \subseteq 1 .. L /\ OwnLeaves \subseteq 1 .. L
        /\ InRole \subseteq 1 .. L /\ OffRole \subseteq 1 .. L
    BY <1>1, PlacesAre
  <1>3. /\ OwnPlaces' \subseteq Nat
        /\ \A i \in OwnPlaces' : i \in 1 .. L \/ \E j \in DOMAIN w : i = L + j
    BY PlacesBoth
  <1>4. /\ OwnShown' \subseteq OwnPlaces' /\ OwnLeaves' \subseteq OwnPlaces'
        /\ InRole' \subseteq OwnPlaces' /\ OffRole' \subseteq OwnPlaces'
        /\ InRole' \subseteq OwnShown' /\ OffRole' \subseteq OwnShown' \cup OwnLeaves'
    BY PlacesBoth DEF InRole, OffRole
  <1>5. \A i \in 1 .. L :
           /\ i \in OwnShown' <=> i \in OwnShown
           /\ i \in OwnLeaves' <=> i \in OwnLeaves
           /\ myRole' = myRole => /\ i \in InRole' <=> i \in InRole
                                  /\ i \in OffRole' <=> i \in OffRole
    BY PlacesBefore
  <1> HIDE DEF L
  <1>6. ASSUME \A j \in DOMAIN w : L + j \notin OwnShown' \cup OwnLeaves'
        PROVE  /\ OwnShown' = OwnShown /\ OwnLeaves' = OwnLeaves
               /\ myRole' = myRole => InRole' = InRole /\ OffRole' = OffRole
    <2>1. OwnShown' \cup OwnLeaves' \subseteq 1 .. L
      BY <1>3, <1>4, <1>6
    <2>2. OwnShown' = OwnShown /\ OwnLeaves' = OwnLeaves
      BY <1>2, <1>4, <1>5, <2>1
    <2>3. myRole' = myRole => InRole' = InRole /\ OffRole' = OffRole
      BY <1>2, <1>4, <1>5, <2>1
    <2> QED
      BY <2>2, <2>3
  <1>7. ASSUME NEW j \in DOMAIN w, L + j \in InRole',
               \A k \in DOMAIN w : L + k \in OffRole' => k < j
        PROVE  LastOn(InRole', OffRole')
    <2>1. ASSUME NEW k \in OffRole' PROVE k < L + j
      BY <1>1, <1>3, <1>4, <1>7
    <2> QED
      BY <1>7, <2>1 DEF LastOn
  <1>8. ASSUME NEW j \in DOMAIN w, L + j \in OwnLeaves',
               \A k \in DOMAIN w : L + k \in OwnShown' => k < j
        PROVE  OwnLeaves' # {} /\ ~LastOn(OwnShown', OwnLeaves')
    <2>1. ASSUME NEW k \in OwnShown' PROVE k < L + j
      BY <1>1, <1>3, <1>4, <1>8
    <2>2. L + j \in Nat /\ OwnShown' \subseteq Nat
      BY <1>1, <1>3, <1>4
    <2> QED
      BY <1>8, <2>1, <2>2 DEF LastOn
  <1> QED
    BY <1>6, <1>7, <1>8 DEF L

\* What is sent and does not change the nickname: to all of it the nickname is
\* the one that was meant for it before.
LEMMA PlainWords ==
  ASSUME RoomInv, NEW w \in Seq(Presences), toClient' = toClient \o w, nick' = nick,
         \A j \in DOMAIN w : w[j].newNick = NoNick
  PROVE  /\ Renames'
         /\ \A j \in DOMAIN w, i \in Nat : i = Len(toClient) + j
               => \A n : NickAt(i, n)' <=> NickAt(Len(toClient) + 1, n)
         /\ (me' # NoNick => NickAt(Len(toClient) + 1, me')) => Called'
  <1>1. TypeOK /\ Len(toClient) \in Nat /\ DOMAIN w = 1 .. Len(w) /\ Len(w) \in Nat
        /\ DOMAIN toClient = 1 .. Len(toClient)
    BY DEF RoomInv, TypeOK
  <1>2. ASSUME NEW j \in 0 .. Len(w), NEW n, NEW i \in Nat, i = Len(toClient) + 1 + j
        PROVE  NickAt(i, n)' <=> NickAt(Len(toClient) + 1, n)
    <2>1. \A m \in 1 .. j : m \in DOMAIN w
      BY <1>1
    <2>2. \A m \in 1 .. j : w[m].newNick = NoNick
      BY <2>1
    <2> QED
      BY <1>1, <1>2, <2>2, NickBehind
  <1>3. ASSUME NEW j \in DOMAIN w, NEW n, NEW i \in Nat, i = Len(toClient) + j
        PROVE  NickAt(i, n)' <=> NickAt(Len(toClient) + 1, n)
    <2>1. j - 1 \in 0 .. Len(w) /\ i = Len(toClient) + 1 + (j - 1)
      BY <1>1, <1>3
    <2> QED
      BY <1>2, <2>1
  <1>4. Renames'
    <2>1. SUFFICES ASSUME NEW i \in DOMAIN toClient', toClient'[i].newNick # NoNick
                   PROVE  /\ toClient'[i].type = "unavailable" /\ i \in OwnPlaces'
                          /\ toClient'[i].newNick # toClient'[i].from
      BY DEF Renames
    <2>2. i \in 1 .. Len(toClient)
      <3>1. ASSUME NEW j \in DOMAIN w, i = Len(toClient) + j PROVE FALSE
        <4>1. i \in Nat
          BY <1>1, <3>1
        <4>2. toClient'[i] = w[j]
          BY <1>1, <3>1, <4>1, PlacesBehind
        <4> QED
          BY <2>1, <4>2
      <3> QED
        BY <1>1, <3>1, PlacesBoth
    <2>3. toClient'[i] = toClient[i] /\ i \in DOMAIN toClient
      BY <1>1, <2>2 DEF TypeOK
    <2>4. i \in OwnPlaces /\ toClient[i].type = "unavailable"
          /\ toClient[i].newNick # toClient[i].from
      BY <2>1, <2>3 DEF RoomInv, Renames
    <2>5. i \in OwnPlaces'
      BY <1>1, <2>2, <2>4, PlacesBefore
    <2> QED
      BY <2>3, <2>4, <2>5
  <1>5. ASSUME me' # NoNick => NickAt(Len(toClient) + 1, me')
        PROVE  Called'
    <2>1. SUFFICES ASSUME NEW n, n = me', n # NoNick, NEW i, i = Len(toClient') + 1
                   PROVE  NickAt(i, n)'
      <3>1. \A n, i : n = me' /\ i = Len(toClient') + 1 /\ NickAt(i, n)'
                 => NickAt(Len(toClient) + 1, me)'
        BY DEF NickAt
      <3> QED
        BY <2>1, <3>1 DEF Called
    <2>2. i = Len(toClient) + 1 + Len(w) /\ i \in Nat /\ Len(w) \in 0 .. Len(w)
      <3>1. toClient \in Seq(Presences)
        BY <1>1 DEF TypeOK
      <3> QED
        BY <1>1, <2>1, <3>1
    <2>3. NickAt(Len(toClient) + 1, n)
      BY <1>5, <2>1
    <2> QED
      BY <1>2, <2>2, <2>3
  <1> QED
    BY <1>3, <1>4, <1>5

\* The application will know every occupant.
Known == \A n \in Inside : InTheEnd(n \in told /\ ~startedJoining, Shown(n), Gone(n))

\* The room says something that is not about the client.
LEMMA UnheardKeeps ==
  ASSUME RoomInv, NEW w \in Seq(Presences), toClient' = toClient \o w, nick' = nick,
         UNCHANGED <<isJoined, role, me>>, me # NoNick => myRole' = myRole,
         \A j \in DOMAIN w : /\ w[j].newNick = NoNick
                             /\ w[j].type = "error" \/ me \notin {NoNick, w[j].from}
  PROVE  /\ Renames' /\ Called' /\ Entered'
         /\ \A j \in DOMAIN w : Len(toClient) + j \notin OwnLeaves'
  <1>1. TypeOK /\ Len(toClient) \in Nat /\ Called
    BY DEF RoomInv, TypeOK
  <1>2. Renames' /\ Called'
    BY <1>1, PlainWords DEF Called
  <1>3. ASSUME NEW j \in DOMAIN w, NEW i \in Nat, i = Len(toClient) + j
        PROVE  i \notin OwnShown' /\ i \notin OwnLeaves'
    <2>1. CASE w[j].type = "error"
      BY <1>1, <1>3, <2>1, PlacesBehind
    <2>2. CASE me \notin {NoNick, w[j].from}
      <3>1. NickAt(Len(toClient) + 1, me)
        BY <1>1, <2>2 DEF Called
      <3>2. ~NickAt(Len(toClient) + 1, w[j].from)
        <4>1. Len(toClient) + 1 \in Nat
          BY <1>1
        <4> QED
          BY <1>1, <2>2, <3>1, <4>1, NickUnique
      <3>3. \A n : NickAt(i, n)' <=> NickAt(Len(toClient) + 1, n)
        <4>1. \A k \in DOMAIN w : w[k].newNick = NoNick
          OBVIOUS
        <4> QED
          BY <1>3, <4>1, PlainWords
      <3>4. ~NickAt(i, w[j].from)'
        BY <3>2, <3>3
      <3> QED
        BY <1>1, <1>3, <3>4, PlacesBehind
    <2> QED
      BY <2>1, <2>2
  <1>4. \A j \in DOMAIN w : Len(toClient) + j \in Nat
    BY <1>1
  <1>5. \A j \in DOMAIN w : /\ Len(toClient) + j \notin OwnShown'
                            /\ Len(toClient) + j \notin OwnLeaves'
    BY <1>3, <1>4
  <1>6. /\ OwnShown' = OwnShown /\ OwnLeaves' = OwnLeaves
        /\ myRole' = myRole => InRole' = InRole /\ OffRole' = OffRole
    BY <1>1, <1>5, SentOfOwn
  <1> QED
    BY <1>2, <1>5, <1>6 DEF RoomInv, Entered

\* The room shows the client itself, behind others.
LEMMA ShownKeeps ==
  ASSUME RoomInv, NEW w \in Seq(Presences), toClient' = toClient \o w, nick' = nick,
         NEW n, n # NoNick, me' = n, NickAt(Len(toClient) + 1, n),
         Len(w) \in DOMAIN w, w[Len(w)] = Available(n, myRole'),
         \A j \in DOMAIN w : /\ w[j].newNick = NoNick /\ w[j].type = "available"
                             /\ j = Len(w) \/ w[j].from # n
  PROVE  /\ Renames' /\ Called' /\ Entered'
         /\ \A j \in DOMAIN w : Len(toClient) + j \notin OwnLeaves'
  <1>1. TypeOK /\ Len(toClient) \in Nat /\ Len(toClient) + 1 \in Nat
    BY DEF RoomInv, TypeOK
  <1>2. \A j \in DOMAIN w : w[j].newNick = NoNick
    OBVIOUS
  <1>3. Renames' /\ Called'
    BY <1>2, PlainWords
  <1>4. ASSUME NEW j \in DOMAIN w, NEW i \in Nat, i = Len(toClient) + j
        PROVE  \A x : NickAt(i, x)' <=> x = n
    <2>1. \A x : NickAt(i, x)' <=> NickAt(Len(toClient) + 1, x)
      BY <1>2, <1>4, PlainWords
    <2>2. \A x : NickAt(Len(toClient) + 1, x) <=> x = n
      BY <1>1, NickUnique
    <2> QED
      BY <2>1, <2>2
  <1>5. ASSUME NEW j \in DOMAIN w, NEW i \in Nat, i = Len(toClient) + j
        PROVE  /\ i \notin OwnLeaves' /\ (i \in OffRole' => j # Len(w))
               /\ j = Len(w) => i \in InRole'
    <2>1. /\ i \in OwnShown' <=> NickAt(i, w[j].from)' /\ w[j].type = "available"
          /\ i \in OwnLeaves' => w[j].type = "unavailable"
          /\ i \in InRole' <=> i \in OwnShown' /\ w[j].role = myRole'
          /\ i \in OffRole' <=> i \in OwnLeaves' \/ (i \in OwnShown' /\ w[j].role # myRole')
      BY <1>1, <1>5, PlacesBehind
    <2>2. NickAt(i, w[j].from)' <=> w[j].from = n
      BY <1>4, <1>5
    <2>3. w[j].type = "available" /\ w[j].type # "unavailable"
      OBVIOUS
    <2>4. j = Len(w) => w[j].from = n /\ w[j].role = myRole'
      BY DEF Available
    <2> QED
      BY <2>1, <2>2, <2>3, <2>4
  <1>6. \A j \in DOMAIN w : Len(toClient) + j \in Nat /\ j <= Len(w) /\ j \in Nat
    BY <1>1
  <1>7. \A j \in DOMAIN w : Len(toClient) + j \notin OwnLeaves'
    BY <1>5, <1>6
  <1>8. Len(toClient) + Len(w) \in InRole'
    BY <1>5, <1>6
  <1>9. \A k \in DOMAIN w : Len(toClient) + k \in OffRole' => k < Len(w)
    <2>1. ASSUME NEW k \in DOMAIN w, Len(toClient) + k \in OffRole' PROVE k < Len(w)
      <3>1. k # Len(w) /\ k <= Len(w) /\ k \in Nat /\ Len(w) \in Nat
        BY <1>5, <1>6, <2>1
      <3> QED
        BY <3>1
    <2> QED
      BY <2>1
  <1>10. LastOn(InRole', OffRole')
    BY <1>1, <1>8, <1>9, SentOfOwn
  <1> QED
    BY <1>3, <1>7, <1>10 DEF Entered, InTheEnd

\* The room lets the client out.
LEMMA LeaveKeeps ==
  ASSUME RoomInv, nick' = nick, me # NoNick, me' = NoNick,
         toClient' = toClient \o <<Unavailable(me, NoNick, "none")>>
  PROVE  /\ Renames' /\ Called' /\ Entered' /\ Known'
         /\ NobodyMadeUp' /\ OwnLeaves' # {}
  <1> DEFINE L == Len(toClient)
  <1>1. TypeOK /\ L \in Nat /\ L + 1 \in Nat /\ me \in Nicks /\ Called
    BY DEF RoomInv, TypeOK
  <1>2. PICK w : w = <<Unavailable(me, NoNick, "none")>>
    OBVIOUS
  <1>3. /\ w \in Seq(Presences) /\ toClient' = toClient \o w /\ DOMAIN w = {1} /\ Len(w) = 1
        /\ w[1] = Unavailable(me, NoNick, "none")
    <2>1. Unavailable(me, NoNick, "none") \in Presences
      BY <1>1, PresencesMade
    <2> QED
      BY <1>2, <2>1
  <1>4. w[1].type = "unavailable" /\ w[1].from = me /\ w[1].newNick = NoNick
    BY <1>3 DEF Unavailable
  <1>5. \A j \in DOMAIN w : w[j].newNick = NoNick
    BY <1>3, <1>4
  <1>6. Renames' /\ Called'
    BY <1>3, <1>5, PlainWords
  <1>7. ASSUME NEW i \in Nat, i = L + 1
        PROVE  i \in OwnLeaves' /\ i \notin OwnShown' /\ \A n : i \in Gone(n)' /\ i \notin Shown(n)'
    <2>1. NickAt(L + 1, me) /\ 1 \in DOMAIN w
      BY <1>1, <1>3 DEF Called
    <2>2. \A n : NickAt(i, n)' <=> NickAt(L + 1, n)
      BY <1>3, <1>5, <1>7, <2>1, PlainWords
    <2>3. NickAt(i, w[1].from)'
      BY <1>4, <2>1, <2>2
    <2>4. i = Len(toClient) + 1 /\ w \in Seq(Presences) /\ TypeOK /\ toClient' = toClient \o w
      BY <1>1, <1>3, <1>7
    <2>5. /\ i \in OwnShown' => w[1].type = "available"
          /\ i \in OwnLeaves' <=> /\ NickAt(i, w[1].from)' /\ w[1].type = "unavailable"
                                  /\ w[1].newNick = NoNick
      BY <2>1, <2>4, PlacesBehind
    <2>6. ASSUME NEW n
          PROVE  /\ i \in Shown(n)' => w[1].type = "available"
                 /\ i \in OwnLeaves' => i \in Gone(n)'
      BY <2>1, <2>4, NamesBehind
    <2> QED
      BY <1>4, <2>3, <2>5, <2>6
  <1>8. /\ L + 1 \in OwnLeaves' /\ L + 1 \notin OwnShown'
        /\ \A n : L + 1 \in Gone(n)' /\ L + 1 \notin Shown(n)'
    BY <1>1, <1>7
  <1>9. OwnLeaves' # {} /\ ~LastOn(OwnShown', OwnLeaves')
    BY <1>1, <1>3, <1>8, SentOfOwn
  <1>10. \A n : Gone(n)' # {} /\ ~LastOn(Shown(n)', Gone(n)')
    BY <1>1, <1>3, <1>8, SentOfOther
  <1>11. Entered'
    BY <1>9 DEF Entered, InTheEnd
  <1>12. NobodyMadeUp'
    BY <1>10 DEF NobodyMadeUp, InTheEnd
  <1>13. Known'
    BY DEF Known, Inside
  <1> QED
    BY <1>9, <1>6, <1>11, <1>12, <1>13

\* What is left of the changes of nickname under way.
LEMMA RenamesBefore ==
  ASSUME RoomInv, NEW w \in Seq(Presences), toClient' = toClient \o w, nick' = nick,
         NEW i \in 1 .. Len(toClient), toClient'[i].newNick # NoNick
  PROVE  /\ toClient'[i].type = "unavailable" /\ i \in OwnPlaces'
         /\ toClient'[i].newNick # toClient'[i].from
  <1>1. TypeOK /\ toClient'[i] = toClient[i] /\ i \in DOMAIN toClient
    BY DEF RoomInv, TypeOK
  <1>2. /\ i \in OwnPlaces /\ toClient[i].type = "unavailable"
        /\ toClient[i].newNick # toClient[i].from
    BY <1>1 DEF RoomInv, Renames
  <1>3. i \in OwnPlaces'
    BY <1>1, <1>2, PlacesBefore
  <1> QED
    BY <1>1, <1>2, <1>3

\* The room changes the nickname of the client.
LEMMA RenameKeeps ==
  ASSUME RoomInv, nick' = nick, me # NoNick, NEW new \in Nicks, new # me, new \notin others,
         UNCHANGED <<told, startedJoining, others>>, Rename(new)
  PROVE  /\ Renames' /\ Called' /\ Entered' /\ (Known => Known')
         /\ (TakenBack \/ BeforeEntry => TakenBack' \/ BeforeEntry') => NobodyMadeUp'
  <1>1. PICK L \in Nat : L = Len(toClient)
    BY DEF RoomInv, TypeOK
  <1>2. PICK old \in Nicks : old = me
    BY DEF RoomInv, TypeOK
  <1>3. PICK w : w = <<Unavailable(old, new, myRole), Available(new, myRole)>>
    OBVIOUS
  <1>4. /\ TypeOK /\ Called /\ old # NoNick /\ new # NoNick /\ new # old /\ old \notin others
        /\ me' = new /\ myRole' = myRole /\ others' = others
        /\ told' = told /\ startedJoining' = startedJoining
    BY <1>2, NicksAssumption DEF RoomInv, TypeOK, Rename, NamesApart
  <1>5. /\ w \in Seq(Presences) /\ DOMAIN w = {1, 2} /\ Len(w) = 2
        /\ w[1] = Unavailable(old, new, myRole) /\ w[2] = Available(new, myRole)
    <2>1. Unavailable(old, new, myRole) \in Presences /\ Available(new, myRole) \in Presences
      BY <1>2, PresencesMade DEF RoomInv, TypeOK
    <2> QED
      BY <1>3, <2>1
  <1>6. toClient' = toClient \o w
    BY <1>2, <1>3 DEF Rename, Says
  <1>7. /\ w[1].type = "unavailable" /\ w[1].from = old /\ w[1].newNick = new
        /\ w[2].type = "available" /\ w[2].from = new /\ w[2].newNick = NoNick
        /\ w[2].role = myRole
    BY <1>5 DEF Unavailable, Available
  <1>8. toClient'[L + 1] = w[1] /\ toClient'[L + 2] = w[2]
    <2>1. toClient \in Seq(Presences) /\ L = Len(toClient)
      BY <1>1, <1>4 DEF TypeOK
    <2>2. \A j \in DOMAIN w : (toClient \o w)[L + j] = w[j]
      BY <1>5, <2>1, ConcatIs
    <2> QED
      BY <1>5, <1>6, <2>2
  <1>9. NickAt(L + 1, old)'
    <2>1. PICK i \in Nat : i = L + 1
      OBVIOUS
    <2>2. NickAt(i, old) /\ i \in 1 .. Len(toClient) + 1
      BY <1>1, <1>2, <1>4, <2>1 DEF Called
    <2>3. NickAt(i, old)'
      BY <1>4, <1>5, <1>6, <2>2, NickBefore
    <2> QED
      BY <2>1, <2>3
  <1>10. \A x : (NickAt(L + 2, x)' <=> x = new) /\ (NickAt(L + 3, x)' <=> x = new)
    <2>1. /\ 1 .. (L + 2) - 1 = (1 .. L) \cup {L + 1}
          /\ 1 .. (L + 3) - 1 = (1 .. L) \cup {L + 1, L + 2}
          /\ (L + 1) + 1 .. (L + 2) - 1 = {} /\ (L + 1) + 1 .. (L + 3) - 1 = {L + 2}
      OBVIOUS
    <2>2. \A k \in 1 .. L : L + 1 \in k + 1 .. (L + 2) - 1 /\ L + 1 \in k + 1 .. (L + 3) - 1
      OBVIOUS
    <2>3. toClient'[L + 1].newNick = new /\ toClient'[L + 2].newNick = NoNick
      BY <1>7, <1>8
    <2>4. NickAt(L + 2, new)' /\ NickAt(L + 3, new)'
      BY <1>4, <2>1, <2>3 DEF NickAt
    <2>5. ASSUME NEW x, NickAt(L + 2, x)' PROVE x = new
      BY <1>4, <2>1, <2>2, <2>3, <2>5 DEF NickAt
    <2>6. ASSUME NEW x, NickAt(L + 3, x)' PROVE x = new
      BY <1>4, <2>1, <2>2, <2>3, <2>6 DEF NickAt
    <2> QED
      BY <2>4, <2>5, <2>6
  <1>11. ASSUME NEW j \in DOMAIN w, NEW i \in Nat, i = L + j
         PROVE  /\ i \in OwnPlaces' <=> NickAt(i, w[j].from)'
                /\ i \in OwnShown' <=> NickAt(i, w[j].from)' /\ w[j].type = "available"
                /\ i \in OwnLeaves' <=> /\ NickAt(i, w[j].from)' /\ w[j].type = "unavailable"
                                        /\ w[j].newNick = NoNick
                /\ i \in InRole' <=> i \in OwnShown' /\ w[j].role = myRole'
                /\ i \in OffRole' <=> i \in OwnLeaves' \/ (i \in OwnShown' /\ w[j].role # myRole')
                /\ \A n : i \in Shown(n)' <=> w[j].type = "available" /\ w[j].from = n
                /\ \A n : i \in Gone(n)' <=> \/ w[j].type = "unavailable" /\ w[j].from = n
                                             \/ i \in OwnLeaves'
    <2>1. i = Len(toClient) + j
      BY <1>1, <1>11
    <2>2. TypeOK
      BY <1>4
    <2>3. w \in Seq(Presences)
      BY <1>5
    <2>4. /\ i \in OwnPlaces' <=> NickAt(i, w[j].from)'
          /\ i \in OwnShown' <=> NickAt(i, w[j].from)' /\ w[j].type = "available"
      BY <1>6, <2>1, <2>2, <2>3, PlacesBehind
    <2>5. i \in OwnLeaves' <=> /\ NickAt(i, w[j].from)' /\ w[j].type = "unavailable"
                               /\ w[j].newNick = NoNick
      BY <1>6, <2>1, <2>2, <2>3, PlacesBehind
    <2>6. /\ i \in InRole' <=> i \in OwnShown' /\ w[j].role = myRole'
          /\ i \in OffRole' <=> i \in OwnLeaves' \/ (i \in OwnShown' /\ w[j].role # myRole')
      BY <1>6, <2>1, <2>2, <2>3, PlacesBehind
    <2>7. ASSUME NEW n
          PROVE  /\ i \in Shown(n)' <=> w[j].type = "available" /\ w[j].from = n
                 /\ i \in Gone(n)' <=> \/ w[j].type = "unavailable" /\ w[j].from = n
                                       \/ i \in OwnLeaves'
      BY <1>6, <2>1, <2>2, <2>3, NamesBehind
    <2> QED
      BY <2>4, <2>5, <2>6, <2>7
  <1>12. L + 1 \in Nat /\ L + 2 \in Nat /\ 1 \in DOMAIN w /\ 2 \in DOMAIN w
    BY <1>5
  <1>13. /\ L + 1 \in OwnPlaces' /\ L + 1 \notin OwnShown' /\ L + 1 \notin OwnLeaves'
         /\ \A n : L + 1 \notin Shown(n)' /\ (L + 1 \in Gone(n)' <=> n = old)
         /\ L + 2 \in InRole' /\ L + 2 \notin OffRole' /\ L + 2 \notin OwnLeaves'
         /\ \A n : L + 2 \notin Gone(n)' /\ (L + 2 \in Shown(n)' <=> n = new)
    <2>1. /\ L + 1 \in OwnPlaces' /\ L + 1 \notin OwnShown' /\ L + 1 \notin OwnLeaves'
          /\ \A n : L + 1 \notin Shown(n)' /\ (L + 1 \in Gone(n)' <=> n = old)
      <3>1. NickAt(L + 1, w[1].from)'
        BY <1>7, <1>9
      <3> QED
        BY <1>4, <1>7, <1>11, <1>12, <3>1
    <2>2. /\ L + 2 \in InRole' /\ L + 2 \notin OffRole' /\ L + 2 \notin OwnLeaves'
          /\ \A n : L + 2 \notin Gone(n)' /\ (L + 2 \in Shown(n)' <=> n = new)
      <3>1. NickAt(L + 2, w[2].from)'
        BY <1>7, <1>10
      <3> QED
        BY <1>4, <1>7, <1>11, <1>12, <3>1
    <2> QED
      BY <2>1, <2>2
  <1>14. Renames'
    <2>1. ASSUME NEW i \in DOMAIN toClient', toClient'[i].newNick # NoNick
          PROVE  /\ toClient'[i].type = "unavailable" /\ i \in OwnPlaces'
                 /\ toClient'[i].newNick # toClient'[i].from
      <3>1. CASE i \in 1 .. Len(toClient)
        BY <1>5, <1>6, <2>1, <3>1, RenamesBefore
      <3>2. CASE i = L + 1
        BY <1>4, <1>7, <1>8, <1>13, <3>2
      <3>3. CASE i = L + 2
        BY <1>7, <1>8, <2>1, <3>3
      <3> QED
        BY <1>1, <1>4, <1>5, <1>6, <3>1, <3>2, <3>3, PlacesBoth
    <2> QED
      BY <2>1 DEF Renames
  <1>15. Called'
    <2>1. Len(toClient') = L + 2
      <3>1. toClient \in Seq(Presences) /\ w \in Seq(Presences) /\ L = Len(toClient) /\ Len(w) = 2
        BY <1>1, <1>4, <1>5 DEF TypeOK
      <3>2. toClient \in Seq(Presences) /\ w \in Seq(Presences)
        BY <3>1
      <3>3. Len(toClient \o w) = Len(toClient) + Len(w)
        BY <3>2, ConcatIs
      <3> QED
        BY <1>6, <3>1, <3>3
    <2>2. ASSUME NEW i, i = Len(toClient') + 1 PROVE NickAt(i, new)'
      <3>1. i = L + 3
        BY <2>1, <2>2
      <3> QED
        BY <1>10, <3>1
    <2>3. \A i : i = Len(toClient') + 1 /\ NickAt(i, new)' => NickAt(Len(toClient) + 1, me)'
      BY <1>4 DEF NickAt
    <2> QED
      BY <2>2, <2>3 DEF Called
  <1>16. Entered'
    <2>1. /\ Len(toClient) + 2 \in InRole' /\ 2 \in DOMAIN w
          /\ \A k \in DOMAIN w : Len(toClient) + k \in OffRole' => k < 2
      BY <1>1, <1>5, <1>13
    <2>2. LastOn(InRole', OffRole')
      BY <1>4, <1>5, <1>6, <2>1, SentOfOwn
    <2> QED
      BY <1>4, <2>2 DEF Entered, InTheEnd
  <1>17. ASSUME Known PROVE Known'
    <2>1. SUFFICES ASSUME NEW n \in others \cup {new}
                   PROVE  InTheEnd(n \in told /\ ~startedJoining, Shown(n)', Gone(n)')
      BY <1>4 DEF Known, Inside
    <2>2. CASE n = new
      <3>1. /\ Len(toClient) + 2 \in Shown(n)' /\ 2 \in DOMAIN w
            /\ \A k \in DOMAIN w : Len(toClient) + k \in Gone(n)' => k < 2
        BY <1>1, <1>5, <1>13, <2>2
      <3>2. LastOn(Shown(n)', Gone(n)')
        BY <1>4, <1>5, <1>6, <3>1, SentOfOther
      <3> QED
        BY <3>2 DEF InTheEnd
    <2>3. CASE n \in others
      <3>1. \A j \in DOMAIN w : Len(toClient) + j \notin Gone(n)'
        BY <1>1, <1>4, <1>5, <1>13, <2>3
      <3>2. /\ Gone(n)' = Gone(n)
            /\ LastOn(Shown(n), Gone(n)) => LastOn(Shown(n)', Gone(n)')
        BY <1>4, <1>5, <1>6, <3>1, SentOfOther
      <3>3. InTheEnd(n \in told /\ ~startedJoining, Shown(n), Gone(n))
        BY <1>17, <2>3 DEF Known, Inside
      <3> QED
        BY <3>2, <3>3 DEF InTheEnd
    <2> QED
      BY <2>1, <2>2, <2>3
  <1>18. ASSUME TakenBack \/ BeforeEntry => TakenBack' \/ BeforeEntry'
         PROVE  NobodyMadeUp'
    <2>1. SUFFICES ASSUME NEW n \in Nicks, n \notin others, n # new
                   PROVE  ~InTheEnd(n \in told /\ ~TakenBack' /\ ~BeforeEntry', Shown(n)', Gone(n)')
      BY <1>4 DEF NobodyMadeUp, Inside
    <2>2. CASE n = old
      <3>1. /\ Len(toClient) + 1 \in Gone(n)' /\ 1 \in DOMAIN w
            /\ \A k \in DOMAIN w : Len(toClient) + k \in Shown(n)' => k < 1
        BY <1>1, <1>5, <1>13, <2>1, <2>2
      <3>2. Gone(n)' # {} /\ ~LastOn(Shown(n)', Gone(n)')
        BY <1>4, <1>5, <1>6, <3>1, SentOfOther
      <3> QED
        BY <3>2 DEF InTheEnd
    <2>3. CASE n # old
      <3>1. \A j \in DOMAIN w : Len(toClient) + j \notin Shown(n)'
        BY <1>1, <1>5, <1>13, <2>1
      <3>2. /\ LastOn(Shown(n)', Gone(n)') => LastOn(Shown(n), Gone(n))
            /\ Gone(n)' = {} => Gone(n) = {}
        BY <1>4, <1>5, <1>6, <3>1, SentOfOther
      <3>3. ~InTheEnd(n \in told /\ ~TakenBack /\ ~BeforeEntry, Shown(n), Gone(n))
        BY <1>2, <2>1, <2>3 DEF RoomInv, NobodyMadeUp, Inside
      <3> QED
        BY <1>18, <3>2, <3>3 DEF InTheEnd
    <2> QED
      BY <2>2, <2>3
  <1> QED
    BY <1>14, <1>15, <1>16, <1>17, <1>18

\* An occupant stays known, when nothing that is sent takes it away.
LEMMA KnownStays ==
  ASSUME TypeOK, NEW w \in Seq(Presences), toClient' = toClient \o w, nick' = nick,
         UNCHANGED <<told, startedJoining>>, NEW n,
         InTheEnd(n \in told /\ ~startedJoining, Shown(n), Gone(n)),
         \A j \in DOMAIN w : Len(toClient) + j \notin OwnLeaves',
         \A j \in DOMAIN w : w[j].type = "unavailable" => w[j].from # n
  PROVE  InTheEnd(n \in told' /\ ~startedJoining', Shown(n)', Gone(n)')
  <1>1. \A j \in DOMAIN w : Len(toClient) + j \notin Gone(n)'
    BY SentIs
  <1>2. Gone(n)' = Gone(n) /\ (LastOn(Shown(n), Gone(n)) => LastOn(Shown(n)', Gone(n)'))
    BY <1>1, SentOfOther
  <1> QED
    BY <1>2 DEF InTheEnd

\* An occupant is known, when it is shown and nothing that is sent takes anyone away.
LEMMA KnownNow ==
  ASSUME TypeOK, NEW w \in Seq(Presences), toClient' = toClient \o w, nick' = nick, NEW n,
         \A j \in DOMAIN w : Len(toClient) + j \notin OwnLeaves',
         \A j \in DOMAIN w : w[j].type # "unavailable",
         \E j \in DOMAIN w : w[j].type = "available" /\ w[j].from = n
  PROVE  InTheEnd(n \in told' /\ ~startedJoining', Shown(n)', Gone(n)')
  <1>1. \A j \in DOMAIN w : Len(toClient) + j \notin Gone(n)'
    BY SentIs
  <1>2. \E j \in DOMAIN w : Len(toClient) + j \in Shown(n)'
    BY SentIs
  <1>3. LastOn(Shown(n)', Gone(n)')
    BY <1>1, <1>2, SentOfOther
  <1> QED
    BY <1>3 DEF InTheEnd

\* Whoever is not an occupant stays unknown, when nothing that is sent shows it.
LEMMA UnknownStays ==
  ASSUME TypeOK, NEW w \in Seq(Presences), toClient' = toClient \o w, nick' = nick,
         told' = told, TakenBack \/ BeforeEntry => TakenBack' \/ BeforeEntry', NEW n,
         ~InTheEnd(n \in told /\ ~TakenBack /\ ~BeforeEntry, Shown(n), Gone(n)),
         \A j \in DOMAIN w : w[j].type = "available" => w[j].from # n
  PROVE  ~InTheEnd(n \in told' /\ ~TakenBack' /\ ~BeforeEntry', Shown(n)', Gone(n)')
  <1>1. \A j \in DOMAIN w : Len(toClient) + j \notin Shown(n)'
    BY SentIs
  <1>2. /\ LastOn(Shown(n)', Gone(n)') => LastOn(Shown(n), Gone(n))
        /\ Gone(n)' = {} => Gone(n) = {}
    BY <1>1, SentOfOther
  <1> QED
    BY <1>2 DEF InTheEnd

\* Whoever is taken away by one presence is unknown.
LEMMA UnknownNow ==
  ASSUME TypeOK, NEW w \in Seq(Presences), toClient' = toClient \o w, nick' = nick, NEW n,
         NEW j \in DOMAIN w, \A k \in DOMAIN w : k = j,
         w[j].type = "unavailable", w[j].from = n
  PROVE  ~InTheEnd(n \in told' /\ ~TakenBack' /\ ~BeforeEntry', Shown(n)', Gone(n)')
  <1>1. Len(toClient) + j \in Gone(n)' /\ Len(toClient) + j \notin Shown(n)'
    BY SentIs
  <1>2. Gone(n)' # {} /\ ~LastOn(Shown(n)', Gone(n)')
    <2>1. \A k \in DOMAIN w : Len(toClient) + k \in Shown(n)' => k < j
      BY <1>1
    <2> QED
      BY <1>1, <2>1, SentOfOther
  <1> QED
    BY <1>2 DEF InTheEnd

\* What takes back what was known before a join stays under way.
LEMMA TakenBackStays ==
  ASSUME TypeOK, NEW w \in Seq(Presences), toClient' = toClient \o w,
         startedJoining' = startedJoining, TakenBack
  PROVE  TakenBack'
  <1>1. PICK i \in DOMAIN toClient :
           /\ startedJoining /\ toClient[i].type = "available"
           /\ \A k \in 1 .. i : toClient[k].type # "error"
    BY DEF TakenBack
  <1>2. \A k \in 1 .. i : k \in DOMAIN toClient
    BY DEF TypeOK
  <1>3. \A k \in DOMAIN toClient : k \in DOMAIN toClient' /\ toClient'[k] = toClient[k]
    BY DEF TypeOK
  <1> QED
    BY <1>1, <1>2, <1>3 DEF TakenBack

\* The room shows the client itself once more.
LEMMA ShownAgainKeeps ==
  ASSUME RoomInv, nick' = nick, me # NoNick, myRole' \in Roles \cup {"none"},
         UNCHANGED <<me, told, startedJoining, others>>,
         toClient' = toClient \o <<Available(me, myRole')>>
  PROVE  /\ Renames' /\ Called' /\ Entered' /\ (Known => Known')
         /\ (TakenBack \/ BeforeEntry => TakenBack' \/ BeforeEntry') => NobodyMadeUp'
  <1>1. PICK n \in Nicks, r \in Roles \cup {"none"} : n = me /\ r = myRole'
    BY DEF RoomInv, TypeOK
  <1>w. PICK w : w = <<Available(n, r)>>
    OBVIOUS
  <1>2. /\ TypeOK /\ n # NoNick /\ me' = n /\ NickAt(Len(toClient) + 1, n)
        /\ Inside = others \cup {n} /\ Inside' = Inside
    BY <1>1 DEF RoomInv, Called, Inside
  <1>3. w \in Seq(Presences) /\ DOMAIN w = {1} /\ Len(w) = 1 /\ w[1] = Available(n, r)
    <2>1. Available(n, r) \in Presences
      BY PresencesMade
    <2> QED
      BY <1>w, <2>1
  <1>4. toClient' = toClient \o w
    BY <1>1, <1>w
  <1>5. /\ w[1].type = "available" /\ w[1].newNick = NoNick /\ w[1].from = n
        /\ w[Len(w)] = Available(n, myRole') /\ Len(w) \in DOMAIN w
    BY <1>1, <1>3 DEF Available
  <1>6. /\ \A j \in DOMAIN w : w[j].newNick = NoNick /\ w[j].type = "available"
                               /\ (j = Len(w) \/ w[j].from # n)
        /\ \A j \in DOMAIN w : w[j].from = n /\ w[j].type = "available" /\ w[j].type # "unavailable"
    BY <1>3, <1>5
  <1>7. /\ Renames' /\ Called' /\ Entered'
        /\ \A j \in DOMAIN w : Len(toClient) + j \notin OwnLeaves'
    BY <1>2, <1>3, <1>4, <1>5, <1>6, ShownKeeps
  <1>8. ASSUME Known PROVE Known'
    <2>1. SUFFICES ASSUME NEW x \in Inside
                   PROVE  InTheEnd(x \in told' /\ ~startedJoining', Shown(x)', Gone(x)')
      BY <1>2 DEF Known
    <2>2. InTheEnd(x \in told /\ ~startedJoining, Shown(x), Gone(x))
      BY <1>8 DEF Known
    <2> QED
      BY <1>2, <1>3, <1>4, <1>6, <1>7, <2>2, KnownStays
  <1>9. ASSUME TakenBack \/ BeforeEntry => TakenBack' \/ BeforeEntry'
        PROVE  NobodyMadeUp'
    <2>1. SUFFICES ASSUME NEW x \in Nicks \ Inside
             PROVE  ~InTheEnd(x \in told' /\ ~TakenBack' /\ ~BeforeEntry', Shown(x)', Gone(x)')
      BY <1>2 DEF NobodyMadeUp
    <2>2. ~InTheEnd(x \in told /\ ~TakenBack /\ ~BeforeEntry, Shown(x), Gone(x)) /\ x # n
      BY <1>2 DEF RoomInv, NobodyMadeUp
    <2> QED
      BY <1>2, <1>3, <1>4, <1>6, <1>9, <2>2, UnknownStays
  <1> QED
    BY <1>7, <1>8, <1>9

\* The room shows everyone, and the client itself last.
LEMMA EveryoneKeeps ==
  ASSUME RoomInv, nick' = nick, NEW n \in Nicks, me' = n, me \in {NoNick, n}, n \notin others,
         NickAt(Len(toClient) + 1, n), myRole' \in Roles \cup {"none"},
         UNCHANGED <<told, startedJoining, others>>, ShowsEveryone(n)
  PROVE  /\ Renames' /\ Called' /\ Entered' /\ Known'
         /\ (TakenBack \/ BeforeEntry => TakenBack' \/ BeforeEntry') => NobodyMadeUp'
         /\ \E w \in Seq(Presences) :
               /\ toClient' = toClient \o w /\ w # <<>>
               /\ \A j \in DOMAIN w : w[j].type = "available" /\ w[j].newNick = NoNick
  <1>1. PICK w \in Seq(Presences) :
            /\ toClient' = toClient \o w
            /\ Len(w) \in DOMAIN w /\ w[Len(w)] = Available(n, myRole')
            /\ \A i \in DOMAIN w : i = Len(w) \/ \E o \in others : w[i] = Available(o, SomeRole)
            /\ \A o \in others : \E i \in DOMAIN w : w[i] = Available(o, SomeRole)
    BY EveryoneIsShown DEF RoomInv
  <1>2. /\ TypeOK /\ n # NoNick /\ Inside \subseteq others \cup {n} /\ Inside' = others \cup {n}
    BY NicksAssumption DEF RoomInv, Inside
  <1>3. \A o, r : /\ Available(o, r).type = "available" /\ Available(o, r).from = o
                  /\ Available(o, r).newNick = NoNick
    BY DEF Available
  <1>4. \A j \in DOMAIN w : /\ w[j].newNick = NoNick /\ w[j].type = "available"
                            /\ w[j].type # "unavailable" /\ w[j].from \in others \cup {n}
                            /\ j = Len(w) \/ w[j].from # n
    <2>1. ASSUME NEW j \in DOMAIN w, NEW o \in others, w[j] = Available(o, SomeRole)
          PROVE  /\ w[j].newNick = NoNick /\ w[j].type = "available" /\ w[j].from = o /\ o # n
      BY <1>3, <2>1
    <2>2. ASSUME NEW j \in DOMAIN w, j = Len(w)
          PROVE  /\ w[j].newNick = NoNick /\ w[j].type = "available" /\ w[j].from = n
      BY <1>1, <1>3, <2>2
    <2>3. ASSUME NEW j \in DOMAIN w
          PROVE  /\ w[j].newNick = NoNick /\ w[j].type = "available" /\ w[j].type # "unavailable"
                 /\ w[j].from \in others \cup {n} /\ (j = Len(w) \/ w[j].from # n)
      <3>1. CASE j = Len(w)
        BY <2>2, <3>1
      <3>2. CASE \E o \in others : w[j] = Available(o, SomeRole)
        BY <2>1, <3>2
      <3> QED
        BY <1>1, <3>1, <3>2
    <2> QED
      BY <2>3
  <1>5. \A x \in others \cup {n} : \E j \in DOMAIN w : w[j].type = "available" /\ w[j].from = x
    <2>1. ASSUME NEW x \in others
          PROVE  \E j \in DOMAIN w : w[j].type = "available" /\ w[j].from = x
      <3>1. PICK j \in DOMAIN w : w[j] = Available(x, SomeRole)
        BY <1>1
      <3> QED
        BY <1>3, <3>1
    <2>2. w[Len(w)].type = "available" /\ w[Len(w)].from = n
      BY <1>1, <1>3
    <2> QED
      BY <1>1, <2>1, <2>2
  <1>6. /\ Renames' /\ Called' /\ Entered'
        /\ \A j \in DOMAIN w : Len(toClient) + j \notin OwnLeaves'
    <2>1. \A j \in DOMAIN w : /\ w[j].newNick = NoNick /\ w[j].type = "available"
                              /\ j = Len(w) \/ w[j].from # n
      BY <1>4
    <2> QED
      BY <1>1, <1>2, <2>1, ShownKeeps
  <1>7. Known'
    <2>1. SUFFICES ASSUME NEW x \in others \cup {n}
                   PROVE  InTheEnd(x \in told' /\ ~startedJoining', Shown(x)', Gone(x)')
      BY <1>2 DEF Known
    <2>2. \A j \in DOMAIN w : w[j].type # "unavailable"
      BY <1>4
    <2>3. \E j \in DOMAIN w : w[j].type = "available" /\ w[j].from = x
      BY <1>5
    <2> QED
      BY <1>1, <1>2, <1>6, <2>2, <2>3, KnownNow
  <1>8. ASSUME TakenBack \/ BeforeEntry => TakenBack' \/ BeforeEntry'
        PROVE  NobodyMadeUp'
    <2>1. SUFFICES ASSUME NEW x \in Nicks \ (others \cup {n})
             PROVE  ~InTheEnd(x \in told' /\ ~TakenBack' /\ ~BeforeEntry', Shown(x)', Gone(x)')
      BY <1>2 DEF NobodyMadeUp
    <2>2. ~InTheEnd(x \in told /\ ~TakenBack /\ ~BeforeEntry, Shown(x), Gone(x))
      BY <1>2 DEF RoomInv, NobodyMadeUp
    <2>3. \A j \in DOMAIN w : w[j].type = "available" => w[j].from # x
      BY <1>4
    <2> QED
      BY <1>1, <1>2, <1>8, <2>2, <2>3, UnknownStays
  <1>9. w # <<>>
    BY <1>1
  <1> QED
    BY <1>1, <1>4, <1>6, <1>7, <1>8, <1>9

---------------------------------------------------------------------------
\* The room answers.

\* A request to enter that the room reads comes from a client it knows by the
\* nickname in it, if it knows it.
LEMMA Unrenamed ==
  ASSUME RoomInv, toRoom # <<>>, Head(toRoom).kind = "enter"
  PROVE  /\ Head(toRoom).nick = nick
         /\ \A m \in DOMAIN toClient : toClient[m].newNick = NoNick
         /\ NickAt(Len(toClient) + 1, nick)
         /\ me # NoNick => me = nick
  <1>1. TypeOK /\ 1 \in DOMAIN toRoom /\ Head(toRoom) = toRoom[1] /\ Len(toClient) + 1 \in Nat
    BY DEF RoomInv, TypeOK
  <1>2. 1 \in Enters /\ 1 \in 1 .. 1
    BY <1>1 DEF Enters
  <1>3. /\ toRoom[1].nick = nick
        /\ \A m \in DOMAIN toClient : toClient[m].newNick = NoNick
    BY <1>2 DEF RoomInv, EntersUnrenamed
  <1>4. NickAt(Len(toClient) + 1, nick)
    <2>1. \A m \in 1 .. (Len(toClient) + 1) - 1 : m \in DOMAIN toClient
      BY <1>1 DEF TypeOK
    <2> QED
      BY <1>3, <2>1 DEF NickAt
  <1>5. me # NoNick => me = nick
    BY <1>1, <1>4, NickUnique DEF RoomInv, Called
  <1> QED
    BY <1>1, <1>3, <1>4, <1>5

\* What is left of the requests when the room has read the first.
LEMMA RequestsLeft ==
  ASSUME TypeOK, RoomAnswers
  PROVE  /\ \A i \in Nat \ {0} : i \in Enters' <=> i + 1 \in Enters
         /\ \A i \in Nat \ {0} : i \in Asked' <=> i + 1 \in Asked
         /\ \A i \in Nat \ {0} : i + 1 \in DOMAIN toRoom =>
               \A k \in 1 .. i : toRoom'[k] = toRoom[k + 1] /\ k + 1 \in 1 .. i + 1
         /\ Enters' \subseteq Nat \ {0} /\ Asked' \subseteq Nat \ {0}
         /\ Enters \subseteq Nat \ {0} /\ Asked \subseteq Nat \ {0}
         /\ Enters \subseteq DOMAIN toRoom
         /\ 1 \in Enters <=> Head(toRoom).kind = "enter"
         /\ 1 \in Asked <=> Head(toRoom).kind # "leave"
  <1>1. toRoom \in Seq(Requests) /\ toRoom # <<>> /\ toRoom' = Tail(toRoom)
    BY DEF TypeOK, RoomAnswers
  <1>2. \A i \in Nat \ {0} : /\ i \in DOMAIN toRoom' <=> i + 1 \in DOMAIN toRoom
                             /\ i \in DOMAIN toRoom' => toRoom'[i] = toRoom[i + 1]
    BY <1>1
  <1>3. DOMAIN toRoom' \subseteq Nat \ {0} /\ DOMAIN toRoom \subseteq Nat \ {0}
    BY <1>1
  <1>4. 1 \in DOMAIN toRoom /\ Head(toRoom) = toRoom[1]
    BY <1>1
  <1>5. ASSUME NEW i \in Nat \ {0}, NEW k \in 1 .. i, i + 1 \in DOMAIN toRoom
        PROVE  toRoom'[k] = toRoom[k + 1] /\ k + 1 \in 1 .. i + 1
    <2>1. k + 1 \in DOMAIN toRoom /\ k \in Nat \ {0} /\ k + 1 \in 1 .. i + 1
      BY <1>1, <1>5
    <2> QED
      BY <1>2, <2>1
  <1> QED
    BY <1>2, <1>3, <1>4, <1>5 DEF Enters, Asked

\* Before the client is inside it stays so, or what was known before is taken back.
LEMMA AnswerCovers ==
  ASSUME RoomInv, RoomAnswers, BeforeEntry
  PROVE  TakenBack' \/ BeforeEntry'
  <1> DEFINE r == Head(toRoom)
  <1>1. /\ TypeOK /\ me = NoNick /\ ~isJoined /\ toRoom # <<>> /\ isJoined' = isJoined
        /\ startedJoining' = startedJoining /\ r \in Requests
        /\ LetsIn(r) \/ HearsPresence(r) \/ LetsOut(r) \/ Refuses(r)
    BY DEF RoomInv, TypeOK, BeforeEntry, RoomAnswers, roomVars
  <1>2. r.kind \in {"enter", "presence", "leave"} /\ r.nick \in Nicks
    BY <1>1, RequestIs
  <1>3. toClient \in Seq(Presences)
    BY <1>1 DEF TypeOK
  <1> HIDE DEF r
  <1>4. CASE r.kind = "leave"
    <2>1. LetsOut(r)
      BY <1>1, <1>4 DEF LetsIn, HearsPresence, Refuses
    <2>2. me' = NoNick /\ toClient' = toClient
      BY <1>1, <1>3, <2>1 DEF LetsOut, Says
    <2>3. 1 \notin Asked /\ 1 \notin Enters
      BY <1>1, <1>4, RequestsLeft DEF r
    <2>4. ASSUME Asked = {} PROVE Asked' = {}
      BY <1>1, <2>4, RequestsLeft
    <2>5. ASSUME NEW i \in Enters, Asked = {i} PROVE \E k \in Enters' : Asked' = {k}
      <3>1. i \in Nat \ {0} /\ i # 1
        BY <1>1, <2>3, RequestsLeft
      <3>2. i - 1 \in Nat \ {0} /\ (i - 1) + 1 = i
        BY <3>1
      <3>3. i - 1 \in Enters' /\ i - 1 \in Asked'
        BY <1>1, <2>5, <3>2, RequestsLeft
      <3>4. ASSUME NEW k \in Asked' PROVE k = i - 1
        <4>1. k \in Nat \ {0} /\ k + 1 = i
          BY <1>1, <2>5, RequestsLeft
        <4> QED
          BY <3>1, <4>1
      <3> QED
        BY <3>3, <3>4
    <2> QED
      BY <1>1, <2>2, <2>4, <2>5 DEF BeforeEntry
  <1>5. CASE r.kind # "leave"
    <2>1. 1 \in Asked
      BY <1>1, <1>5, RequestsLeft DEF r
    <2>2. startedJoining /\ toClient = <<>> /\ 1 \in Enters /\ Asked = {1}
      BY <2>1 DEF BeforeEntry
    <2>3. r.kind = "enter"
      BY <1>1, <2>2, RequestsLeft DEF r
    <2>4. Asked' = {}
      <3>1. ASSUME NEW k \in Asked' PROVE FALSE
        <4>1. k \in Nat \ {0} /\ k + 1 = 1
          BY <1>1, <2>2, RequestsLeft
        <4> QED
          BY <4>1
      <3> QED
        BY <3>1
    <2>5. CASE Refuses(r)
      <3>1. toClient' = <<Error(r.nick)>> /\ me' = me
        BY <1>3, <2>2, <2>5 DEF Refuses, Says
      <3>2. Len(toClient') = 1 /\ toClient'[1].type = "error"
        BY <3>1 DEF Error
      <3> QED
        BY <1>1, <2>2, <2>4, <3>1, <3>2 DEF BeforeEntry
    <2>6. CASE LetsIn(r)
      <3>1. myRole' \in Roles /\ ShowsEveryone(r.nick)
        BY <1>1, <1>2, <2>6, NicksAssumption DEF LetsIn
      <3>2. PICK w \in Seq(Presences) :
               /\ toClient' = toClient \o w /\ Len(w) \in DOMAIN w
               /\ w[Len(w)] = Available(r.nick, myRole')
               /\ \A i \in DOMAIN w : i = Len(w) \/ \E o \in others : w[i] = Available(o, SomeRole)
        BY <1>1, <1>2, <3>1, EveryoneIsShown
      <3>3. toClient' = w /\ 1 \in DOMAIN w
        BY <2>2, <3>2
      <3>4. w[1].type = "available"
        BY <3>2, <3>3 DEF Available
      <3>5. \A k \in 1 .. 1 : toClient'[k].type # "error"
        BY <3>3, <3>4
      <3> QED
        BY <1>1, <2>2, <3>3, <3>4, <3>5 DEF TakenBack
    <2> QED
      BY <1>1, <2>3, <2>5, <2>6 DEF HearsPresence, LetsOut
  <1> QED
    BY <1>4, <1>5

\* What the room's answer leaves true of the presences.
LEMMA AnswerSays ==
  ASSUME RoomInv, RoomAnswers
  PROVE  /\ NamesApart' /\ Renames' /\ Called' /\ Entered' /\ NobodyMadeUp'
         /\ Known \/ Head(toRoom).kind = "enter" => Known'
         /\ \E w \in Seq(Presences) :
               /\ toClient' = toClient \o w
               /\ Enters # {} => \A j \in DOMAIN w : w[j].newNick = NoNick
               /\ Head(toRoom).kind = "enter" =>
                     \E j \in DOMAIN w : w[j].type # "unavailable"
  <1> DEFINE r == Head(toRoom)
  <1>1. /\ TypeOK /\ toRoom # <<>> /\ r \in Requests /\ r.nick \in Nicks
        /\ LetsIn(r) \/ HearsPresence(r) \/ LetsOut(r) \/ Refuses(r)
    BY RequestIs DEF RoomInv, TypeOK, RoomAnswers
  <1>2. /\ nick' = nick /\ told' = told /\ startedJoining' = startedJoining /\ isJoined' = isJoined
        /\ role' = role /\ others' = others
    BY DEF RoomAnswers, roomVars, appVars
  <1>3. /\ NoNick \notin Nicks /\ NoNick \notin others /\ me \notin others
        /\ me \in Nicks \cup {NoNick} /\ myRole \in Roles \cup {"none"}
        /\ toClient \in Seq(Presences) /\ NoNick # r.nick
    BY <1>1, NicksAssumption DEF RoomInv, TypeOK, NamesApart
  <1>4. r.kind = "enter" =>
           /\ r.nick = nick /\ NickAt(Len(toClient) + 1, nick)
           /\ me # NoNick => me = nick
    BY <1>1, Unrenamed
  <1>5. ASSUME NEW w \in Seq(Presences), toClient' = toClient \o w
        PROVE  TakenBack \/ BeforeEntry => TakenBack' \/ BeforeEntry'
    BY <1>1, <1>2, <1>5, AnswerCovers, TakenBackStays
  <1> DEFINE Goal == /\ NamesApart' /\ Renames' /\ Called' /\ Entered' /\ NobodyMadeUp'
                     /\ Known \/ r.kind = "enter" => Known'
                     /\ \E w \in Seq(Presences) :
                           /\ toClient' = toClient \o w
                           /\ Enters # {} => \A j \in DOMAIN w : w[j].newNick = NoNick
                           /\ r.kind = "enter" => \E j \in DOMAIN w : w[j].type # "unavailable"
  <1> SUFFICES Goal
    OBVIOUS
  <1> HIDE DEF r, Goal
  <1>6. ASSUME r.nick \notin others, me' = r.nick, me \in {NoNick, r.nick},
               myRole' \in Roles \cup {"none"}, NickAt(Len(toClient) + 1, r.nick),
               ShowsEveryone(r.nick)
        PROVE  Goal
    <2>1. /\ Renames' /\ Called' /\ Entered' /\ Known'
          /\ (TakenBack \/ BeforeEntry => TakenBack' \/ BeforeEntry') => NobodyMadeUp'
          /\ \E w \in Seq(Presences) :
               /\ toClient' = toClient \o w /\ w # <<>>
               /\ \A j \in DOMAIN w : w[j].type = "available" /\ w[j].newNick = NoNick
      BY <1>1, <1>2, <1>6, EveryoneKeeps
    <2>2. PICK w \in Seq(Presences) :
               /\ toClient' = toClient \o w /\ w # <<>>
               /\ \A j \in DOMAIN w : w[j].type = "available" /\ w[j].newNick = NoNick
      BY <2>1
    <2>3. 1 \in DOMAIN w /\ w[1].type # "unavailable"
      BY <2>2
    <2>4. NobodyMadeUp'
      BY <1>5, <2>1, <2>2
    <2>5. NamesApart'
      BY <1>2, <1>6 DEF NamesApart
    <2> QED
      BY <2>1, <2>2, <2>3, <2>4, <2>5 DEF Goal
  <1>7. ASSUME r.nick \notin others, me \notin {NoNick, r.nick}, Rename(r.nick)
        PROVE  Goal
    <2>1. PICK w : w = <<Unavailable(me, r.nick, myRole), Available(r.nick, myRole)>>
      OBVIOUS
    <2>2. w \in Seq(Presences) /\ toClient' = toClient \o w
      <3>1. Unavailable(me, r.nick, myRole) \in Presences /\ Available(r.nick, myRole) \in Presences
        BY <1>1, <1>3, <1>7, PresencesMade
      <3> QED
        BY <1>7, <2>1, <3>1 DEF Rename, Says
    <2>3. /\ Renames' /\ Called' /\ Entered' /\ (Known => Known')
          /\ (TakenBack \/ BeforeEntry => TakenBack' \/ BeforeEntry') => NobodyMadeUp'
      BY <1>1, <1>2, <1>7, RenameKeeps
    <2>4. r.kind # "enter"
      BY <1>4, <1>7
    <2>5. Enters = {}
      <3>1. ASSUME NEW i \in Enters PROVE FALSE
        <4>1. /\ \A k \in 1 .. i : toRoom[k].nick = nick
              /\ \A m \in DOMAIN toClient : toClient[m].newNick = NoNick
          BY <3>1 DEF RoomInv, EntersUnrenamed
        <4>2. 1 \in 1 .. i /\ toRoom[1] = r
          BY <1>1, <3>1 DEF Enters, TypeOK, r
        <4>3. r.nick = nick
          BY <4>1, <4>2
        <4>4. NickAt(Len(toClient) + 1, me) /\ Len(toClient) + 1 \in Nat \ {0}
          BY <1>3, <1>7 DEF RoomInv, Called
        <4>5. \A m \in 1 .. (Len(toClient) + 1) - 1 : toClient[m].newNick = NoNick
          BY <1>3, <4>1
        <4>6. me = nick
          BY <4>4, <4>5, NickNow
        <4> QED
          BY <1>7, <4>3, <4>6
      <3> QED
        BY <3>1
    <2>6. NamesApart' /\ NobodyMadeUp'
      BY <1>2, <1>5, <1>7, <2>2, <2>3 DEF NamesApart, Rename
    <2> QED
      BY <2>2, <2>3, <2>4, <2>5, <2>6 DEF Goal
  <1>8. CASE LetsIn(r)
    <2>1. r.kind = "enter" /\ r.nick \notin others
      BY <1>8 DEF LetsIn
    <2>2. CASE me = NoNick /\ me' = r.nick /\ myRole' \in Roles /\ ShowsEveryone(r.nick)
      BY <1>4, <1>6, <2>1, <2>2
    <2>3. CASE me = r.nick /\ UNCHANGED <<me, myRole>> /\ ShowsEveryone(r.nick)
      BY <1>3, <1>4, <1>6, <2>1, <2>3
    <2>4. CASE me \notin {NoNick, r.nick} /\ Rename(r.nick)
      BY <1>7, <2>1, <2>4
    <2> QED
      BY <1>8, <2>2, <2>3, <2>4 DEF LetsIn
  <1>9. CASE HearsPresence(r)
    <2>1. r.kind # "enter" /\ me # NoNick /\ r.nick \notin others
      BY <1>9 DEF HearsPresence
    <2>2. CASE me = r.nick /\ UNCHANGED <<me, myRole>> /\ Says(<<Available(me, myRole)>>)
      <3>1. PICK w : w = <<Available(me, myRole)>>
        OBVIOUS
      <3>2. Available(me, myRole) \in Presences /\ Available(me, myRole).newNick = NoNick
        BY <1>1, <1>3, <2>2, PresencesMade DEF Available
      <3>3. w \in Seq(Presences) /\ \A j \in DOMAIN w : w[j].newNick = NoNick
        BY <3>1, <3>2
      <3>4. toClient' = toClient \o w /\ toClient' = toClient \o <<Available(me, myRole')>>
        BY <2>2, <3>1 DEF Says
      <3>5. /\ Renames' /\ Called' /\ Entered' /\ (Known => Known')
            /\ (TakenBack \/ BeforeEntry => TakenBack' \/ BeforeEntry') => NobodyMadeUp'
        BY <1>2, <1>3, <2>1, <2>2, <3>4, ShownAgainKeeps
      <3>6. NamesApart' /\ NobodyMadeUp'
        BY <1>2, <1>3, <1>5, <2>2, <3>3, <3>4, <3>5 DEF NamesApart
      <3> QED
        BY <2>1, <3>3, <3>4, <3>5, <3>6 DEF Goal
    <2>3. CASE me # r.nick /\ Rename(r.nick)
      <3>1. me \notin {NoNick, r.nick}
        BY <2>1, <2>3
      <3> QED
        BY <1>7, <2>1, <2>3, <3>1
    <2> QED
      BY <1>9, <2>2, <2>3 DEF HearsPresence
  <1>10. CASE LetsOut(r)
    <2>1. r.kind # "enter" /\ me' = NoNick /\ NamesApart'
      BY <1>2, <1>3, <1>10 DEF LetsOut, NamesApart
    <2>2. CASE me # NoNick
      <3>1. PICK w : w = <<Unavailable(me, NoNick, "none")>>
        OBVIOUS
      <3>2. /\ Unavailable(me, NoNick, "none") \in Presences
            /\ Unavailable(me, NoNick, "none").newNick = NoNick
        BY <1>3, <2>2, PresencesMade DEF Unavailable
      <3>3. w \in Seq(Presences) /\ \A j \in DOMAIN w : w[j].newNick = NoNick
        BY <3>1, <3>2
      <3>4. toClient' = toClient \o w
        BY <1>10, <2>2, <3>1 DEF LetsOut, Says
      <3>5. Renames' /\ Called' /\ Entered' /\ Known' /\ NobodyMadeUp'
        BY <1>2, <2>1, <2>2, <3>1, <3>4, LeaveKeeps
      <3> QED
        BY <2>1, <3>3, <3>4, <3>5 DEF Goal
    <2>3. CASE me = NoNick
      <3>1. PICK w : w = <<>>
        OBVIOUS
      <3>2. w \in Seq(Presences) /\ DOMAIN w = {} /\ toClient' = toClient \o w
        BY <1>10, <2>3, <3>1 DEF LetsOut, Says
      <3>3. Renames' /\ Called' /\ Entered'
        BY <1>2, <2>1, <2>3, <3>2, UnheardKeeps
      <3>4. Known'
        BY <2>1 DEF Known, Inside
      <3>5. NobodyMadeUp'
        <4>1. SUFFICES ASSUME NEW x \in Nicks
                 PROVE  ~InTheEnd(x \in told' /\ ~TakenBack' /\ ~BeforeEntry', Shown(x)', Gone(x)')
          BY DEF NobodyMadeUp
        <4>2. ~InTheEnd(x \in told /\ ~TakenBack /\ ~BeforeEntry, Shown(x), Gone(x))
          BY <2>3 DEF RoomInv, NobodyMadeUp, Inside
        <4> QED
          BY <1>1, <1>2, <1>5, <3>2, <4>2, UnknownStays
      <3> QED
        BY <2>1, <3>2, <3>3, <3>4, <3>5 DEF Goal
    <2> QED
      BY <2>2, <2>3
  <1>11. CASE Refuses(r)
    <2>1. PICK w : w = <<Error(r.nick)>>
      OBVIOUS
    <2>2. /\ Error(r.nick) \in Presences /\ Error(r.nick).type = "error"
          /\ Error(r.nick).newNick = NoNick
      BY <1>1, PresencesMade DEF Error
    <2>3. /\ w \in Seq(Presences) /\ 1 \in DOMAIN w
          /\ \A j \in DOMAIN w : w[j].newNick = NoNick /\ w[j].type = "error"
      BY <2>1, <2>2
    <2>4. toClient' = toClient \o w /\ me' = me /\ myRole' = myRole /\ NamesApart'
      BY <1>2, <1>3, <1>11, <2>1 DEF Refuses, Says, NamesApart
    <2>5. /\ Renames' /\ Called' /\ Entered'
          /\ \A j \in DOMAIN w : Len(toClient) + j \notin OwnLeaves'
      BY <1>2, <2>3, <2>4, UnheardKeeps
    <2>6. Inside' = Inside
      BY <1>2, <2>4 DEF Inside
    <2>7. ASSUME Known PROVE Known'
      <3>1. SUFFICES ASSUME NEW x \in Inside
                     PROVE  InTheEnd(x \in told' /\ ~startedJoining', Shown(x)', Gone(x)')
        BY <2>6 DEF Known
      <3>2. InTheEnd(x \in told /\ ~startedJoining, Shown(x), Gone(x))
        BY <2>7 DEF Known
      <3>3. \A j \in DOMAIN w : w[j].type = "unavailable" => w[j].from # x
        BY <2>3
      <3> QED
        BY <1>1, <1>2, <2>3, <2>4, <2>5, <3>2, <3>3, KnownStays
    <2>8. ASSUME r.kind = "enter" PROVE Known'
      <3>1. me = NoNick
        BY <1>3, <1>4, <1>11, <2>8 DEF Refuses
      <3> QED
        BY <2>6, <3>1 DEF Known, Inside
    <2>9. NobodyMadeUp'
      <3>1. SUFFICES ASSUME NEW x \in Nicks \ Inside
               PROVE  ~InTheEnd(x \in told' /\ ~TakenBack' /\ ~BeforeEntry', Shown(x)', Gone(x)')
        BY <2>6 DEF NobodyMadeUp
      <3>2. ~InTheEnd(x \in told /\ ~TakenBack /\ ~BeforeEntry, Shown(x), Gone(x))
        BY DEF RoomInv, NobodyMadeUp
      <3>3. \A j \in DOMAIN w : w[j].type = "available" => w[j].from # x
        BY <2>3
      <3> QED
        BY <1>1, <1>2, <1>5, <2>3, <2>4, <3>2, <3>3, UnknownStays
    <2>10. \A j \in DOMAIN w : w[j].type # "unavailable"
      BY <2>3
    <2> QED
      BY <2>3, <2>4, <2>5, <2>7, <2>8, <2>9, <2>10 DEF Goal
  <1> QED
    BY <1>1, <1>8, <1>9, <1>10, <1>11

\* The room's answer keeps the invariant.
LEMMA AnswerKeeps ==
  ASSUME RoomInv, TypeOK', RoomAnswers
  PROVE  RoomInv'
  <1>1. /\ TypeOK /\ toRoom # <<>> /\ connected' = connected /\ nick' = nick /\ told' = told
        /\ startedJoining' = startedJoining /\ participants' = participants
        /\ toClient \in Seq(Presences)
    BY DEF RoomInv, TypeOK, RoomAnswers, roomVars, appVars
  <1>2. NamesApart' /\ Renames' /\ Called' /\ Entered' /\ NobodyMadeUp'
    BY AnswerSays
  <1>3. PICK w \in Seq(Presences) :
           /\ toClient' = toClient \o w
           /\ Enters # {} => \A j \in DOMAIN w : w[j].newNick = NoNick
           /\ Head(toRoom).kind = "enter" => \E j \in DOMAIN w : w[j].type # "unavailable"
    BY AnswerSays
  <1>4. Known \/ Head(toRoom).kind = "enter" => Known'
    BY AnswerSays
  <1>5. ASSUME NEW i \in Enters PROVE i = 1 \/ i - 1 \in Enters'
    <2>1. i \in Nat \ {0}
      BY <1>1, <1>5, RequestsLeft
    <2>2. CASE i # 1
      <3>1. i - 1 \in Nat \ {0} /\ (i - 1) + 1 = i
        BY <2>1, <2>2
      <3> QED
        BY <1>1, <1>5, <3>1, RequestsLeft
    <2> QED
      BY <2>2
  <1>6. 1 \in Enters <=> Head(toRoom).kind = "enter"
    BY <1>1, RequestsLeft
  <1>7. OfConnection'
    BY <1>1 DEF RoomInv, OfConnection
  <1>8. NobodyLost'
    <2>1. SUFFICES ASSUME Enters' = {} PROVE Known'
      BY DEF NobodyLost, Known
    <2>2. CASE 1 \in Enters
      BY <1>4, <1>6, <2>2
    <2>3. CASE 1 \notin Enters
      <3>1. Enters = {}
        BY <1>5, <2>1, <2>3
      <3>2. Known
        BY <3>1 DEF RoomInv, NobodyLost, Known
      <3> QED
        BY <1>4, <3>2
    <2> QED
      BY <2>2, <2>3
  <1>9. EntersUnrenamed'
    <2>1. SUFFICES ASSUME NEW i \in Enters'
                   PROVE  /\ \A k \in 1 .. i : toRoom'[k].nick = nick
                          /\ \A m \in DOMAIN toClient' : toClient'[m].newNick = NoNick
      BY <1>1 DEF EntersUnrenamed
    <2>2. i \in Nat \ {0}
      BY <1>1, <2>1, RequestsLeft
    <2>3. i + 1 \in Enters /\ i + 1 \in DOMAIN toRoom
      BY <1>1, <2>1, <2>2, RequestsLeft
    <2>4. \A k \in 1 .. i + 1 : toRoom[k].nick = nick
      BY <2>3 DEF RoomInv, EntersUnrenamed
    <2>5. \A k \in 1 .. i : toRoom'[k] = toRoom[k + 1] /\ k + 1 \in 1 .. i + 1
      BY <1>1, <2>2, <2>3, RequestsLeft
    <2>6. \A m \in DOMAIN toClient : toClient[m].newNick = NoNick
      BY <2>3 DEF RoomInv, EntersUnrenamed
    <2>7. \A m \in DOMAIN w : w[m].newNick = NoNick
      BY <1>3, <2>3
    <2>8. \A m \in DOMAIN toClient' : toClient'[m].newNick = NoNick
      BY <1>1, <1>3, <2>6, <2>7
    <2> QED
      BY <2>4, <2>5, <2>8
  <1>10. JoinAnswered'
    <2>1. SUFFICES ASSUME startedJoining, Enters' = {}
                   PROVE  \E i \in DOMAIN toClient' : toClient'[i].type # "unavailable"
      BY <1>1 DEF JoinAnswered
    <2>2. CASE 1 \in Enters
      <3>1. PICK j \in DOMAIN w : w[j].type # "unavailable"
        BY <1>3, <1>6, <2>2
      <3>2. Len(toClient) + j \in DOMAIN toClient' /\ toClient'[Len(toClient) + j] = w[j]
        BY <1>1, <1>3
      <3> QED
        BY <3>1, <3>2
    <2>3. CASE 1 \notin Enters
      <3>1. Enters = {}
        BY <1>5, <2>1, <2>3
      <3>2. PICK i \in DOMAIN toClient : toClient[i].type # "unavailable"
        BY <2>1, <3>1 DEF RoomInv, JoinAnswered
      <3>3. i \in DOMAIN toClient' /\ toClient'[i] = toClient[i]
        BY <1>1, <1>3
      <3> QED
        BY <3>2, <3>3
    <2> QED
      BY <2>2, <2>3
  <1>11. ToldListed'
    BY <1>1 DEF RoomInv, ToldListed
  <1> QED
    BY <1>2, <1>7, <1>8, <1>9, <1>10, <1>11 DEF RoomInv

---------------------------------------------------------------------------
\* What the room says of itself.

\* Nothing changes for the requests under way when the room sends presences.
LEMMA RequestsWait ==
  ASSUME RoomInv, NEW w \in Seq(Presences), toClient' = toClient \o w,
         UNCHANGED <<nick, startedJoining, toRoom>>, \A j \in DOMAIN w : w[j].newNick = NoNick
  PROVE  EntersUnrenamed' /\ JoinAnswered' /\ Enters' = Enters
  <1>1. Enters' = Enters
    BY DEF Enters
  <1>2. toClient \in Seq(Presences)
    BY DEF RoomInv, TypeOK
  <1>3. /\ \A i \in DOMAIN toClient : i \in DOMAIN toClient' /\ toClient'[i] = toClient[i]
        /\ \A i \in DOMAIN toClient' : \/ i \in DOMAIN toClient
                                       \/ \E j \in DOMAIN w : toClient'[i] = w[j]
    <2>1. /\ \A i \in DOMAIN toClient : i \in DOMAIN toClient' /\ toClient'[i] = toClient[i]
          /\ \A i \in DOMAIN toClient' :
                i \in DOMAIN toClient \/ i - Len(toClient) \in DOMAIN w
          /\ \A j \in DOMAIN w : toClient'[Len(toClient) + j] = w[j] /\ j \in Nat
          /\ DOMAIN toClient' \subseteq Nat /\ Len(toClient) \in Nat
      BY <1>2
    <2>2. ASSUME NEW i \in DOMAIN toClient', i - Len(toClient) \in DOMAIN w
          PROVE  toClient'[i] = w[i - Len(toClient)]
      <3>1. i = Len(toClient) + (i - Len(toClient))
        BY <2>1
      <3> QED
        BY <2>1, <2>2, <3>1
    <2> QED
      BY <2>1, <2>2
  <1>4. EntersUnrenamed'
    BY <1>1, <1>3 DEF RoomInv, EntersUnrenamed
  <1>5. JoinAnswered'
    BY <1>1, <1>3 DEF RoomInv, JoinAnswered
  <1> QED
    BY <1>1, <1>4, <1>5

\* The room takes the client out.
LEMMA KickKeeps ==
  ASSUME RoomInv, TypeOK', Kicks
  PROVE  RoomInv'
  <1>1. /\ me # NoNick /\ me' = NoNick /\ nick' = nick /\ me \in Nicks
        /\ toClient' = toClient \o <<Unavailable(me, NoNick, "none")>>
        /\ UNCHANGED <<nick, startedJoining, toRoom, connected, isJoined, others, told,
                       participants>>
    BY DEF RoomInv, TypeOK, Kicks, Says, roomVars, appVars
  <1>2. Renames' /\ Called' /\ Entered' /\ Known' /\ NobodyMadeUp'
    BY <1>1, LeaveKeeps
  <1>3. PICK w : w = <<Unavailable(me, NoNick, "none")>>
    OBVIOUS
  <1>4. w \in Seq(Presences) /\ \A j \in DOMAIN w : w[j].newNick = NoNick
    BY <1>1, <1>3, PresencesMade DEF Unavailable
  <1>5. EntersUnrenamed' /\ JoinAnswered'
    BY <1>1, <1>3, <1>4, RequestsWait
  <1>6. OfConnection' /\ NobodyLost' /\ ToldListed'
    BY <1>1, <1>2 DEF RoomInv, OfConnection, NobodyLost, Known, ToldListed
  <1>7. NamesApart'
    BY <1>1, NicksAssumption DEF RoomInv, NamesApart, TypeOK
  <1> QED
    BY <1>2, <1>5, <1>6, <1>7 DEF RoomInv

\* The room gives the client another role.
LEMMA RoleKeeps ==
  ASSUME RoomInv, TypeOK', NEW r \in Roles, ChangesRole(r)
  PROVE  RoomInv'
  <1>1. /\ me # NoNick /\ me \in Nicks /\ myRole' = r
        /\ toClient' = toClient \o <<Available(me, myRole')>>
        /\ UNCHANGED <<nick, me, startedJoining, toRoom, connected, isJoined, others, told,
                       participants>>
    BY DEF RoomInv, TypeOK, ChangesRole, Says, roomVars, appVars
  <1>2. /\ Renames' /\ Called' /\ Entered' /\ (Known => Known')
        /\ (TakenBack \/ BeforeEntry => TakenBack' \/ BeforeEntry') => NobodyMadeUp'
    BY <1>1, ShownAgainKeeps
  <1>3. PICK w : w = <<Available(me, myRole')>>
    OBVIOUS
  <1>4. w \in Seq(Presences) /\ \A j \in DOMAIN w : w[j].newNick = NoNick
    BY <1>1, <1>3, PresencesMade DEF Available
  <1>5. EntersUnrenamed' /\ JoinAnswered' /\ Enters' = Enters
    BY <1>1, <1>3, <1>4, RequestsWait
  <1>6. TakenBack \/ BeforeEntry => TakenBack'
    <2>1. ~BeforeEntry
      BY <1>1 DEF BeforeEntry
    <2>2. ASSUME TakenBack PROVE TakenBack'
      BY <1>1, <1>3, <1>4, <2>2, TakenBackStays DEF RoomInv
    <2> QED
      BY <2>1, <2>2
  <1>7. OfConnection' /\ ToldListed' /\ NamesApart'
    BY <1>1 DEF RoomInv, OfConnection, ToldListed, NamesApart
  <1>8. NobodyLost'
    BY <1>2, <1>5 DEF RoomInv, NobodyLost, Known
  <1> QED
    BY <1>2, <1>5, <1>6, <1>7, <1>8 DEF RoomInv

\* The room says what another occupant did, to a client that is inside.
LEMMA OthersKeep ==
  ASSUME RoomInv, TypeOK', NEW w \in Seq(Presences), toClient' = toClient \o w,
         UNCHANGED <<roomVars, connected, me, myRole, toRoom, appVars>>, me \notin others',
         \A j \in DOMAIN w : w[j].newNick = NoNick /\ me \notin {NoNick, w[j].from},
         \A x \in Inside \cap Inside' :
            \A j \in DOMAIN w : w[j].type = "unavailable" => w[j].from # x,
         \A x \in Inside' \ Inside :
            /\ \A j \in DOMAIN w : w[j].type # "unavailable"
            /\ \E j \in DOMAIN w : w[j].type = "available" /\ w[j].from = x,
         \A x \in Nicks \ (Inside \cup Inside') :
            \A j \in DOMAIN w : w[j].type = "available" => w[j].from # x,
         \A x \in Inside \ Inside' :
            \E j \in DOMAIN w : /\ \A k \in DOMAIN w : k = j
                                /\ w[j].type = "unavailable" /\ w[j].from = x
  PROVE  RoomInv'
  <1>1. /\ UNCHANGED <<nick, startedJoining, isJoined, role, me, myRole, told, toRoom, connected,
                       participants>>
        /\ TypeOK
    BY DEF RoomInv, roomVars, appVars
  <1>2. /\ Renames' /\ Called' /\ Entered'
        /\ \A j \in DOMAIN w : Len(toClient) + j \notin OwnLeaves'
    BY <1>1, UnheardKeeps
  <1>3. EntersUnrenamed' /\ JoinAnswered' /\ Enters' = Enters
    BY <1>1, RequestsWait
  <1>4. NamesApart' /\ ToldListed'
    BY <1>1 DEF RoomInv, NamesApart, ToldListed
  <1>5. OfConnection'
    <2>1. CASE me = NoNick
      <3>1. DOMAIN w = {}
        BY <2>1
      <3>2. w = <<>>
        BY <3>1
      <3>3. toClient' = toClient
        BY <1>1, <3>2 DEF TypeOK
      <3> QED
        BY <1>1, <3>3 DEF RoomInv, OfConnection
    <2>2. CASE me # NoNick
      BY <1>1, <2>2 DEF RoomInv, OfConnection
    <2> QED
      BY <2>1, <2>2
  <1>6. NobodyLost'
    <2>1. SUFFICES ASSUME Enters = {}, NEW x \in Inside'
                   PROVE  InTheEnd(x \in told' /\ ~startedJoining', Shown(x)', Gone(x)')
      BY <1>3 DEF NobodyLost
    <2>2. CASE x \in Inside
      <3>1. InTheEnd(x \in told /\ ~startedJoining, Shown(x), Gone(x))
        BY <2>1, <2>2 DEF RoomInv, NobodyLost
      <3>2. \A j \in DOMAIN w : w[j].type = "unavailable" => w[j].from # x
        BY <2>1, <2>2
      <3> QED
        BY <1>1, <1>2, <3>1, <3>2, KnownStays
    <2>3. CASE x \notin Inside
      <3>1. /\ \A j \in DOMAIN w : w[j].type # "unavailable"
            /\ \E j \in DOMAIN w : w[j].type = "available" /\ w[j].from = x
        BY <2>1, <2>3
      <3> QED
        BY <1>1, <1>2, <3>1, KnownNow
    <2> QED
      BY <2>2, <2>3
  <1>7. TakenBack \/ BeforeEntry => TakenBack' \/ BeforeEntry'
    <2>1. ASSUME TakenBack PROVE TakenBack'
      BY <1>1, <2>1, TakenBackStays
    <2>2. ASSUME BeforeEntry PROVE BeforeEntry'
      <3>1. me = NoNick
        BY <2>2 DEF BeforeEntry
      <3>2. DOMAIN w = {}
        BY <3>1
      <3>3. w = <<>>
        BY <3>2
      <3>4. toClient' = toClient
        BY <1>1, <3>3 DEF TypeOK
      <3>5. Asked' = Asked
        BY <1>1 DEF Asked
      <3> QED
        BY <1>1, <1>3, <2>2, <3>4, <3>5 DEF BeforeEntry
    <2> QED
      BY <2>1, <2>2
  <1>8. NobodyMadeUp'
    <2>1. SUFFICES ASSUME NEW x \in Nicks \ Inside'
             PROVE  ~InTheEnd(x \in told' /\ ~TakenBack' /\ ~BeforeEntry', Shown(x)', Gone(x)')
      BY DEF NobodyMadeUp
    <2>2. CASE x \notin Inside
      <3>1. ~InTheEnd(x \in told /\ ~TakenBack /\ ~BeforeEntry, Shown(x), Gone(x))
        BY <2>1, <2>2 DEF RoomInv, NobodyMadeUp
      <3>2. \A j \in DOMAIN w : w[j].type = "available" => w[j].from # x
        BY <2>1, <2>2
      <3> QED
        BY <1>1, <1>7, <3>1, <3>2, UnknownStays
    <2>3. CASE x \in Inside
      <3>1. PICK j \in DOMAIN w : /\ \A k \in DOMAIN w : k = j
                                  /\ w[j].type = "unavailable" /\ w[j].from = x
        BY <2>1, <2>3
      <3> QED
        BY <1>1, <3>1, UnknownNow
    <2> QED
      BY <2>2, <2>3
  <1> QED
    BY <1>2, <1>3, <1>4, <1>5, <1>6, <1>8 DEF RoomInv

\* Another occupant enters.
LEMMA EnterKeeps ==
  ASSUME RoomInv, TypeOK', NEW n \in Nicks, OtherEnters(n)
  PROVE  RoomInv'
  <1>1. /\ n \notin others /\ n # me /\ others' = others \cup {n} /\ me' = me
        /\ UNCHANGED <<roomVars, connected, me, myRole, toRoom, appVars>>
        /\ TypeOK /\ me \notin others
    BY DEF RoomInv, OtherEnters, NamesApart
  <1>2. PICK a \in Presences : a = Available(n, SomeRole)
    BY SomeRoleIs, PresencesMade
  <1>3. a.type = "available" /\ a.from = n /\ a.newNick = NoNick
    BY <1>2 DEF Available
  <1>4. toClient \in Seq(Presences)
    BY <1>1 DEF TypeOK
  <1>5. me \notin others'
    BY <1>1
  <1>6. CASE me = NoNick
    <2>1. PICK w : w = <<>>
      OBVIOUS
    <2>2. w \in Seq(Presences) /\ DOMAIN w = {}
      BY <2>1
    <2>3. toClient' = toClient \o w
      BY <1>4, <1>6, <2>1 DEF OtherEnters, Announces
    <2>4. Inside' = {} /\ Inside = {}
      BY <1>1, <1>6 DEF Inside
    <2> QED
      BY <1>1, <1>5, <2>2, <2>3, <2>4, OthersKeep
  <1>7. CASE me # NoNick
    <2>1. PICK w : w = <<a>>
      OBVIOUS
    <2>2. w \in Seq(Presences) /\ 1 \in DOMAIN w /\ \A j \in DOMAIN w : w[j] = a
      BY <2>1
    <2>3. toClient' = toClient \o w
      BY <1>2, <1>4, <1>7, <2>1 DEF OtherEnters, Announces
    <2>4. Inside = others \cup {me} /\ Inside' = Inside \cup {n}
      BY <1>1, <1>7 DEF Inside
    <2>5. \A j \in DOMAIN w : /\ w[j].newNick = NoNick /\ me \notin {NoNick, w[j].from}
                              /\ w[j].type = "available" /\ w[j].from = n
                              /\ w[j].type # "unavailable"
      BY <1>1, <1>3, <1>7, <2>2
    <2>6. \A x \in Inside' \ Inside :
            /\ \A j \in DOMAIN w : w[j].type # "unavailable"
            /\ \E j \in DOMAIN w : w[j].type = "available" /\ w[j].from = x
      BY <2>2, <2>4, <2>5
    <2>7. \A x \in Nicks \ (Inside \cup Inside') : x # n
      BY <2>4
    <2>8. Inside \ Inside' = {}
      BY <2>4
    <2> QED
      BY <1>1, <1>5, <2>2, <2>3, <2>5, <2>6, <2>7, <2>8, OthersKeep
  <1> QED
    BY <1>6, <1>7

\* Another occupant leaves.
LEMMA OtherLeaveKeeps ==
  ASSUME RoomInv, TypeOK', NEW n \in Nicks, OtherLeaves(n)
  PROVE  RoomInv'
  <1>1. /\ n \in others /\ n # me /\ others' = others \ {n} /\ me' = me
        /\ UNCHANGED <<roomVars, connected, me, myRole, toRoom, appVars>>
        /\ TypeOK /\ me \notin others
    BY DEF RoomInv, OtherLeaves, NamesApart
  <1>2. PICK a \in Presences : a = Unavailable(n, NoNick, "none")
    BY PresencesMade
  <1>3. a.type = "unavailable" /\ a.from = n /\ a.newNick = NoNick
    BY <1>2 DEF Unavailable
  <1>4. toClient \in Seq(Presences)
    BY <1>1 DEF TypeOK
  <1>5. me \notin others'
    BY <1>1
  <1>6. CASE me = NoNick
    <2>1. PICK w : w = <<>>
      OBVIOUS
    <2>2. w \in Seq(Presences) /\ DOMAIN w = {}
      BY <2>1
    <2>3. toClient' = toClient \o w
      BY <1>4, <1>6, <2>1 DEF OtherLeaves, Announces
    <2>4. Inside' = {} /\ Inside = {}
      BY <1>1, <1>6 DEF Inside
    <2> QED
      BY <1>1, <1>5, <2>2, <2>3, <2>4, OthersKeep
  <1>7. CASE me # NoNick
    <2>1. PICK w : w = <<a>>
      OBVIOUS
    <2>2. w \in Seq(Presences) /\ 1 \in DOMAIN w /\ \A j \in DOMAIN w : w[j] = a /\ j = 1
      BY <2>1
    <2>3. toClient' = toClient \o w
      BY <1>2, <1>4, <1>7, <2>1 DEF OtherLeaves, Announces
    <2>4. Inside = others \cup {me} /\ Inside' = Inside \ {n}
      BY <1>1, <1>7 DEF Inside
    <2>5. \A j \in DOMAIN w : /\ w[j].newNick = NoNick /\ me \notin {NoNick, w[j].from}
                              /\ w[j].type = "unavailable" /\ w[j].from = n
                              /\ w[j].type # "available" /\ \A k \in DOMAIN w : k = j
      BY <1>1, <1>3, <1>7, <2>2
    <2>6. \A x \in Inside \ Inside' :
            \E j \in DOMAIN w : /\ \A k \in DOMAIN w : k = j
                                /\ w[j].type = "unavailable" /\ w[j].from = x
      BY <2>2, <2>4, <2>5
    <2>7. \A x \in Inside \cap Inside' : x # n
      BY <2>4
    <2>8. Inside' \ Inside = {}
      BY <2>4
    <2> QED
      BY <1>1, <1>5, <2>2, <2>3, <2>5, <2>6, <2>7, <2>8, OthersKeep
  <1> QED
    BY <1>6, <1>7

---------------------------------------------------------------------------
\* The application acts, and the client connects and disconnects.

\* A request that asks to enter nothing changes nothing that matters: one that leaves,
\* or one of a client that is inside.
LEMMA RequestKeeps ==
  ASSUME RoomInv, TypeOK', NEW r \in Requests, r.kind # "enter", isJoined \/ r.kind = "leave",
         toRoom' = IF connected THEN Append(toRoom, r) ELSE toRoom,
         UNCHANGED <<nick, startedJoining, isJoined, participants, role, connected, serverVars,
                     toClient, told>>
  PROVE  RoomInv'
  <1>1. /\ TypeOK /\ toRoom \in Seq(Requests)
        /\ UNCHANGED <<nick, startedJoining, isJoined, participants, role, connected, me, myRole,
                       others, toClient, told>>
    BY DEF RoomInv, TypeOK, serverVars
  <1>2. /\ \A i \in DOMAIN toRoom : i \in DOMAIN toRoom' /\ toRoom'[i] = toRoom[i]
        /\ \A i \in DOMAIN toRoom' : i \in DOMAIN toRoom \/ toRoom'[i] = r
        /\ \A i \in DOMAIN toRoom : \A k \in 1 .. i : k \in DOMAIN toRoom
    BY <1>1
  <1>3. Enters' = Enters
    BY <1>2 DEF Enters
  <1>4. NamesApart' /\ Renames' /\ Called' /\ Entered' /\ ToldListed'
    <2>1. OwnPlaces' = OwnPlaces
      BY <1>1 DEF OwnPlaces, NickAt
    <2>2. OwnShown' = OwnShown /\ OwnLeaves' = OwnLeaves
      BY <1>1, <2>1 DEF OwnShown, OwnLeaves
    <2>3. InRole' = InRole /\ OffRole' = OffRole
      BY <1>1, <2>2 DEF InRole, OffRole
    <2>4. NamesApart' /\ ToldListed' /\ Entered'
      BY <1>1, <2>2, <2>3 DEF RoomInv, NamesApart, ToldListed, Entered
    <2>5. Renames'
      BY <1>1, <2>1 DEF RoomInv, Renames
    <2>6. Called'
      BY <1>1 DEF RoomInv, Called, NickAt
    <2> QED
      BY <2>4, <2>5, <2>6
  <1>5. OfConnection'
    BY <1>1 DEF RoomInv, OfConnection
  <1>6. EntersUnrenamed'
    <2>1. SUFFICES ASSUME NEW i \in Enters
                   PROVE  /\ \A k \in 1 .. i : toRoom'[k].nick = nick
                          /\ \A m \in DOMAIN toClient : toClient[m].newNick = NoNick
      BY <1>1, <1>3 DEF EntersUnrenamed
    <2>2. \A k \in 1 .. i : toRoom'[k] = toRoom[k]
      BY <1>2 DEF Enters
    <2> QED
      BY <2>2 DEF RoomInv, EntersUnrenamed
  <1>7. JoinAnswered'
    BY <1>1, <1>3 DEF RoomInv, JoinAnswered
  <1>8. Inside' = Inside /\ \A x : Shown(x)' = Shown(x) /\ Gone(x)' = Gone(x)
    BY <1>1 DEF Inside, Shown, Gone, OwnLeaves, OwnPlaces, NickAt
  <1>9. NobodyLost'
    BY <1>1, <1>3, <1>8 DEF RoomInv, NobodyLost
  <1>10. TakenBack \/ BeforeEntry => TakenBack' \/ BeforeEntry'
    <2>1. ASSUME TakenBack PROVE TakenBack'
      BY <1>1, <2>1 DEF TakenBack
    <2>2. ASSUME BeforeEntry PROVE BeforeEntry'
      <3>1. r.kind = "leave"
        BY <2>2 DEF BeforeEntry
      <3>2. Asked' = Asked
        BY <1>2, <3>1 DEF Asked
      <3> QED
        BY <1>1, <1>3, <2>2, <3>2 DEF BeforeEntry
    <2> QED
      BY <2>1, <2>2
  <1>11. NobodyMadeUp'
    <2>1. SUFFICES ASSUME NEW x \in Nicks \ Inside
             PROVE  ~InTheEnd(x \in told' /\ ~TakenBack' /\ ~BeforeEntry', Shown(x)', Gone(x)')
      BY <1>8 DEF NobodyMadeUp
    <2>2. ~InTheEnd(x \in told /\ ~TakenBack /\ ~BeforeEntry, Shown(x), Gone(x))
      BY DEF RoomInv, NobodyMadeUp
    <2> QED
      BY <1>1, <1>8, <1>10, <2>2 DEF InTheEnd
  <1> QED
    BY <1>4, <1>5, <1>6, <1>7, <1>9, <1>11 DEF RoomInv

\* A client that is outside, and has at most asked to enter.
Waiting ==
    /\ me = NoNick /\ ~isJoined /\ toClient = <<>> /\ told \subseteq participants
    /\ \/ ~startedJoining /\ toRoom = <<>>
       \/ startedJoining /\ connected /\ toRoom = <<[kind |-> "enter", nick |-> nick]>>

\* The invariant holds of it.
LEMMA WaitingIs == TypeOK /\ Waiting => RoomInv
  <1> SUFFICES ASSUME TypeOK, Waiting PROVE RoomInv
    OBVIOUS
  <1>1. /\ me = NoNick /\ ~isJoined /\ toClient = <<>> /\ DOMAIN toClient = {}
        /\ others \subseteq Nicks
    BY DEF Waiting, TypeOK
  <1>2. OwnShown = {} /\ OwnLeaves = {} /\ (\A x : Shown(x) = {}) /\ Inside = {}
    BY <1>1 DEF OwnShown, OwnLeaves, OwnPlaces, Shown, Inside
  <1>3. ~\E i \in OwnShown : \A k \in OwnLeaves : k < i
    BY <1>2
  <1>4. OfConnection /\ NamesApart /\ ToldListed
    BY <1>1, NicksAssumption DEF OfConnection, NamesApart, ToldListed, Waiting
  <1>5. Renames /\ Called
    BY <1>1 DEF Renames, Called
  <1>6. Entered
    BY <1>1, <1>2, <1>3 DEF Entered, InTheEnd, LastOn
  <1>7. NobodyLost
    BY <1>2 DEF NobodyLost
  <1>8. CASE startedJoining
    <2>1. PICK r : r = [kind |-> "enter", nick |-> nick]
      OBVIOUS
    <2>2. r.kind = "enter" /\ r.nick = nick /\ r.kind # "leave"
      BY <2>1
    <2>3. /\ toRoom = <<r>>
      BY <1>8, <2>1 DEF Waiting
    <2>4. DOMAIN toRoom = {1} /\ toRoom[1] = r
      BY <2>3
    <2>5. Enters = {1} /\ Asked = {1}
      BY <2>2, <2>4 DEF Enters, Asked
    <2>6. EntersUnrenamed
      <3>1. \A k \in 1 .. 1 : k = 1
        OBVIOUS
      <3> QED
        BY <1>1, <2>2, <2>4, <2>5, <3>1 DEF EntersUnrenamed
    <2>7. JoinAnswered
      BY <2>5 DEF JoinAnswered
    <2>8. BeforeEntry
      BY <1>1, <1>8, <2>5 DEF BeforeEntry
    <2>9. NobodyMadeUp
      BY <1>2, <2>8 DEF NobodyMadeUp, InTheEnd, LastOn
    <2> QED
      BY <1>4, <1>5, <1>6, <1>7, <2>6, <2>7, <2>9 DEF RoomInv
  <1>9. CASE ~startedJoining
    <2>1. toRoom = <<>>
      BY <1>9 DEF Waiting
    <2>2. Enters = {} /\ Asked = {}
      BY <2>1 DEF Enters, Asked
    <2>3. EntersUnrenamed /\ JoinAnswered
      BY <1>9, <2>2 DEF EntersUnrenamed, JoinAnswered
    <2>4. BeforeEntry
      BY <1>1, <1>9, <2>2 DEF BeforeEntry
    <2>5. NobodyMadeUp
      BY <1>2, <2>4 DEF NobodyMadeUp, InTheEnd, LastOn
    <2> QED
      BY <1>4, <1>5, <1>6, <1>7, <2>3, <2>5 DEF RoomInv
  <1> QED
    BY <1>8, <1>9

\* A join asks to enter, and what was known before is taken back or listed until then.
LEMMA JoinKeeps ==
  ASSUME RoomInv, TypeOK', NEW available \in BOOLEAN, join(available), Careless = {}
  PROVE  RoomInv'
  <1>1. /\ TypeOK /\ toRoom \in Seq(Requests) /\ connected /\ ~startedJoining /\ startedJoining'
        /\ ~Renaming
        /\ toRoom' = Append(toRoom, [kind |-> "enter", nick |-> nick])
        /\ UNCHANGED <<nick, isJoined, participants, role, connected, me, myRole, others, toClient,
                       told>>
    BY DEF RoomInv, TypeOK, join, Joining, serverVars
  <1>2. PICK r \in Requests : r = [kind |-> "enter", nick |-> nick]
    BY <1>1, RequestsMade DEF TypeOK
  <1>3. toRoom' = Append(toRoom, r) /\ r.kind = "enter" /\ r.nick = nick
    BY <1>1, <1>2
  <1>4. PICK L \in Nat : L = Len(toRoom)
    BY <1>1
  <1>5. /\ DOMAIN toRoom = 1 .. L /\ DOMAIN toRoom' = 1 .. L + 1
        /\ \A i \in 1 .. L : toRoom'[i] = toRoom[i]
        /\ toRoom'[L + 1] = r
    BY <1>1, <1>3, <1>4
  <1>6. L + 1 \in Enters'
    BY <1>3, <1>5 DEF Enters
  <1>7. NamesApart' /\ Renames' /\ Called' /\ Entered' /\ ToldListed'
    <2>1. OwnPlaces' = OwnPlaces
      BY <1>1 DEF OwnPlaces, NickAt
    <2>2. OwnShown' = OwnShown /\ OwnLeaves' = OwnLeaves
      BY <1>1, <2>1 DEF OwnShown, OwnLeaves
    <2>3. InRole' = InRole /\ OffRole' = OffRole
      BY <1>1, <2>2 DEF InRole, OffRole
    <2>4. NamesApart' /\ ToldListed' /\ Entered'
      BY <1>1, <2>2, <2>3 DEF RoomInv, NamesApart, ToldListed, Entered
    <2>5. Renames'
      BY <1>1, <2>1 DEF RoomInv, Renames
    <2>6. Called'
      BY <1>1 DEF RoomInv, Called, NickAt
    <2> QED
      BY <2>4, <2>5, <2>6
  <1>8. OfConnection'
    BY <1>1 DEF OfConnection
  <1>9. EntersUnrenamed'
    <2>1. /\ \A i \in 1 .. L : toRoom[i].nick = nick
          /\ \A m \in DOMAIN toClient : toClient[m].newNick = NoNick
      BY <1>1, <1>5 DEF Renaming
    <2>2. \A i \in 1 .. L + 1 : toRoom'[i].nick = nick
      BY <1>3, <1>5, <2>1
    <2>3. \A i \in 1 .. L + 1 : \A k \in 1 .. i : k \in 1 .. L + 1
      OBVIOUS
    <2> QED
      BY <1>1, <1>5, <2>1, <2>2, <2>3 DEF EntersUnrenamed, Enters
  <1>10. JoinAnswered' /\ NobodyLost'
    BY <1>6 DEF JoinAnswered, NobodyLost
  <1>11. Inside' = Inside /\ \A x : Shown(x)' = Shown(x) /\ Gone(x)' = Gone(x)
    BY <1>1 DEF Inside, Shown, Gone, OwnLeaves, OwnPlaces, NickAt
  <1>12. TakenBack \/ BeforeEntry => TakenBack' \/ BeforeEntry'
    <2>1. ~TakenBack
      BY <1>1 DEF TakenBack
    <2>2. ASSUME BeforeEntry PROVE BeforeEntry'
      <3>1. me = NoNick /\ ~isJoined /\ toClient = <<>> /\ Asked = {}
        BY <1>1, <2>2 DEF BeforeEntry
      <3>2. Asked' = {L + 1}
        <4>1. L + 1 \in Asked'
          BY <1>3, <1>5 DEF Asked
        <4>2. ASSUME NEW i \in Asked' PROVE i = L + 1
          <5>1. i \in 1 .. L + 1 /\ toRoom'[i].kind # "leave"
            BY <1>5, <4>2 DEF Asked
          <5>2. i \notin 1 .. L
            BY <1>5, <3>1, <5>1 DEF Asked
          <5> QED
            BY <5>1, <5>2
        <4> QED
          BY <4>1, <4>2
      <3> QED
        BY <1>1, <1>6, <3>1, <3>2 DEF BeforeEntry
    <2> QED
      BY <2>1, <2>2
  <1>13. NobodyMadeUp'
    <2>1. SUFFICES ASSUME NEW x \in Nicks \ Inside
             PROVE  ~InTheEnd(x \in told' /\ ~TakenBack' /\ ~BeforeEntry', Shown(x)', Gone(x)')
      BY <1>11 DEF NobodyMadeUp
    <2>2. ~InTheEnd(x \in told /\ ~TakenBack /\ ~BeforeEntry, Shown(x), Gone(x))
      BY DEF RoomInv, NobodyMadeUp
    <2> QED
      BY <1>1, <1>11, <1>12, <2>2 DEF InTheEnd
  <1> QED
    BY <1>7, <1>8, <1>9, <1>10, <1>13 DEF RoomInv

\* Every step of an application that is not careless keeps the invariant.
LEMMA StepKeeps ==
  ASSUME RoomInv, [Next]_vars, Careless = {}
  PROVE  RoomInv'
  <1>1. TypeOK /\ TypeOK' /\ nick \in Nicks /\ connected \in BOOLEAN /\ isJoined \in BOOLEAN
    BY StepType DEF RoomInv, TypeOK
  <1>2. TypeOK' /\ Waiting' => RoomInv'
    BY WaitingIs, PTL
  <1>3. CASE UNCHANGED vars
    <2>1. UNCHANGED <<nick, startedJoining, isJoined, participants, role, connected, me, myRole,
                      others, toRoom, toClient, told>>
      BY <1>3 DEF vars, roomVars, serverVars, wire, appVars
    <2>2. OwnPlaces' = OwnPlaces /\ OwnShown' = OwnShown /\ OwnLeaves' = OwnLeaves
      BY <2>1 DEF OwnShown, OwnLeaves, OwnPlaces, NickAt
    <2>3. /\ InRole' = InRole /\ OffRole' = OffRole /\ Inside' = Inside
          /\ Enters' = Enters /\ Asked' = Asked
          /\ \A x : Shown(x)' = Shown(x) /\ Gone(x)' = Gone(x)
      BY <2>1, <2>2 DEF InRole, OffRole, Inside, Enters, Asked, Shown, Gone
    <2>4. OfConnection' /\ NamesApart' /\ ToldListed' /\ EntersUnrenamed' /\ JoinAnswered'
      BY <2>1, <2>3
         DEF RoomInv, OfConnection, NamesApart, ToldListed, EntersUnrenamed, JoinAnswered
    <2>5. Renames' /\ Called' /\ Entered' /\ NobodyLost'
      BY <2>1, <2>2, <2>3 DEF RoomInv, Renames, Called, NickAt, Entered, NobodyLost
    <2>6. NobodyMadeUp'
      BY <2>1, <2>3 DEF RoomInv, NobodyMadeUp, InTheEnd, TakenBack, BeforeEntry
    <2> QED
      BY <1>1, <2>4, <2>5, <2>6 DEF RoomInv
  <1>4. ASSUME NEW available \in BOOLEAN, join(available) PROVE RoomInv'
    BY <1>1, <1>4, JoinKeeps
  <1>5. ASSUME NEW available \in BOOLEAN, setPresence(available) PROVE RoomInv'
    <2>1. PICK r \in Requests :
             r = [kind |-> IF available THEN "presence" ELSE "leave", nick |-> nick]
      BY <1>1, RequestsMade
    <2>2. r.kind # "enter" /\ isJoined
      BY <1>5, <2>1 DEF setPresence
    <2>3. toRoom' = IF connected THEN Append(toRoom, r) ELSE toRoom
      BY <1>5, <2>1 DEF setPresence, Sends
    <2>4. UNCHANGED <<nick, startedJoining, isJoined, participants, role, connected, serverVars,
                     toClient, told>>
      BY <1>5 DEF setPresence, roomVars, appVars
    <2> QED
      BY <1>1, <2>2, <2>3, <2>4, RequestKeeps
  <1>6. CASE leave
    <2>1. PICK r \in Requests : r = [kind |-> "leave", nick |-> nick]
      BY <1>1, RequestsMade
    <2>2. r.kind # "enter" /\ r.kind = "leave"
      BY <2>1
    <2>3. toRoom' = IF connected THEN Append(toRoom, r) ELSE toRoom
      BY <1>6, <2>1 DEF leave, Sends
    <2>4. UNCHANGED <<nick, startedJoining, isJoined, participants, role, connected, serverVars,
                     toClient, told>>
      BY <1>6 DEF leave, appVars
    <2> QED
      BY <1>1, <2>2, <2>3, <2>4, RequestKeeps
  <1>7. ASSUME NEW n \in Nicks, setNick(n) PROVE RoomInv'
    <2>1. CASE isJoined
      <3>1. PICK r \in Requests : r = [kind |-> IF wants THEN "presence" ELSE "leave", nick |-> n]
        BY RequestsMade
      <3>2. r.kind # "enter"
        BY <3>1
      <3>3. toRoom' = IF connected THEN Append(toRoom, r) ELSE toRoom
        BY <1>7, <2>1, <3>1 DEF setNick, Sends
      <3>4. UNCHANGED <<nick, startedJoining, isJoined, participants, role, connected, serverVars,
                       toClient, told>>
        BY <1>7, <2>1 DEF setNick, appVars
      <3> QED
        BY <1>1, <2>1, <3>2, <3>3, <3>4, RequestKeeps
    <2>2. CASE ~isJoined
      <3>1. Outside
        BY <1>7, <2>2 DEF setNick
      <3>2. ~startedJoining
        BY <3>1 DEF RoomInv, JoinAnswered, Outside, Enters
      <3>3. Waiting'
        BY <1>7, <2>2, <3>1, <3>2
           DEF setNick, Waiting, Outside, serverVars, appVars, RoomInv, ToldListed
      <3> QED
        BY <1>1, <1>2, <3>3
    <2> QED
      BY <2>1, <2>2
  <1>8. CASE handlePresence
    BY <1>1, <1>8, PresenceArrives
  <1>9. CASE onConnected
    <2>1. me = NoNick /\ toRoom = <<>> /\ toClient = <<>> /\ ~startedJoining /\ ~isJoined
      BY <1>9 DEF onConnected, RoomInv, OfConnection
    <2>2. /\ connected' /\ me' = NoNick /\ ~isJoined' /\ toClient' = <<>>
          /\ told' \subseteq participants' /\ nick' = nick
      BY <1>9, <2>1 DEF onConnected, serverVars, RoomInv, ToldListed
    <2>3. \/ ~startedJoining' /\ toRoom' = <<>>
          \/ startedJoining' /\ toRoom' = <<[kind |-> "enter", nick |-> nick]>>
      BY <1>9, <2>1 DEF onConnected, Joining
    <2>4. Waiting'
      BY <2>2, <2>3 DEF Waiting
    <2> QED
      BY <1>1, <1>2, <2>4
  <1>10. CASE onDisconnected
    <2>1. Waiting'
      BY <1>10 DEF onDisconnected, Waiting, RoomInv, ToldListed
    <2> QED
      BY <1>1, <1>2, <2>1
  <1>11. CASE RoomAnswers
    BY <1>1, <1>11, AnswerKeeps
  <1>12. ASSUME NEW n \in Nicks, OtherEnters(n) \/ OtherLeaves(n) PROVE RoomInv'
    BY <1>1, <1>12, EnterKeeps, OtherLeaveKeeps
  <1>13. CASE Kicks
    BY <1>1, <1>13, KickKeeps
  <1>14. ASSUME NEW r \in Roles, ChangesRole(r) PROVE RoomInv'
    BY <1>1, <1>14, RoleKeeps
  <1> QED
    BY <1>3, <1>4, <1>5, <1>6, <1>7, <1>8, <1>9, <1>10, <1>11, <1>12, <1>13, <1>14 DEF Next

\* When nothing is under way, what will be is what is.
LEMMA InvAgrees == RoomInv => RoomAgrees
  <1> SUFFICES ASSUME RoomInv, Settled PROVE RoomAgrees
    BY DEF RoomAgrees, JoinAgrees, ViewAgrees, NobodyMissing, NoStuckJoin
  <1>1. /\ TypeOK /\ toRoom = <<>> /\ toClient = <<>> /\ DOMAIN toClient = {} /\ DOMAIN toRoom = {}
        /\ isJoined \in BOOLEAN /\ told \subseteq Nicks /\ Len(toClient) + 1 = 1
    BY DEF RoomInv, TypeOK, Settled
  <1>2. /\ OwnPlaces = {} /\ \A x : Shown(x) = {}
        /\ Enters = {} /\ ~TakenBack
    BY <1>1 DEF OwnPlaces, Shown, Enters, TakenBack
  <1>3. OwnShown = {} /\ OwnLeaves = {} /\ \A x : Gone(x) = {}
    BY <1>1, <1>2 DEF OwnShown, OwnLeaves, Gone
  <1>4. InRole = {} /\ OffRole = {}
    BY <1>3 DEF InRole, OffRole
  <1>5. /\ me # NoNick => isJoined /\ role = myRole
        /\ me = NoNick => ~isJoined
    BY <1>3, <1>4 DEF RoomInv, Entered, InTheEnd, LastOn
  <1>6. me # NoNick => nick = me
    <2>1. ASSUME me # NoNick PROVE nick = me
      <3>1. NickAt(1, me)
        BY <1>1, <2>1 DEF RoomInv, Called
      <3>2. \A m \in 1 .. 1 - 1 : toClient[m].newNick = NoNick
        OBVIOUS
      <3> QED
        BY <3>1, <3>2, NickNow
    <2> QED
      BY <2>1
  <1>7. JoinAgrees
    BY <1>1, <1>5, <1>6 DEF JoinAgrees
  <1>8. NoStuckJoin
    BY <1>1, <1>2 DEF RoomInv, JoinAnswered, NoStuckJoin
  <1>9. Inside \subseteq told
    BY <1>2, <1>3 DEF RoomInv, NobodyLost, InTheEnd, LastOn
  <1>10. ASSUME isJoined PROVE told \subseteq Inside
    <2>1. ~BeforeEntry
      BY <1>10 DEF BeforeEntry
    <2> QED
      BY <1>1, <1>2, <1>3, <2>1 DEF RoomInv, NobodyMadeUp, InTheEnd, LastOn
  <1>11. ViewAgrees /\ NobodyMissing
    BY <1>5, <1>9, <1>10 DEF ViewAgrees, NobodyMissing, Inside, RoomInv, ToldListed
  <1> QED
    BY <1>7, <1>8, <1>11 DEF RoomAgrees

\* Room, client and application agree whenever nothing is under way, for any number of
\* nicknames, roles and stanzas under way, when the application is not careless.
THEOREM SpecRoomAgrees ==
  ASSUME Careless = {}
  PROVE  Spec => []RoomAgrees
  <1>1. Init => RoomInv
    <2> SUFFICES ASSUME Init PROVE RoomInv
      OBVIOUS
    <2>1. TypeOK
      BY InitType
    <2>2. Waiting
      BY DEF Init, Waiting
    <2> QED
      BY <2>1, <2>2, WaitingIs
  <1>2. RoomInv /\ [Next]_vars => RoomInv'
    BY StepKeeps
  <1> QED
    BY <1>1, <1>2, InvAgrees, PTL DEF Spec

---------------------------------------------------------------------------
\* A room that is wanted.

\* What tells the application, when it arrives, why it is not inside.
Reason == OwnLeaves # {} \/ \E i \in DOMAIN toClient : toClient[i].type = "error"

\* A reason stays under way, whatever is sent behind it.
LEMMA ReasonStays ==
  ASSUME TypeOK, NEW w \in Seq(Presences), toClient' = toClient \o w, nick' = nick, Reason
  PROVE  Reason'
  <1>1. /\ toClient \in Seq(Presences)
        /\ \A i \in DOMAIN toClient : i \in 1 .. Len(toClient) /\ i \in DOMAIN toClient'
                                      /\ toClient'[i] = toClient[i]
    BY DEF TypeOK
  <1>2. CASE OwnLeaves # {}
    <2>1. PICK i \in OwnLeaves : i \in 1 .. Len(toClient)
      BY <1>1, <1>2, PlacesAre
    <2>2. i \in OwnLeaves'
      BY <2>1, PlacesBefore
    <2> QED
      BY <2>2 DEF Reason
  <1>3. CASE \E i \in DOMAIN toClient : toClient[i].type = "error"
    BY <1>1, <1>3 DEF Reason
  <1> QED
    BY <1>2, <1>3 DEF Reason

\* The first presence under way is a reason that the application hears, or the reason
\* is behind it.
LEMMA ReasonArrives ==
  ASSUME RoomInv, handlePresence, Reason
  PROVE  turnedAway' \/ Reason'
  <1> DEFINE h == toClient[1]
  <1>1. /\ TypeOK /\ Renames /\ h = Head(toClient) /\ 1 \in DOMAIN toClient
        /\ toClient \in Seq(Presences) /\ toClient' = Tail(toClient)
    BY DEF RoomInv, TypeOK, handlePresence
  <1>2. CASE 1 \in OwnLeaves
    <2>1. h.type = "unavailable" /\ h.from = nick /\ h.newNick = NoNick
      BY <1>1, <1>2 DEF OwnLeaves, OwnPlaces, NickAt
    <2>2. h.from = Resource(h)
      BY <2>1 DEF Resource, Renamed
    <2> HIDE DEF h
    <2>3. turnedAway'
      BY <1>1, <2>1, <2>2
         DEF handlePresence, ErrorReceived, AvailableReceived, UnavailableReceived
    <2> QED
      BY <2>3
  <1>3. CASE h.type = "error"
    BY <1>1, <1>3 DEF handlePresence, ErrorReceived, AvailableReceived, UnavailableReceived
  <1>4. ASSUME NEW i \in DOMAIN toClient, i # 1
        PROVE  /\ i - 1 \in Nat \ {0} /\ (i - 1) + 1 = i
               /\ i - 1 \in DOMAIN toClient' /\ toClient'[i - 1] = toClient[i]
    BY <1>1, <1>4
  <1>5. ASSUME NEW i \in OwnLeaves, i # 1
        PROVE  Reason'
    <2>1. i \in DOMAIN toClient
      BY <1>1, PlacesAre
    <2>2. i - 1 \in Nat \ {0} /\ (i - 1) + 1 = i
      BY <1>4, <1>5, <2>1
    <2>3. i - 1 \in OwnLeaves'
      BY <1>1, <2>2, PlacesArrive
    <2> QED
      BY <2>3 DEF Reason
  <1>6. ASSUME NEW i \in DOMAIN toClient, i # 1, toClient[i].type = "error"
        PROVE  Reason'
    <2>1. i - 1 \in DOMAIN toClient' /\ toClient'[i - 1].type = "error"
      BY <1>4, <1>6
    <2> QED
      BY <2>1 DEF Reason
  <1> QED
    BY <1>2, <1>3, <1>5, <1>6 DEF Reason

\* The room answers a request to enter by letting the client in or by an error, and
\* tells it when it lets it out.
LEMMA AnswerIsReason ==
  ASSUME RoomInv, RoomAnswers, me # NoNick \/ Enters # {} \/ Reason
  PROVE  me' # NoNick \/ Enters' # {} \/ Reason'
  <1> DEFINE r == Head(toRoom)
  <1>1. /\ TypeOK /\ nick' = nick /\ toRoom # <<>> /\ r \in Requests
        /\ LetsIn(r) \/ HearsPresence(r) \/ LetsOut(r) \/ Refuses(r)
    BY DEF RoomInv, TypeOK, RoomAnswers, roomVars
  <1>2. r.nick \in Nicks /\ r.nick # NoNick
    BY <1>1, RequestIs, NicksAssumption
  <1>3. r.kind # "enter" => (Enters # {} => Enters' # {})
    <2> SUFFICES ASSUME r.kind # "enter", NEW i \in Enters PROVE Enters' # {}
      OBVIOUS
    <2>1. i \in Nat \ {0} /\ i # 1
      BY <1>1, RequestsLeft
    <2>2. i - 1 \in Nat \ {0} /\ (i - 1) + 1 = i
      BY <2>1
    <2>3. i - 1 \in Enters'
      BY <1>1, <2>2, RequestsLeft
    <2> QED
      BY <2>3
  <1> HIDE DEF r
  <1>4. CASE LetsIn(r) \/ HearsPresence(r)
    BY <1>2, <1>4 DEF LetsIn, HearsPresence, Rename
  <1>5. CASE Refuses(r)
    <2>1. PICK w \in Seq(Presences) : w = <<Error(r.nick)>>
      <3>1. Error(r.nick) \in Presences
        BY <1>2, PresencesMade
      <3>2. <<Error(r.nick)>> \in Seq(Presences)
        BY <3>1
      <3> QED
        BY <3>2
    <2>2. toClient' = toClient \o w /\ toClient \in Seq(Presences)
      BY <1>1, <1>5, <2>1 DEF Refuses, Says, TypeOK
    <2>3. /\ Len(toClient) + 1 \in DOMAIN toClient'
          /\ toClient'[Len(toClient) + 1] = Error(r.nick)
      BY <2>1, <2>2
    <2>4. Error(r.nick).type = "error"
      BY DEF Error
    <2>5. \E i \in DOMAIN toClient' : toClient'[i].type = "error"
      BY <2>3, <2>4
    <2> QED
      BY <2>5 DEF Reason
  <1>6. CASE LetsOut(r) /\ me = NoNick
    <2>1. toClient' = toClient \o <<>> /\ r.kind # "enter"
      BY <1>6 DEF LetsOut, Says
    <2>2. <<>> \in Seq(Presences)
      OBVIOUS
    <2>3. Reason => Reason'
      BY <1>1, <2>1, <2>2, ReasonStays
    <2> QED
      BY <1>3, <1>6, <2>1, <2>3
  <1>7. CASE LetsOut(r) /\ me # NoNick
    <2>1. me' = NoNick /\ toClient' = toClient \o <<Unavailable(me, NoNick, "none")>>
      BY <1>7 DEF LetsOut, Says
    <2>2. OwnLeaves' # {}
      BY <1>1, <1>7, <2>1, LeaveKeeps
    <2> QED
      BY <2>2 DEF Reason
  <1> QED
    BY <1>1, <1>4, <1>5, <1>6, <1>7

\* What the others do, and a kick, is said behind what is under way.
LEMMA OthersLeaveReason ==
  ASSUME RoomInv, me # NoNick \/ Enters # {} \/ Reason,
         \/ \E n \in Nicks : OtherEnters(n) \/ OtherLeaves(n)
         \/ Kicks
         \/ \E r \in Roles : ChangesRole(r)
  PROVE  me' # NoNick \/ Enters' # {} \/ Reason'
  <1>1. TypeOK /\ toClient \in Seq(Presences) /\ nick' = nick /\ toRoom' = toRoom
    BY DEF RoomInv, TypeOK, OtherEnters, OtherLeaves, Kicks, ChangesRole, roomVars
  <1>2. Enters' = Enters
    BY <1>1 DEF Enters
  <1>3. CASE Kicks
    <2>1. /\ me # NoNick /\ me' = NoNick
          /\ toClient' = toClient \o <<Unavailable(me, NoNick, "none")>>
      BY <1>3 DEF Kicks, Says
    <2>2. OwnLeaves' # {}
      BY <1>1, <2>1, LeaveKeeps
    <2> QED
      BY <2>2 DEF Reason
  <1>4. CASE \E r \in Roles : ChangesRole(r)
    BY <1>4 DEF ChangesRole
  <1>5. CASE \E n \in Nicks : OtherEnters(n) \/ OtherLeaves(n)
    <2>1. PICK n \in Nicks : OtherEnters(n) \/ OtherLeaves(n)
      BY <1>5
    <2>2. PICK p \in Presences : Announces(p) /\ me' = me
      <3>1. /\ Available(n, SomeRole) \in Presences
            /\ Unavailable(n, NoNick, "none") \in Presences
        BY PresencesMade, SomeRoleIs
      <3>2. CASE OtherEnters(n)
        BY <3>1, <3>2 DEF OtherEnters
      <3>3. CASE OtherLeaves(n)
        BY <3>1, <3>3 DEF OtherLeaves
      <3> QED
        BY <2>1, <3>2, <3>3
    <2>3. PICK w \in Seq(Presences) : toClient' = toClient \o w
      <3>1. <<>> \in Seq(Presences) /\ <<p>> \in Seq(Presences)
        BY <2>2
      <3>2. toClient' = toClient \o <<>> \/ toClient' = toClient \o <<p>>
        BY <1>1, <2>2 DEF Announces
      <3> QED
        BY <3>1, <3>2
    <2>4. Reason => Reason'
      BY <1>1, <2>3, ReasonStays
    <2> QED
      BY <1>2, <2>2, <2>4
  <1> QED
    BY <1>3, <1>4, <1>5

\* The application's calls leave what is under way to it, or want the room no more.
LEMMA CallsWant ==
  ASSUME RoomInv, WantedAnswered, connected', wants', Careless = {},
         \/ \E available \in BOOLEAN : join(available) \/ setPresence(available)
         \/ leave
         \/ \E n \in Nicks : setNick(n)
  PROVE  WantedAnswered'
  <1>1. TypeOK /\ toRoom \in Seq(Requests)
    BY DEF RoomInv, TypeOK
  <1>2. ~leave
    BY DEF leave
  <1>3. CASE \E available \in BOOLEAN : join(available)
    <2>1. connected /\ toRoom' = Append(toRoom, [kind |-> "enter", nick |-> nick])
      BY <1>3 DEF join, Joining
    <2>2. PICK r \in Requests : r = [kind |-> "enter", nick |-> nick]
      BY <1>1, RequestsMade DEF TypeOK
    <2>3. toRoom' = Append(toRoom, r) /\ r.kind = "enter"
      BY <2>1, <2>2
    <2>4. Len(toRoom) + 1 \in DOMAIN toRoom' /\ toRoom'[Len(toRoom) + 1] = r
      BY <1>1, <2>3
    <2>5. Enters' # {}
      BY <2>3, <2>4 DEF Enters
    <2> QED
      BY <2>5 DEF WantedAnswered
  <1>4. CASE \/ \E available \in BOOLEAN : setPresence(available)
             \/ \E n \in Nicks : setNick(n)
    <2>1. /\ UNCHANGED <<isJoined, wants, connected, me, toClient, turnedAway>>
          /\ isJoined \/ toClient = <<>>
          /\ nick' = nick \/ ~isJoined
          /\ isJoined \/ (me = NoNick /\ toRoom = <<>>)
      <3>1. CASE \E available \in BOOLEAN : setPresence(available)
        <4>1. PICK available \in BOOLEAN : setPresence(available)
          BY <3>1
        <4> QED
          BY <4>1 DEF setPresence, roomVars, serverVars, appVars
      <3>2. CASE \E n \in Nicks : setNick(n)
        <4>1. PICK n \in Nicks : setNick(n)
          BY <3>2
        <4> QED
          BY <4>1 DEF setNick, serverVars, appVars, Outside
      <3> QED
        BY <1>4, <3>1, <3>2
    <2>2. CASE isJoined
      BY <2>1, <2>2 DEF WantedAnswered
    <2>3. CASE ~isJoined
      <3>1. DOMAIN toClient = {} /\ DOMAIN toRoom = {} /\ me = NoNick
        BY <2>1, <2>3
      <3>2. OwnLeaves = {} /\ Enters = {}
        BY <3>1 DEF OwnLeaves, OwnPlaces, Enters
      <3>3. turnedAway
        BY <2>1, <2>3, <3>1, <3>2 DEF WantedAnswered
      <3> QED
        BY <2>1, <3>3 DEF WantedAnswered
    <2> QED
      BY <2>2, <2>3
  <1> QED
    BY <1>2, <1>3, <1>4

\* Every step of an application that is not careless leaves a wanted room answered.
LEMMA StepWants ==
  ASSUME RoomInv, WantedAnswered, [Next]_vars, Careless = {}
  PROVE  WantedAnswered'
  <1> SUFFICES ASSUME connected', wants' PROVE WantedAnswered'
    BY DEF WantedAnswered
  <1>1. TypeOK
    BY DEF RoomInv
  <1>2. WantedAnswered <=>
          (connected /\ wants => \/ isJoined \/ turnedAway
                                 \/ me # NoNick \/ Enters # {} \/ Reason)
    BY DEF WantedAnswered, Reason
  <1>3. WantedAnswered' <=>
          (connected' /\ wants' => \/ isJoined' \/ turnedAway'
                                   \/ me' # NoNick \/ Enters' # {} \/ Reason')
    BY DEF WantedAnswered, Reason
  <1>4. CASE handlePresence
    <2>1. UNCHANGED <<connected, wants, me, toRoom>>
      BY <1>4 DEF handlePresence, serverVars, ErrorReceived, AvailableReceived,
                  UnavailableReceived
    <2>2. Enters' = Enters
      BY <2>1 DEF Enters
    <2>3. turnedAway => turnedAway'
      BY <1>4 DEF handlePresence, ErrorReceived, AvailableReceived, UnavailableReceived
    <2>4. isJoined => isJoined' \/ turnedAway'
      BY <1>4 DEF handlePresence, ErrorReceived, AvailableReceived, UnavailableReceived
    <2>5. Reason => turnedAway' \/ Reason'
      BY <1>4, ReasonArrives
    <2> QED
      BY <1>2, <1>3, <2>1, <2>2, <2>3, <2>4, <2>5
  <1>5. CASE onConnected
    <2>1. wants /\ ~startedJoining
      BY <1>5 DEF onConnected, RoomInv, OfConnection, Joining
    <2>2. toRoom = <<>>
      BY <1>5 DEF onConnected, RoomInv, OfConnection
    <2>3. toRoom' = <<[kind |-> "enter", nick |-> nick]>>
      BY <1>5, <2>1, <2>2 DEF onConnected, Joining
    <2>4. 1 \in Enters'
      BY <2>3 DEF Enters
    <2> QED
      BY <1>3, <2>4
  <1>6. ~onDisconnected
    BY DEF onDisconnected
  <1>7. CASE RoomAnswers
    <2>1. UNCHANGED <<connected, wants, isJoined, turnedAway>>
      BY <1>7 DEF RoomAnswers, roomVars, appVars
    <2> QED
      BY <1>2, <1>3, <1>7, <2>1, AnswerIsReason
  <1>8. CASE \/ \E n \in Nicks : OtherEnters(n) \/ OtherLeaves(n)
             \/ Kicks
             \/ \E r \in Roles : ChangesRole(r)
    <2>1. UNCHANGED <<connected, wants, isJoined, turnedAway>>
      BY <1>8 DEF OtherEnters, OtherLeaves, Kicks, ChangesRole, roomVars, appVars
    <2> QED
      BY <1>2, <1>3, <1>8, <2>1, OthersLeaveReason
  <1>9. CASE UNCHANGED vars
    <2>1. UNCHANGED <<connected, wants, isJoined, turnedAway, me, toRoom, toClient, nick>>
      BY <1>9 DEF vars, roomVars, serverVars, wire, appVars
    <2> QED
      BY <2>1 DEF WantedAnswered, Enters, OwnLeaves, OwnPlaces, NickAt
  <1> QED
    BY <1>4, <1>5, <1>6, <1>7, <1>8, <1>9, CallsWant DEF Next

\* A room that is wanted is never forgotten: the client is inside or the room has yet
\* to let it in, or the application has heard why not or will hear it; and when
\* nothing is under way it is inside or has heard.
THEOREM SpecWantedInv ==
  ASSUME Careless = {}
  PROVE  Spec => []WantedInv
  <1>1. Init => RoomInv /\ WantedAnswered
    <2> SUFFICES ASSUME Init PROVE RoomInv /\ WantedAnswered
      OBVIOUS
    <2>1. TypeOK /\ Waiting
      BY InitType DEF Init, Waiting
    <2>2. ~connected
      BY DEF Init
    <2> QED
      BY <2>1, <2>2, WaitingIs DEF WantedAnswered
  <1>2. (RoomInv /\ WantedAnswered) /\ [Next]_vars => (RoomInv /\ WantedAnswered)'
    BY StepKeeps, StepWants
  <1>3. RoomInv /\ WantedAnswered => WantedInv
    <2> SUFFICES ASSUME RoomInv, WantedAnswered, Settled, wants PROVE isJoined \/ turnedAway
      BY DEF RoomInv, WantedInv, WantedIsKnown
    <2>1. JoinAgrees
      BY InvAgrees DEF RoomAgrees
    <2>2. me # NoNick => isJoined
      BY <2>1 DEF JoinAgrees
    <2>3. Enters = {} /\ OwnLeaves = {} /\ DOMAIN toClient = {}
      BY DEF Settled, Enters, OwnLeaves, OwnPlaces
    <2> QED
      BY <2>2, <2>3 DEF WantedAnswered, Settled
  <1> QED
    BY <1>1, <1>2, <1>3, PTL DEF Spec

=============================================================================
