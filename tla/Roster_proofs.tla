---------------------------- MODULE Roster_proofs ----------------------------
(***************************************************************************)
(* Theorems about the roster and the server that keeps it, for any         *)
(* contacts, any names and any number of versions and of stanzas under     *)
(* way.                                                                    *)
(***************************************************************************)
EXTENDS Roster, Queues_proofs

---------------------------------------------------------------------------
\* Stanzas.

\* What a request holds.
LEMMA RequestKinds ==
  ASSUME NEW r \in Requests
  PROVE  /\ r.kind \in {"load", "set"}
         /\ r.kind = "load" => r.ver \in Nat
         /\ r.kind = "set" => r.jid \in Jids /\ r.name \in Values
  BY DEF Requests

\* What an answer holds.
LEMMA AnswerKinds ==
  ASSUME NEW a \in Answers
  PROVE  /\ a.kind \in {"roster", "push", "current", "error"}
         /\ a.kind \in {"roster", "push"} => a.ver \in Nat
         /\ a.kind = "roster" => a.items \in Rosters
         /\ a.kind = "push" => a.jid \in Jids /\ a.name \in Values
  BY DEF Answers

\* The requests the roster makes.
LEMMA RequestsMade ==
  /\ \A v \in Nat : [kind |-> "load", ver |-> v] \in Requests
  /\ \A j \in Jids, name \in Values : [kind |-> "set", jid |-> j, name |-> name] \in Requests
  BY DEF Requests

\* The answers the server makes.
LEMMA AnswersMade ==
  /\ \A v \in Nat, r \in Rosters : [kind |-> "roster", ver |-> v, items |-> r] \in Answers
  /\ \A v \in Nat, j \in Jids, name \in Values :
        [kind |-> "push", ver |-> v, jid |-> j, name |-> name] \in Answers
  /\ [kind |-> "current"] \in Answers /\ [kind |-> "error"] \in Answers
  BY DEF Answers

\* The edits of the changed contacts are finitely many requests.
LEMMA EditsAre ==
  ASSUME TypeOK
  PROVE  Edits \subseteq Requests /\ IsFiniteSet(Edits)
  <1> DEFINE Pairs == Jids \X Values
             Sets == {[kind |-> "set", jid |-> p[1], name |-> p[2]] : p \in Pairs}
             f == [p \in Pairs |-> [kind |-> "set", jid |-> p[1], name |-> p[2]]]
  <1>1. IsFiniteSet(Values)
    BY FiniteAssumption, FS_AddElement DEF Values
  <1>2. IsFiniteSet(Pairs)
    BY <1>1, FiniteAssumption, FS_Product
  <1>3. f \in Surjection(Pairs, Sets)
    BY DEF Surjection
  <1>4. IsFiniteSet(Sets)
    BY <1>2, <1>3, FS_Surjection
  <1>5. ASSUME NEW j \in Jids, NEW name \in Values
        PROVE  /\ [kind |-> "set", jid |-> j, name |-> name] \in Sets
               /\ [kind |-> "set", jid |-> j, name |-> name] \in Requests
    <2>1. <<j, name>> \in Pairs /\ <<j, name>>[1] = j /\ <<j, name>>[2] = name
      OBVIOUS
    <2>2. [kind |-> "set", jid |-> j, name |-> name] \in Sets
      BY <2>1
    <2> QED
      BY <2>2, RequestsMade
  <1> HIDE DEF Sets
  <1>6. ASSUME NEW e \in Edits
        PROVE  \E j \in Jids, name \in Values : e = [kind |-> "set", jid |-> j, name |-> name]
    <2>1. CASE \E j \in changed : e = [kind |-> "set", jid |-> j, name |-> items[j]]
      BY <2>1 DEF TypeOK, Rosters
    <2>2. CASE \E o \in orphans : e = [kind |-> "set", jid |-> o.jid, name |-> o.name]
      BY <2>2 DEF TypeOK, Orphans, Values
    <2> QED
      BY <1>6, <2>1, <2>2 DEF Edits
  <1>7. Edits \subseteq Sets /\ Edits \subseteq Requests
    BY <1>5, <1>6
  <1> QED
    BY <1>4, <1>7, FS_Subset

---------------------------------------------------------------------------
\* Versions.

\* The latest version is not exceeded.
LEMMA LatestBounds ==
  ASSUME TypeOK, LatestIs
  PROVE  Latest \in Nat /\ \A j \in Jids : stamp[j] <= Latest
  <1>1. /\ Latest \in {stamp[j] : j \in Jids} \cup {0}
        /\ \A j \in Jids : stamp[j] <= Latest
    BY DEF LatestIs, Latest
  <1> QED
    BY <1>1 DEF TypeOK

\* A bound that is reached is the latest version.
LEMMA LatestUnique ==
  ASSUME TypeOK, LatestIs, NEW v \in Nat, NEW j \in Jids, stamp[j] = v,
         \A k \in Jids : stamp[k] <= v
  PROVE  Latest = v
  <1>1. Latest \in {stamp[k] : k \in Jids} \cup {0} /\ \A k \in Jids : stamp[k] <= Latest
    BY DEF LatestIs, Latest
  <1>2. Latest \in Nat /\ v <= Latest
    BY <1>1 DEF TypeOK
  <1>3. Latest <= v
    BY <1>1, <1>2
  <1> QED
    BY <1>2, <1>3

\* A version that is stated is a number.
LEMMA VerType ==
  ASSUME TypeOK, NEW v \in Nat
  PROVE  Ver(v) \in Nat /\ Ver(v) <= v /\ (versioned => Ver(v) = v)
  BY DEF Ver, NoVersion, TypeOK

\* The changes since a version: the pushes of all that changed later, sorted.
LEMMA ChangesAre ==
  ASSUME TypeOK, NEW since \in Nat, NEW w \in Changes(since)
  PROVE  /\ w \in Seq(Answers)
         /\ \A i \in DOMAIN w : \E j \in Jids : stamp[j] > since /\ w[i] = Push(j)
         /\ \A j \in Jids : stamp[j] > since => \E i \in DOMAIN w : w[i] = Push(j)
         /\ \A i, k \in DOMAIN w, a, b \in Jids :
               i < k /\ w[i] = Push(a) /\ w[k] = Push(b) => stamp[a] <= stamp[b]
  <1> DEFINE later == {j \in Jids : stamp[j] > since}
  <1>1. PICK s \in SetToSeqs(later) :
            /\ \A i, k \in DOMAIN s : i < k => stamp[s[i]] <= stamp[s[k]]
            /\ w = [i \in DOMAIN s |-> Push(s[i])]
    BY DEF Changes
  <1>2. IsFiniteSet(later)
    BY FiniteAssumption, FS_Subset
  <1> HIDE DEF later
  <1>3. /\ s \in Seq(later)
        /\ \A i \in DOMAIN s : s[i] \in later
        /\ \A x \in later : \E i \in DOMAIN s : s[i] = x
    BY <1>2, OrderCovers
  <1>4. \A j \in Jids : Push(j) \in Answers
    BY VerType, AnswersMade DEF Push, TypeOK, Rosters
  <1>5. w \in Seq(Answers)
    <2>1. DOMAIN s = 1 .. Len(s) /\ Len(s) \in Nat
      BY <1>3
    <2>2. \A i \in 1 .. Len(s) : Push(s[i]) \in Answers
      BY <1>3, <1>4, <2>1 DEF later
    <2> QED
      BY <1>1, <2>1, <2>2
  <1>6. \A a, b \in Jids : Push(a) = Push(b) => a = b
    BY DEF Push
  <1>7. \A i \in DOMAIN w : i \in DOMAIN s /\ w[i] = Push(s[i]) /\ s[i] \in Jids /\
        stamp[s[i]] > since
    BY <1>1, <1>3 DEF later
  <1>8. ASSUME NEW j \in Jids, stamp[j] > since PROVE \E i \in DOMAIN w : w[i] = Push(j)
    <2>1. PICK i \in DOMAIN s : s[i] = j
      BY <1>3, <1>8 DEF later
    <2> QED
      BY <1>1, <2>1
  <1>9. ASSUME NEW i \in DOMAIN w, NEW k \in DOMAIN w, NEW a \in Jids, NEW b \in Jids,
               i < k, w[i] = Push(a), w[k] = Push(b)
        PROVE  stamp[a] <= stamp[b]
    <2>1. s[i] = a /\ s[k] = b
      BY <1>6, <1>7, <1>9
    <2> QED
      BY <1>1, <1>7, <1>9, <2>1
  <1> QED
    BY <1>5, <1>7, <1>8, <1>9

---------------------------------------------------------------------------
\* Types, with the version that is the latest.

\* At the start the server has a roster of one version, and nothing else is.
LEMMA InitTypes == Init => TypeOK /\ LatestIs
  <1> SUFFICES ASSUME Init PROVE TypeOK /\ LatestIs
    OBVIOUS
  <1>1. Empty \in Rosters
    BY DEF Empty, Rosters, Values
  <1>2. stamp \in [Jids -> {0, 1}]
    BY DEF Init
  <1>3. toServer \in Seq(Requests) /\ toClient \in Seq(Answers)
    BY DEF Init
  <1>4. items \in Rosters /\ kept \in Rosters /\ cache \in [ver : Nat, items : Rosters]
    BY <1>1 DEF Init, NoVersion
  <1>5. LatestIs
    <2>1. CASE \E j \in Jids : stamp[j] = 1
      BY <1>2, <2>1 DEF LatestIs
    <2>2. CASE \A j \in Jids : stamp[j] = 0
      BY <2>2 DEF LatestIs
    <2> QED
      BY <1>2, <2>1, <2>2
  <1>6. TypeOK
    BY <1>2, <1>3, <1>4 DEF Init, TypeOK, NoVersion
  <1> QED
    BY <1>5, <1>6

\* What is sent is a sequence of requests.
LEMMA Sent ==
  ASSUME TypeOK
  PROVE  /\ \A w \in Seq(Requests) : Sends(w) => toServer' \in Seq(Requests)
         /\ \A r \in Requests : Sends(<<r>>) => toServer' \in Seq(Requests)
  <1>1. \A r \in Requests : <<r>> \in Seq(Requests)
    OBVIOUS
  <1>2. \A w \in Seq(Requests) : toServer \o w \in Seq(Requests) /\ toServer \in Seq(Requests)
    BY DEF TypeOK
  <1>3. ASSUME NEW w \in Seq(Requests), Sends(w) PROVE toServer' \in Seq(Requests)
    BY <1>2, <1>3 DEF Sends
  <1> QED
    BY <1>1, <1>3

\* The calls of the application.
LEMMA CallsTypes ==
  ASSUME TypeOK,
         \/ load \/ synchronize \/ Save \/ Restart
         \/ \E j \in Jids, name \in Names : setName(j, name) \/ add(j, name)
         \/ \E j \in Jids : remove(j)
  PROVE  TypeOK'
  <1> USE DEF rosterVars, serverVars, wire
  <1>1. CASE load
    <2>1. [kind |-> "load", ver |-> version] \in Requests
      BY RequestsMade DEF TypeOK
    <2>2. toServer' \in Seq(Requests)
      BY <1>1, <2>1, Sent DEF load
    <2> QED
      BY <1>1, <2>2 DEF load, TypeOK
  <1>2. CASE synchronize
    <2>1. PICK order \in SetToSeqs(Edits) : Sends(order)
      BY <1>2 DEF synchronize
    <2>2. order \in Seq(Edits)
      BY EditsAre, OrderCovers
    <2>3. order \in Seq(Requests)
      <3>1. Edits \subseteq Requests
        BY EditsAre
      <3> QED
        BY <2>2, <3>1
    <2>4. toServer' \in Seq(Requests)
      BY <2>1, <2>3, Sent
    <2> QED
      BY <1>2, <2>4 DEF synchronize, TypeOK
  <1>3. CASE Save
    <2>1. cache' \in [ver : Nat, items : Rosters]
      BY <1>3 DEF Save, TypeOK
    <2> QED
      BY <1>3, <2>1 DEF Save, TypeOK
  <1>4. CASE Restart
    <2>1. items' \in Rosters /\ version' \in Nat
      BY <1>4 DEF Restart, TypeOK
    <2> QED
      BY <1>4, <2>1 DEF Restart, TypeOK
  <1>5. ASSUME NEW j \in Jids, NEW name \in Names, setName(j, name)
        PROVE  TypeOK'
    <2>1. items' \in Rosters
      BY <1>5 DEF setName, TypeOK, Rosters, Values
    <2> QED
      BY <1>5, <2>1 DEF setName, TypeOK
  <1>6. ASSUME NEW j \in Jids, NEW name \in Values,
               Sends(<<[kind |-> "set", jid |-> j, name |-> name]>>),
               UNCHANGED <<rosterVars, connected, loaded, cache, serverVars, toClient, dropped>>
        PROVE  TypeOK'
    <2>1. [kind |-> "set", jid |-> j, name |-> name] \in Requests
      BY RequestsMade
    <2>2. toServer' \in Seq(Requests)
      BY <1>6, <2>1, Sent
    <2> QED
      BY <1>6, <2>2 DEF TypeOK
  <1> QED
    BY <1>1, <1>2, <1>3, <1>4, <1>5, <1>6 DEF add, remove, Values

\* Only contacts of the hash are noted as changed.
LEMMA CallsHeld ==
  ASSUME TypeOK, ChangedHeld,
         \/ load \/ synchronize \/ Save \/ Restart
         \/ \E j \in Jids, name \in Names : setName(j, name) \/ add(j, name)
         \/ \E j \in Jids : remove(j)
  PROVE  ChangedHeld'
  <1>1. ASSUME NEW j \in Jids, NEW name \in Names, setName(j, name)
        PROVE  ChangedHeld'
    BY <1>1, AbsentAssumption DEF setName, ChangedHeld, TypeOK, Rosters
  <1>2. CASE UNCHANGED <<items, changed>>
    BY <1>2 DEF ChangedHeld
  <1>3. CASE changed' = {}
    BY <1>3 DEF ChangedHeld
  <1> QED
    BY <1>1, <1>2, <1>3 DEF load, synchronize, Save, Restart, add, remove, rosterVars

\* A contact that leaves the hash while it is changed is an orphan of its name.
LEMMA OrphanedAre ==
  ASSUME TypeOK, ChangedHeld, NEW gone \in SUBSET Jids
  PROVE  Orphaned(gone) \subseteq Orphans
  <1>1. ASSUME NEW j \in changed \cap gone
        PROVE  [jid |-> j, name |-> items[j]] \in Orphans
    <2>1. j \in Jids /\ items[j] \in Names
      BY DEF TypeOK, ChangedHeld, Rosters, Values
    <2> QED
      BY <2>1 DEF Orphans
  <1> QED
    BY <1>1 DEF Orphaned

\* An answer is handled.
LEMMA handleIQTypes ==
  ASSUME TypeOK, ChangedHeld, handleIQ
  PROVE  TypeOK' /\ ChangedHeld'
  <1> DEFINE answer == Head(toClient)
  <1>1. answer \in Answers /\ toClient' \in Seq(Answers)
    BY TailIs DEF TypeOK, handleIQ
  <1>2. SUFFICES /\ items' \in Rosters /\ version' \in Nat /\ changed' \subseteq Jids
                 /\ orphans' \subseteq Orphans /\ loaded' \in BOOLEAN /\ dropped' \subseteq Jids
                 /\ \A j \in changed' : items'[j] # Absent
    BY <1>1 DEF TypeOK, ChangedHeld, handleIQ, serverVars
  <1> HIDE DEF answer
  <1>3. CASE RosterReceived(answer)
    <2> DEFINE gone == {j \in Jids : items[j] # Absent /\ answer.items[j] = Absent}
    <2>1. answer.ver \in Nat /\ answer.items \in Rosters
      BY <1>1, <1>3, AnswerKinds DEF RosterReceived
    <2>2. /\ items' = answer.items /\ version' = answer.ver
          /\ orphans' = orphans \cup Orphaned(gone) /\ changed' = changed \ gone
          /\ loaded' = TRUE /\ dropped' = {}
      BY <1>3 DEF RosterReceived, onLoaded
    <2>3. Orphaned(gone) \subseteq Orphans
      BY OrphanedAre
    <2>4. \A j \in changed' : items'[j] # Absent
      BY <2>2 DEF ChangedHeld, TypeOK
    <2> QED
      BY <2>1, <2>2, <2>3, <2>4 DEF TypeOK
  <1>4. CASE CurrentReceived(answer) \/ ErrorReceived(answer)
    BY <1>4 DEF CurrentReceived, ErrorReceived, rosterVars, TypeOK, ChangedHeld
  <1>5. CASE PushReceived(answer)
    <2> DEFINE gone == IF answer.name = Absent THEN {answer.jid} ELSE {}
    <2>1. answer.ver \in Nat /\ answer.jid \in Jids /\ answer.name \in Values
      BY <1>1, <1>5, AnswerKinds DEF PushReceived
    <2>2. /\ items' = [items EXCEPT ![answer.jid] = answer.name] /\ version' = answer.ver
          /\ orphans' = orphans \cup Orphaned(gone) /\ changed' = changed \ gone
          /\ loaded' = loaded /\ dropped' = dropped \ {answer.jid}
      BY <1>5 DEF PushReceived
    <2>3. Orphaned(gone) \subseteq Orphans
      BY <2>1, OrphanedAre
    <2>4. \A j \in changed' : items'[j] # Absent
      BY <2>1, <2>2 DEF ChangedHeld, TypeOK, Rosters
    <2>5. items' \in Rosters
      BY <2>1, <2>2 DEF TypeOK, Rosters
    <2> QED
      BY <2>1, <2>2, <2>3, <2>4, <2>5 DEF TypeOK
  <1> QED
    BY <1>3, <1>4, <1>5 DEF handleIQ, answer

\* A change of the server's roster has a version of its own, the latest.
LEMMA AltersTypes ==
  ASSUME TypeOK, LatestIs, NEW j \in Jids, NEW name \in Values, Alters(j, name),
         versioned' = versioned
  PROVE  /\ kept' \in Rosters /\ stamp' \in [Jids -> Nat] /\ toClient' \in Seq(Answers)
         /\ LatestIs'
         /\ stamp'[j] = Latest + 1
         /\ \A k \in Jids : k # j => stamp'[k] = stamp[k] /\ kept'[k] = kept[k]
         /\ kept'[j] = name
         /\ \A k \in Jids : stamp'[k] <= Latest + 1
  <1>1. Latest \in Nat /\ \A k \in Jids : stamp[k] <= Latest
    BY LatestBounds
  <1>2. kept' \in Rosters /\ stamp' \in [Jids -> Nat]
    BY <1>1 DEF TypeOK, Alters, Rosters
  <1>3. /\ stamp'[j] = Latest + 1
        /\ \A k \in Jids : k # j => stamp'[k] = stamp[k] /\ kept'[k] = kept[k]
        /\ kept'[j] = name
    BY <1>1 DEF TypeOK, Alters, Rosters
  <1>4. \A k \in Jids : stamp'[k] <= Latest + 1
    BY <1>1, <1>3 DEF TypeOK
  <1>5. LatestIs'
    <2>1. /\ Latest + 1 \in {stamp'[k] : k \in Jids} \cup {0}
          /\ \A k \in Jids : stamp'[k] <= Latest + 1
      BY <1>3, <1>4
    <2>2. \E v \in {stamp'[k] : k \in Jids} \cup {0} : \A k \in Jids : stamp'[k] <= v
      BY <2>1
    <2> QED
      BY <2>2 DEF LatestIs
  <1>6. toClient' \in Seq(Answers)
    <2> DEFINE push == [kind |-> "push", ver |-> Ver(Latest + 1), jid |-> j, name |-> name]
    <2>1. Ver(Latest + 1) \in Nat
      BY <1>1, VerType
    <2>2. push \in Answers
      BY <2>1, AnswersMade
    <2>3. toClient' \in {toClient, Append(toClient, push)}
      BY DEF Alters
    <2> HIDE DEF push
    <2> QED
      BY <2>2, <2>3 DEF TypeOK
  <1> QED
    BY <1>2, <1>3, <1>4, <1>5, <1>6

\* What the server says is a sequence of answers.
LEMMA Said ==
  ASSUME TypeOK
  PROVE  /\ \A w \in Seq(Answers) : Says(w) => toClient' \in Seq(Answers)
         /\ \A a \in Answers : <<a>> \in Seq(Answers)
         /\ \A a \in Answers, w \in Seq(Answers) : <<a>> \o w \in Seq(Answers)
  <1>1. \A w \in Seq(Answers) : toClient \o w \in Seq(Answers)
    BY DEF TypeOK
  <1>2. \A a \in Answers : <<a>> \in Seq(Answers)
    OBVIOUS
  <1>3. \A v, w \in Seq(Answers) : v \o w \in Seq(Answers)
    OBVIOUS
  <1> QED
    BY <1>1, <1>2, <1>3 DEF Says

\* What the server says of a request for the roster.
LEMMA LoadsSays ==
  ASSUME TypeOK, LatestIs, NEW r \in Requests, Loads(r)
  PROVE  \E w \in Seq(Answers) :
            /\ toClient' = toClient \o w
            /\ interested' \in BOOLEAN
            /\ \/ w = <<[kind |-> "roster", ver |-> Ver(Latest), items |-> kept]>> /\ interested'
               \/ /\ versioned /\ r.ver # NoVersion /\ interested'
                  /\ \E c \in Changes(r.ver) : w = <<[kind |-> "current"]>> \o c
               \/ /\ interested' = interested
                  /\ w = <<IF EchoesErrors THEN [kind |-> "roster", ver |-> r.ver, items |-> Empty]
                                           ELSE [kind |-> "error"]>>
  <1>1. r.kind = "load" /\ r.ver \in Nat
    BY RequestKinds DEF Loads
  <1>2. CASE SendsRoster
    <2> DEFINE a == [kind |-> "roster", ver |-> Ver(Latest), items |-> kept]
    <2>1. Ver(Latest) \in Nat
      BY LatestBounds, VerType
    <2>2. a \in Answers
      BY <2>1, AnswersMade DEF TypeOK
    <2>3. <<a>> \in Seq(Answers)
      BY <2>2
    <2> QED
      BY <1>2, <2>3 DEF SendsRoster, Says
  <1>3. CASE SendsChanges(r.ver)
    <2>1. PICK c \in Changes(r.ver) : toClient' = toClient \o (<<[kind |-> "current"]>> \o c)
      BY <1>3 DEF SendsChanges, Says
    <2>2. c \in Seq(Answers)
      BY <1>1, ChangesAre
    <2>3. <<[kind |-> "current"]>> \o c \in Seq(Answers)
      BY <2>2, AnswersMade, Said
    <2> QED
      BY <1>3, <2>1, <2>3 DEF SendsChanges
  <1>4. CASE RefusesLoad(r.ver)
    <2> DEFINE a == IF EchoesErrors THEN [kind |-> "roster", ver |-> r.ver, items |-> Empty]
                                    ELSE [kind |-> "error"]
    <2>1. a \in Answers
      BY <1>1, AnswersMade DEF Empty, Rosters, Values
    <2>2. <<a>> \in Seq(Answers)
      BY <2>1
    <2> QED
      BY <1>4, <2>2 DEF RefusesLoad, Says, TypeOK
  <1> QED
    BY <1>2, <1>3, <1>4 DEF Loads

\* The server answers a request.
LEMMA ServerAnswersTypes ==
  ASSUME TypeOK, LatestIs, ServerAnswers
  PROVE  TypeOK' /\ LatestIs'
  <1> DEFINE r == Head(toServer)
  <1>1. r \in Requests /\ toServer' \in Seq(Requests)
    BY TailIs DEF TypeOK, ServerAnswers
  <1> HIDE DEF r
  <1>2. UNCHANGED <<items, version, changed, orphans, connected, loaded, cache, versioned>>
    BY DEF ServerAnswers, rosterVars
  <1>3. CASE Loads(r)
    <2>1. toClient' \in Seq(Answers) /\ interested' \in BOOLEAN
      <3>1. PICK w \in Seq(Answers) : toClient' = toClient \o w /\ interested' \in BOOLEAN
        BY <1>1, <1>3, LoadsSays
      <3> QED
        BY <3>1 DEF TypeOK
    <2>2. UNCHANGED <<kept, stamp, dropped>>
      BY <1>3 DEF Loads
    <2> QED
      BY <1>1, <1>2, <2>1, <2>2 DEF TypeOK, LatestIs
  <1>4. CASE TakesEdit(r)
    <2>1. r.jid \in Jids /\ r.name \in Values /\ Alters(r.jid, r.name)
      BY <1>1, <1>4, RequestKinds DEF TakesEdit
    <2>2. /\ kept' \in Rosters /\ stamp' \in [Jids -> Nat] /\ toClient' \in Seq(Answers)
          /\ LatestIs'
      BY <1>2, <2>1, AltersTypes
    <2> QED
      BY <1>1, <1>2, <1>4, <2>2 DEF TypeOK, TakesEdit
  <1>5. CASE RefusesEdit(r)
    <2>1. r.jid \in Jids
      BY <1>1, <1>5, RequestKinds DEF RefusesEdit
    <2>2. <<[kind |-> "error"]>> \in Seq(Answers)
      BY AnswersMade, Said
    <2>3. toClient' \in Seq(Answers)
      BY <1>5, <2>2, Said DEF RefusesEdit
    <2> QED
      BY <1>1, <1>2, <1>5, <2>1, <2>3 DEF TypeOK, RefusesEdit, LatestIs
  <1> QED
    BY <1>3, <1>4, <1>5 DEF ServerAnswers, r

\* Every step keeps the types, and the versions in order.
LEMMA NextTypes ==
  ASSUME TypeOK, LatestIs, ChangedHeld, [Next]_vars
  PROVE  TypeOK' /\ LatestIs' /\ ChangedHeld'
  <1>1. CASE \/ load \/ synchronize \/ Save \/ Restart
             \/ \E j \in Jids, name \in Names : setName(j, name) \/ add(j, name)
             \/ \E j \in Jids : remove(j)
    <2>1. stamp' = stamp
      BY <1>1 DEF load, synchronize, Save, Restart, setName, add, remove, serverVars
    <2>2. LatestIs'
      BY <2>1 DEF LatestIs
    <2> QED
      BY <1>1, <2>2, CallsTypes, CallsHeld
  <1>2. CASE handleIQ
    BY <1>2, handleIQTypes DEF handleIQ, serverVars, LatestIs
  <1>3. CASE Connects
    BY <1>3 DEF Connects, rosterVars, serverVars, wire, TypeOK, LatestIs, ChangedHeld
  <1>4. CASE Disconnects
    <2>1. toServer' \in Seq(Requests) /\ toClient' \in Seq(Answers)
      BY <1>4 DEF Disconnects
    <2>2. Editing \subseteq Jids
      BY RequestKinds DEF Editing, TypeOK
    <2> QED
      BY <1>4, <2>1, <2>2 DEF Disconnects, rosterVars, TypeOK, LatestIs, ChangedHeld
  <1>5. CASE ServerAnswers
    BY <1>5, ServerAnswersTypes DEF ServerAnswers, rosterVars, ChangedHeld
  <1>6. ASSUME NEW j \in Jids, NEW name \in Values, OthersChange(j, name)
        PROVE  TypeOK' /\ LatestIs' /\ ChangedHeld'
    <2>1. /\ kept' \in Rosters /\ stamp' \in [Jids -> Nat] /\ toClient' \in Seq(Answers)
          /\ LatestIs'
      BY <1>6, AltersTypes DEF OthersChange
    <2> QED
      BY <1>6, <2>1 DEF OthersChange, rosterVars, TypeOK, ChangedHeld
  <1>7. CASE UNCHANGED vars
    BY <1>7 DEF vars, rosterVars, serverVars, wire, TypeOK, LatestIs, ChangedHeld
  <1> QED
    BY <1>1, <1>2, <1>3, <1>4, <1>5, <1>6, <1>7 DEF Next

\* What the roster and the server hold and what is under way between them is of
\* its type: no contact that has left the hash, or never was in it, is noted
\* with an edit.
THEOREM SpecTypeOK == Spec => []TypeOK
  <1> DEFINE Inv == TypeOK /\ LatestIs /\ ChangedHeld
  <1>1. Init => Inv
    BY InitTypes DEF Init, ChangedHeld
  <1>2. Inv /\ [Next]_vars => Inv'
    BY NextTypes
  <1>3. Inv => TypeOK
    OBVIOUS
  <1> QED
    BY <1>1, <1>2, <1>3, PTL DEF Spec

---------------------------------------------------------------------------
\* What the roster holds is the server's.

\* At the start nothing is under way, and no version is known.
LEMMA InitRosterInv == Init => RosterInv
  <1> SUFFICES ASSUME Init PROVE RosterInv
    OBVIOUS
  <1>1. TypeOK /\ LatestIs
    BY InitTypes
  <1>2. /\ toServer = <<>> /\ toClient = <<>> /\ ~interested /\ ~loaded
        /\ version = 0 /\ cache.ver = 0 /\ items = Empty /\ cache.items = Empty
        /\ \A j \in Jids : stamp[j] <= 0 => kept[j] = Absent
        /\ \A j \in Jids : stamp[j] <= 1
    BY DEF Init, NoVersion
  <1>3. OfConnection /\ OfInterest /\ ChangedHeld
    BY <1>2 DEF OfConnection, OfInterest, ChangedHeld, Init
  <1>4. VersionsNamed /\ StampsApart
    BY <1>1, <1>2, LatestBounds DEF VersionsNamed, StampsApart, Versions
  <1>5. Corrected /\ AllKnown /\ LoadsHonest /\ AnswersHonest
    BY <1>2, NothingUnderWay DEF Corrected, AllKnown, LoadsHonest, AnswersHonest, Versions
  <1>6. VersionsHonest
    BY <1>2 DEF VersionsHonest, VersionHonest, CacheHonest, Empty
  <1> QED
    BY <1>1, <1>3, <1>4, <1>5, <1>6 DEF RosterInv

\* What the server says of a contact as long as it does not change.
LEMMA RightKept ==
  ASSUME NEW j \in Jids, kept'[j] = kept[j]
  PROVE  Right(j)' = Right(j) /\ Wrong(j)' = Wrong(j)
  BY DEF Right, Wrong

\* A step of the client before the stream: what it changes of a contact is an
\* edit of its own; what it asks for is what it knows.
LEMMA ClientStepInv ==
  ASSUME RosterInv, TypeOK', ChangedHeld',
         UNCHANGED <<serverVars, toClient, loaded, version>>,
         connected => connected',
         ~connected' => toServer' = <<>>,
         \A i \in DOMAIN toServer' :
             \/ \E m \in DOMAIN toServer : toServer'[i] = toServer[m]
             \/ toServer'[i].kind = "set"
             \/ toServer'[i].ver = version,
         \A j \in Jids \ Unsettled' : j \notin Unsettled /\ items'[j] = items[j],
         CacheHonest', versioned => cache'.ver <= Latest
  PROVE  RosterInv'
  <1> USE DEF serverVars
  <1>1. LatestIs' /\ Latest' = Latest /\ StampsApart'
    BY DEF RosterInv, LatestIs, Latest, StampsApart
  <1>2. OfConnection' /\ OfInterest'
    BY DEF RosterInv, OfConnection, OfInterest
  <1>3. \A j \in Jids : Right(j)' = Right(j) /\ Wrong(j)' = Wrong(j)
    BY DEF Right, Wrong
  <1>4. VersionsNamed'
    BY <1>1 DEF RosterInv, VersionsNamed, Versions
  <1>5. Corrected'
    BY <1>3 DEF RosterInv, Corrected, Followed
  <1>6. \A j \in Jids \ Unsettled' : Known(j)' = Known(j)
    BY <1>3 DEF Known, Has
  <1>7. AllKnown'
    BY <1>6 DEF RosterInv, AllKnown
  <1>8. VersionHonest'
    BY DEF RosterInv, VersionsHonest, VersionHonest
  <1>9. LoadsHonest'
    <2>1. SUFFICES ASSUME versioned, NEW i \in DOMAIN toServer', toServer'[i].kind = "load",
                          NEW j \in Jids \ Unsettled', stamp[j] <= toServer'[i].ver
                   PROVE  Known(j)
      BY <1>6 DEF LoadsHonest
    <2>2. CASE \E m \in DOMAIN toServer : toServer'[i] = toServer[m]
      BY <2>1, <2>2 DEF RosterInv, LoadsHonest
    <2>3. CASE toServer'[i].ver = version
      BY <2>1, <2>3 DEF RosterInv, VersionsHonest, VersionHonest, Known
    <2> QED
      BY <2>1, <2>2, <2>3
  <1>10. AnswersHonest'
    <2>1. SUFFICES ASSUME versioned, NEW i \in Versions(toClient), NEW j \in Jids,
                          stamp[j] <= toClient[i].ver
                   PROVE  Vouched(i, j)'
      BY DEF AnswersHonest, Versions
    <2>2. Vouched(i, j)
      BY <2>1 DEF RosterInv, AnswersHonest
    <2> QED
      BY <1>3, <2>2 DEF Vouched
  <1> QED
    BY <1>1, <1>2, <1>4, <1>5, <1>7, <1>8, <1>9, <1>10 DEF RosterInv, VersionsHonest

\* The calls of the application.
LEMMA CallsInv ==
  ASSUME RosterInv,
         \/ load \/ synchronize \/ Save
         \/ \E j \in Jids, name \in Names : setName(j, name) \/ add(j, name)
         \/ \E j \in Jids : remove(j)
  PROVE  RosterInv'
  <1>1. TypeOK' /\ ChangedHeld' /\ TypeOK
    BY CallsTypes, CallsHeld DEF RosterInv
  <1> USE DEF rosterVars, wire
  <1>2. ~connected => toServer = <<>>
    BY DEF RosterInv, OfConnection
  <1>3. toServer \in Seq(Requests)
    BY <1>1 DEF TypeOK
  <1>4. \A r \in Requests : <<r>> \in Seq(Requests) /\ \A m \in DOMAIN <<r>> : <<r>>[m] = r
    OBVIOUS
  <1>5. ASSUME NEW w \in Seq(Requests), Sends(w)
        PROVE  /\ ~connected => toServer' = <<>>
               /\ Editing \subseteq Editing'
               /\ \A i \in DOMAIN toServer' :
                     \/ \E m \in DOMAIN toServer : toServer'[i] = toServer[m]
                     \/ \E m \in DOMAIN w : toServer'[i] = w[m]
               /\ connected => \A m \in DOMAIN w : w[m].kind = "set" => w[m].jid \in Editing'
    <2>1. CASE ~connected
      BY <1>2, <1>5, <2>1 DEF Sends, Editing
    <2>2. CASE connected
      <3>1. toServer' = toServer \o w
        BY <1>5, <2>2 DEF Sends
      <3>2. \A i \in DOMAIN toServer : i \in DOMAIN toServer' /\ toServer'[i] = toServer[i]
        BY <1>3, <3>1, ConcatIs
      <3>3. \A m \in DOMAIN w : /\ Len(toServer) + m \in DOMAIN toServer'
                                /\ toServer'[Len(toServer) + m] = w[m]
        BY <1>3, <3>1, ConcatIs
      <3>4. ASSUME NEW i \in DOMAIN toServer'
            PROVE  \/ \E m \in DOMAIN toServer : toServer'[i] = toServer[m]
                   \/ \E m \in DOMAIN w : toServer'[i] = w[m]
        <4>1. CASE i \in DOMAIN toServer
          BY <3>2, <4>1
        <4>2. CASE i > Len(toServer) /\ i - Len(toServer) \in DOMAIN w
          <5>1. Len(toServer) + (i - Len(toServer)) = i
            BY <1>3, <3>1, <3>4
          <5> QED
            BY <3>3, <4>2, <5>1
        <4> QED
          BY <1>3, <3>1, <4>1, <4>2, ConcatIs
      <3> QED
        BY <2>2, <3>2, <3>3, <3>4 DEF Editing
    <2> QED
      BY <1>1, <2>1, <2>2 DEF TypeOK
  <1>6. CacheHonest /\ (versioned => cache.ver <= Latest)
    BY DEF RosterInv, VersionsHonest, VersionsNamed
  <1>7. CASE load
    <2> DEFINE r == [kind |-> "load", ver |-> version]
    <2>1. r \in Requests /\ r.ver = version
      BY <1>1, RequestsMade DEF TypeOK
    <2>2. /\ Sends(<<r>>)
          /\ UNCHANGED <<rosterVars, connected, loaded, cache, serverVars, toClient, dropped>>
      BY <1>7 DEF load
    <2>3. /\ ~connected => toServer' = <<>>
          /\ Editing \subseteq Editing'
          /\ \A i \in DOMAIN toServer' :
                \/ \E m \in DOMAIN toServer : toServer'[i] = toServer[m]
                \/ toServer'[i] = r
      <3> HIDE DEF r
      <3>1. <<r>> \in Seq(Requests) /\ Sends(<<r>>) /\ \A m \in DOMAIN <<r>> : <<r>>[m] = r
        BY <1>4, <2>1, <2>2
      <3> DEFINE w == <<r>>
      <3> HIDE DEF w
      <3>2. w \in Seq(Requests) /\ Sends(w) /\ \A m \in DOMAIN w : w[m] = r
        BY <3>1 DEF w
      <3> QED
        BY <1>5, <3>2
    <2>4. Unsettled \subseteq Unsettled'
      BY <2>2, <2>3 DEF Unsettled
    <2>5. CacheHonest' /\ (versioned => cache'.ver <= Latest)
      BY <1>6, <2>2 DEF CacheHonest, serverVars
    <2> QED
      BY <1>1, <2>2, <2>3, <2>4, <2>5, ClientStepInv
  <1>8. CASE synchronize
    <2>1. PICK w \in SetToSeqs(Edits) : Sends(w)
      BY <1>8 DEF synchronize
    <2>2. Edits \subseteq Requests /\ IsFiniteSet(Edits)
      BY <1>1, EditsAre
    <2>3. /\ w \in Seq(Edits) /\ \A i \in DOMAIN w : w[i] \in Edits
          /\ \A e \in Edits : \E i \in DOMAIN w : w[i] = e
      BY <2>2, OrderCovers
    <2>4. w \in Seq(Requests)
      BY <2>2, <2>3
    <2>5. \A i \in DOMAIN w : w[i].kind = "set"
      BY <2>3 DEF Edits
    <2>6. /\ ~connected => toServer' = <<>>
          /\ Editing \subseteq Editing'
          /\ \A i \in DOMAIN toServer' :
                \/ \E m \in DOMAIN toServer : toServer'[i] = toServer[m]
                \/ \E m \in DOMAIN w : toServer'[i] = w[m]
          /\ connected => \A m \in DOMAIN w : w[m].kind = "set" => w[m].jid \in Editing'
      BY <1>5, <2>1, <2>4
    <2>7. /\ UNCHANGED <<items, version, connected, loaded, cache, serverVars, toClient>>
          /\ dropped' = IF connected THEN dropped ELSE dropped \cup changed
      BY <1>8 DEF synchronize
    <2>8. ASSUME NEW j \in changed PROVE j \in Unsettled'
      <3>1. CASE connected
        <4>1. PICK i \in DOMAIN w : w[i] = [kind |-> "set", jid |-> j, name |-> items[j]]
          BY <2>3 DEF Edits
        <4> QED
          BY <2>6, <3>1, <4>1 DEF Unsettled
      <3>2. CASE ~connected
        BY <2>7, <3>2 DEF Unsettled
      <3> QED
        BY <1>1, <3>1, <3>2 DEF TypeOK
    <2>9. Unsettled \subseteq Unsettled'
      BY <2>6, <2>7, <2>8 DEF Unsettled
    <2>10. CacheHonest' /\ (versioned => cache'.ver <= Latest)
      BY <1>6, <2>7 DEF CacheHonest, serverVars
    <2>11. \A i \in DOMAIN toServer' :
              \/ \E m \in DOMAIN toServer : toServer'[i] = toServer[m]
              \/ toServer'[i].kind = "set"
      BY <2>5, <2>6
    <2> QED
      BY <1>1, <2>6, <2>7, <2>9, <2>10, <2>11, ClientStepInv
  <1>9. CASE Save
    <2>1. Unsettled = {} /\ cache'.ver = version /\ cache'.items = items
      BY <1>9 DEF Save, Unsettled
    <2>2. UNCHANGED <<rosterVars, connected, loaded, serverVars, wire, dropped>>
      BY <1>9 DEF Save
    <2>3. CacheHonest'
      BY <2>1, <2>2 DEF CacheHonest, RosterInv, VersionsHonest, VersionHonest, serverVars
    <2>4. versioned => cache'.ver <= Latest
      BY <2>1 DEF RosterInv, VersionsNamed
    <2>5. Unsettled' = Unsettled
      BY <2>2 DEF Unsettled, Editing
    <2> QED
      BY <1>1, <1>2, <2>2, <2>3, <2>4, <2>5, ClientStepInv
  <1>10. ASSUME NEW j \in Jids, NEW name \in Names, setName(j, name)
         PROVE  RosterInv'
    <2>1. /\ items' = [items EXCEPT ![j] = name] /\ changed' = changed \cup {j}
          /\ UNCHANGED <<version, connected, loaded, cache, serverVars, toServer, toClient,
                         dropped>>
      BY <1>10 DEF setName
    <2>2. \A k \in Jids \ Unsettled' : k \notin Unsettled /\ k # j
      BY <2>1 DEF Unsettled, Editing
    <2>3. \A k \in Jids \ Unsettled' : k \notin Unsettled /\ items'[k] = items[k]
      BY <1>1, <2>1, <2>2 DEF TypeOK, Rosters
    <2>4. CacheHonest' /\ (versioned => cache'.ver <= Latest)
      BY <1>6, <2>1 DEF CacheHonest, serverVars
    <2> QED
      BY <1>1, <1>2, <2>1, <2>3, <2>4, ClientStepInv
  <1>11. ASSUME NEW j \in Jids, NEW name \in Values,
                Sends(<<[kind |-> "set", jid |-> j, name |-> name]>>),
                UNCHANGED <<rosterVars, connected, loaded, cache, serverVars, toClient, dropped>>
         PROVE  RosterInv'
    <2> DEFINE r == [kind |-> "set", jid |-> j, name |-> name]
    <2>1. r \in Requests /\ r.kind = "set" /\ Sends(<<r>>)
      BY <1>11, RequestsMade
    <2>2. /\ ~connected => toServer' = <<>>
          /\ Editing \subseteq Editing'
          /\ \A i \in DOMAIN toServer' :
                \/ \E m \in DOMAIN toServer : toServer'[i] = toServer[m]
                \/ toServer'[i] = r
      <3> HIDE DEF r
      <3>1. <<r>> \in Seq(Requests) /\ Sends(<<r>>) /\ \A m \in DOMAIN <<r>> : <<r>>[m] = r
        BY <1>4, <2>1
      <3> DEFINE w == <<r>>
      <3> HIDE DEF w
      <3>2. w \in Seq(Requests) /\ Sends(w) /\ \A m \in DOMAIN w : w[m] = r
        BY <3>1 DEF w
      <3> QED
        BY <1>5, <3>2
    <2>3. Unsettled \subseteq Unsettled'
      BY <1>11, <2>2 DEF Unsettled
    <2>4. CacheHonest' /\ (versioned => cache'.ver <= Latest)
      BY <1>6, <1>11 DEF CacheHonest, serverVars
    <2> QED
      BY <1>1, <1>11, <2>2, <2>3, <2>4, ClientStepInv
  <1> QED
    BY <1>7, <1>8, <1>9, <1>10, <1>11 DEF add, remove, Values

\* What an answer does to a contact: what it tells of it, if it does.
LEMMA AnswerDoes ==
  ASSUME RosterInv, handleIQ, NEW j \in Jids
  PROVE  /\ Head(toClient) \in Right(j) => items'[j] = kept[j]
         /\ j \notin Unsettled' /\ Head(toClient) \notin Right(j) \cup Wrong(j) =>
                j \notin Unsettled /\ items'[j] = items[j]
         /\ Head(toClient).kind \in {"roster", "push"} => version' = Head(toClient).ver
         /\ Head(toClient).kind \notin {"roster", "push"} =>
                version' = version /\ Head(toClient) \notin Right(j) \cup Wrong(j)
  <1> DEFINE answer == Head(toClient)
  <1>1. answer \in Answers
    BY TailIs DEF RosterInv, TypeOK, handleIQ
  <1>2. Editing' = Editing
    BY DEF Editing, handleIQ
  <1> HIDE DEF answer
  <1> USE DEF Right, Wrong, Unsettled
  <1>3. CASE RosterReceived(answer)
    BY <1>1, <1>3, AnswerKinds DEF RosterReceived, onLoaded, answer
  <1>4. CASE CurrentReceived(answer) \/ ErrorReceived(answer)
    BY <1>2, <1>4 DEF CurrentReceived, ErrorReceived, rosterVars, answer
  <1>5. CASE PushReceived(answer)
    <2>1. answer.jid \in Jids /\ items \in [Jids -> Values]
      BY <1>1, <1>5, AnswerKinds DEF PushReceived, RosterInv, TypeOK, Rosters
    <2>2. /\ items'[answer.jid] = answer.name /\ version' = answer.ver /\ answer.kind = "push"
          /\ j # answer.jid => items'[j] = items[j]
      BY <1>5, <2>1 DEF PushReceived
    <2>3. j # answer.jid /\ j \in changed \cup dropped => j \in changed' \cup dropped'
      BY <1>5 DEF PushReceived
    <2> QED
      BY <1>1, <1>2, <2>2, <2>3 DEF answer
  <1> QED
    BY <1>3, <1>4, <1>5 DEF handleIQ, answer

\* An answer that is handled brings the roster to where it says it is.
LEMMA handleIQInv ==
  ASSUME RosterInv, handleIQ
  PROVE  RosterInv'
  <1> DEFINE answer == Head(toClient)
  <1>1. /\ TypeOK /\ TypeOK' /\ ChangedHeld'
        /\ toClient \in Seq(Answers) /\ toClient # <<>> /\ toClient' = Tail(toClient)
        /\ UNCHANGED <<connected, cache, kept, stamp, versioned, interested, toServer>>
    BY handleIQTypes DEF RosterInv, TypeOK, handleIQ, serverVars
  <1>2. /\ 1 \in DOMAIN toClient /\ toClient[1] = answer /\ answer \in Answers
        /\ \A i \in DOMAIN toClient' : /\ i \in Int /\ i >= 1 /\ i + 1 \in DOMAIN toClient
                                      /\ toClient'[i] = toClient[i + 1]
        /\ \A i \in DOMAIN toClient :
              \/ i = 1
              \/ /\ i \in Int /\ i > 1
                 /\ i - 1 \in DOMAIN toClient' /\ toClient[i] = toClient'[i - 1]
    BY <1>1, TailIs
  <1>3. \A S : Has(toClient, S) => answer \in S \/ Has(toClient', S)
    BY <1>1, HasTail
  <1>4. ASSUME NEW j \in Jids
        PROVE  /\ Followed(toClient', Wrong(j), Right(j))
               /\ answer \in Wrong(j) => Has(toClient', Right(j))
    BY <1>1, FollowedTail DEF RosterInv, Corrected
  <1>5. \A j \in Jids :
           /\ answer \in Right(j) => items'[j] = kept[j]
           /\ j \notin Unsettled' /\ answer \notin Right(j) \cup Wrong(j) =>
                  j \notin Unsettled /\ items'[j] = items[j]
           /\ answer.kind \in {"roster", "push"} => version' = answer.ver
           /\ answer.kind \notin {"roster", "push"} =>
                  version' = version /\ answer \notin Right(j) \cup Wrong(j)
    BY AnswerDoes
  <1> HIDE DEF answer
  <1>6. \A j \in Jids : Right(j)' = Right(j) /\ Wrong(j)' = Wrong(j)
    BY <1>1 DEF Right, Wrong
  <1>7. LatestIs' /\ Latest' = Latest /\ StampsApart'
    BY <1>1 DEF RosterInv, LatestIs, Latest, StampsApart
  <1>8. connected
    BY <1>1 DEF RosterInv, OfConnection
  <1>9. OfConnection'
    BY <1>1, <1>8 DEF OfConnection
  <1>10. OfInterest'
    <2>1. SUFFICES ASSUME ~interested
                   PROVE  ~loaded' /\ \A i \in DOMAIN toClient' : toClient'[i].kind = "error"
      BY <1>1 DEF OfInterest
    <2>2. /\ ~loaded /\ answer.kind = "error"
          /\ \A i \in DOMAIN toClient' : toClient'[i].kind = "error"
      BY <1>2, <2>1 DEF RosterInv, OfInterest
    <2>3. loaded' = loaded
      BY <2>2 DEF handleIQ, answer, RosterReceived, CurrentReceived, ErrorReceived, PushReceived
    <2> QED
      BY <2>2, <2>3
  <1>11. VersionsNamed'
    <2>1. SUFFICES ASSUME versioned
                   PROVE  /\ version' <= Latest /\ cache.ver <= Latest
                          /\ \A i \in DOMAIN toServer :
                                toServer[i].kind = "load" => toServer[i].ver <= Latest
                          /\ \A i \in Versions(toClient)' : toClient'[i].ver <= Latest
      BY <1>1, <1>7 DEF VersionsNamed, Versions
    <2>2. version' <= Latest
      <3>1. CASE answer.kind \in {"roster", "push"}
        <4>1. 1 \in Versions(toClient)
          BY <1>2, <3>1 DEF Versions
        <4>2. version' = answer.ver
          BY <3>1 DEF handleIQ, answer, RosterReceived, CurrentReceived, ErrorReceived, PushReceived
        <4> QED
          BY <1>2, <2>1, <4>1, <4>2 DEF RosterInv, VersionsNamed
      <3>2. CASE answer.kind \notin {"roster", "push"}
        <4>1. version' = version
          BY <3>2 DEF handleIQ, answer, RosterReceived, CurrentReceived, ErrorReceived,
             PushReceived,
                      rosterVars
        <4> QED
          BY <2>1, <4>1 DEF RosterInv, VersionsNamed
      <3> QED
        BY <3>1, <3>2
    <2>3. \A i \in Versions(toClient)' : toClient'[i].ver <= Latest
      <3>1. \A i \in Versions(toClient)' : i + 1 \in Versions(toClient) /\
            toClient'[i] = toClient[i + 1]
        BY <1>2 DEF Versions
      <3> QED
        BY <2>1, <3>1 DEF RosterInv, VersionsNamed
    <2> QED
      BY <2>1, <2>2, <2>3 DEF RosterInv, VersionsNamed
  <1>12. Corrected'
    BY <1>4, <1>6 DEF Corrected, Followed
  <1>13. ASSUME NEW j \in Jids \ Unsettled', j \notin Unsettled => Known(j)
         PROVE  Known(j)'
    <2>1. SUFFICES items'[j] = kept[j] \/ Has(toClient', Right(j))
      BY <1>1, <1>6 DEF Known, Has
    <2>2. CASE answer \in Right(j)
      BY <1>5, <2>2
    <2>3. CASE answer \in Wrong(j)
      BY <1>4, <2>3
    <2>4. CASE answer \notin Right(j) \cup Wrong(j)
      BY <1>3, <1>5, <1>13, <2>4 DEF Known
    <2> QED
      BY <2>2, <2>3, <2>4
  <1>14. AllKnown'
    BY <1>1, <1>13 DEF RosterInv, AllKnown
  <1>15. LoadsHonest'
    <2>1. SUFFICES ASSUME versioned, NEW i \in DOMAIN toServer, toServer[i].kind = "load",
                          NEW j \in Jids \ Unsettled', stamp[j] <= toServer[i].ver
                   PROVE  Known(j)'
      BY <1>1 DEF LoadsHonest
    <2>2. j \notin Unsettled => Known(j)
      BY <2>1 DEF RosterInv, LoadsHonest
    <2> QED
      BY <1>13, <2>2
  <1>16. AnswersHonest'
    <2>1. SUFFICES ASSUME versioned, NEW i \in Versions(toClient)', NEW j \in Jids,
                          stamp[j] <= toClient'[i].ver
                   PROVE  Vouched(i, j)'
      BY <1>1 DEF AnswersHonest, Versions
    <2>2. i + 1 \in Versions(toClient) /\ toClient'[i] = toClient[i + 1] /\ i \in Int /\ i >= 1
      BY <1>2 DEF Versions
    <2>3. Vouched(i + 1, j)
      BY <2>1, <2>2 DEF RosterInv, AnswersHonest
    <2>4. ASSUME j \notin Unsettled'
          PROVE  \/ items'[j] = kept[j]
                 \/ \E m \in DOMAIN toClient' : m <= i /\ toClient'[m] \in Right(j)
      <3>1. CASE answer \in Right(j)
        BY <1>5, <3>1
      <3>2. CASE answer \in Wrong(j)
        <4>1. PICK n \in DOMAIN toClient : 1 < n /\ n <= i + 1 /\ toClient[n] \in Right(j)
          BY <1>2, <2>2, <2>3, <3>2 DEF Vouched
        <4>2. n - 1 \in DOMAIN toClient' /\ toClient'[n - 1] \in Right(j) /\ n - 1 <= i
          BY <1>2, <2>2, <4>1
        <4> QED
          BY <4>2
      <3>3. CASE answer \notin Right(j) \cup Wrong(j)
        <4>1. j \notin Unsettled /\ items'[j] = items[j]
          BY <1>5, <2>4, <3>3
        <4>2. CASE items[j] = kept[j]
          BY <4>1, <4>2
        <4>3. CASE \E m \in DOMAIN toClient : m <= i + 1 /\ toClient[m] \in Right(j)
          <5>1. PICK m \in DOMAIN toClient : m <= i + 1 /\ toClient[m] \in Right(j)
            BY <4>3
          <5>2. m # 1
            BY <1>2, <3>3, <5>1
          <5>3. m - 1 \in DOMAIN toClient' /\ toClient'[m - 1] \in Right(j) /\ m - 1 <= i
            BY <1>2, <2>2, <5>1, <5>2
          <5> QED
            BY <5>3
        <4> QED
          BY <2>3, <4>1, <4>2, <4>3 DEF Vouched
      <3> QED
        BY <3>1, <3>2, <3>3
    <2>5. ASSUME NEW m \in DOMAIN toClient', m <= i, toClient'[m] \in Wrong(j)
          PROVE  \E n \in DOMAIN toClient' : m < n /\ n <= i /\ toClient'[n] \in Right(j)
      <3>1. m + 1 \in DOMAIN toClient /\ m + 1 <= i + 1 /\ toClient[m + 1] \in Wrong(j) /\
            m \in Int /\ m >= 1
        BY <1>2, <2>2, <2>5
      <3>2. PICK n \in DOMAIN toClient : m + 1 < n /\ n <= i + 1 /\ toClient[n] \in Right(j)
        BY <2>3, <3>1 DEF Vouched
      <3>3. n - 1 \in DOMAIN toClient' /\ toClient'[n - 1] \in Right(j) /\ m < n - 1 /\ n - 1 <= i
        BY <1>2, <2>2, <3>1, <3>2
      <3> QED
        BY <3>3
    <2> QED
      BY <1>1, <1>6, <2>4, <2>5 DEF Vouched
  <1>17. VersionHonest'
    <2>1. SUFFICES ASSUME versioned, NEW j \in Jids \ Unsettled', stamp[j] <= version'
                   PROVE  items'[j] = kept[j]
      BY <1>1 DEF VersionHonest
    <2>2. CASE answer.kind \in {"roster", "push"}
      <3>1. 1 \in Versions(toClient) /\ version' = toClient[1].ver
        BY <1>2, <1>5, <2>2 DEF Versions
      <3>2. Vouched(1, j)
        BY <2>1, <3>1 DEF RosterInv, AnswersHonest
      <3>3. answer \notin Wrong(j)
        BY <1>2, <3>2 DEF Vouched
      <3>4. \A m \in DOMAIN toClient : m <= 1 => toClient[m] = answer
        BY <1>2
      <3>5. CASE answer \notin Right(j) \cup Wrong(j)
        BY <1>5, <3>2, <3>4, <3>5 DEF Vouched
      <3> QED
        BY <1>5, <3>3, <3>5
    <2>3. CASE answer.kind \notin {"roster", "push"}
      BY <1>5, <2>1, <2>3 DEF RosterInv, VersionsHonest, VersionHonest
    <2> QED
      BY <2>2, <2>3
  <1>18. CacheHonest'
    BY <1>1 DEF RosterInv, VersionsHonest, CacheHonest
  <1> QED
    BY <1>1, <1>7, <1>9, <1>10, <1>11, <1>12, <1>14, <1>15, <1>16, <1>17, <1>18
       DEF RosterInv, VersionsHonest

\* What the server says as long as nothing changes, of what it has and in
\* versions that vouch for it.
LEMMA SaysInv ==
  ASSUME RosterInv, TypeOK', connected,
         NEW w \in Seq(Answers), toClient' = toClient \o w,
         UNCHANGED <<rosterVars, connected, loaded, cache, kept, stamp, versioned>>,
         \A i \in DOMAIN toServer' : \E m \in DOMAIN toServer : toServer'[i] = toServer[m],
         interested => interested',
         interested' \/ \A i \in DOMAIN w : w[i].kind = "error",
         \A j \in Jids \ Unsettled' : j \notin Unsettled,
         \A j \in Jids, i \in DOMAIN w : w[i] \notin Wrong(j),
         interested' => \A j \in Jids \ Unsettled' : Known(j) \/ Has(w, Right(j)),
         versioned => \A i \in Versions(w) :
             /\ w[i].ver <= Latest
             /\ \A j \in Jids \ Unsettled' : stamp[j] <= w[i].ver =>
                   Known(j) \/ \E m \in DOMAIN w : m <= i /\ w[m] \in Right(j)
  PROVE  RosterInv'
  <1> USE DEF rosterVars
  <1>1. TypeOK /\ toClient \in Seq(Answers)
    BY DEF RosterInv, TypeOK
  <1>2. LatestIs' /\ Latest' = Latest /\ StampsApart' /\ ChangedHeld'
    BY DEF RosterInv, LatestIs, Latest, StampsApart, ChangedHeld
  <1>3. \A j \in Jids : Right(j)' = Right(j) /\ Wrong(j)' = Wrong(j)
    BY DEF Right, Wrong
  <1>4. OfConnection'
    BY DEF OfConnection
  <1>5. \A i \in DOMAIN toClient : /\ i \in DOMAIN toClient' /\ toClient'[i] = toClient[i]
                                  /\ i \in Int /\ i <= Len(toClient)
    BY <1>1, ConcatIs
  <1>6. \A i \in DOMAIN w : /\ Len(toClient) + i \in DOMAIN toClient'
                           /\ toClient'[Len(toClient) + i] = w[i]
                           /\ i \in Int /\ i >= 1
    BY <1>1, ConcatIs
  <1>7. \A i \in DOMAIN toClient' :
           \/ i \in DOMAIN toClient
           \/ \E k \in DOMAIN w : i = Len(toClient) + k
    <2>1. ASSUME NEW i \in DOMAIN toClient', i - Len(toClient) \in DOMAIN w
          PROVE  \E k \in DOMAIN w : i = Len(toClient) + k
      <3>1. Len(toClient) \in Int /\ i \in Int
        BY <1>1, <2>1
      <3>2. i = Len(toClient) + (i - Len(toClient))
        BY <3>1
      <3> QED
        BY <2>1, <3>2
    <2> QED
      BY <1>1, <2>1, ConcatIs
  <1>8. OfInterest'
    <2>1. SUFFICES ASSUME ~interested'
                   PROVE  ~loaded /\ \A i \in DOMAIN toClient' : toClient'[i].kind = "error"
      BY DEF OfInterest
    <2> QED
      BY <1>5, <1>6, <1>7, <2>1 DEF RosterInv, OfInterest
  <1>9. VersionsNamed'
    <2>1. SUFFICES ASSUME versioned
                   PROVE  /\ version <= Latest /\ cache.ver <= Latest
                          /\ \A i \in DOMAIN toServer' :
                                toServer'[i].kind = "load" => toServer'[i].ver <= Latest
                          /\ \A i \in DOMAIN toClient' :
                                toClient'[i].kind \in {"roster", "push"} =>
                                    toClient'[i].ver <= Latest
      BY <1>2 DEF VersionsNamed, Versions
    <2>2. ASSUME NEW i \in DOMAIN toClient', toClient'[i].kind \in {"roster", "push"}
          PROVE  toClient'[i].ver <= Latest
      BY <1>5, <1>6, <1>7, <2>1, <2>2 DEF RosterInv, VersionsNamed, Versions
    <2> QED
      BY <2>1, <2>2 DEF RosterInv, VersionsNamed
  <1>10. Corrected'
    <2>1. SUFFICES ASSUME NEW j \in Jids PROVE Followed(toClient', Wrong(j), Right(j))
      BY <1>3 DEF Corrected, Followed
    <2>2. Followed(toClient, Wrong(j), Right(j))
      BY DEF RosterInv, Corrected
    <2>3. Followed(w, Wrong(j), Right(j))
      BY DEF Followed
    <2> QED
      BY <1>1, <2>2, <2>3, FollowedConcat
  <1>11. ASSUME NEW j \in Jids, Known(j) \/ Has(w, Right(j))
         PROVE  Known(j)'
    <2>2. Known(j)' <=> items[j] = kept[j] \/ Has(toClient', Right(j))
      BY <1>3 DEF Known, Has
    <2>3. Has(toClient, Right(j)) \/ Has(w, Right(j)) => Has(toClient', Right(j))
      BY <1>1, HasConcat
    <2> QED
      BY <1>11, <2>2, <2>3 DEF Known
  <1>12. AllKnown'
    BY <1>11 DEF AllKnown
  <1>13. LoadsHonest'
    BY <1>11 DEF RosterInv, LoadsHonest
  <1>14. AnswersHonest'
    <2> SUFFICES ASSUME versioned, NEW i \in Versions(toClient)', NEW j \in Jids,
                        stamp[j] <= toClient'[i].ver
                 PROVE  Vouched(i, j)'
      BY DEF AnswersHonest, Versions
    <2>1. /\ i \in DOMAIN toClient' /\ toClient'[i].kind \in {"roster", "push"}
          /\ versioned /\ stamp[j] <= toClient'[i].ver
      BY DEF Versions
    <2> DEFINE Reaches ==
                 j \notin Unsettled' =>
                    \/ items[j] = kept[j]
                    \/ \E m \in DOMAIN toClient' : m <= i /\ toClient'[m] \in Right(j)
               Rights ==
                 \A m \in DOMAIN toClient' : m <= i /\ toClient'[m] \in Wrong(j) =>
                    \E n \in DOMAIN toClient' : m < n /\ n <= i /\ toClient'[n] \in Right(j)
    <2>2. ASSUME i \in DOMAIN toClient
          PROVE  Reaches /\ Rights
      <3>1. Vouched(i, j)
        BY <1>5, <2>1, <2>2 DEF RosterInv, AnswersHonest, Versions
      <3>2. \A m \in DOMAIN toClient' : m <= i => m \in DOMAIN toClient
        BY <1>1, <1>5, <1>6, <1>7, <2>2
      <3> QED
        BY <1>5, <3>1, <3>2 DEF Vouched
    <2>3. ASSUME NEW k \in DOMAIN w, i = Len(toClient) + k
          PROVE  Reaches /\ Rights
      <3>1. k \in Versions(w) /\ stamp[j] <= w[k].ver
        BY <1>6, <2>1, <2>3 DEF Versions
      <3>2. Len(toClient) \in Int /\ \A m \in DOMAIN toClient : m <= i
        BY <1>1, <1>5, <1>6, <2>3
      <3>3. ASSUME j \notin Unsettled', items[j] # kept[j]
            PROVE  \E m \in DOMAIN toClient' : m <= i /\ toClient'[m] \in Right(j)
        <4>1. CASE Has(toClient, Right(j))
          BY <1>5, <3>2, <4>1 DEF Has
        <4>2. CASE \E m \in DOMAIN w : m <= k /\ w[m] \in Right(j)
          <5>1. PICK m \in DOMAIN w : m <= k /\ w[m] \in Right(j)
            BY <4>2
          <5>2. Len(toClient) + m <= i
            BY <1>6, <2>3, <3>2, <5>1
          <5> QED
            BY <1>6, <5>1, <5>2
        <4> QED
          BY <2>1, <3>1, <3>3, <4>1, <4>2 DEF Known
      <3>4. ASSUME NEW m \in DOMAIN toClient', toClient'[m] \in Wrong(j)
            PROVE  \E n \in DOMAIN toClient' : m < n /\ n <= i /\ toClient'[n] \in Right(j)
        <4>1. m \in DOMAIN toClient /\ toClient[m] \in Wrong(j)
          BY <1>5, <1>6, <1>7, <3>4
        <4>2. PICK n \in DOMAIN toClient : n > m /\ toClient[n] \in Right(j)
          BY <4>1 DEF RosterInv, Corrected, Followed
        <4>3. n <= i /\ m < n
          BY <1>5, <3>2, <4>1, <4>2
        <4> QED
          BY <1>5, <4>2, <4>3
      <3> QED
        BY <3>3, <3>4
    <2>4. Reaches /\ Rights
      BY <1>7, <2>1, <2>2, <2>3
    <2> QED
      BY <1>3, <2>4 DEF Vouched
  <1>15. VersionsHonest'
    BY DEF RosterInv, VersionsHonest, VersionHonest, CacheHonest
  <1> QED
    BY <1>2, <1>4, <1>8, <1>9, <1>10, <1>12, <1>13, <1>14, <1>15 DEF RosterInv

\* The first request has been answered: the others are as they were.
LEMMA RequestsLeft ==
  ASSUME RosterInv, ServerAnswers
  PROVE  /\ TypeOK /\ TypeOK' /\ LatestIs /\ connected
         /\ 1 \in DOMAIN toServer /\ Head(toServer) = toServer[1] /\ Head(toServer) \in Requests
         /\ \A i \in DOMAIN toServer' : \E m \in DOMAIN toServer : toServer'[i] = toServer[m]
         /\ \A j \in Editing :
               \/ j \in Editing'
               \/ Head(toServer).kind = "set" /\ j = Head(toServer).jid
         /\ UNCHANGED <<rosterVars, connected, loaded, cache, versioned>>
  <1>1. TypeOK /\ LatestIs /\ toServer \in Seq(Requests) /\ toServer # <<>> /\
        toServer' = Tail(toServer)
    BY DEF RosterInv, TypeOK, ServerAnswers
  <1>2. TypeOK'
    BY <1>1, ServerAnswersTypes
  <1>3. /\ 1 \in DOMAIN toServer /\ Head(toServer) = toServer[1] /\ Head(toServer) \in Requests
        /\ \A i \in DOMAIN toServer' : i + 1 \in DOMAIN toServer /\ toServer'[i] = toServer[i + 1]
        /\ \A i \in DOMAIN toServer :
              \/ i = 1
              \/ i - 1 \in DOMAIN toServer' /\ toServer[i] = toServer'[i - 1]
    BY <1>1, TailIs
  <1>4. ASSUME NEW j \in Editing
        PROVE  \/ j \in Editing'
               \/ Head(toServer).kind = "set" /\ j = Head(toServer).jid
    <2>1. PICK i \in DOMAIN toServer : toServer[i].kind = "set" /\ j = toServer[i].jid
      BY <1>4 DEF Editing
    <2>2. CASE i = 1
      BY <1>3, <2>1, <2>2
    <2>3. CASE i - 1 \in DOMAIN toServer' /\ toServer[i] = toServer'[i - 1]
      BY <2>1, <2>3 DEF Editing
    <2> QED
      BY <1>3, <2>2, <2>3
  <1>5. connected
    BY <1>1 DEF RosterInv, OfConnection
  <1> QED
    BY <1>1, <1>2, <1>3, <1>4, <1>5 DEF ServerAnswers

\* A push and a whole roster of the server tell what it has.
LEMMA PushIs ==
  ASSUME TypeOK, NEW j \in Jids
  PROVE  /\ Push(j) \in Answers /\ Push(j) \in Right(j)
         /\ \A k \in Jids : Push(j) \notin Wrong(k)
         /\ Push(j).kind = "push"
         /\ versioned => Push(j).ver = stamp[j]
  <1>1. Ver(stamp[j]) \in Nat /\ (versioned => Ver(stamp[j]) = stamp[j])
    BY VerType DEF TypeOK
  <1>2. Push(j) \in Answers
    BY <1>1, AnswersMade DEF Push, TypeOK, Rosters
  <1> QED
    BY <1>1, <1>2 DEF Push, Right, Wrong

\* The server sends the roster, the changes since a version, or neither.
LEMMA LoadsInv ==
  ASSUME RosterInv, ServerAnswers, Loads(Head(toServer)), ~EchoesErrors
  PROVE  RosterInv'
  <1> DEFINE r == Head(toServer)
  <1>1. /\ TypeOK /\ TypeOK' /\ LatestIs /\ connected
        /\ 1 \in DOMAIN toServer /\ r = toServer[1] /\ r \in Requests
        /\ \A i \in DOMAIN toServer' : \E m \in DOMAIN toServer : toServer'[i] = toServer[m]
        /\ \A j \in Editing : j \in Editing' \/ r.kind = "set"
        /\ UNCHANGED <<rosterVars, connected, loaded, cache, versioned>>
    BY RequestsLeft
  <1> HIDE DEF r
  <1>2. r.kind = "load" /\ r.ver \in Nat /\ UNCHANGED <<kept, stamp, dropped>>
    BY <1>1, RequestKinds DEF Loads, r
  <1>3. \A j \in Jids \ Unsettled' : j \notin Unsettled
    BY <1>1, <1>2 DEF Unsettled, rosterVars
  <1>4. Latest \in Nat /\ \A j \in Jids : stamp[j] <= Latest
    BY <1>1, LatestBounds
  <1>5. PICK w \in Seq(Answers) :
            /\ toClient' = toClient \o w
            /\ \/ w = <<[kind |-> "roster", ver |-> Ver(Latest), items |-> kept]>> /\ interested'
               \/ /\ versioned /\ r.ver # NoVersion /\ interested'
                  /\ \E c \in Changes(r.ver) : w = <<[kind |-> "current"]>> \o c
               \/ /\ interested' = interested
                  /\ w = <<[kind |-> "error"]>>
    <2>1. Loads(r)
      BY DEF r
    <2> QED
      BY <1>1, <2>1, LoadsSays
  <1>6. CASE w = <<[kind |-> "roster", ver |-> Ver(Latest), items |-> kept]>> /\ interested'
    <2> DEFINE a == [kind |-> "roster", ver |-> Ver(Latest), items |-> kept]
    <2>1. Ver(Latest) \in Nat /\ Ver(Latest) <= Latest
      BY <1>1, <1>4, VerType
    <2>2. a \in Answers
      BY <1>1, <2>1, AnswersMade DEF TypeOK
    <2>3. \A j \in Jids : a \in Right(j) /\ a \notin Wrong(j)
      BY <2>2 DEF Right, Wrong
    <2>4. a.ver <= Latest
      BY <2>1
    <2>5. 1 \in DOMAIN w /\ \A i \in DOMAIN w : i = 1 /\ w[i] = a
      BY <1>6
    <2> HIDE DEF a
    <2>6. \A j \in Jids, i \in DOMAIN w : w[i] \notin Wrong(j)
      BY <2>3, <2>5
    <2>7. \A j \in Jids : Has(w, Right(j))
      BY <2>3, <2>5 DEF Has
    <2>8. \A i \in Versions(w) :
             /\ w[i].ver <= Latest
             /\ \A j \in Jids : \E m \in DOMAIN w : m <= i /\ w[m] \in Right(j)
      BY <2>3, <2>4, <2>5 DEF Versions
    <2> QED
      BY <1>1, <1>2, <1>3, <1>5, <1>6, <2>6, <2>7, <2>8, SaysInv
  <1>7. CASE interested' = interested /\ w = <<[kind |-> "error"]>>
    <2>1. \A i \in DOMAIN w : w[i].kind = "error"
      BY <1>7
    <2>2. \A j \in Jids, i \in DOMAIN w : w[i] \notin Wrong(j)
      BY <2>1 DEF Wrong
    <2>3. Versions(w) = {}
      BY <2>1 DEF Versions
    <2>4. interested' => \A j \in Jids \ Unsettled' : Known(j)
      BY <1>3, <1>7 DEF RosterInv, AllKnown
    <2> QED
      BY <1>1, <1>2, <1>3, <1>5, <1>7, <2>1, <2>2, <2>3, <2>4, SaysInv
  <1>8. ASSUME versioned, r.ver # NoVersion, interested',
               NEW c \in Changes(r.ver), w = <<[kind |-> "current"]>> \o c
        PROVE  RosterInv'
    <2> DEFINE since == r.ver
    <2>1. /\ c \in Seq(Answers)
          /\ \A i \in DOMAIN c : \E j \in Jids : stamp[j] > since /\ c[i] = Push(j)
          /\ \A j \in Jids : stamp[j] > since => \E i \in DOMAIN c : c[i] = Push(j)
          /\ \A i, k \in DOMAIN c, a, b \in Jids :
                i < k /\ c[i] = Push(a) /\ c[k] = Push(b) => stamp[a] <= stamp[b]
      BY <1>1, <1>2, ChangesAre
    <2>2. since \in Nat /\ since # 0
      BY <1>2, <1>8 DEF NoVersion
    <2> HIDE DEF since
    <2>3. /\ 1 \in DOMAIN w /\ w[1] = [kind |-> "current"]
          /\ \A i \in DOMAIN c : i + 1 \in DOMAIN w /\ w[i + 1] = c[i] /\ i \in Int
          /\ \A i \in DOMAIN w :
                \/ i = 1
                \/ i \in Int /\ i - 1 \in DOMAIN c /\ w[i] = c[i - 1]
      <3> DEFINE a == [kind |-> "current"]
      <3>1. a \in Answers /\ w = <<a>> \o c
        BY <1>8, AnswersMade
      <3> HIDE DEF a
      <3>2. /\ 1 \in DOMAIN w /\ w[1] = a
            /\ \A i \in DOMAIN c : i + 1 \in DOMAIN w /\ w[i + 1] = c[i] /\ i \in Int
            /\ \A i \in DOMAIN w :
                  \/ i = 1
                  \/ i \in Int /\ i - 1 \in DOMAIN c /\ w[i] = c[i - 1]
        BY <2>1, <3>1, BehindOne
      <3>3. a = [kind |-> "current"]
        BY DEF a
      <3> QED
        BY <3>2, <3>3
    <2>4. \A j \in Jids : /\ Push(j) \in Right(j) /\ Push(j).kind = "push" /\ Push(j).ver = stamp[j]
                         /\ \A k \in Jids : Push(j) \notin Wrong(k)
      BY <1>1, <1>8, PushIs
    <2>5. w[1].kind = "current" /\ \A j \in Jids : w[1] \notin Wrong(j)
      BY <2>3 DEF Wrong
    <2>6. ASSUME NEW j \in Jids, NEW i \in DOMAIN w
          PROVE  w[i] \notin Wrong(j)
      <3>1. CASE i = 1
        BY <2>5, <3>1
      <3>2. CASE i - 1 \in DOMAIN c /\ w[i] = c[i - 1]
        <4>1. PICK a \in Jids : c[i - 1] = Push(a)
          BY <2>1, <3>2
        <4> QED
          BY <2>4, <3>2, <4>1
      <3> QED
        BY <2>3, <3>1, <3>2
    <2>7. ASSUME NEW j \in Jids, stamp[j] > since
          PROVE  Has(w, Right(j))
      BY <2>1, <2>3, <2>4, <2>7 DEF Has
    <2>8. ASSUME NEW j \in Jids \ Unsettled', stamp[j] <= since
          PROVE  Known(j)
      BY <1>1, <1>2, <1>3, <1>8, <2>8 DEF RosterInv, LoadsHonest, since
    <2>9. \A j \in Jids \ Unsettled' : Known(j) \/ Has(w, Right(j))
      BY <1>1, <2>2, <2>7, <2>8 DEF TypeOK
    <2>10. ASSUME NEW i \in Versions(w)
           PROVE  /\ w[i].ver <= Latest
                  /\ \A j \in Jids \ Unsettled' : stamp[j] <= w[i].ver =>
                        Known(j) \/ \E m \in DOMAIN w : m <= i /\ w[m] \in Right(j)
      <3>1. i \in DOMAIN w /\ i # 1 /\ i \in Int /\ i - 1 \in DOMAIN c /\ w[i] = c[i - 1]
        BY <2>3, <2>5 DEF Versions
      <3>2. PICK a \in Jids : stamp[a] > since /\ c[i - 1] = Push(a)
        BY <2>1, <3>1
      <3>3. w[i].ver = stamp[a] /\ stamp[a] <= Latest
        BY <1>4, <2>4, <3>1, <3>2
      <3>4. ASSUME NEW j \in Jids \ Unsettled', stamp[j] <= stamp[a], ~Known(j)
            PROVE  \E m \in DOMAIN w : m <= i /\ w[m] \in Right(j)
        <4>1. stamp[j] \in Nat /\ stamp[a] \in Nat
          BY <1>1 DEF TypeOK
        <4>2. stamp[j] > since
          BY <2>2, <2>8, <3>4, <4>1
        <4>3. PICK k \in DOMAIN c : c[k] = Push(j)
          BY <2>1, <4>2
        <4>4. k \in Int /\ k + 1 \in DOMAIN w /\ w[k + 1] = Push(j)
          BY <2>3, <4>3
        <4>5. CASE k + 1 <= i
          BY <2>4, <4>4, <4>5
        <4>6. CASE i - 1 < k
          <5>1. stamp[a] <= stamp[j]
            BY <2>1, <3>1, <3>2, <4>3, <4>6
          <5>2. stamp[a] = stamp[j] /\ stamp[j] > 1
            BY <2>2, <3>4, <4>1, <4>2, <5>1
          <5>3. a = j
            BY <4>1, <5>2 DEF RosterInv, StampsApart
          <5>4. w[i] \in Right(j) /\ i <= i
            BY <2>4, <3>1, <3>2, <5>3
          <5> QED
            BY <3>1, <5>4
        <4> QED
          BY <3>1, <4>4, <4>5, <4>6
      <3> QED
        BY <3>3, <3>4
    <2> QED
      BY <1>1, <1>2, <1>3, <1>5, <1>8, <2>6, <2>9, <2>10, SaysInv
  <1> QED
    BY <1>5, <1>6, <1>7, <1>8

\* The server does not take an edit: what the client has of the contact is
\* its own.
LEMMA RefusesEditInv ==
  ASSUME RosterInv, ServerAnswers, RefusesEdit(Head(toServer))
  PROVE  RosterInv'
  <1> DEFINE r == Head(toServer)
             w == <<[kind |-> "error"]>>
  <1>1. /\ TypeOK /\ TypeOK' /\ LatestIs /\ connected
        /\ \A i \in DOMAIN toServer' : \E m \in DOMAIN toServer : toServer'[i] = toServer[m]
        /\ \A j \in Editing : j \in Editing' \/ j = r.jid
        /\ UNCHANGED <<rosterVars, connected, loaded, cache, versioned>>
    BY RequestsLeft
  <1>2. /\ toClient' = toClient \o w /\ dropped' = dropped \cup {r.jid}
        /\ UNCHANGED <<kept, stamp, interested>>
    BY DEF RefusesEdit, Says
  <1>3. \A j \in Jids \ Unsettled' : j \notin Unsettled
    BY <1>1, <1>2 DEF Unsettled, rosterVars
  <1>4. w \in Seq(Answers) /\ \A i \in DOMAIN w : w[i].kind = "error"
    BY <1>1, AnswersMade, Said
  <1> HIDE DEF w
  <1>5. \A j \in Jids, i \in DOMAIN w : w[i] \notin Wrong(j)
    BY <1>4 DEF Wrong
  <1>6. Versions(w) = {}
    BY <1>4 DEF Versions
  <1>7. interested' => \A j \in Jids \ Unsettled' : Known(j)
    BY <1>2, <1>3 DEF RosterInv, AllKnown
  <1> QED
    BY <1>1, <1>2, <1>3, <1>4, <1>5, <1>6, <1>7, SaysInv

\* The server's roster changes in a new version: whoever is interested is
\* told, and no version that has been named vouches for the contact.
LEMMA AltersInv ==
  ASSUME RosterInv, TypeOK', NEW j \in Jids, NEW name \in Values, Alters(j, name),
         UNCHANGED <<rosterVars, connected, loaded, cache, versioned, interested>>,
         connected \/ toServer' = <<>>,
         \A i \in DOMAIN toServer' : \E m \in DOMAIN toServer : toServer'[i] = toServer[m],
         \A k \in Jids \ Unsettled' : k = j \/ k \notin Unsettled
  PROVE  RosterInv'
  <1> USE DEF rosterVars
  <1> DEFINE push == [kind |-> "push", ver |-> Ver(Latest + 1), jid |-> j, name |-> name]
             w == IF interested THEN <<push>> ELSE <<>>
  <1>1. TypeOK /\ LatestIs /\ toClient \in Seq(Answers) /\ toClient' \in Seq(Answers)
    BY DEF RosterInv, TypeOK
  <1>2. /\ LatestIs' /\ stamp' \in [Jids -> Nat]
        /\ stamp'[j] = Latest + 1
        /\ \A k \in Jids : k # j => stamp'[k] = stamp[k] /\ kept'[k] = kept[k]
        /\ kept'[j] = name
        /\ \A k \in Jids : stamp'[k] <= Latest + 1
    BY <1>1, AltersTypes
  <1>3. Latest \in Nat /\ \A k \in Jids : stamp[k] \in Nat /\ stamp[k] <= Latest
    BY <1>1, LatestBounds DEF TypeOK
  <1>4. Latest' = Latest + 1
    <2>1. Latest' \in {stamp'[k] : k \in Jids} \cup {0} /\ \A k \in Jids : stamp'[k] <= Latest'
      BY <1>2 DEF LatestIs, Latest
    <2>2. Latest' \in Nat /\ Latest + 1 <= Latest'
      BY <1>2, <2>1
    <2>3. Latest' <= Latest + 1
      BY <1>2, <1>3, <2>1
    <2> QED
      BY <1>3, <2>2, <2>3
  <1>5. StampsApart'
    BY <1>2, <1>3 DEF RosterInv, StampsApart
  <1>6. ASSUME NEW k \in Jids, k # j
        PROVE  Right(k)' = Right(k) /\ Wrong(k)' = Wrong(k)
    BY <1>2, <1>6, RightKept
  <1>7. /\ push \in Answers /\ push.kind = "push" /\ (versioned => push.ver = Latest + 1)
        /\ push \in Right(j)' /\ \A k \in Jids : push \notin Wrong(k)'
    <2>1. Ver(Latest + 1) \in Nat /\ (versioned => Ver(Latest + 1) = Latest + 1)
      BY <1>1, <1>3, VerType
    <2>2. push \in Answers
      BY <2>1, AnswersMade
    <2> QED
      BY <1>2, <2>1, <2>2 DEF Right, Wrong
  <1>8. toClient' = IF interested THEN Append(toClient, push) ELSE toClient
    BY DEF Alters
  <1>9. ~interested => ~loaded /\ \A i \in DOMAIN toClient : toClient[i].kind = "error"
    BY DEF RosterInv, OfInterest
  <1> HIDE DEF push
  <1>10. /\ w \in Seq(Answers) /\ toClient' = toClient \o w
         /\ \A i \in DOMAIN w : i = 1 /\ w[i] = push
         /\ interested => 1 \in DOMAIN w /\ w[1] = push
         /\ ~interested => toClient' = toClient
    BY <1>1, <1>7, <1>8, AppendIs
  <1> HIDE DEF w
  <1>11. /\ \A i \in DOMAIN toClient : /\ i \in DOMAIN toClient' /\ toClient'[i] = toClient[i]
                                      /\ i \in Int /\ i <= Len(toClient)
         /\ Len(toClient) \in Int
    BY <1>1, <1>10, ConcatIs
  <1>12. ASSUME NEW i \in DOMAIN toClient'
         PROVE  \/ i \in DOMAIN toClient
                \/ interested /\ i = Len(toClient) + 1 /\ toClient'[i] = push
    BY <1>1, <1>7, <1>8, <1>12, AppendIs
  <1>13. interested => Len(toClient) + 1 \in DOMAIN toClient' /\ toClient'[Len(toClient) + 1] = push
    BY <1>1, <1>10, ConcatIs
  <1>14. OfConnection' /\ ChangedHeld' /\ OfInterest'
    BY <1>9, <1>10 DEF RosterInv, OfConnection, ChangedHeld, OfInterest
  <1>15. /\ version \in Nat /\ cache.ver \in Nat
         /\ versioned => version <= Latest /\ cache.ver <= Latest
    BY <1>1 DEF RosterInv, VersionsNamed, TypeOK
  <1>16. ASSUME versioned, NEW i \in DOMAIN toServer', toServer'[i].kind = "load"
         PROVE  toServer'[i].ver \in Nat /\ toServer'[i].ver <= Latest
    <2>1. PICK m \in DOMAIN toServer : toServer'[i] = toServer[m]
      OBVIOUS
    <2>2. toServer[m] \in Requests
      BY <1>1 DEF TypeOK
    <2> QED
      BY <1>16, <2>1, <2>2, RequestKinds DEF RosterInv, VersionsNamed
  <1>17. ASSUME versioned, NEW i \in DOMAIN toClient, toClient[i].kind \in {"roster", "push"}
         PROVE  toClient[i].ver \in Nat /\ toClient[i].ver <= Latest
    BY <1>1, <1>17, AnswerKinds DEF RosterInv, VersionsNamed, Versions
  <1>18. VersionsHonest'
    <2>1. VersionHonest'
      BY <1>2, <1>3, <1>15 DEF RosterInv, VersionsHonest, VersionHonest
    <2>2. CacheHonest'
      BY <1>2, <1>3, <1>15 DEF RosterInv, VersionsHonest, CacheHonest
    <2> QED
      BY <2>1, <2>2 DEF VersionsHonest
  <1>19. VersionsNamed'
    <2>1. SUFFICES ASSUME versioned
                   PROVE  /\ version <= Latest' /\ cache.ver <= Latest'
                          /\ \A i \in DOMAIN toServer' :
                                toServer'[i].kind = "load" => toServer'[i].ver <= Latest'
                          /\ \A i \in DOMAIN toClient' :
                                toClient'[i].kind \in {"roster", "push"} =>
                                    toClient'[i].ver <= Latest'
      BY DEF VersionsNamed, Versions
    <2>2. \A i \in DOMAIN toServer' : toServer'[i].kind = "load" => toServer'[i].ver <= Latest'
      BY <1>3, <1>4, <1>16, <2>1
    <2>3. ASSUME NEW i \in DOMAIN toClient', toClient'[i].kind \in {"roster", "push"}
          PROVE  toClient'[i].ver <= Latest'
      <3>1. CASE i \in DOMAIN toClient
        BY <1>3, <1>4, <1>11, <1>17, <2>1, <2>3, <3>1
      <3>2. CASE toClient'[i] = push
        BY <1>3, <1>4, <1>7, <2>1, <3>2
      <3> QED
        BY <1>12, <3>1, <3>2
    <2> QED
      BY <1>3, <1>4, <1>15, <2>1, <2>2, <2>3
  <1>20. ASSUME NEW k \in Jids
         PROVE  Followed(toClient', Wrong(k)', Right(k)')
    <2>1. CASE ~interested
      BY <1>9, <1>10, <2>1 DEF Followed, Wrong
    <2>2. CASE interested
      <3>1. Followed(toClient, Wrong(k), Right(k))
        BY DEF RosterInv, Corrected
      <3>2. Followed(w, Wrong(k)', Right(k)')
        BY <1>7, <1>10 DEF Followed
      <3>3. CASE k = j
        <4>1. Has(w, Right(k)')
          BY <1>7, <1>10, <2>2, <3>3 DEF Has
        <4> QED
          BY <1>1, <1>10, <3>1, <3>2, <4>1, FollowedConcat
      <3>4. CASE k # j
        <4>1. Followed(w, Wrong(k), Right(k))
          BY <1>6, <3>2, <3>4
        <4>2. Followed(toClient', Wrong(k), Right(k))
          BY <1>1, <1>10, <3>1, <4>1, FollowedConcat
        <4> QED
          BY <1>6, <3>4, <4>2
      <3> QED
        BY <3>3, <3>4
    <2> QED
      BY <2>1, <2>2
  <1>21. Corrected'
    BY <1>20 DEF Corrected, Followed
  <1>22. ASSUME NEW k \in Jids, k # j, Known(k)
         PROVE  Known(k)'
    BY <1>2, <1>6, <1>11, <1>22 DEF Known, Has
  <1>23. interested => Known(j)'
    BY <1>7, <1>13 DEF Known, Has
  <1>24. AllKnown'
    BY <1>22, <1>23 DEF RosterInv, AllKnown
  <1>25. LoadsHonest'
    <2>1. SUFFICES ASSUME versioned, NEW i \in DOMAIN toServer', toServer'[i].kind = "load",
                          NEW k \in Jids \ Unsettled', stamp'[k] <= toServer'[i].ver
                   PROVE  Known(k)'
      BY DEF LoadsHonest
    <2>2. k # j
      BY <1>2, <1>3, <1>16, <2>1
    <2>3. Known(k)
      <3>1. PICK m \in DOMAIN toServer : toServer'[i] = toServer[m]
        OBVIOUS
      <3> QED
        BY <1>2, <2>1, <2>2, <3>1 DEF RosterInv, LoadsHonest
    <2> QED
      BY <1>22, <2>2, <2>3
  <1>26. AnswersHonest'
    <2> SUFFICES ASSUME versioned, NEW i \in Versions(toClient)', NEW k \in Jids,
                        stamp'[k] <= toClient'[i].ver
                 PROVE  Vouched(i, k)'
      BY DEF AnswersHonest, Versions
    <2>1. /\ i \in DOMAIN toClient' /\ toClient'[i].kind \in {"roster", "push"}
          /\ versioned /\ stamp'[k] <= toClient'[i].ver
      BY DEF Versions
    <2>2. CASE i \in DOMAIN toClient
      <3>1. k # j
        BY <1>2, <1>3, <1>11, <1>17, <2>1, <2>2
      <3>2. Vouched(i, k)
        BY <1>2, <1>11, <2>1, <2>2, <3>1 DEF RosterInv, AnswersHonest, Versions
      <3>3. \A m \in DOMAIN toClient' : m <= i => m \in DOMAIN toClient
        BY <1>11, <1>12, <2>2
      <3>4. Right(k)' = Right(k) /\ Wrong(k)' = Wrong(k) /\ kept'[k] = kept[k]
        BY <1>2, <1>6, <3>1
      <3>5. k \notin Unsettled' => k \notin Unsettled
        BY <3>1
      <3>6. k \notin Unsettled' =>
               \/ items[k] = kept[k]
               \/ \E m \in DOMAIN toClient' : m <= i /\ toClient'[m] \in Right(k)
        BY <1>11, <3>2, <3>5 DEF Vouched
      <3>7. \A m \in DOMAIN toClient' : m <= i /\ toClient'[m] \in Wrong(k) =>
               \E n \in DOMAIN toClient' : m < n /\ n <= i /\ toClient'[n] \in Right(k)
        BY <1>11, <3>2, <3>3 DEF Vouched
      <3> QED
        BY <3>4, <3>6, <3>7 DEF Vouched
    <2>3. CASE interested /\ i = Len(toClient) + 1 /\ toClient'[i] = push
      <3>1. \A m \in DOMAIN toClient' : m <= i
        BY <1>11, <1>12, <2>3
      <3>2. k \notin Unsettled' => Known(k)'
        BY <1>24, <2>3 DEF AllKnown
      <3>3. k \notin Unsettled' =>
               \/ items[k] = kept'[k]
               \/ \E m \in DOMAIN toClient' : m <= i /\ toClient'[m] \in Right(k)'
        BY <3>1, <3>2 DEF Known, Has
      <3>4. \A m \in DOMAIN toClient' : m <= i /\ toClient'[m] \in Wrong(k)' =>
               \E n \in DOMAIN toClient' : m < n /\ n <= i /\ toClient'[n] \in Right(k)'
        BY <1>11, <1>12, <1>20, <3>1 DEF Followed
      <3> QED
        BY <3>3, <3>4 DEF Vouched
    <2> QED
      BY <1>12, <2>1, <2>2, <2>3
  <1> QED
    BY <1>2, <1>5, <1>14, <1>18, <1>19, <1>21, <1>24, <1>25, <1>26 DEF RosterInv

\* The connection comes up: nothing has been said in it.
LEMMA ConnectsInv ==
  ASSUME RosterInv, Connects
  PROVE  RosterInv'
  <1> USE DEF Connects, rosterVars, wire
  <1>1. TypeOK' /\ ChangedHeld'
    BY DEF RosterInv, TypeOK, ChangedHeld, serverVars
  <1>2. Unsettled' = Unsettled
    BY DEF Unsettled, Editing
  <1>3. CacheHonest' /\ (versioned => cache'.ver <= Latest)
    BY DEF RosterInv, VersionsHonest, CacheHonest, VersionsNamed, serverVars
  <1>4. \A i \in DOMAIN toServer' : \E m \in DOMAIN toServer : toServer'[i] = toServer[m]
    OBVIOUS
  <1> QED
    BY <1>1, <1>2, <1>3, <1>4, ClientStepInv

\* The connection is lost: the edits that were under way stay unsettled.
LEMMA DisconnectsInv ==
  ASSUME RosterInv, Disconnects
  PROVE  RosterInv'
  <1>1. /\ toServer' = <<>> /\ toClient' = <<>> /\ ~interested' /\ ~loaded'
        /\ dropped' = dropped \cup Editing
        /\ UNCHANGED <<items, version, changed, orphans, cache, kept, stamp, versioned>>
    BY DEF Disconnects, rosterVars
  <1>2. TypeOK' /\ LatestIs' /\ ChangedHeld'
    BY NextTypes DEF RosterInv, Next
  <1>3. Unsettled \subseteq Unsettled'
    BY <1>1 DEF Unsettled
  <1>4. Latest' = Latest /\ StampsApart'
    BY <1>1 DEF RosterInv, Latest, StampsApart
  <1>5. OfConnection' /\ OfInterest'
    BY <1>1 DEF OfConnection, OfInterest
  <1>6. VersionsNamed'
    BY <1>1, <1>4 DEF RosterInv, VersionsNamed, Versions
  <1>7. Corrected' /\ AllKnown' /\ LoadsHonest' /\ AnswersHonest'
    BY <1>1 DEF Corrected, Followed, AllKnown, LoadsHonest, AnswersHonest, Versions
  <1>8. VersionsHonest'
    BY <1>1, <1>3 DEF RosterInv, VersionsHonest, VersionHonest, CacheHonest
  <1> QED
    BY <1>2, <1>4, <1>5, <1>6, <1>7, <1>8 DEF RosterInv

\* The application starts again with what it has saved.
LEMMA RestartInv ==
  ASSUME RosterInv, Restart
  PROVE  RosterInv'
  <1>1. /\ version' = cache.ver /\ items' = cache.items
        /\ UNCHANGED <<connected, loaded, cache, kept, stamp, versioned, interested, toServer,
                       toClient>>
        /\ ~connected
    BY DEF Restart, serverVars, wire
  <1>2. toServer = <<>> /\ toClient = <<>> /\ ~interested /\ ~loaded
    BY <1>1 DEF RosterInv, OfConnection
  <1>3. TypeOK' /\ LatestIs' /\ ChangedHeld'
    BY NextTypes DEF RosterInv, Next
  <1>4. Latest' = Latest /\ StampsApart'
    BY <1>1 DEF RosterInv, Latest, StampsApart
  <1>5. OfConnection' /\ OfInterest'
    BY <1>1, <1>2 DEF OfConnection, OfInterest
  <1>6. VersionsNamed'
    BY <1>1, <1>2, <1>4 DEF RosterInv, VersionsNamed, Versions
  <1>7. Corrected' /\ AllKnown' /\ LoadsHonest' /\ AnswersHonest'
    BY <1>1, <1>2 DEF Corrected, Followed, AllKnown, LoadsHonest, AnswersHonest, Versions
  <1>8. VersionsHonest'
    BY <1>1 DEF RosterInv, VersionsHonest, VersionHonest, CacheHonest
  <1> QED
    BY <1>3, <1>4, <1>5, <1>6, <1>7, <1>8 DEF RosterInv

\* Every step keeps the invariant, if errors do not repeat the query.
LEMMA NextRosterInv ==
  ASSUME RosterInv, [Next]_vars, ~EchoesErrors
  PROVE  RosterInv'
  <1>1. TypeOK /\ TypeOK'
    BY NextTypes DEF RosterInv
  <1>2. CASE \/ load \/ synchronize \/ Save
             \/ \E j \in Jids, name \in Names : setName(j, name) \/ add(j, name)
             \/ \E j \in Jids : remove(j)
    BY <1>2, CallsInv
  <1>3. CASE ServerAnswers
    <2> DEFINE r == Head(toServer)
    <2>1. /\ connected /\ r \in Requests
          /\ \A i \in DOMAIN toServer' : \E m \in DOMAIN toServer : toServer'[i] = toServer[m]
          /\ \A j \in Editing : j \in Editing' \/ j = r.jid
          /\ UNCHANGED <<rosterVars, connected, loaded, cache, versioned>>
      BY <1>3, RequestsLeft
    <2>2. CASE TakesEdit(r)
      <3> HIDE DEF r
      <3>1. r.jid \in Jids /\ r.name \in Values /\ Alters(r.jid, r.name)
            /\ UNCHANGED <<interested, dropped>>
        BY <2>1, <2>2, RequestKinds DEF TakesEdit
      <3>2. \A k \in Jids \ Unsettled' : k = r.jid \/ k \notin Unsettled
        BY <2>1, <3>1 DEF Unsettled, rosterVars
      <3> QED
        BY <1>1, <2>1, <3>1, <3>2, AltersInv
    <2> QED
      BY <1>3, <2>2, LoadsInv, RefusesEditInv DEF ServerAnswers
  <1>4. ASSUME NEW j \in Jids, NEW name \in Values, OthersChange(j, name)
        PROVE  RosterInv'
    <2>1. /\ Alters(j, name)
          /\ UNCHANGED <<rosterVars, connected, loaded, cache, versioned, interested, toServer,
                         dropped>>
      BY <1>4 DEF OthersChange
    <2>2. Unsettled' = Unsettled
      BY <2>1 DEF Unsettled, Editing, rosterVars
    <2>3. connected \/ toServer' = <<>>
      BY <2>1 DEF RosterInv, OfConnection
    <2>4. \A i \in DOMAIN toServer' : \E m \in DOMAIN toServer : toServer'[i] = toServer[m]
      BY <2>1
    <2> QED
      BY <1>1, <2>1, <2>2, <2>3, <2>4, AltersInv
  <1>5. CASE UNCHANGED vars
    <2>1. UNCHANGED <<rosterVars, connected, loaded, cache, serverVars, toServer, toClient,
                      dropped>>
      BY <1>5 DEF vars, wire
    <2>2. Unsettled' = Unsettled /\ ChangedHeld'
      BY <2>1 DEF Unsettled, Editing, RosterInv, ChangedHeld, rosterVars
    <2>3. CacheHonest' /\ (versioned => cache'.ver <= Latest)
      BY <2>1 DEF RosterInv, VersionsHonest, CacheHonest, VersionsNamed, serverVars
    <2>4. ~connected' => toServer' = <<>>
      BY <2>1 DEF RosterInv, OfConnection
    <2>5. \A i \in DOMAIN toServer' : \E m \in DOMAIN toServer : toServer'[i] = toServer[m]
      BY <2>1
    <2> QED
      BY <1>1, <2>1, <2>2, <2>3, <2>4, <2>5, ClientStepInv DEF rosterVars
  <1> QED
    BY <1>2, <1>3, <1>4, <1>5, handleIQInv, ConnectsInv, DisconnectsInv, RestartInv DEF Next

\* Neither the version in use nor the saved one ever runs ahead of its items,
\* over any number of changes, requests, broken connections and restarts, as
\* long as the server's errors do not repeat the query.
THEOREM SpecVersionsHonest ==
  ASSUME ~EchoesErrors
  PROVE  Spec => []VersionsHonest
  <1>1. Init => RosterInv
    BY InitRosterInv
  <1>2. RosterInv /\ [Next]_vars => RosterInv'
    BY NextRosterInv
  <1>3. RosterInv => VersionsHonest
    BY DEF RosterInv
  <1> QED
    BY <1>1, <1>2, <1>3, PTL DEF Spec

\* A roster that is loaded is the server's once nothing is under way: whole
\* rosters, changes since a version and pushes add up in every order.
THEOREM SpecConverges ==
  ASSUME ~EchoesErrors
  PROVE  Spec => []Converges
  <1>1. Init => RosterInv
    BY InitRosterInv
  <1>2. RosterInv /\ [Next]_vars => RosterInv'
    BY NextRosterInv
  <1>3. RosterInv => Converges
    BY DEF RosterInv, Converges, OfInterest, AllKnown, Known, Has
  <1> QED
    BY <1>1, <1>2, <1>3, PTL DEF Spec

=============================================================================
