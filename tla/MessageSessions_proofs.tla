------------------------ MODULE MessageSessions_proofs ------------------------
(***************************************************************************)
(* Theorems about the sessions of messages, for any number of sessions,    *)
(* peers, resources and threads.                                           *)
(***************************************************************************)
EXTENDS MessageSessions, TLAPS

---------------------------------------------------------------------------
\* The two hashes.

\* A session that is put first.
LEMMA PutFirst ==
  ASSUME NEW A, NEW q \in Seq(A), NEW s \in A
  PROVE  /\ <<s>> \o q \in Seq(A)
         /\ Nowhere(q, s) => Once(<<s>> \o q, s)
         /\ \A r : r # s =>
               /\ Once(q, r) => Once(<<s>> \o q, r)
               /\ Nowhere(q, r) => Nowhere(<<s>> \o q, r)
  <1> DEFINE w == <<s>> \o q
  <1>1. /\ w \in Seq(A) /\ 1 \in DOMAIN w /\ w[1] = s
        /\ \A i \in DOMAIN q : i \in Int /\ i + 1 \in DOMAIN w /\ w[i + 1] = q[i]
        /\ \A i \in DOMAIN w :
              \/ i = 1
              \/ i \in Int /\ i - 1 \in DOMAIN q /\ w[i] = q[i - 1]
    OBVIOUS
  <1> HIDE DEF w
  <1>2. Nowhere(q, s) => Once(w, s)
    BY <1>1 DEF Nowhere, Once
  <1>3. ASSUME NEW r, r # s, Nowhere(q, r)
        PROVE  Nowhere(w, r)
    <2>1. ASSUME NEW i \in DOMAIN w
          PROVE  w[i] # r
      <3>1. CASE i = 1
        BY <1>1, <1>3, <3>1
      <3>2. CASE i - 1 \in DOMAIN q /\ w[i] = q[i - 1]
        BY <1>3, <3>2 DEF Nowhere
      <3> QED
        BY <1>1, <3>1, <3>2
    <2> QED
      BY <2>1 DEF Nowhere
  <1>4. ASSUME NEW r, r # s, Once(q, r)
        PROVE  Once(w, r)
    <2>1. PICK i \in DOMAIN q : q[i] = r /\ \A k \in DOMAIN q : q[k] = r => k = i
      BY <1>4 DEF Once
    <2>2. i \in Int /\ i + 1 \in DOMAIN w /\ w[i + 1] = r
      BY <1>1, <2>1
    <2>3. ASSUME NEW k \in DOMAIN w, w[k] = r
          PROVE  k = i + 1
      <3>1. k \in Int /\ k - 1 \in DOMAIN q /\ q[k - 1] = r
        BY <1>1, <1>4, <2>3
      <3>2. k - 1 = i
        BY <2>1, <3>1
      <3> QED
        BY <2>2, <3>1, <3>2
    <2> QED
      BY <2>2, <2>3 DEF Once
  <1> QED
    BY <1>1, <1>2, <1>3, <1>4 DEF w

\* What is left when the session at one place is taken out.
LEMMA RemoveAtIs ==
  ASSUME NEW A, NEW q \in Seq(A), NEW p \in DOMAIN q, NEW w, w = RemoveAt(q, p)
  PROVE  /\ w \in Seq(A)
         /\ \A i \in DOMAIN q :
               /\ i \in Int
               /\ i < p => i \in DOMAIN w /\ w[i] = q[i]
               /\ i > p => i - 1 \in DOMAIN w /\ w[i - 1] = q[i]
         /\ \A i \in DOMAIN w :
               /\ i \in Int
               /\ i < p => i \in DOMAIN q /\ w[i] = q[i]
               /\ i >= p => i + 1 \in DOMAIN q /\ w[i] = q[i + 1]
  <1> DEFINE n == Len(q)
             before == SubSeq(q, 1, p - 1)
             behind == SubSeq(q, p + 1, n)
  <1>1. n \in Nat /\ p \in Int /\ 1 <= p /\ p <= n /\ DOMAIN q = 1 .. n
    OBVIOUS
  <1>2. /\ before \in Seq(A) /\ Len(before) = p - 1
        /\ \A i \in 1 .. p - 1 : before[i] = q[i]
    BY <1>1
  <1>3. /\ behind \in Seq(A) /\ Len(behind) = n - p
        /\ \A i \in 1 .. n - p : behind[i] = q[p + i]
    BY <1>1
  <1>4. w = before \o behind
    BY DEF RemoveAt
  <1> HIDE DEF n, before, behind
  <1>5. w \in Seq(A) /\ Len(w) = n - 1 /\ DOMAIN w = 1 .. n - 1
    <2>1. w \in Seq(A) /\ Len(w) = Len(before) + Len(behind)
      <3>1. before \in Seq(A) /\ behind \in Seq(A)
        BY <1>2, <1>3
      <3> QED
        BY <1>4, <3>1
    <2>2. Len(w) = n - 1
      BY <1>1, <1>2, <1>3, <2>1
    <2> QED
      BY <2>1, <2>2
  <1>6. ASSUME NEW i \in 1 .. n - 1, i < p
        PROVE  w[i] = q[i]
    BY <1>1, <1>2, <1>3, <1>4, <1>6
  <1>7. ASSUME NEW i \in 1 .. n - 1, i >= p
        PROVE  w[i] = q[i + 1]
    <2>1. w[i] = behind[i - (p - 1)]
      BY <1>1, <1>2, <1>3, <1>4, <1>7
    <2>2. i - (p - 1) \in 1 .. n - p /\ p + (i - (p - 1)) = i + 1
      BY <1>1, <1>7
    <2> QED
      BY <1>3, <2>1, <2>2
  <1>8. ASSUME NEW i \in DOMAIN q, i > p
        PROVE  i - 1 \in DOMAIN w /\ w[i - 1] = q[i]
    <2>1. i - 1 \in 1 .. n - 1 /\ i - 1 >= p /\ (i - 1) + 1 = i
      BY <1>1, <1>8
    <2> QED
      BY <1>5, <1>7, <2>1
  <1> QED
    BY <1>1, <1>5, <1>6, <1>7, <1>8

\* A session that is taken out.
LEMMA TakenOut ==
  ASSUME NEW A, NEW q \in Seq(A), NEW s
  PROVE  /\ Without(q, s) \in Seq(A)
         /\ Once(q, s) \/ Nowhere(q, s) => Nowhere(Without(q, s), s)
         /\ \A r : r # s =>
               /\ Once(q, r) => Once(Without(q, s), r)
               /\ Nowhere(q, r) => Nowhere(Without(q, s), r)
  <1>1. CASE Nowhere(q, s)
    BY <1>1 DEF Nowhere, Without
  <1>2. CASE ~Nowhere(q, s)
    <2> DEFINE p == CHOOSE i \in DOMAIN q : q[i] = s
               w == RemoveAt(q, p)
    <2>1. p \in DOMAIN q /\ q[p] = s
      BY <1>2 DEF Nowhere
    <2>2. Without(q, s) = w
      BY <1>2 DEF Without, Nowhere
    <2> HIDE DEF p
    <2>3. /\ w \in Seq(A) /\ p \in Int
          /\ \A i \in DOMAIN q : /\ i \in Int
                                 /\ i < p => i \in DOMAIN w /\ w[i] = q[i]
                                 /\ i > p => i - 1 \in DOMAIN w /\ w[i - 1] = q[i]
          /\ \A i \in DOMAIN w : /\ i \in Int
                                 /\ i < p => i \in DOMAIN q /\ w[i] = q[i]
                                 /\ i >= p => i + 1 \in DOMAIN q /\ w[i] = q[i + 1]
      BY <2>1, RemoveAtIs
    <2> HIDE DEF w
    <2>4. ASSUME NEW r, NEW i \in DOMAIN w, w[i] = r
          PROVE  \E k \in DOMAIN q : k # p /\ q[k] = r /\ i = IF k < p THEN k ELSE k - 1
      <3>1. CASE i < p
        BY <2>3, <2>4, <3>1
      <3>2. CASE i >= p
        <4>1. i + 1 \in DOMAIN q /\ q[i + 1] = r /\ i \in Int
          BY <2>3, <2>4, <3>2
        <4>2. i + 1 # p /\ ~ (i + 1 < p) /\ i = (i + 1) - 1
          BY <2>3, <3>2, <4>1
        <4> QED
          BY <4>1, <4>2
      <3> QED
        BY <2>3, <3>1, <3>2
    <2>5. Once(q, s) => Nowhere(w, s)
      BY <2>1, <2>4 DEF Once, Nowhere
    <2>6. \A r : Nowhere(q, r) => Nowhere(w, r)
      BY <2>4 DEF Nowhere
    <2>7. ASSUME NEW r, r # s, Once(q, r)
          PROVE  Once(w, r)
      <3>1. PICK i \in DOMAIN q : q[i] = r /\ \A k \in DOMAIN q : q[k] = r => k = i
        BY <2>7 DEF Once
      <3>2. i # p /\ i \in Int
        BY <2>1, <2>3, <2>7, <3>1
      <3> DEFINE n == IF i < p THEN i ELSE i - 1
      <3>3. n \in DOMAIN w /\ w[n] = r
        BY <2>3, <3>1, <3>2
      <3>4. \A k \in DOMAIN w : w[k] = r => k = n
        BY <2>4, <3>1
      <3> HIDE DEF n
      <3> QED
        BY <3>3, <3>4 DEF Once
    <2> QED
      BY <1>2, <2>2, <2>3, <2>5, <2>6, <2>7
  <1> QED
    BY <1>1, <1>2

\* Both hashes are of the sessions they are of.
LEMMA RegistriesAre ==
  ASSUME NEW A, NEW h \in Registries(A)
  PROVE  /\ \A j \in JIDs : h.full[j] \in Seq(A)
         /\ \A b \in Bares : h.bare[b] \in Seq(A)
  BY DEF Registries

\* The bare JID and the resource of a JID.
LEMMA JIDsAre ==
  ASSUME NEW jid \in JIDs
  PROVE  /\ jid.bare \in Bares /\ jid.resource \in Resources \cup {None}
         /\ BareJID(jid) \in JIDs /\ BareJID(jid).bare = jid.bare
         /\ BareJID(jid).resource = None
  BY DEF JIDs, BareJID

\* A session is registered under a JID.
LEMMA RegisterFiles ==
  ASSUME NEW A, NEW h \in Registries(A), NEW s \in A, NEW jid \in JIDs, Unfiled(h, s),
         NEW g, g = registerMessageSession(h, s, jid)
  PROVE  /\ g \in Registries(A)
         /\ Filed(g, s, jid)
         /\ \A r : \A j \in JIDs : r # s /\ Filed(h, r, j) => Filed(g, r, j)
         /\ \A r : r # s /\ Unfiled(h, r) => Unfiled(g, r)
  <1>1. jid.bare \in Bares
    BY JIDsAre
  <1>2. /\ \A j \in JIDs : h.full[j] \in Seq(A)
        /\ \A b \in Bares : h.bare[b] \in Seq(A)
    BY RegistriesAre
  <1>3. /\ \A j \in JIDs : g.full[j] = IF j = jid THEN <<s>> \o h.full[j] ELSE h.full[j]
        /\ \A b \in Bares : g.bare[b] = IF b = jid.bare THEN <<s>> \o h.bare[b] ELSE h.bare[b]
        /\ g.full = [h.full EXCEPT ![jid] = <<s>> \o h.full[jid]]
        /\ g.bare = [h.bare EXCEPT ![jid.bare] = <<s>> \o h.bare[jid.bare]]
        /\ g = [full |-> g.full, bare |-> g.bare]
    BY <1>1 DEF registerMessageSession, Registries
  <1>4. /\ <<s>> \o h.full[jid] \in Seq(A)
        /\ <<s>> \o h.bare[jid.bare] \in Seq(A)
        /\ Once(<<s>> \o h.full[jid], s) /\ Once(<<s>> \o h.bare[jid.bare], s)
    BY <1>1, <1>2, PutFirst DEF Unfiled
  <1>5. g \in Registries(A)
    <2>1. g.full \in [JIDs -> Seq(A)]
      BY <1>1, <1>2, <1>3, <1>4 DEF Registries
    <2>2. g.bare \in [Bares -> Seq(A)]
      BY <1>1, <1>2, <1>3, <1>4 DEF Registries
    <2> QED
      BY <1>3, <2>1, <2>2 DEF Registries
  <1>6. Filed(g, s, jid)
    BY <1>1, <1>3, <1>4 DEF Filed, Unfiled
  <1>7. ASSUME NEW r, r # s
        PROVE  /\ \A j \in JIDs : /\ Once(h.full[j], r) => Once(g.full[j], r)
                                  /\ Nowhere(h.full[j], r) => Nowhere(g.full[j], r)
               /\ \A b \in Bares : /\ Once(h.bare[b], r) => Once(g.bare[b], r)
                                   /\ Nowhere(h.bare[b], r) => Nowhere(g.bare[b], r)
    <2>1. /\ Once(h.full[jid], r) => Once(<<s>> \o h.full[jid], r)
          /\ Nowhere(h.full[jid], r) => Nowhere(<<s>> \o h.full[jid], r)
          /\ Once(h.bare[jid.bare], r) => Once(<<s>> \o h.bare[jid.bare], r)
          /\ Nowhere(h.bare[jid.bare], r) => Nowhere(<<s>> \o h.bare[jid.bare], r)
      BY <1>1, <1>2, <1>7, PutFirst
    <2> QED
      BY <1>3, <2>1
  <1>8. ASSUME NEW r, r # s, NEW j \in JIDs, Filed(h, r, j)
        PROVE  Filed(g, r, j)
    <2>1. j.bare \in Bares
      BY JIDsAre
    <2> QED
      BY <1>7, <1>8, <2>1 DEF Filed
  <1>9. ASSUME NEW r, r # s, Unfiled(h, r)
        PROVE  Unfiled(g, r)
    BY <1>7, <1>9 DEF Unfiled
  <1> QED
    BY <1>5, <1>6, <1>8, <1>9

\* A session is taken out of both hashes.
LEMMA UnregisterUnfiles ==
  ASSUME NEW A, NEW h \in Registries(A), NEW s, NEW jid \in JIDs, Filed(h, s, jid),
         NEW g, g = Unregistered(h, s, jid)
  PROVE  /\ g \in Registries(A)
         /\ Unfiled(g, s)
         /\ \A r : \A j \in JIDs : r # s /\ Filed(h, r, j) => Filed(g, r, j)
         /\ \A r : r # s /\ Unfiled(h, r) => Unfiled(g, r)
  <1>1. jid.bare \in Bares
    BY JIDsAre
  <1>2. /\ \A j \in JIDs : h.full[j] \in Seq(A)
        /\ \A b \in Bares : h.bare[b] \in Seq(A)
    BY RegistriesAre
  <1>3. /\ \A j \in JIDs : g.full[j] = IF j = jid THEN Without(h.full[j], s) ELSE h.full[j]
        /\ \A b \in Bares : g.bare[b] = IF b = jid.bare THEN Without(h.bare[b], s) ELSE h.bare[b]
        /\ g.full = [h.full EXCEPT ![jid] = Without(h.full[jid], s)]
        /\ g.bare = [h.bare EXCEPT ![jid.bare] = Without(h.bare[jid.bare], s)]
        /\ g = [full |-> g.full, bare |-> g.bare]
    BY <1>1 DEF Unregistered, Registries
  <1>4. /\ Without(h.full[jid], s) \in Seq(A)
        /\ Without(h.bare[jid.bare], s) \in Seq(A)
        /\ Nowhere(Without(h.full[jid], s), s) /\ Nowhere(Without(h.bare[jid.bare], s), s)
    BY <1>1, <1>2, TakenOut DEF Filed
  <1>5. g \in Registries(A)
    <2>1. g.full \in [JIDs -> Seq(A)]
      BY <1>1, <1>2, <1>3, <1>4 DEF Registries
    <2>2. g.bare \in [Bares -> Seq(A)]
      BY <1>1, <1>2, <1>3, <1>4 DEF Registries
    <2> QED
      BY <1>3, <2>1, <2>2 DEF Registries
  <1>6. Unfiled(g, s)
    BY <1>1, <1>3, <1>4 DEF Filed, Unfiled
  <1>7. ASSUME NEW r, r # s
        PROVE  /\ \A j \in JIDs : /\ Once(h.full[j], r) => Once(g.full[j], r)
                                  /\ Nowhere(h.full[j], r) => Nowhere(g.full[j], r)
               /\ \A b \in Bares : /\ Once(h.bare[b], r) => Once(g.bare[b], r)
                                   /\ Nowhere(h.bare[b], r) => Nowhere(g.bare[b], r)
    <2>1. /\ Once(h.full[jid], r) => Once(Without(h.full[jid], s), r)
          /\ Nowhere(h.full[jid], r) => Nowhere(Without(h.full[jid], s), r)
          /\ Once(h.bare[jid.bare], r) => Once(Without(h.bare[jid.bare], s), r)
          /\ Nowhere(h.bare[jid.bare], r) => Nowhere(Without(h.bare[jid.bare], s), r)
      BY <1>1, <1>2, <1>7, TakenOut
    <2> QED
      BY <1>3, <2>1
  <1>8. ASSUME NEW r, r # s, NEW j \in JIDs, Filed(h, r, j)
        PROVE  Filed(g, r, j)
    <2>1. j.bare \in Bares
      BY JIDsAre
    <2> QED
      BY <1>7, <1>8, <2>1 DEF Filed
  <1>9. ASSUME NEW r, r # s, Unfiled(h, r)
        PROVE  Unfiled(g, r)
    BY <1>7, <1>9 DEF Unfiled
  <1> QED
    BY <1>5, <1>6, <1>8, <1>9

\* A session moves to another JID, or stays.
LEMMA setJidFiles ==
  ASSUME NEW A, NEW h \in Registries(A), NEW s \in A, NEW old \in JIDs, NEW new \in JIDs,
         Filed(h, s, old), NEW g, g = setJid(h, s, old, new)
  PROVE  /\ g \in Registries(A)
         /\ Filed(g, s, new)
         /\ \A r : \A j \in JIDs : r # s /\ Filed(h, r, j) => Filed(g, r, j)
         /\ \A r : r # s /\ Unfiled(h, r) => Unfiled(g, r)
  <1>1. CASE old = new
    BY <1>1 DEF setJid
  <1>2. CASE old # new
    <2> DEFINE m == Unregistered(h, s, old)
    <2>1. /\ m \in Registries(A) /\ Unfiled(m, s)
          /\ \A r : \A j \in JIDs : r # s /\ Filed(h, r, j) => Filed(m, r, j)
          /\ \A r : r # s /\ Unfiled(h, r) => Unfiled(m, r)
      BY UnregisterUnfiles
    <2>2. g = registerMessageSession(m, s, new)
      BY <1>2 DEF setJid
    <2> HIDE DEF m
    <2>3. /\ g \in Registries(A) /\ Filed(g, s, new)
          /\ \A r : \A j \in JIDs : r # s /\ Filed(m, r, j) => Filed(g, r, j)
          /\ \A r : r # s /\ Unfiled(m, r) => Unfiled(g, r)
      BY <2>1, <2>2, RegisterFiles
    <2> QED
      BY <2>1, <2>3
  <1> QED
    BY <1>1, <1>2

\* The hashes of some sessions are hashes of more, and of fewer when one is in
\* neither.
LEMMA RegistriesGrow ==
  ASSUME NEW A, NEW h \in Registries(A), NEW s
  PROVE  /\ h \in Registries(A \cup {s})
         /\ Unfiled(h, s) => h \in Registries(A \ {s})
  <1>1. \A q \in Seq(A) : q \in Seq(A \cup {s})
    OBVIOUS
  <1>2. ASSUME NEW q \in Seq(A), Nowhere(q, s)
        PROVE  q \in Seq(A \ {s})
    <2>1. \A i \in 1 .. Len(q) : q[i] \in A \ {s}
      BY <1>2 DEF Nowhere
    <2>2. Len(q) \in Nat /\ q = [i \in 1 .. Len(q) |-> q[i]]
      OBVIOUS
    <2> QED
      BY <2>1, <2>2
  <1> QED
    BY <1>1, <1>2 DEF Registries, Unfiled

---------------------------------------------------------------------------
\* Every session where messages look for it, every thread in one session.

SessionsInv == TypeOK /\ OneSessionFound

\* The data of a session.
LEMMA DataAre ==
  ASSUME NEW data \in SessionData
  PROVE  /\ data.jid \in JIDs /\ data.thread \in AnyThread
         /\ data.ignoreThread \in BOOLEAN /\ data.wantUpgrade \in BOOLEAN
  BY DEF SessionData

\* A session is made: nobody else has its thread, if it has one.
LEMMA ConstructKeeps ==
  ASSUME SessionsInv, NEW s \in Sessions, NEW jid \in JIDs, NEW ignore \in BOOLEAN,
         Construct(s, jid, ignore)
  PROVE  SessionsInv'
  <1> DEFINE data == Fresh(jid, ignore, None)
  <1>1. /\ s \notin alive /\ alive' = alive \cup {s} /\ session' = With(s, data)
        /\ hash' = registerMessageSession(hash, s, jid) /\ handler' = handler /\ heard' = {}
    BY DEF Construct
  <1>2. /\ alive \subseteq Sessions /\ session \in [alive -> SessionData]
        /\ hash \in Registries(alive \cup {s}) /\ handler \in BOOLEAN
    BY RegistriesGrow DEF SessionsInv, TypeOK
  <1>3. /\ data \in SessionData /\ data.jid = jid /\ data.thread = None
    BY DEF Fresh, SessionData, AnyThread
  <1> HIDE DEF data
  <1>4. /\ session' \in [alive' -> SessionData]
        /\ session'[s] = data
        /\ \A r \in alive : session'[r] = session[r] /\ r # s
    BY <1>1, <1>2, <1>3 DEF With
  <1>5. Unfiled(hash, s)
    BY <1>1 DEF SessionsInv, OneSessionFound, RegistryConsistent
  <1>6. /\ hash' \in Registries(alive') /\ Filed(hash', s, jid)
        /\ \A r : \A j \in JIDs : r # s /\ Filed(hash, r, j) => Filed(hash', r, j)
        /\ \A r : r # s /\ Unfiled(hash, r) => Unfiled(hash', r)
    BY <1>1, <1>2, <1>5, RegisterFiles
  <1>7. TypeOK'
    BY <1>1, <1>2, <1>4, <1>6 DEF TypeOK
  <1>8. ASSUME NEW r \in Sessions
        PROVE  IF r \in alive' THEN Filed(hash', r, session'[r].jid) ELSE Unfiled(hash', r)
    <2>1. CASE r = s
      BY <1>1, <1>3, <1>4, <1>6, <2>1
    <2>2. CASE r # s /\ r \in alive
      <3>1. Filed(hash, r, session[r].jid) /\ session[r].jid \in JIDs
        BY <1>2, <2>2, DataAre DEF SessionsInv, OneSessionFound, RegistryConsistent
      <3> QED
        BY <1>1, <1>4, <1>6, <2>2, <3>1
    <2>3. CASE r # s /\ r \notin alive
      <3>1. Unfiled(hash, r)
        BY <2>3 DEF SessionsInv, OneSessionFound, RegistryConsistent
      <3> QED
        BY <1>1, <1>6, <2>3, <3>1
    <2> QED
      BY <2>1, <2>2, <2>3
  <1>9. RegistryConsistent'
    BY <1>8 DEF RegistryConsistent
  <1>10. OneSessionPerThread'
    BY <1>1, <1>3, <1>4 DEF SessionsInv, OneSessionFound, OneSessionPerThread
  <1> QED
    BY <1>7, <1>9, <1>10 DEF SessionsInv, OneSessionFound

\* The JID a session has after a message is of the same peer, and another one
\* only after a resource was given up.
LEMMA JidAfterIs ==
  ASSUME NEW data \in SessionData, NEW from \in JIDs
  PROVE  /\ JidAfter(data, from) \in JIDs
         /\ JidAfter(data, from).bare = data.jid.bare
         /\ \/ JidAfter(data, from) = data.jid
            \/ data.jid.resource = None
  <1>1. BareJID(from).bare = from.bare /\ BareJID(from).resource = None
    BY JIDsAre
  <1> QED
    BY <1>1, DataAre DEF JidAfter

\* A thread a session has after a message: its own, or that of the message, or
\* one that nobody has.
LEMMA ThreadAfterIs ==
  ASSUME NEW own \in AnyThread, NEW thread \in AnyThread, NEW t \in ThreadAfter(own, thread)
  PROVE  /\ t \in AnyThread
         /\ own # None => t = own
         /\ own = None => t = thread \/ t \in RandomHash
         /\ own = None /\ thread = None => t \in RandomHash
  BY DEF ThreadAfter, RandomHash, AnyThread

\* What a session does with a message.
LEMMA HandlesDoes ==
  ASSUME session \in [alive -> SessionData], NEW s, NEW data \in SessionData, NEW h,
         NEW from \in JIDs, NEW thread \in AnyThread, Handles(s, data, h, from, thread)
  PROVE  /\ hash' = setJid(h, s, data.jid, JidAfter(data, from))
         /\ session' \in [alive \cup {s} -> SessionData]
         /\ session'[s].jid = JidAfter(data, from)
         /\ session'[s].thread \in ThreadAfter(data.thread, thread)
         /\ session'[s].ignoreThread = data.ignoreThread
         /\ \A r \in alive : r # s => session'[r] = session[r]
         /\ heard' = {s}
  <1> DEFINE jid == JidAfter(data, from)
  <1>1. PICK t \in ThreadAfter(data.thread, thread) :
            session' = With(s, [data EXCEPT !.jid = jid, !.thread = t])
    BY DEF Handles
  <1>2. jid \in JIDs /\ t \in AnyThread
    BY JidAfterIs, ThreadAfterIs, DataAre
  <1> HIDE DEF jid
  <1> DEFINE new == [data EXCEPT !.jid = jid, !.thread = t]
  <1>3. /\ new \in SessionData /\ new.jid = jid /\ new.thread = t
        /\ new.ignoreThread = data.ignoreThread
    BY <1>2 DEF SessionData
  <1> HIDE DEF new
  <1>4. session' = [r \in alive \cup {s} |-> IF r = s THEN new ELSE session[r]]
    BY <1>1 DEF With, new
  <1>5. /\ session' \in [alive \cup {s} -> SessionData]
        /\ session'[s] = new
        /\ \A r \in alive : r # s => session'[r] = session[r]
    BY <1>3, <1>4
  <1>6. hash' = setJid(h, s, data.jid, JidAfter(data, from)) /\ heard' = {s}
    BY DEF Handles
  <1> QED
    BY <1>3, <1>5, <1>6 DEF jid

\* A session that takes a message stays where messages look for it, and has no
\* thread that another one of its peer has.
LEMMA HandlesKeeps ==
  ASSUME SessionsInv, NEW s \in Sessions, NEW data \in SessionData,
         NEW h \in Registries(alive \cup {s}), Filed(h, s, data.jid),
         \A r \in Sessions \ {s} :
             IF r \in alive THEN Filed(h, r, session[r].jid) ELSE Unfiled(h, r),
         NEW from \in JIDs, NEW thread \in AnyThread, Handles(s, data, h, from, thread),
         alive' = alive \cup {s}, handler' = handler,
         ~data.ignoreThread =>
             IF data.thread = None THEN thread = None
             ELSE \A r \in alive \ {s} :
                      session[r].jid.bare = data.jid.bare /\ ~session[r].ignoreThread =>
                          session[r].thread # data.thread
  PROVE  SessionsInv'
  <1>1. alive \subseteq Sessions /\ session \in [alive -> SessionData] /\ handler \in BOOLEAN
    BY DEF SessionsInv, TypeOK
  <1>2. /\ hash' = setJid(h, s, data.jid, JidAfter(data, from))
        /\ session' \in [alive \cup {s} -> SessionData]
        /\ session'[s].jid = JidAfter(data, from)
        /\ session'[s].thread \in ThreadAfter(data.thread, thread)
        /\ session'[s].ignoreThread = data.ignoreThread
        /\ \A r \in alive : r # s => session'[r] = session[r]
        /\ heard' = {s}
    BY <1>1, HandlesDoes
  <1>3. /\ data.jid \in JIDs /\ data.thread \in AnyThread
        /\ JidAfter(data, from) \in JIDs /\ JidAfter(data, from).bare = data.jid.bare
    BY DataAre, JidAfterIs
  <1>4. /\ hash' \in Registries(alive') /\ Filed(hash', s, session'[s].jid)
        /\ \A r : \A j \in JIDs : r # s /\ Filed(h, r, j) => Filed(hash', r, j)
        /\ \A r : r # s /\ Unfiled(h, r) => Unfiled(hash', r)
    <2> DEFINE new == JidAfter(data, from)
               all == alive \cup {s}
    <2>1. new \in JIDs /\ hash' = setJid(h, s, data.jid, new) /\ s \in all /\ h \in Registries(all)
      BY <1>2, <1>3
    <2>2. session'[s].jid = new /\ alive' = all
      BY <1>2
    <2> HIDE DEF new, all
    <2>3. /\ hash' \in Registries(all) /\ Filed(hash', s, new)
          /\ \A r : \A j \in JIDs : r # s /\ Filed(h, r, j) => Filed(hash', r, j)
          /\ \A r : r # s /\ Unfiled(h, r) => Unfiled(hash', r)
      BY <1>3, <2>1, setJidFiles
    <2> QED
      BY <2>2, <2>3
  <1>5. TypeOK'
    BY <1>1, <1>2, <1>4 DEF TypeOK
  <1>6. ASSUME NEW r \in Sessions
        PROVE  IF r \in alive' THEN Filed(hash', r, session'[r].jid) ELSE Unfiled(hash', r)
    <2>1. CASE r = s
      BY <1>4, <2>1
    <2>2. CASE r # s /\ r \in alive
      <3>1. Filed(h, r, session[r].jid) /\ session[r].jid \in JIDs
        BY <1>1, <2>2, DataAre
      <3> QED
        BY <1>2, <1>4, <2>2, <3>1
    <2>3. CASE r # s /\ r \notin alive
      <3>1. Unfiled(h, r)
        BY <2>3
      <3> QED
        BY <1>4, <2>3, <3>1
    <2> QED
      BY <2>1, <2>2, <2>3
  <1>7. RegistryConsistent'
    BY <1>6 DEF RegistryConsistent
  <1>8. ASSUME NEW r \in alive, r # s, session[r].jid.bare = data.jid.bare,
               ~session[r].ignoreThread, ~data.ignoreThread
        PROVE  session'[s].thread # session[r].thread
    <2>1. CASE data.thread # None
      BY <1>2, <1>3, <1>8, <2>1, ThreadAfterIs
    <2>2. CASE data.thread = None
      <3>1. session'[s].thread \in RandomHash
        BY <1>2, <1>3, <1>8, <2>2, ThreadAfterIs
      <3> QED
        BY <3>1 DEF RandomHash
    <2> QED
      BY <2>1, <2>2
  <1>9. OneSessionPerThread'
    <2>1. SUFFICES ASSUME NEW a \in alive', NEW b \in alive', a # b,
                          session'[a].jid.bare = session'[b].jid.bare,
                          ~session'[a].ignoreThread, ~session'[b].ignoreThread
                   PROVE  session'[a].thread = None \/ session'[a].thread # session'[b].thread
      BY DEF OneSessionPerThread
    <2>2. CASE a = s
      BY <1>2, <1>3, <1>8, <2>1, <2>2
    <2>3. CASE b = s
      BY <1>2, <1>3, <1>8, <2>1, <2>3
    <2>4. CASE a # s /\ b # s
      BY <1>2, <2>1, <2>4 DEF SessionsInv, OneSessionFound, OneSessionPerThread
    <2> QED
      BY <2>2, <2>3, <2>4
  <1> QED
    BY <1>5, <1>7, <1>9 DEF SessionsInv, OneSessionFound

\* A session that would take a message is one of the peer, and one that would
\* not is none of the thread.
LEMMA CandidatesAre ==
  ASSUME SessionsInv, NEW from \in JIDs, NEW thread
  PROVE  /\ \A i \in Candidates(from, thread) :
               /\ LookedAt(from)[i] \in alive
               /\ session[LookedAt(from)[i]].jid.bare = from.bare
               /\ Takes(LookedAt(from)[i], thread)
         /\ \A s \in alive : session[s].jid.bare = from.bare /\ Takes(s, thread) =>
               Candidates(from, thread) # {}
  <1> DEFINE full == hash.full[from]
             bare == hash.bare[from.bare]
             w == LookedAt(from)
  <1>1. from.bare \in Bares
    BY JIDsAre
  <1>2. full \in Seq(alive) /\ bare \in Seq(alive) /\ w = full \o bare
    BY <1>1, RegistriesAre DEF SessionsInv, TypeOK, LookedAt
  <1>3. alive \subseteq Sessions /\ session \in [alive -> SessionData]
    BY DEF SessionsInv, TypeOK
  <1>4. \A s \in alive : session[s].jid \in JIDs /\ session[s].jid.bare \in Bares
    BY <1>3, DataAre, JIDsAre
  <1>5. ASSUME NEW i \in DOMAIN full
        PROVE  session[full[i]].jid.bare = from.bare
    <2>1. full[i] \in alive
      BY <1>2
    <2>2. Filed(hash, full[i], session[full[i]].jid)
      BY <1>3, <2>1 DEF SessionsInv, OneSessionFound, RegistryConsistent
    <2>3. ~Nowhere(full, full[i])
      BY DEF Nowhere
    <2>4. session[full[i]].jid = from
      BY <2>2, <2>3 DEF Filed
    <2> QED
      BY <2>4
  <1>6. ASSUME NEW i \in DOMAIN bare
        PROVE  session[bare[i]].jid.bare = from.bare
    <2>1. bare[i] \in alive
      BY <1>2
    <2>2. Filed(hash, bare[i], session[bare[i]].jid)
      BY <1>3, <2>1 DEF SessionsInv, OneSessionFound, RegistryConsistent
    <2>3. ~Nowhere(bare, bare[i])
      BY DEF Nowhere
    <2> QED
      BY <1>1, <2>2, <2>3 DEF Filed
  <1> HIDE DEF full, bare, w
  <1>7. ASSUME NEW i \in DOMAIN w
        PROVE  (\E k \in DOMAIN full : w[i] = full[k]) \/ \E k \in DOMAIN bare : w[i] = bare[k]
    <2>1. CASE i <= Len(full)
      BY <1>2, <2>1
    <2>2. CASE i > Len(full)
      <3>1. i - Len(full) \in DOMAIN bare /\ w[i] = bare[i - Len(full)]
        BY <1>2, <2>2
      <3> QED
        BY <3>1
    <2> QED
      BY <1>2, <2>1, <2>2
  <1>8. ASSUME NEW k \in DOMAIN bare
        PROVE  \E i \in DOMAIN w : w[i] = bare[k]
    <2>1. Len(full) + k \in DOMAIN w /\ w[Len(full) + k] = bare[k]
      BY <1>2
    <2> QED
      BY <2>1
  <1>9. ASSUME NEW i \in Candidates(from, thread)
        PROVE  /\ LookedAt(from)[i] \in alive
               /\ session[LookedAt(from)[i]].jid.bare = from.bare
               /\ Takes(LookedAt(from)[i], thread)
    <2>1. i \in DOMAIN w /\ LookedAt(from)[i] = w[i] /\ Takes(w[i], thread)
      BY DEF Candidates, w
    <2> QED
      BY <1>2, <1>5, <1>6, <1>7, <2>1
  <1>10. ASSUME NEW s \in alive, session[s].jid.bare = from.bare, Takes(s, thread)
         PROVE  Candidates(from, thread) # {}
    <2>1. Once(bare, s)
      BY <1>3, <1>10 DEF SessionsInv, OneSessionFound, RegistryConsistent, Filed, bare
    <2>2. PICK k \in DOMAIN bare : bare[k] = s
      BY <2>1 DEF Once
    <2>3. PICK i \in DOMAIN w : w[i] = s
      BY <1>8, <2>2
    <2> QED
      BY <1>10, <2>3 DEF Candidates, w
  <1> QED
    BY <1>9, <1>10

\* A message to a session there is.
LEMMA MessageToSessionKeeps ==
  ASSUME SessionsInv, NEW from \in JIDs, NEW thread \in AnyThread, MessageToSession(from, thread)
  PROVE  SessionsInv'
  <1>1. PICK i \in Candidates(from, thread) :
            LET s == LookedAt(from)[i] IN Handles(s, session[s], hash, from, thread)
    BY DEF MessageToSession
  <1> DEFINE s == LookedAt(from)[i]
  <1>2. s \in alive /\ Takes(s, thread) /\ Handles(s, session[s], hash, from, thread)
    BY <1>1, CandidatesAre
  <1> HIDE DEF s
  <1>3. alive \subseteq Sessions /\ session \in [alive -> SessionData] /\ hash \in Registries(alive)
    BY DEF SessionsInv, TypeOK
  <1>4. /\ s \in Sessions /\ session[s] \in SessionData /\ alive \cup {s} = alive
        /\ alive' = alive /\ handler' = handler
    BY <1>2, <1>3 DEF MessageToSession
  <1>5. /\ Filed(hash, s, session[s].jid)
        /\ \A r \in Sessions \ {s} :
              IF r \in alive THEN Filed(hash, r, session[r].jid) ELSE Unfiled(hash, r)
    BY <1>2, <1>3 DEF SessionsInv, OneSessionFound, RegistryConsistent
  <1>6. ASSUME ~session[s].ignoreThread
        PROVE  IF session[s].thread = None THEN thread = None
               ELSE \A r \in alive \ {s} :
                      session[r].jid.bare = session[s].jid.bare /\ ~session[r].ignoreThread =>
                          session[r].thread # session[s].thread
    <2>1. CASE session[s].thread = None
      BY <1>2, <1>6, <2>1 DEF Takes
    <2>2. CASE session[s].thread # None
      BY <1>2, <1>6, <2>2 DEF SessionsInv, OneSessionFound, OneSessionPerThread
    <2> QED
      BY <2>1, <2>2
  <1> QED
    BY <1>2, <1>3, <1>4, <1>5, <1>6, HandlesKeeps

\* A message to a session that it makes.
LEMMA MessageToNewSessionKeeps ==
  ASSUME SessionsInv, NEW s \in Sessions, NEW from \in JIDs, NEW thread \in AnyThread,
         MessageToNewSession(s, from, thread)
  PROVE  SessionsInv'
  <1> DEFINE data == Fresh(from, FALSE, thread)
             h == registerMessageSession(hash, s, from)
  <1>1. /\ Candidates(from, thread) = {} /\ s \notin alive /\ alive' = alive \cup {s}
        /\ Handles(s, data, h, from, thread) /\ handler' = handler
    BY DEF MessageToNewSession
  <1>2. /\ data \in SessionData /\ data.jid = from /\ data.thread = thread
        /\ data.ignoreThread = FALSE
    BY DEF Fresh, SessionData
  <1>3. /\ alive \subseteq Sessions /\ session \in [alive -> SessionData]
        /\ hash \in Registries(alive \cup {s})
    BY RegistriesGrow DEF SessionsInv, TypeOK
  <1>4. Unfiled(hash, s)
    BY <1>1 DEF SessionsInv, OneSessionFound, RegistryConsistent
  <1>5. /\ h \in Registries(alive \cup {s}) /\ Filed(h, s, from)
        /\ \A r : \A j \in JIDs : r # s /\ Filed(hash, r, j) => Filed(h, r, j)
        /\ \A r : r # s /\ Unfiled(hash, r) => Unfiled(h, r)
    BY <1>3, <1>4, RegisterFiles
  <1> HIDE DEF data, h
  <1>6. ASSUME NEW r \in Sessions \ {s}
        PROVE  IF r \in alive THEN Filed(h, r, session[r].jid) ELSE Unfiled(h, r)
    <2>1. r \in alive => session[r].jid \in JIDs
      BY <1>3, DataAre
    <2> QED
      BY <1>5, <2>1 DEF SessionsInv, OneSessionFound, RegistryConsistent
  <1>7. ASSUME NEW r \in alive, session[r].jid.bare = from.bare, thread # None
        PROVE  session[r].thread # thread
    BY <1>1, <1>7, CandidatesAre DEF Takes
  <1>8. IF data.thread = None THEN thread = None
        ELSE \A r \in alive \ {s} :
               session[r].jid.bare = data.jid.bare /\ ~session[r].ignoreThread =>
                   session[r].thread # data.thread
    BY <1>2, <1>7
  <1> QED
    BY <1>1, <1>2, <1>5, <1>6, <1>8, HandlesKeeps

\* A session is deleted: it is in neither hash any more.
LEMMA DeleteKeeps ==
  ASSUME SessionsInv, NEW s \in Sessions, Delete(s)
  PROVE  SessionsInv'
  <1>1. /\ s \in alive /\ alive' = alive \ {s} /\ session' = [r \in alive \ {s} |-> session[r]]
        /\ hash' = Unregistered(hash, s, session[s].jid) /\ handler' = handler /\ heard' = {}
    BY DEF Delete
  <1>2. /\ alive \subseteq Sessions /\ session \in [alive -> SessionData]
        /\ hash \in Registries(alive) /\ handler \in BOOLEAN
    BY DEF SessionsInv, TypeOK
  <1>3. \A r \in alive : session[r].jid \in JIDs /\ Filed(hash, r, session[r].jid)
    BY <1>2, DataAre DEF SessionsInv, OneSessionFound, RegistryConsistent
  <1>4. /\ hash' \in Registries(alive) /\ Unfiled(hash', s)
        /\ \A r : \A j \in JIDs : r # s /\ Filed(hash, r, j) => Filed(hash', r, j)
        /\ \A r : r # s /\ Unfiled(hash, r) => Unfiled(hash', r)
    BY <1>1, <1>2, <1>3, UnregisterUnfiles
  <1>5. hash' \in Registries(alive')
    BY <1>1, <1>4, RegistriesGrow
  <1>6. TypeOK'
    BY <1>1, <1>2, <1>5 DEF TypeOK
  <1>7. ASSUME NEW r \in Sessions
        PROVE  IF r \in alive' THEN Filed(hash', r, session'[r].jid) ELSE Unfiled(hash', r)
    <2>1. CASE r = s
      BY <1>1, <1>4, <2>1
    <2>2. CASE r # s /\ r \in alive
      BY <1>1, <1>3, <1>4, <2>2
    <2>3. CASE r # s /\ r \notin alive
      BY <1>1, <1>4, <2>3 DEF SessionsInv, OneSessionFound, RegistryConsistent
    <2> QED
      BY <2>1, <2>2, <2>3
  <1>8. RegistryConsistent'
    BY <1>7 DEF RegistryConsistent
  <1>9. OneSessionPerThread'
    BY <1>1 DEF SessionsInv, OneSessionFound, OneSessionPerThread
  <1> QED
    BY <1>6, <1>8, <1>9 DEF SessionsInv, OneSessionFound

\* A session gives up the resource of its peer.
LEMMA resetResourceKeeps ==
  ASSUME SessionsInv, NEW s \in Sessions, resetResource(s)
  PROVE  SessionsInv'
  <1> DEFINE old == session[s].jid
             bare == BareJID(old)
  <1>1. /\ s \in alive
        /\ session' = [session EXCEPT ![s].wantUpgrade = TRUE, ![s].jid = bare]
        /\ hash' = setJid(hash, s, old, bare)
        /\ alive' = alive /\ handler' = handler /\ heard' = {}
    BY DEF resetResource
  <1>2. /\ alive \subseteq Sessions /\ session \in [alive -> SessionData]
        /\ hash \in Registries(alive) /\ handler \in BOOLEAN
    BY DEF SessionsInv, TypeOK
  <1>3. \A r \in alive : session[r].jid \in JIDs /\ Filed(hash, r, session[r].jid)
    BY <1>2, DataAre DEF SessionsInv, OneSessionFound, RegistryConsistent
  <1>4. old \in JIDs /\ bare \in JIDs /\ bare.bare = old.bare
    BY <1>1, <1>3, JIDsAre
  <1>5. /\ hash' \in Registries(alive) /\ Filed(hash', s, bare)
        /\ \A r : \A j \in JIDs : r # s /\ Filed(hash, r, j) => Filed(hash', r, j)
        /\ \A r : r # s /\ Unfiled(hash, r) => Unfiled(hash', r)
    BY <1>1, <1>2, <1>3, <1>4, setJidFiles
  <1> HIDE DEF bare
  <1>6. /\ session' \in [alive -> SessionData] /\ session'[s].jid = bare
        /\ session'[s].thread = session[s].thread
        /\ session'[s].ignoreThread = session[s].ignoreThread
        /\ \A r \in alive : r # s => session'[r] = session[r]
    BY <1>1, <1>2, <1>4 DEF SessionData
  <1>7. TypeOK'
    BY <1>1, <1>2, <1>5, <1>6 DEF TypeOK
  <1>8. ASSUME NEW r \in Sessions
        PROVE  IF r \in alive' THEN Filed(hash', r, session'[r].jid) ELSE Unfiled(hash', r)
    <2>1. CASE r = s
      BY <1>1, <1>5, <1>6, <2>1
    <2>2. CASE r # s /\ r \in alive
      BY <1>1, <1>3, <1>5, <1>6, <2>2
    <2>3. CASE r # s /\ r \notin alive
      BY <1>1, <1>5, <2>3 DEF SessionsInv, OneSessionFound, RegistryConsistent
    <2> QED
      BY <2>1, <2>2, <2>3
  <1>9. RegistryConsistent'
    BY <1>8 DEF RegistryConsistent
  <1>10. \A r \in alive : /\ session'[r].jid.bare = session[r].jid.bare
                         /\ session'[r].thread = session[r].thread
                         /\ session'[r].ignoreThread = session[r].ignoreThread
    BY <1>4, <1>6
  <1>11. OneSessionPerThread'
    <2>1. SUFFICES ASSUME NEW a \in alive, NEW b \in alive, a # b,
                          session'[a].jid.bare = session'[b].jid.bare,
                          ~session'[a].ignoreThread, ~session'[b].ignoreThread
                   PROVE  session'[a].thread = None \/ session'[a].thread # session'[b].thread
      BY <1>1 DEF OneSessionPerThread
    <2>2. /\ session[a].jid.bare = session[b].jid.bare
          /\ ~session[a].ignoreThread /\ ~session[b].ignoreThread
      BY <1>10, <2>1
    <2>3. session[a].thread = None \/ session[a].thread # session[b].thread
      BY <2>1, <2>2 DEF SessionsInv, OneSessionFound, OneSessionPerThread
    <2> QED
      BY <1>10, <2>3
  <1> QED
    BY <1>7, <1>9, <1>11 DEF SessionsInv, OneSessionFound

\* At the start there is no session.
LEMMA InitSessionsInv == Init => SessionsInv
  <1> SUFFICES ASSUME Init PROVE SessionsInv
    OBVIOUS
  <1>1. /\ alive = {} /\ session \in [alive -> SessionData] /\ handler \in BOOLEAN /\ heard = {}
        /\ hash = [full |-> [j \in JIDs |-> <<>>], bare |-> [b \in Bares |-> <<>>]]
    BY DEF Init
  <1>2. hash \in Registries(alive)
    BY <1>1 DEF Registries
  <1>3. \A s : Unfiled(hash, s)
    BY <1>1, JIDsAre DEF Unfiled, Nowhere
  <1>4. OneSessionFound
    BY <1>1, <1>3 DEF OneSessionFound, RegistryConsistent, OneSessionPerThread
  <1> QED
    BY <1>1, <1>2, <1>4 DEF SessionsInv, TypeOK

\* Every step keeps the invariant.
LEMMA NextSessionsInv ==
  ASSUME SessionsInv, [Next]_vars
  PROVE  SessionsInv'
  <1>1. ASSUME UNCHANGED <<alive, session, hash>>, handler' \in BOOLEAN, heard' \in {{}, heard}
        PROVE  SessionsInv'
    BY <1>1 DEF SessionsInv, TypeOK, OneSessionFound, RegistryConsistent, OneSessionPerThread
  <1>2. setHandler \/ UNCHANGED vars => /\ UNCHANGED <<alive, session, hash>>
                                        /\ handler' \in BOOLEAN /\ heard' \in {{}, heard}
    BY DEF setHandler, vars, SessionsInv, TypeOK
  <1> QED
    BY <1>1, <1>2, DeleteKeeps, resetResourceKeeps, ConstructKeeps, MessageToSessionKeeps,
       MessageToNewSessionKeeps DEF Next, OpenSession

\* The hashes hold sessions that exist, and nothing else.
THEOREM SpecTypeOK == Spec => []TypeOK
  <1>1. Init => SessionsInv
    BY InitSessionsInv
  <1>2. SessionsInv /\ [Next]_vars => SessionsInv'
    BY NextSessionsInv
  <1>3. SessionsInv => TypeOK
    BY DEF SessionsInv
  <1> QED
    BY <1>1, <1>2, <1>3, PTL DEF Spec

\* Every session is where messages look for it, whatever resources it gave up
\* and took, and no thread with a peer has two sessions.
THEOREM SpecOneSessionFound == Spec => []OneSessionFound
  <1>1. Init => SessionsInv
    BY InitSessionsInv
  <1>2. SessionsInv /\ [Next]_vars => SessionsInv'
    BY NextSessionsInv
  <1>3. SessionsInv => OneSessionFound
    BY DEF SessionsInv
  <1> QED
    BY <1>1, <1>2, <1>3, PTL DEF Spec

\* What a step leaves of a session's thread, peer and resource.
LEMMA NextStays ==
  ASSUME SessionsInv, [Next]_vars, NEW s \in alive \cap alive'
  PROVE  /\ session[s].thread \in {None, session'[s].thread}
         /\ session[s].jid.bare = session'[s].jid.bare
         /\ \/ session[s].jid.resource = None
            \/ session'[s].jid.resource \in {None, session[s].jid.resource}
  <1>1. session \in [alive -> SessionData] /\ session[s] \in SessionData
    BY DEF SessionsInv, TypeOK
  <1>2. CASE session'[s] = session[s]
    BY <1>2
  <1>3. ASSUME NEW r \in Sessions, resetResource(r)
        PROVE  /\ session[s].thread = session'[s].thread
               /\ session[s].jid.bare = session'[s].jid.bare
               /\ session'[s].jid.resource \in {None, session[s].jid.resource}
    <2>1. CASE r # s
      BY <1>1, <1>3, <2>1 DEF resetResource
    <2>2. CASE r = s
      <3> DEFINE bare == BareJID(session[s].jid)
      <3>1. session' = [session EXCEPT ![s].wantUpgrade = TRUE, ![s].jid = bare]
        BY <1>3, <2>2 DEF resetResource
      <3>2. bare.bare = session[s].jid.bare /\ bare.resource = None
        BY <1>1, DataAre, JIDsAre
      <3> HIDE DEF bare
      <3>3. session'[s].jid = bare /\ session'[s].thread = session[s].thread
        BY <1>1, <3>1 DEF SessionData
      <3> QED
        BY <3>2, <3>3
    <2> QED
      BY <2>1, <2>2
  <1>4. ASSUME NEW from \in JIDs, NEW thread \in AnyThread, MessageToSession(from, thread)
        PROVE  /\ session[s].thread \in {None, session'[s].thread}
               /\ session[s].jid.bare = session'[s].jid.bare
               /\ \/ session[s].jid.resource = None
                  \/ session'[s].jid = session[s].jid
    <2>1. PICK i \in Candidates(from, thread) :
              LET r == LookedAt(from)[i] IN Handles(r, session[r], hash, from, thread)
      BY <1>4 DEF MessageToSession
    <2> DEFINE r == LookedAt(from)[i]
    <2>2. r \in alive /\ Handles(r, session[r], hash, from, thread)
      BY <2>1, CandidatesAre
    <2> HIDE DEF r
    <2>3. session[r] \in SessionData
      BY <1>1, <2>2
    <2>4. /\ session'[r].jid = JidAfter(session[r], from)
          /\ session'[r].thread \in ThreadAfter(session[r].thread, thread)
          /\ \A k \in alive : k # r => session'[k] = session[k]
      BY <1>1, <2>2, <2>3, HandlesDoes
    <2>5. CASE s = r
      <3>1. /\ JidAfter(session[r], from).bare = session[r].jid.bare
            /\ \/ JidAfter(session[r], from) = session[r].jid
               \/ session[r].jid.resource = None
        BY <2>3, JidAfterIs
      <3>2. session[r].thread # None => session'[r].thread = session[r].thread
        BY <2>3, <2>4, DataAre, ThreadAfterIs
      <3> QED
        BY <2>4, <2>5, <3>1, <3>2
    <2>6. CASE s # r
      BY <2>4, <2>6
    <2> QED
      BY <2>5, <2>6
  <1>5. ASSUME NEW r \in Sessions, NEW from \in JIDs, NEW thread \in AnyThread,
               MessageToNewSession(r, from, thread)
        PROVE  session'[s] = session[s]
    <2> DEFINE data == Fresh(from, FALSE, thread)
               h == registerMessageSession(hash, r, from)
    <2>1. r \notin alive /\ Handles(r, data, h, from, thread) /\ data \in SessionData
      BY <1>5 DEF MessageToNewSession, Fresh, SessionData
    <2> HIDE DEF data, h
    <2>2. \A k \in alive : k # r => session'[k] = session[k]
      BY <1>1, <2>1, HandlesDoes
    <2> QED
      BY <2>1, <2>2
  <1>6. ASSUME NEW r \in Sessions, NEW jid \in JIDs, NEW ignore \in BOOLEAN,
               Construct(r, jid, ignore)
        PROVE  session'[s] = session[s]
    BY <1>6 DEF Construct, With
  <1>7. ASSUME NEW r \in Sessions, Delete(r)
        PROVE  session'[s] = session[s]
    BY <1>7 DEF Delete
  <1>8. setHandler \/ UNCHANGED vars => session'[s] = session[s]
    BY DEF setHandler, vars
  <1> QED
    BY <1>2, <1>3, <1>4, <1>5, <1>6, <1>7, <1>8 DEF Next, OpenSession

\* A session is never led from one thread to another, nor from one resource to
\* another unless it gave up the first, and stays with its peer.
THEOREM SpecStaysInConversation == Spec => StaysInConversation
  <1>1. Init => SessionsInv
    BY InitSessionsInv
  <1>2. SessionsInv /\ [Next]_vars => SessionsInv'
    BY NextSessionsInv
  <1>3. SessionsInv /\ [Next]_vars => AllStay
    BY NextStays DEF AllStay, Stays
  <1> QED
    BY <1>1, <1>2, <1>3, PTL DEF Spec, StaysInConversation

---------------------------------------------------------------------------
\* The sessions keep their promise.

\* What the promise says of the sessions, in their own terms.
LEMMA MappingIs ==
  /\ Promise!Live = alive
  /\ Promise!FreshThreads = RandomHash
  /\ \A from, thread : Promise!About(from, thread) =
        {s \in alive : session[s].jid.bare = from.bare /\ Takes(s, thread)}
  /\ \A from, thread : Promise!Exact(from, thread) =
        {s \in alive : /\ session[s].jid.bare = from.bare /\ Takes(s, thread)
                       /\ session[s].jid = from}
  BY DEF Promise!Live, Promise!FreshThreads, Promise!About, Promise!Exact, RandomHash, Takes

\* The thread and the JID a session has after a message are ones it may have.
LEMMA AfterIsPromised ==
  ASSUME NEW own, NEW thread, NEW data, NEW from
  PROVE  /\ ThreadAfter(own, thread) = Promise!Continued(own, thread)
         /\ JidAfter(data, from) \in Promise!Followed(data.jid, from)
  <1>1. ThreadAfter(own, thread) = Promise!Continued(own, thread)
    BY MappingIs DEF ThreadAfter, Promise!Continued
  <1>2. JidAfter(data, from) \in Promise!Followed(data.jid, from)
    BY DEF JidAfter, BareJID, Promise!Followed, Promise!AnyResource
  <1> QED
    BY <1>1, <1>2

\* The first session that would take a message is of the very resource it comes
\* from, if any that would is: those are looked at before the others.
LEMMA FirstIsNearest ==
  ASSUME SessionsInv, NEW from \in JIDs, NEW thread, NEW i \in Candidates(from, thread),
         \A k \in Candidates(from, thread) : i <= k
  PROVE  LookedAt(from)[i] \in Promise!Nearest(from, thread)
  <1> DEFINE full == hash.full[from]
             bare == hash.bare[from.bare]
             w == LookedAt(from)
             s == w[i]
  <1>1. s \in alive /\ session[s].jid.bare = from.bare /\ Takes(s, thread)
    BY CandidatesAre
  <1>2. full \in Seq(alive) /\ bare \in Seq(alive) /\ w = full \o bare
    BY JIDsAre, RegistriesAre DEF SessionsInv, TypeOK, LookedAt
  <1>3. i \in DOMAIN w
    BY DEF Candidates
  <1>4. \A r \in alive : Filed(hash, r, session[r].jid)
    BY DEF SessionsInv, TypeOK, OneSessionFound, RegistryConsistent
  <1>5. ASSUME NEW r \in Promise!Exact(from, thread)
        PROVE  session[s].jid = from
    <2>1. r \in alive /\ session[r].jid = from /\ Takes(r, thread)
      BY MappingIs
    <2>2. Once(full, r)
      BY <1>4, <2>1 DEF Filed
    <2>3. PICK k \in DOMAIN full : full[k] = r
      BY <2>2 DEF Once
    <2> HIDE DEF full, bare, w
    <2>4. k \in DOMAIN w /\ w[k] = r
      BY <1>2, <2>3
    <2>5. i <= k
      BY <2>1, <2>4 DEF Candidates, w
    <2>6. i \in DOMAIN full /\ full[i] = s
      BY <1>2, <1>3, <2>3, <2>5
    <2>7. ~Nowhere(full, s)
      BY <2>6 DEF Nowhere
    <2> QED
      BY <1>1, <1>4, <2>7 DEF Filed, full
  <1> QED
    BY <1>1, <1>5, MappingIs DEF Promise!Nearest

\* A session that handles a message is one that hears it.
LEMMA MessageToSessionHears ==
  ASSUME SessionsInv, NEW from \in JIDs, NEW thread \in AnyThread, MessageToSession(from, thread)
  PROVE  \E s \in Sessions : Promise!Hear(s, from, thread)
  <1>1. PICK i \in Candidates(from, thread) :
            /\ \A k \in Candidates(from, thread) : i <= k
            /\ LET s == LookedAt(from)[i] IN Handles(s, session[s], hash, from, thread)
    BY DEF MessageToSession
  <1>2. PICK s \in alive : /\ s \in Promise!Nearest(from, thread)
                           /\ Handles(s, session[s], hash, from, thread)
    BY <1>1, CandidatesAre, FirstIsNearest
  <1>3. /\ alive \subseteq Sessions /\ session \in [alive -> SessionData]
        /\ session[s] \in SessionData /\ alive' = alive
    BY DEF SessionsInv, TypeOK, MessageToSession
  <1> DEFINE jid == session'[s].jid
             t == session'[s].thread
  <1>4. /\ jid = JidAfter(session[s], from)
        /\ t \in ThreadAfter(session[s].thread, thread)
        /\ session'[s].ignoreThread = session[s].ignoreThread
        /\ \A r \in alive : r # s => session'[r] = session[r]
        /\ heard' = {s}
    BY <1>2, <1>3, HandlesDoes
  <1>5. /\ jid \in Promise!Followed(session[s].jid, from)
        /\ t \in Promise!Continued(session[s].thread, thread)
    BY <1>4, AfterIsPromised
  <1> HIDE DEF jid, t
  <1> DEFINE old == [r \in alive |-> [jid |-> session[r].jid, thread |-> session[r].thread,
                                      any |-> session[r].ignoreThread]]
             new == [r \in alive' |-> [jid |-> session'[r].jid, thread |-> session'[r].thread,
                                       any |-> session'[r].ignoreThread]]
  <1>6. new = [old EXCEPT ![s].jid = jid, ![s].thread = t]
    BY <1>3, <1>4 DEF jid, t
  <1>7. s \in Sessions /\ old[s].jid = session[s].jid /\ old[s].thread = session[s].thread
    BY <1>3
  <1> HIDE DEF old, new
  <1>8. \E j \in Promise!Followed(old[s].jid, from), k \in Promise!Continued(old[s].thread, thread) :
            new = [old EXCEPT ![s].jid = j, ![s].thread = k]
    BY <1>5, <1>6, <1>7
  <1>9. Promise!Hear(s, from, thread)
    BY <1>2, <1>4, <1>8 DEF Promise!Hear, old, new
  <1> QED
    BY <1>7, <1>9

\* A session that is made for a message is one that hears it first.
LEMMA MessageToNewSessionHears ==
  ASSUME SessionsInv, NEW s \in Sessions, NEW from \in JIDs, NEW thread \in AnyThread,
         MessageToNewSession(s, from, thread)
  PROVE  Promise!HearFirst(s, from, thread)
  <1> DEFINE data == Fresh(from, FALSE, thread)
             h == registerMessageSession(hash, s, from)
  <1>1. /\ Candidates(from, thread) = {} /\ s \notin alive /\ alive' = alive \cup {s}
        /\ Handles(s, data, h, from, thread)
    BY DEF MessageToNewSession
  <1>2. /\ data \in SessionData /\ data.jid = from /\ data.thread = thread
        /\ data.ignoreThread = FALSE /\ ~data.wantUpgrade
    BY DEF Fresh, SessionData
  <1> HIDE DEF data, h
  <1>3. alive \subseteq Sessions /\ session \in [alive -> SessionData]
    BY DEF SessionsInv, TypeOK
  <1>4. /\ session'[s].jid = JidAfter(data, from) /\ JidAfter(data, from) = from
        /\ session'[s].thread \in ThreadAfter(thread, thread)
        /\ session'[s].ignoreThread = FALSE
        /\ \A r \in alive : session'[r] = session[r] /\ r # s
        /\ heard' = {s}
    <2>1. JidAfter(data, from) = from
      BY <1>2 DEF JidAfter
    <2> QED
      BY <1>1, <1>2, <1>3, <2>1, HandlesDoes
  <1>5. Promise!About(from, thread) = {}
    BY <1>1, CandidatesAre, MappingIs
  <1> DEFINE t == session'[s].thread
  <1>6. t \in Promise!Continued(thread, thread)
    BY <1>4, AfterIsPromised
  <1> HIDE DEF t
  <1>7. [r \in alive' |-> [jid |-> session'[r].jid, thread |-> session'[r].thread,
                           any |-> session'[r].ignoreThread]] =
        [r \in alive \cup {s} |->
            IF r = s THEN [jid |-> from, thread |-> t, any |-> FALSE]
            ELSE [jid |-> session[r].jid, thread |-> session[r].thread,
                  any |-> session[r].ignoreThread]]
    BY <1>1, <1>4 DEF t
  <1> QED
    BY <1>1, <1>4, <1>5, <1>6, <1>7
       DEF Promise!HearFirst, Promise!With, Promise!Live

\* What the application does to a session, and what nobody hears of.
LEMMA ApplicationPromised ==
  ASSUME SessionsInv
  PROVE  /\ setHandler => Promise!Other
         /\ \A s \in Sessions :
              /\ Delete(s) => Promise!End(s)
              /\ resetResource(s) => Promise!GiveUpResource(s)
              /\ \A jid \in JIDs, ignore \in BOOLEAN :
                    Construct(s, jid, ignore) => Promise!Begin(s, jid, ignore)
  <1>1. alive \subseteq Sessions /\ session \in [alive -> SessionData]
    BY DEF SessionsInv, TypeOK
  <1>2. setHandler => Promise!Other
    BY DEF setHandler, Promise!Other
  <1>3. ASSUME NEW s \in Sessions, Delete(s)
        PROVE  Promise!End(s)
    BY <1>3 DEF Delete, Promise!End, Promise!Live
  <1>4. ASSUME NEW s \in Sessions, resetResource(s)
        PROVE  Promise!GiveUpResource(s)
    <2> DEFINE bare == BareJID(session[s].jid)
    <2>1. /\ s \in alive /\ alive' = alive /\ heard' = {}
          /\ session' = [session EXCEPT ![s].wantUpgrade = TRUE, ![s].jid = bare]
      BY <1>4 DEF resetResource
    <2>2. bare = Promise!AnyResource(session[s].jid)
      BY DEF BareJID, Promise!AnyResource
    <2> HIDE DEF bare
    <2>3. /\ session'[s].jid = bare
          /\ session'[s].thread = session[s].thread
          /\ session'[s].ignoreThread = session[s].ignoreThread
          /\ \A r \in alive : r # s => session'[r] = session[r]
      BY <1>1, <2>1 DEF SessionData
    <2> QED
      BY <2>1, <2>2, <2>3 DEF Promise!GiveUpResource, Promise!Live
  <1>5. ASSUME NEW s \in Sessions, NEW jid \in JIDs, NEW ignore \in BOOLEAN,
               Construct(s, jid, ignore)
        PROVE  Promise!Begin(s, jid, ignore)
    BY <1>1, <1>5 DEF Construct, With, Fresh, Promise!Begin, Promise!With, Promise!Live
  <1> QED
    BY <1>2, <1>3, <1>4, <1>5

\* Every step is one that was promised, or nothing the promise speaks of.
LEMMA NextPromised ==
  ASSUME SessionsInv, [Next]_vars
  PROVE  [Promise!Next]_(Promise!vars)
  <1>1. CASE UNCHANGED vars
    BY <1>1 DEF vars, Promise!vars
  <1>2. CASE setHandler
    BY <1>2, ApplicationPromised DEF Promise!Next
  <1>3. ASSUME NEW s \in Sessions, Delete(s) \/ resetResource(s)
        PROVE  Promise!Next
    BY <1>3, ApplicationPromised DEF Promise!Next
  <1>4. ASSUME NEW s \in Sessions, NEW jid \in JIDs,
               OpenSession(s, jid) \/ \E ignore \in BOOLEAN : Construct(s, jid, ignore)
        PROVE  Promise!Next
    <2>1. PICK ignore \in BOOLEAN : Construct(s, jid, ignore)
      BY <1>4 DEF OpenSession
    <2>2. Promise!Begin(s, jid, ignore) /\ jid \in Promise!JIDs
      BY <2>1, ApplicationPromised DEF JIDs, Promise!JIDs
    <2> QED
      BY <2>2 DEF Promise!Next
  <1>5. ASSUME NEW from \in JIDs, NEW thread \in AnyThread,
               \/ MessageToSession(from, thread)
               \/ \E s \in Sessions : MessageToNewSession(s, from, thread)
        PROVE  Promise!Next
    <2>1. from \in Promise!JIDs /\ thread \in Promise!AnyThread
      BY DEF JIDs, Promise!JIDs, AnyThread, Promise!AnyThread
    <2>2. \E s \in Sessions : Promise!Hear(s, from, thread) \/ Promise!HearFirst(s, from, thread)
      BY <1>5, MessageToSessionHears, MessageToNewSessionHears
    <2> QED
      BY <2>1, <2>2 DEF Promise!Next
  <1> QED
    BY <1>1, <1>2, <1>3, <1>4, <1>5 DEF Next

\* The two hashes, kept as they are, are as good as a look at every session: a
\* message is heard by one session of its conversation, the nearest, and by a
\* new one only if there is none.
THEOREM SpecImplementsConversations == Spec => ImplementsConversations
  <1>1. Init => SessionsInv
    BY InitSessionsInv
  <1>2. SessionsInv /\ [Next]_vars => SessionsInv'
    BY NextSessionsInv
  <1>3. Init => Promise!Init
    BY DEF Init, Promise!Init
  <1>4. SessionsInv /\ [Next]_vars => [Promise!Next]_(Promise!vars)
    BY NextPromised
  <1> QED
    BY <1>1, <1>2, <1>3, <1>4, PTL DEF Spec, ImplementsConversations, Promise!Spec

==============================================================================
