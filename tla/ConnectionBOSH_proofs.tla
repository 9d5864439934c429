------------------------- MODULE ConnectionBOSH_proofs -------------------------
(***************************************************************************)
(* Proofs about ConnectionBOSH: types, the order of the data, that the      *)
(* server is served and nothing is stuck, and that all this is a channel.  *)
(* Each call of the client preserves what is said of its record; an action *)
(* is one or more calls.                                                   *)
(***************************************************************************)
EXTENDS ConnectionBOSH, SequenceTheorems, TLAPS

USE KeyNumAssumption, BoundsAssumption

\* What a request q that is posted changes: d is the client's record c afterwards.
Sent(c, d, q, empty) ==
    /\ q \in Request /\ q.rid = c.rid
    /\ d \in Clients /\ d.opened /\ d.left >= 2
    /\ d.rid = c.rid + 1 /\ d.posted = c.posted \cup {q}
    /\ Hash(Key(d)) = After(q)
    /\ d.authorized = c.authorized /\ d.payloads = c.payloads
    /\ d.dataRequest = IF empty THEN c.dataRequest ELSE c.rid
    /\ d.emptyRequest = IF empty THEN c.rid ELSE c.emptyRequest

\* The client's record without the request that is answered.
Forgotten(c, h) == [c EXCEPT !.dataRequest = IF @ = h THEN None ELSE @,
                             !.emptyRequest = IF @ = h THEN None ELSE @]

-----------------------------------------------------------------------------
(* The calls                                                               *)

\* Pieces may be joined in any order.
LEMMA PiecesAssociate ==
  ASSUME NEW s \in Seq(1..MaxWrites), NEW t \in Seq(1..MaxWrites), NEW v \in Seq(1..MaxWrites)
  PROVE  (s \o t) \o v = s \o (t \o v)
  BY SMTT(30)

\* A key is none of the pairs that stand for no key.
LEMMA KeysAre == \A k \in Keys : k # NoKey
  BY DEF Keys, NoKey, None

\* writeData posts a request with the next key, unless data waits.
LEMMA WriteDataSends ==
  ASSUME NEW c \in Clients, c.opened, c.left >= 2, NEW body \in Seq(1..MaxWrites),
         c.dataRequest = None \/ body = <<>>
  PROVE  \E q : /\ Sent(c, writeData(c, body), q, body = <<>>)
                /\ q.key = Key(c) /\ q.body = body
  <1> DEFINE taken == nextKey(c)
             renewed == IF taken.left = 1 THEN generateKey(taken) ELSE taken
             newKey == IF taken.left = 1 THEN Announced(renewed) ELSE NoKey
             q == [rid |-> renewed.rid, key |-> Key(c), newKey |-> newKey, body |-> body]
             d == Post(renewed, body = <<>>, Key(c), newKey, body)
  <1>1. taken \in Clients /\ taken.left = c.left - 1 /\ taken.chain = c.chain
    <2>1. c.left - 1 \in 0..KeyNum
      BY DEF Clients
    <2> QED
      BY <2>1 DEF nextKey, Clients
  <1>2. /\ taken.opened = c.opened /\ taken.rid = c.rid /\ taken.posted = c.posted
        /\ taken.authorized = c.authorized /\ taken.payloads = c.payloads
        /\ taken.dataRequest = c.dataRequest /\ taken.emptyRequest = c.emptyRequest
    BY DEF nextKey, Clients
  <1> HIDE DEF taken
  <1>3. /\ renewed \in Clients
        /\ taken.left = 1 => renewed.left = KeyNum
        /\ taken.left # 1 => renewed.left = c.left - 1 /\ renewed.chain = c.chain
    <2>1. CASE taken.left = 1
      <3>1. KeyNum \in 0..KeyNum /\ taken.chain + 1 \in Nat
        BY <1>1 DEF Clients
      <3> QED
        BY <1>1, <2>1, <3>1 DEF generateKey, Clients
    <2>2. CASE taken.left # 1
      BY <1>1, <2>2
    <2> QED
      BY <2>1, <2>2
  <1>4. /\ renewed.opened = c.opened /\ renewed.rid = c.rid /\ renewed.posted = c.posted
        /\ renewed.authorized = c.authorized /\ renewed.payloads = c.payloads
        /\ renewed.dataRequest = c.dataRequest /\ renewed.emptyRequest = c.emptyRequest
    BY <1>1, <1>2 DEF generateKey, Clients
  <1> HIDE DEF renewed
  <1>5. Key(c) \in Keys /\ newKey \in Keys \cup {NoKey}
    <2>1. c.chain \in Nat /\ c.left \in 0..KeyNum + 1
      BY DEF Clients
    <2>2. renewed.chain \in Nat /\ KeyNum + 1 \in 0..KeyNum + 1
      BY <1>3 DEF Clients
    <2>3. Key(c) \in Keys
      BY <2>1 DEF Key, Keys
    <2> QED
      BY <2>2, <2>3 DEF Announced, Keys
  <1>6. q \in Request
    BY <1>3, <1>5 DEF Request, Clients
  <1>7. After(q) = [chain |-> renewed.chain, at |-> renewed.left + 1]
    <2>1. CASE taken.left = 1
      <3>1. newKey # NoKey
        BY <2>1, <1>3 DEF Announced, NoKey, None, Clients
      <3> QED
        BY <2>1, <3>1, <1>3 DEF Announced, After
    <2>2. CASE taken.left # 1
      <3>1. After(q) = Key(c)
        BY <2>2 DEF After
      <3>2. renewed.chain = c.chain /\ renewed.left + 1 = c.left
        BY <2>2, <1>3 DEF Clients
      <3> QED
        BY <3>1, <3>2 DEF Key
    <2> QED
      BY <2>1, <2>2
  <1>8. q.rid = c.rid /\ q.key = Key(c) /\ q.body = body
    BY <1>4
  <1>9. d = writeData(c, body)
    BY DEF writeData, renewed, taken
  <1>10. d = [renewed EXCEPT !.rid = @ + 1, !.posted = @ \cup {q},
                             !.emptyRequest = IF body = <<>> THEN renewed.rid ELSE @,
                             !.dataRequest = IF body = <<>> THEN @ ELSE renewed.rid]
    BY DEF Post
  <1> HIDE DEF q, newKey, d
  <1>11. d \in Clients /\ d.left = renewed.left /\ d.chain = renewed.chain
    <2>1. renewed.posted \cup {q} \in SUBSET Request
      BY <1>3, <1>6 DEF Clients
    <2>2. renewed.rid \in Nat /\ renewed.rid + 1 \in Nat
      BY <1>3 DEF Clients
    <2> QED
      BY <1>3, <1>10, <2>1, <2>2 DEF Clients
  <1>12. d.rid = c.rid + 1 /\ d.posted = c.posted \cup {q}
    BY <1>3, <1>4, <1>10 DEF Clients
  <1>13. /\ d.opened = c.opened /\ d.authorized = c.authorized /\ d.payloads = c.payloads
         /\ d.dataRequest = IF body = <<>> THEN c.dataRequest ELSE c.rid
         /\ d.emptyRequest = IF body = <<>> THEN c.rid ELSE c.emptyRequest
    BY <1>3, <1>4, <1>10 DEF Clients
  <1>14. d.left >= 2 /\ Hash(Key(d)) = After(q)
    <2>1. Hash(Key(d)) = [chain |-> d.chain, at |-> d.left + 1]
      BY DEF Hash, Key
    <2>2. d.left >= 2
      BY <1>1, <1>3, <1>11 DEF Clients
    <2> QED
      BY <1>7, <1>11, <2>1, <2>2
  <1>15. Sent(c, d, q, body = <<>>)
    BY <1>6, <1>8, <1>11, <1>12, <1>13, <1>14 DEF Sent
  <1> QED
    BY <1>8, <1>9, <1>15

\* sendHeader posts a request that ends one chain and announces the next.
LEMMA HeaderSends ==
  ASSUME NEW c \in Clients, c.opened, NEW first \in BOOLEAN, first \/ c.left >= 2
  PROVE  \E q : /\ Sent(c, sendHeader(c, first), q, FALSE)
                /\ q.key = (IF first THEN NoKey ELSE Key(c)) /\ q.body = <<>>
  <1> DEFINE taken == IF first THEN c ELSE nextKey(c)
             renewed == generateKey(taken)
             key == IF first THEN NoKey ELSE Key(c)
             q == [rid |-> renewed.rid, key |-> key, newKey |-> Announced(renewed), body |-> <<>>]
             d == Post(renewed, FALSE, key, Announced(renewed), <<>>)
  <1>1. taken \in Clients
    <2>1. CASE first
      BY <2>1
    <2>2. CASE ~first
      <3>1. c.left - 1 \in 0..KeyNum
        BY <2>2 DEF Clients
      <3> QED
        BY <2>2, <3>1 DEF nextKey, Clients
    <2> QED
      BY <2>1, <2>2
  <1>2. /\ taken.opened = c.opened /\ taken.rid = c.rid /\ taken.posted = c.posted
        /\ taken.authorized = c.authorized /\ taken.payloads = c.payloads
        /\ taken.dataRequest = c.dataRequest /\ taken.emptyRequest = c.emptyRequest
    BY DEF nextKey, Clients
  <1> HIDE DEF taken
  <1>3. renewed \in Clients /\ renewed.left = KeyNum
    <2>1. KeyNum \in 0..KeyNum /\ taken.chain + 1 \in Nat
      BY <1>1 DEF Clients
    <2> QED
      BY <1>1, <2>1 DEF generateKey, Clients
  <1>4. /\ renewed.opened = c.opened /\ renewed.rid = c.rid /\ renewed.posted = c.posted
        /\ renewed.authorized = c.authorized /\ renewed.payloads = c.payloads
        /\ renewed.dataRequest = c.dataRequest /\ renewed.emptyRequest = c.emptyRequest
    BY <1>1, <1>2 DEF generateKey, Clients
  <1>5. d = sendHeader(c, first)
    BY DEF sendHeader, taken
  <1> HIDE DEF renewed
  <1>6. key \in Keys \cup {NoKey} /\ Announced(renewed) \in Keys
    <2>1. c.chain \in Nat /\ c.left \in 0..KeyNum + 1
      BY DEF Clients
    <2>2. renewed.chain \in Nat /\ KeyNum + 1 \in 0..KeyNum + 1
      BY <1>3 DEF Clients
    <2>3. Key(c) \in Keys
      BY <2>1 DEF Key, Keys
    <2> QED
      BY <2>2, <2>3 DEF Announced, Keys
  <1>7. q \in Request
    BY <1>3, <1>6 DEF Request, Clients
  <1>8. After(q) = [chain |-> renewed.chain, at |-> renewed.left + 1]
    <2>1. Announced(renewed) # NoKey
      BY <1>6, KeysAre
    <2> QED
      BY <1>3, <2>1 DEF Announced, After
  <1>9. q.rid = c.rid /\ q.key = key /\ q.body = <<>>
    BY <1>4
  <1>10. d = [renewed EXCEPT !.rid = @ + 1, !.posted = @ \cup {q}, !.dataRequest = renewed.rid]
    <2>1. d = [renewed EXCEPT !.rid = @ + 1, !.posted = @ \cup {q},
                              !.emptyRequest = IF FALSE THEN renewed.rid ELSE @,
                              !.dataRequest = IF FALSE THEN @ ELSE renewed.rid]
      BY DEF Post
    <2> QED
      BY <1>3, <2>1 DEF Clients
  <1> HIDE DEF q, key, d
  <1>11. d \in Clients /\ d.left = renewed.left /\ d.chain = renewed.chain
    <2>1. renewed.posted \cup {q} \in SUBSET Request
      BY <1>3, <1>7 DEF Clients
    <2>2. renewed.rid \in Nat /\ renewed.rid + 1 \in Nat
      BY <1>3 DEF Clients
    <2> QED
      BY <1>3, <1>10, <2>1, <2>2 DEF Clients
  <1>12. d.rid = c.rid + 1 /\ d.posted = c.posted \cup {q}
    BY <1>3, <1>4, <1>10 DEF Clients
  <1>13. /\ d.opened = c.opened /\ d.authorized = c.authorized /\ d.payloads = c.payloads
         /\ d.dataRequest = c.rid /\ d.emptyRequest = c.emptyRequest
    BY <1>3, <1>4, <1>10 DEF Clients
  <1>14. d.left >= 2 /\ Hash(Key(d)) = After(q)
    <2>1. Hash(Key(d)) = [chain |-> d.chain, at |-> d.left + 1]
      BY DEF Hash, Key
    <2> QED
      BY <1>3, <1>8, <1>11, <2>1
  <1>15. Sent(c, d, q, FALSE)
    BY <1>7, <1>9, <1>11, <1>12, <1>13, <1>14 DEF Sent
  <1> QED
    BY <1>5, <1>9, <1>15 DEF key

-----------------------------------------------------------------------------
(* A request more                                                          *)

\* It has the highest number.
LEMMA SentNumbers ==
  ASSUME NEW c \in Clients, NEW d, NEW q, NEW empty \in BOOLEAN, Sent(c, d, q, empty),
         NEW n \in Nat, NumbersInv(c, n)
  PROVE  NumbersInv(d, n)
  <1>1. /\ d \in Clients /\ c.rid \in Nat /\ q.rid = c.rid /\ d.rid = c.rid + 1
        /\ d.posted = c.posted \cup {q}
        /\ c.dataRequest \in Nat \cup {None} /\ c.emptyRequest \in Nat \cup {None}
    BY DEF Sent, Clients
  <1>2. \A r \in c.posted : r.rid \in Nat
    BY DEF Clients, Request
  <1>3. n <= d.rid
    BY <1>1 DEF NumbersInv
  <1>4. \A r \in d.posted : n <= r.rid /\ r.rid < d.rid
    BY <1>1, <1>2 DEF NumbersInv
  <1>5. \A r, s \in d.posted : r.rid = s.rid => r = s
    BY <1>1, <1>2 DEF NumbersInv
  <1>6. /\ d.dataRequest < d.rid /\ d.emptyRequest < d.rid
        /\ d.dataRequest = d.emptyRequest => d.dataRequest = None
    BY <1>1 DEF NumbersInv, Sent, None
  <1> QED
    BY <1>3, <1>4, <1>5, <1>6 DEF NumbersInv

\* It has the key that was promised.
LEMMA SentKeys ==
  ASSUME NEW c \in Clients, NEW d, NEW q, NEW empty \in BOOLEAN, Sent(c, d, q, empty),
         NEW n \in Nat, NumbersInv(c, n), NEW last, KeysInv(c, n, last),
         \/ c.opened /\ q.key = Key(c)
         \/ c.posted = {} /\ last = NoKey
  PROVE  KeysInv(d, n, last)
  <1>1. /\ d \in Clients /\ c.rid \in Nat /\ q.rid = c.rid /\ d.rid = c.rid + 1
        /\ d.posted = c.posted \cup {q} /\ Hash(Key(d)) = After(q)
        /\ d.left >= 2
    BY DEF Sent, Clients
  <1>2. \A r \in c.posted : r.rid \in Nat /\ r.rid < c.rid
    BY DEF Clients, Request, NumbersInv
  <1>3. n <= c.rid
    BY DEF NumbersInv
  <1>4. \A r \in d.posted : r.rid = n => last = NoKey \/ Hash(r.key) = last
    <2>1. ASSUME NEW r \in d.posted, r.rid = n, last # NoKey
          PROVE  Hash(r.key) = last
      <3>1. CASE r \in c.posted
        BY <2>1, <3>1 DEF KeysInv
      <3>2. CASE r = q
        BY <1>1, <2>1, <3>2 DEF KeysInv
      <3> QED
        BY <1>1, <3>1, <3>2
    <2> QED
      BY <2>1
  <1>5. \A r, s \in d.posted : s.rid = r.rid + 1 => Hash(s.key) = After(r)
    <2>1. ASSUME NEW r \in d.posted, NEW s \in d.posted, s.rid = r.rid + 1
          PROVE  Hash(s.key) = After(r)
      <3>1. r \in c.posted
        BY <1>1, <1>2, <2>1
      <3>2. CASE s \in c.posted
        BY <2>1, <3>1, <3>2 DEF KeysInv
      <3>3. CASE s = q
        BY <1>1, <2>1, <3>1, <3>3 DEF KeysInv
      <3> QED
        BY <1>1, <3>2, <3>3
    <2> QED
      BY <2>1
  <1>6. \A r \in d.posted : r.rid + 1 = d.rid => Hash(Key(d)) = After(r)
    <2>1. ASSUME NEW r \in d.posted, r.rid + 1 = d.rid PROVE r = q
      BY <1>1, <1>2, <2>1
    <2> QED
      BY <1>1, <2>1
  <1>7. n # d.rid
    BY <1>1, <1>3
  <1> QED
    BY <1>1, <1>4, <1>5, <1>6, <1>7 DEF KeysInv

\* The client points to it instead of the one whose answer it handles.
LEMMA SentKnown ==
  ASSUME NEW c \in Clients, NEW d, NEW q, NEW empty \in BOOLEAN, Sent(c, d, q, empty),
         NEW u, NEW h \in Nat \cup {None}, h < c.rid, KnownInv(c, u, h),
         (IF empty THEN c.emptyRequest ELSE c.dataRequest) \in {None, h}
  PROVE  KnownInv(d, u, h)
  <1>1. c.rid \in Nat /\ c.rid # h /\ c.rid # None
    BY DEF Clients, None
  <1>2. Numbers(d.posted) = Numbers(c.posted) \cup {c.rid}
    BY DEF Numbers, Sent
  <1>3. {d.dataRequest, d.emptyRequest} \ {None, h}
          = ({c.dataRequest, c.emptyRequest} \ {None, h}) \cup {c.rid}
    <2>1. CASE empty
      BY <1>1, <2>1 DEF Sent
    <2>2. CASE ~empty
      BY <1>1, <2>2 DEF Sent
    <2> QED
      BY <2>1, <2>2
  <1> QED
    BY <1>2, <1>3 DEF KnownInv

\* Nothing carries data when the server has the request that data waits for.
LEMMA NothingCarried ==
  ASSUME NEW c \in Clients, NEW n \in Nat, NumbersInv(c, n), CarriedInv(c), c.dataRequest < n
  PROVE  Carrying(c) = {} /\ Underway(c) = <<>>
  <1>1. ASSUME NEW r \in Carrying(c) PROVE FALSE
    <2>1. r \in c.posted /\ r.rid = c.dataRequest /\ r.rid \in Nat
      BY DEF Carrying, CarriedInv, Clients, Request
    <2> QED
      BY <2>1 DEF NumbersInv
  <1> QED
    BY <1>1 DEF Underway

\* A request without data changes nothing of what is under way.
LEMMA SentNothing ==
  ASSUME NEW c \in Clients, NEW d, NEW q, NEW empty, Sent(c, d, q, empty), q.body = <<>>
  PROVE  /\ Carrying(d) = Carrying(c) /\ Underway(d) = Underway(c)
         /\ CarriedInv(c) /\ d.dataRequest = c.dataRequest => CarriedInv(d)
  <1>1. Carrying(d) = Carrying(c)
    BY DEF Carrying, Sent
  <1>2. CarriedInv(c) /\ d.dataRequest = c.dataRequest => CarriedInv(d)
    BY DEF CarriedInv, Sent
  <1> QED
    BY <1>1, <1>2 DEF Underway

\* When one request carries data, that is what is under way.
LEMMA OneCarries ==
  ASSUME NEW d, NEW q, Carrying(d) = {q}
  PROVE  Underway(d) = q.body
  BY DEF Underway

\* A request that takes the place of the one data waited for carries its own.
LEMMA SentData ==
  ASSUME NEW c \in Clients, NEW d, NEW q, Sent(c, d, q, FALSE), Carrying(c) = {}
  PROVE  Underway(d) = q.body /\ CarriedInv(d)
  <1>1. d.posted = c.posted \cup {q} /\ d.dataRequest = q.rid
    BY DEF Sent
  <1>2. \A r \in c.posted : r.body = <<>>
    BY DEF Carrying
  <1>3. CarriedInv(d)
    BY <1>1, <1>2 DEF CarriedInv
  <1>4. CASE q.body = <<>>
    <2>1. Carrying(d) = {}
      BY <1>1, <1>2, <1>4 DEF Carrying
    <2> QED
      BY <1>3, <1>4, <2>1 DEF Underway
  <1>5. CASE q.body # <<>>
    <2>1. Carrying(d) = {q}
      BY <1>1, <1>2, <1>5 DEF Carrying
    <2> QED
      BY <1>3, <2>1, OneCarries
  <1> QED
    BY <1>4, <1>5

-----------------------------------------------------------------------------
(* Pieces                                                                  *)

\* What is one behind the other is there once if no piece is in both.
LEMMA BehindIs ==
  ASSUME NEW A, NEW s \in Seq(A), NEW t \in Seq(A), A \subseteq Nat
  PROVE  /\ Once(s) /\ Once(t) /\ Apart(s, t) => Once(s \o t)
         /\ \A x : Apart(x, s) /\ Apart(x, t) => Apart(x, s \o t)
         /\ \A x : Apart(s, x) /\ Apart(t, x) => Apart(s \o t, x)
         /\ \A n : UpTo(s, n) /\ UpTo(t, n) => UpTo(s \o t, n)
  <1> DEFINE w == s \o t
  <1>1. \A i \in DOMAIN w : \/ i \in DOMAIN s /\ w[i] = s[i]
                            \/ i - Len(s) \in DOMAIN t /\ w[i] = t[i - Len(s)] /\ i \in Int
    OBVIOUS
  <1>2. Len(s) \in Nat
    OBVIOUS
  <1> HIDE DEF w
  <1>3. ASSUME Once(s), Once(t), Apart(s, t), NEW i \in DOMAIN w, NEW k \in DOMAIN w, w[i] = w[k]
        PROVE  i = k
    <2>1. CASE i \in DOMAIN s /\ w[i] = s[i]
      <3>1. ~(k - Len(s) \in DOMAIN t /\ w[k] = t[k - Len(s)])
        BY <1>3, <2>1 DEF Apart
      <3> QED
        BY <1>1, <1>3, <2>1, <3>1 DEF Once
    <2>2. CASE i - Len(s) \in DOMAIN t /\ w[i] = t[i - Len(s)] /\ i \in Int
      <3>1. ~(k \in DOMAIN s /\ w[k] = s[k])
        BY <1>3, <2>2 DEF Apart
      <3>2. k - Len(s) \in DOMAIN t /\ w[k] = t[k - Len(s)] /\ k \in Int
        BY <1>1, <3>1
      <3>3. i - Len(s) = k - Len(s)
        BY <1>3, <2>2, <3>2 DEF Once
      <3> QED
        BY <1>2, <2>2, <3>2, <3>3
    <2> QED
      BY <1>1, <2>1, <2>2
  <1>4. \A x : Apart(x, s) /\ Apart(x, t) => Apart(x, w)
    BY <1>1 DEF Apart
  <1>5. \A x : Apart(s, x) /\ Apart(t, x) => Apart(w, x)
    BY <1>1 DEF Apart
  <1>6. \A n : UpTo(s, n) /\ UpTo(t, n) => UpTo(w, n)
    BY <1>1 DEF UpTo
  <1>7. Once(s) /\ Once(t) /\ Apart(s, t) => Once(w)
    BY <1>3 DEF Once
  <1> QED
    BY <1>4, <1>5, <1>6, <1>7 DEF w

\* Nothing is in no other place.
LEMMA NothingIs ==
  /\ Once(<<>>)
  /\ \A x : Apart(x, <<>>) /\ Apart(<<>>, x)
  /\ \A n : UpTo(<<>>, n)
  BY DEF Once, Apart, UpTo

\* The next piece is nowhere yet.
LEMMA NextIs ==
  ASSUME NEW n \in Nat
  PROVE  /\ Once(<<n + 1>>) /\ UpTo(<<n + 1>>, n + 1)
         /\ \A s \in Seq(Nat) : UpTo(s, n) => /\ UpTo(s, n + 1)
                                              /\ Apart(s, <<n + 1>>)
                                              /\ Apart(<<n + 1>>, s)
  BY DEF Once, UpTo, Apart

-----------------------------------------------------------------------------
(* What the calls preserve                                                 *)

\* What is said of keys and of what is under way does not depend on the pointers.
LEMMA SameRequests ==
  ASSUME NEW c, NEW d, d.posted = c.posted, d.rid = c.rid, d.opened = c.opened,
         d.left = c.left, d.chain = c.chain, NEW n, NEW last
  PROVE  /\ KeysInv(d, n, last) <=> KeysInv(c, n, last)
         /\ Carrying(d) = Carrying(c) /\ Underway(d) = Underway(c)
  <1>1. Key(d) = Key(c)
    BY DEF Key
  <1>2. Carrying(d) = Carrying(c)
    BY DEF Carrying
  <1> QED
    BY <1>1, <1>2 DEF KeysInv, Underway

\* All that is under way is pieces.
LEMMA UnderwayType ==
  ASSUME NEW c \in Clients
  PROVE  Underway(c) \in Seq(1..MaxWrites)
  <1>1. CASE Carrying(c) = {}
    BY <1>1 DEF Underway
  <1>2. CASE Carrying(c) # {}
    <2>1. (CHOOSE r \in Carrying(c) : TRUE) \in Carrying(c)
      BY <1>2
    <2>2. \A r \in Carrying(c) : r.body \in Seq(1..MaxWrites)
      BY DEF Carrying, Clients, Request
    <2> QED
      BY <1>2, <2>1, <2>2 DEF Underway
  <1> QED
    BY <1>1, <1>2

\* A client becomes authorized, or is it already, and polls the server.
LEMMA PollKeeps ==
  ASSUME TypeOK, NEW c \in Clients, c.opened, c.emptyRequest = None,
         NEW u, NEW h \in Nat \cup {None}, h < nextRid, NEW w, ClientInv(c, u, h, w)
  PROVE  LET d == authorized(c)
         IN  /\ d \in Clients /\ d.opened /\ d.authorized /\ d.emptyRequest # None
             /\ ClientInv(d, u, h, w)
  <1> DEFINE a == [c EXCEPT !.authorized = TRUE]
             d == authorized(c)
  <1>1. a \in Clients /\ a.authorized
    BY DEF Clients
  <1>2. /\ a.posted = c.posted /\ a.rid = c.rid /\ a.opened = c.opened
        /\ a.left = c.left /\ a.chain = c.chain /\ a.payloads = c.payloads
        /\ a.dataRequest = c.dataRequest /\ a.emptyRequest = c.emptyRequest
    BY DEF Clients
  <1>3. d = writeData(a, <<>>) /\ <<>> \in Seq(1..MaxWrites)
    BY DEF authorized
  <1> HIDE DEF a, d
  <1>4. nextRid \in Nat
    BY DEF TypeOK
  <1>5. /\ NumbersInv(a, nextRid) /\ KeysInv(a, nextRid, lastKey) /\ KnownInv(a, u, h)
        /\ CarriedInv(a) /\ Underway(a) = Underway(c)
    <2>1. KeysInv(a, nextRid, lastKey) /\ Underway(a) = Underway(c)
      BY <1>2, SameRequests DEF ClientInv
    <2> QED
      BY <1>2, <2>1 DEF ClientInv, NumbersInv, KnownInv, CarriedInv
  <1>6. a.opened /\ a.left >= 2
    BY <1>2 DEF ClientInv, KeysInv
  <1>7. PICK q : Sent(a, d, q, TRUE) /\ q.key = Key(a) /\ q.body = <<>>
    BY <1>1, <1>3, <1>6, WriteDataSends
  <1>8. /\ d \in Clients /\ d.opened /\ d.authorized /\ d.emptyRequest = c.rid
        /\ d.dataRequest = c.dataRequest /\ d.payloads = c.payloads
    BY <1>1, <1>2, <1>7 DEF Sent
  <1>9. d.emptyRequest # None
    BY <1>8 DEF Clients, None
  <1>10. NumbersInv(d, nextRid) /\ KeysInv(d, nextRid, lastKey)
    BY <1>1, <1>4, <1>5, <1>6, <1>7, SentNumbers, SentKeys
  <1>11. KnownInv(d, u, h)
    <2>1. h < a.rid
      BY <1>1, <1>4, <1>5 DEF NumbersInv, Clients, None
    <2> QED
      BY <1>1, <1>2, <1>5, <1>7, <2>1, SentKnown
  <1>12. CarriedInv(d) /\ Underway(d) = Underway(c)
    BY <1>1, <1>2, <1>5, <1>7, <1>8, SentNothing
  <1>13. StartInv(d, lastKey)
    BY <1>8 DEF StartInv
  <1>14. /\ PiecesInv(d, got, w)
         /\ errors = 0 => FaultlessInv(d, got, w)
    BY <1>8, <1>12 DEF ClientInv, PiecesInv, FaultlessInv
  <1>15. ClientInv(d, u, h, w)
    BY <1>10, <1>11, <1>12, <1>13, <1>14 DEF ClientInv
  <1> QED
    BY <1>8, <1>9, <1>15 DEF d

\* A piece that is written waits, or is posted when no data is out.
LEMMA PieceKeeps ==
  ASSUME TypeOK, NEW c \in Clients, c.opened, Len(written) < MaxWrites,
         NEW u, NEW h \in Nat \cup {None}, h < nextRid, ClientInv(c, u, h, written)
  PROVE  LET d == writeData(c, NextPiece)
         IN  /\ d \in Clients /\ d.opened /\ d.authorized = c.authorized
             /\ d.emptyRequest = c.emptyRequest
             /\ ClientInv(d, u, h, written \o NextPiece)
  <1> DEFINE d == writeData(c, NextPiece)
             w == written \o NextPiece
             n == Len(written)
  <1>1. /\ nextRid \in Nat /\ written \in Seq(1..MaxWrites) /\ got \in Seq(1..MaxWrites)
        /\ c.payloads \in Seq(1..MaxWrites)
    BY DEF TypeOK, Clients
  <1>2. /\ NextPiece = <<n + 1>> /\ n \in Nat /\ n + 1 \in 1..MaxWrites
        /\ NextPiece \in Seq(1..MaxWrites) /\ NextPiece # <<>> /\ Len(w) = n + 1
    BY <1>1 DEF NextPiece
  <1>3. Underway(c) \in Seq(1..MaxWrites) /\ got \o Underway(c) \in Seq(1..MaxWrites)
    BY <1>1, UnderwayType
  <1>4. \A s \in Seq(1..MaxWrites) :
           UpTo(s, n) => UpTo(s, n + 1) /\ Apart(s, NextPiece) /\ Apart(NextPiece, s)
    BY <1>2, NextIs
  <1>5. Once(NextPiece) /\ UpTo(NextPiece, n + 1)
    BY <1>2, NextIs
  <1>6. c.left >= 2
    BY DEF ClientInv, KeysInv
  <1> HIDE DEF n, w
  <1>7. CASE c.dataRequest # None
    <2>1. d = [c EXCEPT !.payloads = @ \o NextPiece]
      BY <1>2, <1>7 DEF writeData
    <2>2. c.payloads \o NextPiece \in Seq(1..MaxWrites)
      BY <1>1, <1>2
    <2> HIDE DEF d
    <2>3. d \in Clients /\ d.payloads = c.payloads \o NextPiece
      BY <2>1, <2>2 DEF Clients
    <2>4. /\ d.posted = c.posted /\ d.rid = c.rid /\ d.opened = c.opened
          /\ d.left = c.left /\ d.chain = c.chain /\ d.authorized = c.authorized
          /\ d.dataRequest = c.dataRequest /\ d.emptyRequest = c.emptyRequest
      BY <2>1 DEF Clients
    <2>5. KeysInv(d, nextRid, lastKey) /\ Underway(d) = Underway(c)
      BY <2>4, SameRequests DEF ClientInv
    <2>6. /\ StartInv(d, lastKey) /\ NumbersInv(d, nextRid) /\ KnownInv(d, u, h)
          /\ CarriedInv(d)
      BY <2>4 DEF ClientInv, StartInv, NumbersInv, KnownInv, CarriedInv
    <2>7. PiecesInv(d, got, w)
      <3>1. /\ Once(got) /\ Once(Underway(c)) /\ Once(c.payloads)
            /\ Apart(got, Underway(c)) /\ Apart(got, c.payloads) /\ Apart(Underway(c), c.payloads)
            /\ UpTo(got, n) /\ UpTo(Underway(c), n) /\ UpTo(c.payloads, n)
        BY DEF ClientInv, PiecesInv, n
      <3>2. /\ Once(d.payloads) /\ UpTo(d.payloads, n + 1)
            /\ Apart(got, d.payloads) /\ Apart(Underway(c), d.payloads)
        <4> DEFINE p == c.payloads
        <4>1. UpTo(p, n + 1) /\ Apart(p, NextPiece)
          BY <1>1, <1>4, <3>1
        <4>2. Apart(got, NextPiece) /\ Apart(Underway(c), NextPiece)
          BY <1>1, <1>3, <1>4, <3>1
        <4>3. /\ p \in Seq(1..MaxWrites) /\ NextPiece \in Seq(1..MaxWrites)
              /\ 1..MaxWrites \subseteq Nat
          BY <1>1, <1>2
        <4> HIDE DEF p
        <4>4. /\ Once(p) /\ Once(NextPiece) /\ Apart(p, NextPiece) => Once(p \o NextPiece)
              /\ \A x : Apart(x, p) /\ Apart(x, NextPiece) => Apart(x, p \o NextPiece)
              /\ \A m : UpTo(p, m) /\ UpTo(NextPiece, m) => UpTo(p \o NextPiece, m)
          BY <4>3, BehindIs
        <4> QED
          BY <1>5, <2>3, <3>1, <4>1, <4>2, <4>4 DEF p
      <3>3. UpTo(got, n + 1) /\ UpTo(Underway(c), n + 1)
        BY <1>1, <1>3, <1>4, <3>1
      <3> QED
        BY <1>2, <2>5, <3>1, <3>2, <3>3 DEF PiecesInv
    <2>8. ASSUME errors = 0 PROVE FaultlessInv(d, got, w)
      <3>1. written = got \o Underway(c) \o c.payloads
        BY <2>8 DEF ClientInv, FaultlessInv
      <3>2. w = got \o Underway(c) \o d.payloads
        <4> DEFINE x == got \o Underway(c)
                   p == c.payloads
        <4>1. /\ x \in Seq(1..MaxWrites) /\ p \in Seq(1..MaxWrites)
              /\ NextPiece \in Seq(1..MaxWrites)
          BY <1>1, <1>2, <1>3
        <4>2. w = (x \o p) \o NextPiece
          BY <3>1 DEF w
        <4>3. d.payloads = p \o NextPiece
          BY <2>3
        <4> HIDE DEF x, p
        <4>4. (x \o p) \o NextPiece = x \o (p \o NextPiece)
          BY <4>1, PiecesAssociate, Zenon
        <4>5. w = x \o d.payloads
          BY <4>2, <4>3, <4>4
        <4> QED
          BY <4>5 DEF x
      <3> QED
        BY <1>7, <2>4, <2>5, <3>2 DEF FaultlessInv
    <2>9. ClientInv(d, u, h, w)
      BY <2>5, <2>6, <2>7, <2>8 DEF ClientInv
    <2> QED
      BY <2>3, <2>4, <2>9 DEF d, w
  <1>8. CASE c.dataRequest = None
    <2>1. PICK q : Sent(c, d, q, FALSE) /\ q.key = Key(c) /\ q.body = NextPiece
      BY <1>2, <1>6, <1>8, WriteDataSends
    <2> HIDE DEF d
    <2>2. /\ d \in Clients /\ d.opened /\ d.authorized = c.authorized
          /\ d.emptyRequest = c.emptyRequest /\ d.payloads = c.payloads /\ d.dataRequest = c.rid
      BY <2>1 DEF Sent
    <2>3. NumbersInv(d, nextRid) /\ KeysInv(d, nextRid, lastKey)
      BY <1>1, <2>1, SentNumbers, SentKeys DEF ClientInv
    <2>4. KnownInv(d, u, h)
      <3>1. h < c.rid
        BY <1>1 DEF ClientInv, NumbersInv, Clients, None
      <3> QED
        BY <1>8, <2>1, <3>1, SentKnown DEF ClientInv
    <2>5. Carrying(c) = {} /\ Underway(c) = <<>>
      <3>1. c.dataRequest < nextRid
        BY <1>1, <1>8 DEF None
      <3> QED
        BY <1>1, <3>1, NothingCarried DEF ClientInv
    <2>6. Underway(d) = NextPiece /\ CarriedInv(d)
      BY <2>1, <2>5, SentData
    <2>7. StartInv(d, lastKey)
      BY <2>2 DEF StartInv, ClientInv
    <2>8. PiecesInv(d, got, w)
      BY <1>1, <1>2, <1>4, <1>5, <2>2, <2>6 DEF ClientInv, PiecesInv, n
    <2>9. ASSUME errors = 0 PROVE FaultlessInv(d, got, w)
      <3>1. c.payloads = <<>> /\ written = got \o Underway(c) \o c.payloads
        BY <1>8, <2>9 DEF ClientInv, FaultlessInv
      <3>2. written = got
        BY <1>1, <2>5, <3>1, ConcatEmptySeq
      <3>3. w = got \o NextPiece \o <<>>
        BY <1>1, <1>2, <3>2, ConcatEmptySeq DEF w
      <3>4. d.dataRequest # None
        BY <2>2 DEF Clients, None
      <3> QED
        BY <2>2, <2>6, <3>1, <3>3, <3>4 DEF FaultlessInv
    <2>10. ClientInv(d, u, h, w)
      BY <2>3, <2>4, <2>6, <2>7, <2>8, <2>9 DEF ClientInv
    <2> QED
      BY <2>2, <2>10 DEF d, w
  <1> QED
    BY <1>7, <1>8

\* A header takes the place of the request whose answer is handled, or is the first.
LEMMA HeaderKeeps ==
  ASSUME TypeOK, NEW c \in Clients, ~c.authorized,
         NEW u, NEW h \in Nat \cup {None}, h < nextRid, c.dataRequest \in {None, h},
         NEW w, ClientInv(c, u, h, w),
         NEW d, NEW q, Sent(c, d, q, FALSE), q.body = <<>>,
         c.opened => q.key = Key(c)
  PROVE  d \in Clients /\ ~d.authorized /\ ClientInv(d, u, h, w)
  <1>1. nextRid \in Nat
    BY DEF TypeOK
  <1>2. /\ d \in Clients /\ d.opened /\ ~d.authorized /\ d.payloads = c.payloads
        /\ d.emptyRequest = c.emptyRequest /\ d.dataRequest = c.rid
    BY DEF Sent
  <1>3. StartInv(d, lastKey)
    BY <1>2 DEF ClientInv, StartInv
  <1>4. NumbersInv(d, nextRid) /\ KeysInv(d, nextRid, lastKey)
    <2>1. c.opened \/ (c.posted = {} /\ lastKey = NoKey)
      BY DEF ClientInv, StartInv
    <2> QED
      BY <1>1, <2>1, SentNumbers, SentKeys DEF ClientInv
  <1>5. KnownInv(d, u, h)
    <2>1. h < c.rid
      BY <1>1 DEF ClientInv, NumbersInv, Clients, None
    <2> QED
      BY <2>1, SentKnown DEF ClientInv
  <1>6. Carrying(c) = {} /\ Underway(c) = <<>>
    <2>1. c.dataRequest < nextRid
      BY <1>1 DEF None
    <2> QED
      BY <1>1, <2>1, NothingCarried DEF ClientInv
  <1>7. Underway(d) = <<>> /\ CarriedInv(d)
    BY <1>6, SentData
  <1>8. PiecesInv(d, got, w)
    BY <1>2, <1>6, <1>7 DEF ClientInv, PiecesInv
  <1>9. errors = 0 => FaultlessInv(d, got, w)
    <2>1. d.dataRequest # None
      BY <1>2 DEF Clients, None
    <2> QED
      BY <1>2, <1>6, <1>7, <2>1 DEF ClientInv, FaultlessInv
  <1> QED
    BY <1>2, <1>3, <1>4, <1>5, <1>7, <1>8, <1>9 DEF ClientInv

\* When data has been answered, what has waited for that is posted.
LEMMA FlushKeeps ==
  ASSUME TypeOK, NEW c \in Clients, c.opened, NEW u, NEW h \in Nat, h < nextRid,
         NEW w, ClientInv(c, u, h, w), c.payloads # <<>>, h = c.dataRequest
  PROVE  LET d == [writeData([c EXCEPT !.dataRequest = None], c.payloads)
                     EXCEPT !.payloads = <<>>]
         IN  /\ d \in Clients /\ d.authorized = c.authorized /\ d.emptyRequest = c.emptyRequest
             /\ ClientInv(d, u, None, w)
  <1> DEFINE a == [c EXCEPT !.dataRequest = None]
             e == writeData(a, c.payloads)
             d == [e EXCEPT !.payloads = <<>>]
  <1>1. /\ nextRid \in Nat /\ got \in Seq(1..MaxWrites) /\ c.payloads \in Seq(1..MaxWrites)
    BY DEF TypeOK, Clients
  <1>2. a \in Clients /\ a.dataRequest = None
    BY DEF Clients
  <1>3. /\ a.posted = c.posted /\ a.rid = c.rid /\ a.opened = c.opened
        /\ a.left = c.left /\ a.chain = c.chain /\ a.payloads = c.payloads
        /\ a.authorized = c.authorized /\ a.emptyRequest = c.emptyRequest
    BY DEF Clients
  <1> HIDE DEF a
  <1>4. /\ NumbersInv(a, nextRid) /\ KeysInv(a, nextRid, lastKey) /\ CarriedInv(a)
        /\ Carrying(c) = {} /\ Carrying(a) = {} /\ Underway(c) = <<>>
    <2>1. KeysInv(a, nextRid, lastKey) /\ Carrying(a) = Carrying(c)
      BY <1>3, SameRequests DEF ClientInv
    <2>2. Carrying(c) = {} /\ Underway(c) = <<>>
      BY <1>1, NothingCarried DEF ClientInv
    <2>3. NumbersInv(a, nextRid)
      <3>1. None < a.rid /\ a.dataRequest < a.rid
        BY <1>2 DEF Clients, None
      <3> QED
        BY <1>2, <1>3, <3>1 DEF ClientInv, NumbersInv
    <2>4. CarriedInv(a)
      BY <2>1, <2>2 DEF CarriedInv, Carrying
    <2> QED
      BY <2>1, <2>2, <2>3, <2>4
  <1>5. KnownInv(a, u, None)
    <2>1. h # None /\ c.emptyRequest # h
      BY DEF None, ClientInv, NumbersInv
    <2>2. {a.dataRequest, a.emptyRequest} \ {None, None}
            = {c.dataRequest, c.emptyRequest} \ {None, h}
      BY <1>2, <1>3, <2>1
    <2> QED
      BY <1>3, <2>2 DEF ClientInv, KnownInv
  <1>6. a.opened /\ a.left >= 2
    BY <1>3 DEF ClientInv, KeysInv
  <1>7. PICK q : Sent(a, e, q, FALSE) /\ q.key = Key(a) /\ q.body = c.payloads
    BY <1>1, <1>2, <1>6, WriteDataSends
  <1> HIDE DEF e
  <1>8. /\ e \in Clients /\ e.opened /\ e.authorized = c.authorized
        /\ e.emptyRequest = c.emptyRequest /\ e.dataRequest = c.rid
    BY <1>3, <1>7 DEF Sent
  <1>9. NumbersInv(e, nextRid) /\ KeysInv(e, nextRid, lastKey)
    BY <1>1, <1>2, <1>4, <1>6, <1>7, SentNumbers, SentKeys
  <1>10. KnownInv(e, u, None)
    <2>1. None < a.rid
      BY <1>2 DEF Clients, None
    <2> QED
      BY <1>2, <1>5, <1>7, <2>1, SentKnown
  <1>11. Underway(e) = c.payloads /\ CarriedInv(e)
    BY <1>2, <1>4, <1>7, SentData
  <1>12. d \in Clients /\ d.payloads = <<>>
    <2>1. e \in Clients /\ <<>> \in Seq(1..MaxWrites)
      BY <1>8
    <2> QED
      BY <2>1 DEF Clients
  <1>13. /\ d.posted = e.posted /\ d.rid = e.rid /\ d.opened = e.opened
         /\ d.left = e.left /\ d.chain = e.chain /\ d.authorized = e.authorized
         /\ d.dataRequest = e.dataRequest /\ d.emptyRequest = e.emptyRequest
    BY <1>8 DEF Clients
  <1> HIDE DEF d
  <1>14. KeysInv(d, nextRid, lastKey) /\ Underway(d) = c.payloads
    BY <1>9, <1>11, <1>13, SameRequests
  <1>15. NumbersInv(d, nextRid) /\ KnownInv(d, u, None) /\ CarriedInv(d)
    BY <1>9, <1>10, <1>11, <1>13 DEF NumbersInv, KnownInv, CarriedInv
  <1>16. StartInv(d, lastKey)
    BY <1>8, <1>13 DEF ClientInv, StartInv
  <1>17. PiecesInv(d, got, w)
    BY <1>12, <1>14, NothingIs DEF ClientInv, PiecesInv
  <1>18. ASSUME errors = 0 PROVE FaultlessInv(d, got, w)
    <2>1. w = got \o Underway(c) \o c.payloads
      BY <1>18 DEF ClientInv, FaultlessInv
    <2>2. w = got \o c.payloads
      BY <1>1, <1>4, <2>1, ConcatEmptySeq
    <2>3. w = got \o Underway(d) \o d.payloads
      <3>1. got \o c.payloads \in Seq(1..MaxWrites)
        BY <1>1
      <3> QED
        BY <1>12, <1>14, <2>2, <3>1, ConcatEmptySeq
    <2> QED
      BY <1>12, <2>3 DEF FaultlessInv
  <1>19. ClientInv(d, u, None, w)
    BY <1>14, <1>15, <1>16, <1>17, <1>18 DEF ClientInv
  <1> QED
    BY <1>8, <1>12, <1>13, <1>19 DEF d, e, a

\* The pointers to a request that is answered become null.
LEMMA ForgetKeeps ==
  ASSUME TypeOK, NEW c \in Clients, NEW u, NEW h \in Nat, h < nextRid,
         NEW w, ClientInv(c, u, h, w), ~(c.payloads # <<>> /\ h = c.dataRequest)
  PROVE  LET d == Forgotten(c, h)
         IN  /\ d \in Clients /\ d.opened = c.opened /\ d.authorized = c.authorized
             /\ ClientInv(d, u, None, w)
  <1> DEFINE d == Forgotten(c, h)
  <1>1. nextRid \in Nat /\ None < 0
    BY DEF TypeOK, None
  <1>2. /\ d \in Clients
        /\ d.dataRequest = IF c.dataRequest = h THEN None ELSE c.dataRequest
        /\ d.emptyRequest = IF c.emptyRequest = h THEN None ELSE c.emptyRequest
    BY DEF Clients, Forgotten
  <1>3. /\ d.posted = c.posted /\ d.rid = c.rid /\ d.opened = c.opened
        /\ d.left = c.left /\ d.chain = c.chain /\ d.payloads = c.payloads
        /\ d.authorized = c.authorized
    BY DEF Clients, Forgotten
  <1> HIDE DEF d
  <1>4. KeysInv(d, nextRid, lastKey) /\ Underway(d) = Underway(c)
    BY <1>3, SameRequests DEF ClientInv
  <1>5. StartInv(d, lastKey)
    BY <1>2, <1>3 DEF ClientInv, StartInv
  <1>6. NumbersInv(d, nextRid)
    <2>1. /\ c.rid \in Nat /\ c.dataRequest \in Nat \cup {None}
          /\ c.emptyRequest \in Nat \cup {None} /\ None < c.rid
      BY DEF Clients, None
    <2>2. /\ d.dataRequest < d.rid /\ d.emptyRequest < d.rid
          /\ d.dataRequest = d.emptyRequest => d.dataRequest = None
      BY <1>2, <1>3, <2>1 DEF ClientInv, NumbersInv
    <2> QED
      BY <1>3, <2>2 DEF ClientInv, NumbersInv
  <1>7. KnownInv(d, u, None)
    <2>1. {d.dataRequest, d.emptyRequest} \ {None, None}
            = {c.dataRequest, c.emptyRequest} \ {None, h}
      BY <1>2
    <2> QED
      BY <1>3, <2>1 DEF ClientInv, KnownInv
  <1>8. CarriedInv(d)
    <2>1. ASSUME NEW r \in d.posted, r.body # <<>> PROVE r.rid = d.dataRequest
      <3>1. r.rid = c.dataRequest /\ nextRid <= r.rid /\ r.rid \in Nat
        BY <1>3, <2>1 DEF ClientInv, CarriedInv, NumbersInv, Clients, Request
      <3> QED
        BY <1>1, <1>2, <3>1
    <2> QED
      BY <2>1 DEF CarriedInv
  <1>9. PiecesInv(d, got, w)
    BY <1>3, <1>4 DEF ClientInv, PiecesInv
  <1>10. errors = 0 => FaultlessInv(d, got, w)
    BY <1>2, <1>3, <1>4 DEF ClientInv, FaultlessInv
  <1>11. ClientInv(d, u, None, w)
    BY <1>4, <1>5, <1>6, <1>7, <1>8, <1>9, <1>10 DEF ClientInv
  <1> QED
    BY <1>2, <1>3, <1>11 DEF d

\* With no data that has waited for it, an answer is forgotten before the client polls.
LEMMA AnsweredForgets ==
  ASSUME NEW c, NEW h, ~(c.payloads # <<>> /\ h = c.dataRequest)
  PROVE  LET done == Forgotten(c, h)
         IN  Answered(c, h) = IF done.authorized /\ done.emptyRequest = None
                              THEN writeData(done, <<>>) ELSE done
  BY DEF Answered, Forgotten

\* After an answer nothing points to its request, and the client polls.
LEMMA AnsweredKeeps ==
  ASSUME TypeOK, NEW c \in Clients, c.opened, NEW u, NEW h \in Nat, h < nextRid,
         NEW w, ClientInv(c, u, h, w), PollsInv(c)
  PROVE  LET d == Answered(c, h)
         IN  /\ d \in Clients /\ d.authorized = c.authorized
             /\ ClientInv(d, u, None, w) /\ PollsInv(d)
  <1> DEFINE d == Answered(c, h)
  <1>1. CASE c.payloads # <<>> /\ h = c.dataRequest
    <2> DEFINE e == [writeData([c EXCEPT !.dataRequest = None], c.payloads)
                       EXCEPT !.payloads = <<>>]
    <2>1. d = e
      BY <1>1 DEF Answered
    <2> HIDE DEF e
    <2>2. /\ e \in Clients /\ e.authorized = c.authorized /\ e.emptyRequest = c.emptyRequest
          /\ ClientInv(e, u, None, w)
      BY <1>1, FlushKeeps DEF e
    <2>3. PollsInv(e)
      BY <2>2 DEF PollsInv
    <2> QED
      BY <2>1, <2>2, <2>3
  <1>2. CASE ~(c.payloads # <<>> /\ h = c.dataRequest)
    <2> DEFINE done == Forgotten(c, h)
    <2>1. d = IF done.authorized /\ done.emptyRequest = None THEN writeData(done, <<>>) ELSE done
      BY <1>2, AnsweredForgets
    <2>2. /\ done \in Clients /\ done.opened /\ done.authorized = c.authorized
          /\ ClientInv(done, u, None, w)
      BY <1>2, ForgetKeeps
    <2> HIDE DEF done
    <2>3. CASE done.authorized /\ done.emptyRequest = None
      <3>1. [done EXCEPT !.authorized = TRUE] = done
        <4>1. done.authorized = TRUE
          BY <2>2, <2>3 DEF Clients
        <4> QED
          BY <2>2, <4>1 DEF Clients
      <3>2. d = authorized(done)
        BY <2>1, <2>3, <3>1 DEF authorized
      <3>3. None < nextRid
        BY DEF TypeOK, None
      <3> DEFINE e == authorized(done)
      <3>4. e \in Clients /\ e.authorized /\ e.emptyRequest # None /\ ClientInv(e, u, None, w)
        BY <2>2, <2>3, <3>3, PollKeeps
      <3> HIDE DEF e, d
      <3>5. e.authorized = c.authorized
        BY <2>2, <2>3, <3>4 DEF Clients
      <3>6. d = e
        BY <3>2 DEF e
      <3> QED
        BY <3>4, <3>5, <3>6 DEF PollsInv, d
    <2>4. CASE ~(done.authorized /\ done.emptyRequest = None)
      <3>1. d = done
        BY <2>1, <2>4
      <3> QED
        BY <2>2, <2>4, <3>1 DEF PollsInv
    <2> QED
      BY <2>3, <2>4
  <1> QED
    BY <1>1, <1>2

\* Whatever an answer makes of the stream, and whatever is written meanwhile.
LEMMA ParsedKeeps ==
  ASSUME TypeOK, NEW c \in Clients, c.opened,
         NEW u, NEW h \in Nat, h < nextRid, ClientInv(c, u, h, written), PollsInv(c),
         NEW effect \in Effects, NEW pieces, pieces = <<>> \/ pieces = NextPiece,
         Len(written \o pieces) <= MaxWrites, effect = "restart" => pieces = <<>>,
         effect # "none" => ~c.authorized /\ c.dataRequest \in {None, h}
  PROVE  LET d == Parsed(c, effect, pieces)
         IN  /\ d \in Clients /\ d.opened /\ ClientInv(d, u, h, written \o pieces)
             /\ PollsInv(d)
             /\ d.authorized => c.authorized \/ effect = "ready"
  <1> DEFINE e == IF pieces = <<>> THEN c ELSE writeData(c, pieces)
             d == Parsed(c, effect, pieces)
             w == written \o pieces
  <1>1. written \in Seq(1..MaxWrites) /\ nextRid \in Nat /\ None < nextRid
    BY DEF TypeOK, None
  <1>2. /\ e \in Clients /\ e.opened /\ e.authorized = c.authorized
        /\ e.emptyRequest = c.emptyRequest /\ ClientInv(e, u, h, w)
        /\ pieces = <<>> => e = c
    <2>1. CASE pieces = <<>>
      <3>1. w = written
        BY <1>1, <2>1, ConcatEmptySeq
      <3> QED
        BY <2>1, <3>1
    <2>2. CASE pieces # <<>>
      <3>1. pieces = NextPiece
        BY <2>2
      <3>2. Len(written) < MaxWrites
        BY <1>1, <3>1 DEF NextPiece
      <3> QED
        BY <2>2, <3>1, <3>2, PieceKeeps
    <2> QED
      BY <2>1, <2>2
  <1>3. /\ effect = "none" => d = e
        /\ effect = "restart" => d = sendHeader(e, FALSE)
        /\ effect = "ready" => d = authorized(e)
    BY DEF Parsed
  <1> HIDE DEF d, e, w
  <1>4. CASE effect = "none"
    BY <1>2, <1>3, <1>4 DEF PollsInv, d, w
  <1>5. CASE effect = "restart"
    <2>1. e.left >= 2
      BY <1>2 DEF ClientInv, KeysInv
    <2>2. PICK q : Sent(e, d, q, FALSE) /\ q.key = Key(e) /\ q.body = <<>>
      <3>1. PICK q : /\ Sent(e, sendHeader(e, FALSE), q, FALSE)
                     /\ q.key = (IF FALSE THEN NoKey ELSE Key(e)) /\ q.body = <<>>
        BY <1>2, <2>1, HeaderSends
      <3> QED
        BY <1>3, <1>5, <3>1
    <2>3. ~e.authorized /\ e.dataRequest \in {None, h}
      BY <1>2, <1>5
    <2>4. d \in Clients /\ ~d.authorized /\ ClientInv(d, u, h, w)
      BY <1>2, <2>2, <2>3, HeaderKeeps
    <2>5. d.opened
      BY <2>2 DEF Sent
    <2> QED
      BY <2>4, <2>5 DEF PollsInv, d, w
  <1>6. CASE effect = "ready"
    <2>1. e.emptyRequest = None
      BY <1>2, <1>6 DEF ClientInv, StartInv
    <2> DEFINE f == authorized(e)
    <2>2. /\ f \in Clients /\ f.opened /\ f.authorized /\ f.emptyRequest # None
          /\ ClientInv(f, u, h, w)
      BY <1>1, <1>2, <2>1, PollKeeps
    <2>3. d = f
      BY <1>3, <1>6
    <2> HIDE DEF f
    <2> QED
      BY <1>6, <2>2, <2>3 DEF PollsInv, d, w
  <1> QED
    BY <1>4, <1>5, <1>6 DEF Effects

-----------------------------------------------------------------------------
(* The steps                                                               *)

\* The client begins: it has nothing, and the server has nothing of it.
LEMMA InitKeeps == Init => SessionInv
  <1> SUFFICES ASSUME Init PROVE SessionInv
    OBVIOUS
  <1>1. /\ client.opened = FALSE /\ client.rid = 0 /\ client.posted = {}
        /\ client.dataRequest = None /\ client.emptyRequest = None
        /\ client.payloads = <<>> /\ client.authorized = FALSE
        /\ nextRid = 0 /\ lastKey = NoKey /\ got = <<>> /\ written = <<>>
        /\ held = <<>> /\ replies = {}
    BY DEF Init
  <1>2. TypeOK
    <2>1. client \in Clients
      BY DEF Init, Clients
    <2> QED
      BY <2>1 DEF Init, TypeOK
  <1>3. ServerInv
    BY DEF Init, ServerInv
  <1>4. Unanswered = {} /\ Numbers(client.posted) = {}
    BY <1>1 DEF Unanswered, Range, Numbers
  <1>5. Underway(client) = <<>>
    BY <1>1 DEF Underway, Carrying
  <1>6. StartInv(client, lastKey) /\ NumbersInv(client, nextRid) /\ CarriedInv(client)
    BY <1>1 DEF StartInv, NumbersInv, CarriedInv, None
  <1>7. KeysInv(client, nextRid, lastKey) /\ KnownInv(client, Unanswered, None)
    BY <1>1, <1>4 DEF KeysInv, KnownInv
  <1>8. PiecesInv(client, got, written)
    BY <1>1, <1>5, NothingIs DEF PiecesInv
  <1>9. FaultlessInv(client, got, written)
    <2>1. <<>> \in Seq(Nat)
      OBVIOUS
    <2>2. <<>> \o <<>> = <<>>
      BY <2>1, ConcatEmptySeq
    <2> QED
      BY <1>1, <1>5, <2>2 DEF FaultlessInv
  <1> QED
    BY <1>1, <1>2, <1>3, <1>6, <1>7, <1>8, <1>9 DEF SessionInv, ClientInv, PollsInv

\* What is said of the client after a step of its own.
LEMMA ClientStays ==
  ASSUME UNCHANGED <<nextRid, lastKey, got, errors>>, NEW c, NEW u, NEW w,
         ClientInv(c, u, None, w), PollsInv(c), client' = c, Unanswered' = u, written' = w
  PROVE  ClientInv(client, Unanswered, None, written)' /\ PollsInv(client)'
  <1>1. ClientInv(client, Unanswered, None, written)'
    BY DEF ClientInv, StartInv, NumbersInv, KeysInv, KnownInv, CarriedInv, PiecesInv,
           FaultlessInv, Underway, Carrying, Key
  <1>2. PollsInv(client)'
    BY DEF PollsInv
  <1> QED
    BY <1>1, <1>2

\* The stream is opened.
LEMMA OpenKeeps ==
  ASSUME SessionInv, open
  PROVE  SessionInv'
  <1> DEFINE c == [client EXCEPT !.opened = TRUE]
  <1>1. TypeOK /\ ServerInv /\ ClientInv(client, Unanswered, None, written)
    BY DEF SessionInv
  <1>2. c \in Clients /\ c.opened /\ client \in Clients /\ ~client.opened
    BY <1>1 DEF TypeOK, Clients, open
  <1>3. /\ c.posted = client.posted /\ c.rid = client.rid /\ c.payloads = client.payloads
        /\ c.authorized = client.authorized
        /\ c.dataRequest = client.dataRequest /\ c.emptyRequest = client.emptyRequest
    BY <1>2 DEF Clients
  <1>4. client' = sendHeader(c, TRUE)
    BY DEF open
  <1> HIDE DEF c
  <1>5. PICK q : Sent(c, client', q, FALSE) /\ q.body = <<>>
    <2>1. PICK q : Sent(c, sendHeader(c, TRUE), q, FALSE) /\ q.body = <<>>
      BY <1>2, HeaderSends
    <2> QED
      BY <1>4, <2>1
  <1>6. Sent(client, client', q, FALSE)
    BY <1>3, <1>5 DEF Sent
  <1>7. ~client.authorized /\ client.dataRequest = None /\ None < nextRid
    BY <1>1, <1>2 DEF ClientInv, StartInv, TypeOK, None
  <1>8. /\ client' \in Clients /\ ~client'.authorized
        /\ ClientInv(client', Unanswered, None, written)
    BY <1>1, <1>2, <1>5, <1>6, <1>7, HeaderKeeps
  <1>9. TypeOK'
    BY <1>1, <1>8 DEF TypeOK, open
  <1>10. ServerInv'
    BY <1>1, <1>8 DEF ServerInv, open
  <1>11. Unanswered' = Unanswered /\ PollsInv(client')
    BY <1>8 DEF Unanswered, open, PollsInv
  <1>12. ClientInv(client, Unanswered, None, written)' /\ PollsInv(client)'
    BY <1>8, <1>11, ClientStays DEF open
  <1> QED
    BY <1>9, <1>10, <1>12 DEF SessionInv

\* The application writes.
LEMMA WriteKeeps ==
  ASSUME SessionInv, Write
  PROVE  SessionInv'
  <1> DEFINE d == writeData(client, NextPiece)
             w == written \o NextPiece
  <1>1. TypeOK /\ ServerInv /\ ClientInv(client, Unanswered, None, written) /\ PollsInv(client)
    BY DEF SessionInv
  <1>2. client \in Clients /\ client.opened /\ None < nextRid /\ Len(written) < MaxWrites
    BY <1>1 DEF TypeOK, None, Write, ClientInv, StartInv
  <1>3. /\ d \in Clients /\ d.authorized = client.authorized
        /\ d.emptyRequest = client.emptyRequest /\ ClientInv(d, Unanswered, None, w)
    BY <1>1, <1>2, PieceKeeps
  <1>4. client' = d /\ written' = w
    BY DEF Write
  <1> HIDE DEF d
  <1>5. TypeOK'
    <2>1. w \in Seq(1..MaxWrites)
      BY <1>1, <1>2 DEF TypeOK, NextPiece
    <2> QED
      BY <1>1, <1>3, <1>4, <2>1 DEF TypeOK, Write
  <1> HIDE DEF w
  <1>6. ServerInv'
    BY <1>1, <1>3, <1>4 DEF ServerInv, Write
  <1>7. Unanswered' = Unanswered /\ PollsInv(d)
    BY <1>1, <1>3 DEF Unanswered, Write, PollsInv
  <1>8. ClientInv(client, Unanswered, None, written)' /\ PollsInv(client)'
    BY <1>3, <1>4, <1>7, ClientStays DEF Write
  <1> QED
    BY <1>5, <1>6, <1>8 DEF SessionInv

\* While one answer is handled, the others and the requests held are other ones.
LEMMA OthersUnanswered ==
  ASSUME SessionInv, NEW p \in replies
  PROVE  LET u == Range(held) \cup Numbers(replies \ {p})
         IN  /\ p.rid \in Nat /\ p.rid < nextRid
             /\ p.rid \notin u /\ Unanswered = u \cup {p.rid}
             /\ p.rid \notin Numbers(client.posted)
             /\ p.rid \in {client.dataRequest, client.emptyRequest} \ {None}
  <1> DEFINE u == Range(held) \cup Numbers(replies \ {p})
  <1>1. TypeOK /\ ServerInv /\ ClientInv(client, Unanswered, None, written)
    BY DEF SessionInv
  <1>2. p.rid \in Nat /\ p.rid < nextRid /\ nextRid \in Nat
    BY <1>1 DEF TypeOK, ServerInv
  <1>3. p.rid \notin Range(held)
    <2>1. ASSUME NEW i \in DOMAIN held, held[i] = p.rid PROVE FALSE
      BY <1>1, <1>2, <2>1 DEF ServerInv
    <2> QED
      BY <2>1 DEF Range
  <1>4. p.rid \notin Numbers(replies \ {p})
    BY <1>1 DEF ServerInv, Numbers
  <1>5. Unanswered = u \cup {p.rid}
    <2>1. Numbers(replies) = Numbers(replies \ {p}) \cup {p.rid}
      BY DEF Numbers
    <2> QED
      BY <2>1 DEF Unanswered
  <1>6. p.rid \notin Numbers(client.posted)
    <2>1. ASSUME NEW r \in client.posted, r.rid = p.rid PROVE FALSE
      BY <1>1, <1>2, <2>1 DEF ClientInv, NumbersInv
    <2> QED
      BY <2>1 DEF Numbers
  <1>7. p.rid \in {client.dataRequest, client.emptyRequest} \ {None}
    BY <1>1, <1>2, <1>5 DEF ClientInv, KnownInv, None
  <1> QED
    BY <1>2, <1>3, <1>4, <1>5, <1>6, <1>7

\* Only one answer is under way to a client that is not authorized.
LEMMA OneAnswer ==
  ASSUME SessionInv, ~client.authorized, NEW p \in replies, NEW r \in replies
  PROVE  r = p /\ client.dataRequest = p.rid
  <1>1. TypeOK /\ ServerInv /\ client.emptyRequest = None
    BY DEF SessionInv, ClientInv, StartInv
  <1>2. p.rid \in {client.dataRequest, client.emptyRequest} \ {None}
    BY OthersUnanswered
  <1>3. r.rid \in {client.dataRequest, client.emptyRequest} \ {None}
    BY OthersUnanswered
  <1> QED
    BY <1>1, <1>2, <1>3 DEF ServerInv

\* An answer is handled.
LEMMA FinishedKeeps ==
  ASSUME SessionInv, onRequestFinished
  PROVE  SessionInv'
  <1>1. PICK p \in replies, pieces \in {<<>>, NextPiece} :
           /\ Len(written \o pieces) <= MaxWrites
           /\ p.effect = "restart" => pieces = <<>>
           /\ client' = Answered(Parsed(client, p.effect, pieces), p.rid)
           /\ written' = written \o pieces
           /\ replies' = replies \ {p}
           /\ UNCHANGED <<nextRid, lastKey, accepted, got, held, phase, polls, errors>>
    BY DEF onRequestFinished
  <1> DEFINE u == Range(held) \cup Numbers(replies \ {p})
             w == written \o pieces
             d == Parsed(client, p.effect, pieces)
             e == Answered(d, p.rid)
  <1>2. /\ TypeOK /\ ServerInv /\ ClientInv(client, Unanswered, None, written)
        /\ PollsInv(client) /\ client \in Clients /\ p.effect \in Effects
    BY DEF SessionInv, TypeOK
  <1>3. /\ p.rid \in Nat /\ p.rid < nextRid
        /\ p.rid \notin u /\ Unanswered = u \cup {p.rid}
        /\ p.rid \notin Numbers(client.posted)
        /\ p.rid \in {client.dataRequest, client.emptyRequest} \ {None}
    BY OthersUnanswered
  <1>4. ClientInv(client, u, p.rid, written) /\ client.opened
    <2>1. KnownInv(client, u, p.rid)
      BY <1>2, <1>3 DEF ClientInv, KnownInv
    <2>2. client.opened
      BY <1>2, <1>3 DEF ClientInv, StartInv
    <2> QED
      BY <1>2, <2>1, <2>2 DEF ClientInv
  <1>5. p.effect # "none" => ~client.authorized /\ client.dataRequest \in {None, p.rid}
    BY <1>2, OneAnswer DEF ServerInv
  <1> HIDE DEF u, w
  <1>6. /\ d \in Clients /\ d.opened /\ ClientInv(d, u, p.rid, w)
        /\ PollsInv(d)
        /\ d.authorized => client.authorized \/ p.effect = "ready"
    <2> DEFINE c == client
               h == p.rid
               effect == p.effect
    <2>1. h \in Nat /\ h < nextRid /\ effect \in Effects
      BY <1>2, <1>3
    <2>2. ClientInv(c, u, h, written) /\ c.opened
      BY <1>4
    <2>3. /\ effect = "restart" => pieces = <<>>
          /\ effect # "none" => ~c.authorized /\ c.dataRequest \in {None, h}
      BY <1>1, <1>5
    <2>4. Len(written \o pieces) <= MaxWrites /\ (pieces = <<>> \/ pieces = NextPiece)
      BY <1>1
    <2>6. TypeOK /\ c \in Clients /\ PollsInv(c)
      BY <1>2
    <2> HIDE DEF h, effect, c
    <2>5. LET f == Parsed(c, effect, pieces)
          IN  /\ f \in Clients /\ f.opened /\ ClientInv(f, u, h, written \o pieces)
              /\ PollsInv(f)
              /\ f.authorized => c.authorized \/ effect = "ready"
      BY <2>1, <2>2, <2>3, <2>4, <2>6, ParsedKeeps
    <2> QED
      BY <2>5 DEF h, effect, w, c
  <1> HIDE DEF d
  <1>7. /\ e \in Clients /\ e.authorized = d.authorized
        /\ ClientInv(e, u, None, w) /\ PollsInv(e)
    BY <1>2, <1>3, <1>6, AnsweredKeeps
  <1> HIDE DEF e
  <1>8. client' = e /\ written' = w
    BY <1>1 DEF e, d, w
  <1>9. TypeOK'
    <2>1. w \in Seq(1..MaxWrites)
      <3>1. CASE pieces = <<>>
        BY <1>2, <3>1 DEF TypeOK, w
      <3>2. CASE pieces = NextPiece
        BY <1>1, <1>2, <3>2 DEF TypeOK, NextPiece, w
      <3> QED
        BY <3>1, <3>2
    <2> QED
      BY <1>1, <1>2, <1>7, <1>8, <2>1 DEF TypeOK
  <1>10. ServerInv'
    <2>1. ASSUME client'.authorized
          PROVE  phase' = "ready" /\ \A r \in replies' : r.effect = "none"
      <3>1. CASE client.authorized
        BY <1>1, <1>2, <3>1 DEF ServerInv
      <3>2. CASE ~client.authorized
        <4>1. p.effect = "ready"
          BY <1>6, <1>7, <1>8, <2>1, <3>2
        <4>2. replies' = {}
          BY <1>1, <3>2, OneAnswer
        <4> QED
          BY <1>1, <1>2, <4>1, <4>2 DEF ServerInv
      <3> QED
        BY <3>1, <3>2
    <2> QED
      BY <1>1, <1>2, <2>1 DEF ServerInv
  <1>11. Unanswered' = u
    BY <1>1 DEF Unanswered, u
  <1>12. ClientInv(client, Unanswered, None, written)' /\ PollsInv(client)'
    BY <1>1, <1>7, <1>8, <1>11, ClientStays
  <1> QED
    BY <1>9, <1>10, <1>12 DEF SessionInv

\* The only one that carries data.
LEMMA OneCarrier ==
  ASSUME NEW c, NEW n, NumbersInv(c, n), CarriedInv(c), NEW r \in Carrying(c)
  PROVE  Carrying(c) = {r}
  <1>1. ASSUME NEW s \in Carrying(c) PROVE s = r
    BY DEF Carrying, CarriedInv, NumbersInv
  <1> QED
    BY <1>1

\* What is left of a client whose request has failed.
LEMMA FailedKeeps ==
  ASSUME SessionInv, NEW h \in Nat, Failed(h), UNCHANGED <<nextRid, lastKey, got, written>>,
         Numbers(client'.posted) \cup Unanswered'
           = (Numbers(client.posted) \cup Unanswered) \ {h}
  PROVE  /\ client' \in Clients /\ client'.authorized = client.authorized
         /\ errors' \in 0..MaxErrors
         /\ ClientInv(client, Unanswered, None, written)' /\ PollsInv(client)'
  <1> DEFINE c == client
             d == [c EXCEPT !.dataRequest = IF @ = h THEN None ELSE @,
                            !.emptyRequest = IF @ = h THEN None ELSE @,
                            !.posted = {r \in @ : r.rid # h}]
  <1>1. /\ TypeOK /\ c \in Clients /\ errors \in Nat /\ nextRid \in Nat /\ client' = d
        /\ errors' = errors + 1 /\ errors < MaxErrors
        /\ ClientInv(c, Unanswered, None, written)
    BY DEF SessionInv, TypeOK, Failed
  <1> HIDE DEF c
  <1>2. {r \in c.posted : r.rid # h} \in SUBSET Request
    BY <1>1 DEF Clients
  <1>3. /\ d \in Clients /\ d.posted = {r \in c.posted : r.rid # h}
        /\ d.dataRequest = IF c.dataRequest = h THEN None ELSE c.dataRequest
        /\ d.emptyRequest = IF c.emptyRequest = h THEN None ELSE c.emptyRequest
    BY <1>1, <1>2 DEF Clients
  <1>4. /\ d.rid = c.rid /\ d.opened = c.opened
        /\ d.left = c.left /\ d.chain = c.chain /\ d.payloads = c.payloads
        /\ d.authorized = c.authorized
    BY <1>1 DEF Clients
  <1> HIDE DEF d
  <1>5. d.posted \subseteq c.posted
    BY <1>3
  <1>6. StartInv(d, lastKey)
    BY <1>1, <1>3, <1>4 DEF ClientInv, StartInv
  <1>7. NumbersInv(d, nextRid)
    <2>1. /\ c.rid \in Nat /\ c.dataRequest \in Nat \cup {None}
          /\ c.emptyRequest \in Nat \cup {None} /\ None < c.rid
      BY <1>1 DEF Clients, None
    <2>2. /\ d.dataRequest < d.rid /\ d.emptyRequest < d.rid
          /\ d.dataRequest = d.emptyRequest => d.dataRequest = None
      BY <1>1, <1>3, <1>4, <2>1 DEF ClientInv, NumbersInv
    <2>3. /\ nextRid <= d.rid
          /\ \A r \in d.posted : nextRid <= r.rid /\ r.rid < d.rid
          /\ \A r, s \in d.posted : r.rid = s.rid => r = s
      BY <1>1, <1>4, <1>5 DEF ClientInv, NumbersInv
    <2> QED
      BY <2>2, <2>3 DEF NumbersInv
  <1>8. KeysInv(d, nextRid, lastKey)
    <2>1. Key(d) = Key(c)
      BY <1>4 DEF Key
    <2> QED
      BY <1>1, <1>4, <1>5, <2>1 DEF ClientInv, KeysInv
  <1>9. KnownInv(d, Unanswered', None)
    <2>1. Numbers(d.posted) \cup Unanswered' = (Numbers(c.posted) \cup Unanswered) \ {h}
      BY <1>1 DEF c
    <2>2. {d.dataRequest, d.emptyRequest} \ {None, None}
            = ({c.dataRequest, c.emptyRequest} \ {None, None}) \ {h}
      BY <1>3
    <2> QED
      BY <1>1, <2>1, <2>2 DEF ClientInv, KnownInv
  <1>10. CarriedInv(d)
    BY <1>1, <1>3 DEF ClientInv, CarriedInv
  <1>11. PiecesInv(d, got, written)
    <2>1. CASE Carrying(d) = {}
      <3>1. Underway(d) = <<>>
        BY <2>1 DEF Underway
      <3> QED
        BY <1>1, <1>4, <3>1, NothingIs DEF ClientInv, PiecesInv
    <2>2. CASE Carrying(d) # {}
      <3>1. PICK r : r \in Carrying(d)
        BY <2>2
      <3>2. Carrying(d) = {r}
        BY <1>7, <1>10, <3>1, OneCarrier
      <3>3. Carrying(c) = {r}
        <4>1. r \in Carrying(c)
          BY <1>5, <3>1 DEF Carrying
        <4> QED
          BY <1>1, <4>1, OneCarrier DEF ClientInv
      <3>4. Underway(d) = Underway(c)
        BY <3>2, <3>3, OneCarries
      <3> QED
        BY <1>1, <1>4, <3>4 DEF ClientInv, PiecesInv
    <2> QED
      BY <2>1, <2>2
  <1>12. errors' # 0 /\ errors' \in 0..MaxErrors
    BY <1>1
  <1>13. ClientInv(client, Unanswered, None, written)'
    BY <1>1, <1>6, <1>7, <1>8, <1>9, <1>10, <1>11, <1>12
       DEF ClientInv, StartInv, NumbersInv, KeysInv, KnownInv, CarriedInv, PiecesInv,
           Underway, Carrying, Key
  <1> QED
    BY <1>1, <1>3, <1>4, <1>12, <1>13 DEF PollsInv, c

\* A request fails on its way.
LEMMA RequestFailsKeeps ==
  ASSUME SessionInv, RequestFails
  PROVE  SessionInv'
  <1>1. PICK r \in client.posted :
           /\ Failed(r.rid)
           /\ UNCHANGED <<written, nextRid, lastKey, accepted, got, held, phase, replies, polls>>
    BY DEF RequestFails
  <1>2. TypeOK /\ ServerInv /\ ClientInv(client, Unanswered, None, written)
    BY DEF SessionInv
  <1>3. r.rid \in Nat /\ nextRid <= r.rid /\ nextRid \in Nat /\ client \in Clients
    BY <1>2 DEF TypeOK, Clients, Request, ClientInv, NumbersInv
  <1>4. client'.posted = {s \in client.posted : s.rid # r.rid}
    BY <1>1, <1>3 DEF Failed, Clients
  <1>5. Numbers(client'.posted) = Numbers(client.posted) \ {r.rid}
    BY <1>4 DEF Numbers
  <1>6. r.rid \notin Unanswered
    <2>1. ASSUME NEW i \in DOMAIN held, held[i] = r.rid PROVE FALSE
      BY <1>2, <1>3, <2>1 DEF ServerInv
    <2>2. ASSUME NEW p \in replies, p.rid = r.rid PROVE FALSE
      BY <1>2, <1>3, <2>2 DEF ServerInv
    <2> QED
      BY <2>1, <2>2 DEF Unanswered, Range, Numbers
  <1>7. Unanswered' = Unanswered
    BY <1>1 DEF Unanswered
  <1>8. /\ client' \in Clients /\ client'.authorized = client.authorized
        /\ errors' \in 0..MaxErrors
        /\ ClientInv(client, Unanswered, None, written)' /\ PollsInv(client)'
    <2>1. Numbers(client'.posted) \cup Unanswered'
            = (Numbers(client.posted) \cup Unanswered) \ {r.rid}
      BY <1>5, <1>6, <1>7
    <2> QED
      BY <1>1, <1>3, <2>1, FailedKeeps
  <1>9. TypeOK'
    BY <1>1, <1>2, <1>8 DEF TypeOK
  <1>10. ServerInv'
    BY <1>1, <1>2, <1>8 DEF ServerInv
  <1> QED
    BY <1>8, <1>9, <1>10 DEF SessionInv

\* An answer fails on its way.
LEMMA ReplyFailsKeeps ==
  ASSUME SessionInv, ReplyFails
  PROVE  SessionInv'
  <1>1. PICK p \in replies :
           /\ Failed(p.rid)
           /\ replies' = replies \ {p}
           /\ UNCHANGED <<written, nextRid, lastKey, accepted, got, held, phase, polls>>
    BY DEF ReplyFails
  <1>2. TypeOK /\ ServerInv /\ ClientInv(client, Unanswered, None, written)
    BY DEF SessionInv
  <1> DEFINE u == Range(held) \cup Numbers(replies \ {p})
  <1>3. /\ p.rid \in Nat /\ p.rid \notin u /\ Unanswered = u \cup {p.rid}
        /\ p.rid \notin Numbers(client.posted)
    BY OthersUnanswered
  <1>4. Unanswered' = u
    BY <1>1 DEF Unanswered
  <1> HIDE DEF u
  <1>5. client'.posted = {s \in client.posted : s.rid # p.rid}
    BY <1>1, <1>2 DEF Failed, TypeOK, Clients
  <1>6. Numbers(client'.posted) = Numbers(client.posted)
    BY <1>3, <1>5 DEF Numbers
  <1>7. /\ client' \in Clients /\ client'.authorized = client.authorized
        /\ errors' \in 0..MaxErrors
        /\ ClientInv(client, Unanswered, None, written)' /\ PollsInv(client)'
    <2>1. Numbers(client'.posted) \cup Unanswered'
            = (Numbers(client.posted) \cup Unanswered) \ {p.rid}
      BY <1>3, <1>4, <1>6
    <2> QED
      BY <1>1, <1>3, <2>1, FailedKeeps
  <1>8. TypeOK'
    BY <1>1, <1>2, <1>7 DEF TypeOK
  <1>9. ServerInv'
    BY <1>1, <1>2, <1>7 DEF ServerInv
  <1> QED
    BY <1>7, <1>8, <1>9 DEF SessionInv

\* The server takes the next request, and its key is the one it expects.
LEMMA ArrivesKeeps ==
  ASSUME SessionInv, RequestArrives
  PROVE  SessionInv'
  <1> DEFINE c == client
             n == nextRid
  <1>1. PICK r \in c.posted :
           /\ r.rid = n
           /\ nextRid' = n + 1
           /\ client' = [c EXCEPT !.posted = @ \ {r}]
           /\ accepted' = (accepted /\ (lastKey = NoKey \/ Hash(r.key) = lastKey))
           /\ lastKey' = After(r)
           /\ got' = got \o r.body
           /\ held' = Append(held, r.rid)
           /\ UNCHANGED <<written, phase, replies, polls, errors>>
    BY DEF RequestArrives, After
  <1> DEFINE d == [c EXCEPT !.posted = @ \ {r}]
  <1>2. /\ TypeOK /\ ServerInv /\ ClientInv(c, Unanswered, None, written) /\ PollsInv(c)
        /\ c \in Clients /\ n \in Nat
    BY DEF SessionInv, TypeOK
  <1>3. /\ r \in Request /\ r.body \in Seq(1..MaxWrites) /\ r.rid \in Nat
        /\ After(r) \in Keys \cup {NoKey}
    BY <1>2 DEF Clients, Request, After
  <1>4. d \in Clients /\ d.posted = c.posted \ {r}
    <2>1. c.posted \ {r} \in SUBSET Request
      BY <1>2 DEF Clients
    <2> QED
      BY <1>2, <2>1 DEF Clients
  <1>5. /\ d.rid = c.rid /\ d.opened = c.opened
        /\ d.left = c.left /\ d.chain = c.chain /\ d.payloads = c.payloads
        /\ d.dataRequest = c.dataRequest /\ d.emptyRequest = c.emptyRequest
        /\ d.authorized = c.authorized
    BY <1>2 DEF Clients
  <1>6. client' = d
    BY <1>1
  <1> HIDE DEF d, c, n
  <1>7. \A s \in c.posted : s.rid \in Nat /\ n <= s.rid /\ s.rid < c.rid
    BY <1>2 DEF Clients, Request, ClientInv, NumbersInv, n
  <1>8. c.rid \in Nat /\ c.opened /\ n < c.rid
    BY <1>1, <1>2, <1>7 DEF Clients, ClientInv, StartInv
  <1>9. StartInv(d, lastKey')
    BY <1>2, <1>5, <1>8 DEF ClientInv, StartInv
  <1>10. NumbersInv(d, n + 1)
    <2>1. \A s, t \in d.posted : s.rid = t.rid => s = t
      BY <1>2, <1>4 DEF ClientInv, NumbersInv
    <2>2. ASSUME NEW s \in d.posted PROVE n + 1 <= s.rid /\ s.rid < d.rid
      <3>1. s \in c.posted /\ s # r
        BY <1>4
      <3>2. s.rid # n
        BY <1>1, <1>2, <3>1 DEF ClientInv, NumbersInv
      <3> QED
        BY <1>2, <1>5, <1>7, <3>1, <3>2
    <2>3. /\ d.dataRequest < d.rid /\ d.emptyRequest < d.rid
          /\ d.dataRequest = d.emptyRequest => d.dataRequest = None
      BY <1>2, <1>5 DEF ClientInv, NumbersInv
    <2>4. n + 1 <= d.rid
      BY <1>2, <1>5, <1>8
    <2> QED
      BY <2>1, <2>2, <2>3, <2>4 DEF NumbersInv
  <1>11. KeysInv(d, n + 1, After(r))
    <2>1. Key(d) = Key(c)
      BY <1>5 DEF Key
    <2>2. \A s \in d.posted : s \in c.posted
      BY <1>4
    <2>3. \A s \in d.posted : s.rid = n + 1 => Hash(s.key) = After(r)
      BY <1>1, <1>2, <2>2 DEF ClientInv, KeysInv
    <2>4. n + 1 = d.rid => Hash(Key(d)) = After(r)
      BY <1>1, <1>2, <1>5, <2>1 DEF ClientInv, KeysInv
    <2>5. /\ d.opened => d.left >= 2
          /\ \A s, t \in d.posted : t.rid = s.rid + 1 => Hash(t.key) = After(s)
          /\ \A s \in d.posted : s.rid + 1 = d.rid => Hash(Key(d)) = After(s)
      BY <1>2, <1>5, <2>1, <2>2 DEF ClientInv, KeysInv
    <2> QED
      BY <2>3, <2>4, <2>5 DEF KeysInv
  <1>12. Unanswered' = Unanswered \cup {n} /\ held' \in Seq(Nat)
    <2>1. held \in Seq(Nat)
      BY <1>2 DEF TypeOK
    <2>2. Range(held') = Range(held) \cup {n}
      <3>1. held' = Append(held, n)
        BY <1>1
      <3>2. /\ \A i \in DOMAIN held : i \in DOMAIN held' /\ held'[i] = held[i]
            /\ Len(held) + 1 \in DOMAIN held' /\ held'[Len(held) + 1] = n
            /\ \A i \in DOMAIN held' : i \in DOMAIN held \/ i = Len(held) + 1
        BY <1>2, <2>1, <3>1
      <3> QED
        BY <3>2 DEF Range
    <2>3. Numbers(replies') = Numbers(replies)
      BY <1>1
    <2> QED
      BY <1>1, <1>3, <2>1, <2>2, <2>3 DEF Unanswered
  <1>13. KnownInv(d, Unanswered', None)
    <2>1. Numbers(c.posted) = Numbers(d.posted) \cup {n}
      BY <1>1, <1>4 DEF Numbers
    <2> QED
      BY <1>2, <1>5, <1>12, <2>1 DEF ClientInv, KnownInv
  <1>14. CarriedInv(d)
    BY <1>2, <1>4, <1>5 DEF ClientInv, CarriedInv
  <1> DEFINE x == got
             y == Underway(c)
  <1>15. x \in Seq(1..MaxWrites) /\ y \in Seq(1..MaxWrites) /\ 1..MaxWrites \subseteq Nat
    BY <1>2, UnderwayType DEF TypeOK
  <1>16. \/ got' = x \o y /\ Underway(d) = <<>>
         \/ got' = x /\ Underway(d) = y
    <2>1. CASE r.body = <<>>
      <3>1. Carrying(d) = Carrying(c)
        BY <1>4, <2>1 DEF Carrying
      <3>2. got' = got
        BY <1>1, <1>15, <2>1, ConcatEmptySeq
      <3> QED
        BY <3>1, <3>2 DEF Underway
    <2>2. CASE r.body # <<>>
      <3>1. Carrying(c) = {r}
        <4>1. r \in Carrying(c)
          BY <2>2 DEF Carrying
        <4> QED
          BY <1>2, <4>1, OneCarrier DEF ClientInv
      <3>2. Carrying(d) = {}
        BY <1>4, <3>1 DEF Carrying
      <3>3. Underway(c) = r.body /\ Underway(d) = <<>>
        BY <3>1, <3>2, OneCarries DEF Underway
      <3> QED
        BY <1>1, <3>3
    <2> QED
      BY <2>1, <2>2
  <1> HIDE DEF x, y
  <1>17. got' \in Seq(1..MaxWrites) /\ got' \o Underway(d) = x \o y
    <2>1. x \o y \in Seq(1..MaxWrites)
      BY <1>15
    <2> QED
      BY <1>15, <1>16, <2>1, ConcatEmptySeq
  <1>18. PiecesInv(d, got', written)
    <2>1. /\ Once(x) /\ Once(y) /\ Once(d.payloads)
          /\ Apart(x, y) /\ Apart(x, d.payloads) /\ Apart(y, d.payloads)
          /\ UpTo(x, Len(written)) /\ UpTo(y, Len(written)) /\ UpTo(d.payloads, Len(written))
      BY <1>2, <1>5 DEF ClientInv, PiecesInv, x, y
    <2>2. CASE got' = x \o y /\ Underway(d) = <<>>
      <3>1. /\ Once(x \o y) /\ Apart(x \o y, d.payloads) /\ UpTo(x \o y, Len(written))
        BY <1>15, <2>1, BehindIs
      <3> QED
        BY <2>1, <2>2, <3>1, NothingIs DEF PiecesInv
    <2>3. CASE got' = x /\ Underway(d) = y
      BY <2>1, <2>3 DEF PiecesInv
    <2> QED
      BY <1>16, <2>2, <2>3
  <1>19. ASSUME errors = 0 PROVE FaultlessInv(d, got', written)
    <2>1. written = x \o y \o d.payloads
      BY <1>2, <1>5, <1>19 DEF ClientInv, FaultlessInv, x, y
    <2>2. written = got' \o Underway(d) \o d.payloads
      BY <1>17, <2>1
    <2> QED
      BY <1>2, <1>5, <1>19, <2>2 DEF ClientInv, FaultlessInv
  <1>20. ClientInv(client, Unanswered, None, written)' /\ PollsInv(client)'
    <2>1. UNCHANGED <<written, errors>> /\ nextRid' = n + 1 /\ lastKey' = After(r)
      BY <1>1
    <2>2. ClientInv(client, Unanswered, None, written)'
      BY <1>6, <1>9, <1>10, <1>11, <1>13, <1>14, <1>18, <1>19, <2>1
         DEF ClientInv, StartInv, NumbersInv, KeysInv, KnownInv, CarriedInv, PiecesInv,
             FaultlessInv, Underway, Carrying, Key
    <2>3. PollsInv(client)'
      BY <1>2, <1>5, <1>6, <2>1 DEF PollsInv
    <2> QED
      BY <2>2, <2>3
  <1>21. TypeOK'
    <2>1. client' \in Clients
      BY <1>4, <1>6
    <2>2. lastKey' \in Keys \cup {NoKey}
      BY <1>1, <1>3
    <2>3. nextRid' \in Nat
      BY <1>1, <1>2
    <2>4. accepted' \in BOOLEAN
      BY <1>1, <1>2 DEF TypeOK
    <2>5. UNCHANGED <<written, phase, replies, polls, errors>>
      BY <1>1
    <2> QED
      BY <1>2, <1>12, <1>17, <2>1, <2>2, <2>3, <2>4, <2>5 DEF TypeOK
  <1>22. ServerInv'
    <2>1. held \in Seq(Nat) /\ held' = Append(held, n) /\ nextRid' = n + 1
      BY <1>1, <1>2 DEF TypeOK
    <2>2. /\ \A i \in DOMAIN held : i \in Nat /\ i <= Len(held) /\ held[i] \in Nat
          /\ Len(held) \in Nat
      BY <2>1
    <2>3. ASSUME NEW i \in DOMAIN held'
          PROVE  /\ i \in Nat
                 /\ \/ i \in DOMAIN held /\ held'[i] = held[i]
                    \/ i = Len(held) + 1 /\ held'[i] = n
      BY <1>2, <2>1
    <2>4. \A i \in DOMAIN held : held[i] < n
      BY <1>2 DEF ServerInv, n
    <2>5. \A i \in DOMAIN held' : held'[i] < nextRid'
      BY <1>2, <2>1, <2>2, <2>3, <2>4
    <2>6. \A i, k \in DOMAIN held' : i < k => held'[i] < held'[k]
      BY <1>2, <2>2, <2>3, <2>4 DEF ServerInv
    <2>7. \A p \in replies' : p.rid < nextRid' /\ \A i \in DOMAIN held' : p.rid < held'[i]
      <3>1. ASSUME NEW p \in replies
            PROVE  p.rid < n + 1 /\ \A i \in DOMAIN held' : p.rid < held'[i]
        <4>1. p.rid \in Nat /\ p.rid < n /\ \A i \in DOMAIN held : p.rid < held[i]
          BY <1>2 DEF TypeOK, ServerInv, n
        <4> QED
          BY <1>2, <2>2, <2>3, <4>1
      <3> QED
        BY <1>1, <2>1, <3>1
    <2>8. accepted'
      BY <1>1, <1>2 DEF ServerInv, ClientInv, KeysInv, n
    <2> QED
      BY <1>1, <1>2, <1>5, <1>6, <2>5, <2>6, <2>7, <2>8 DEF ServerInv, c
  <1> QED
    BY <1>20, <1>21, <1>22 DEF SessionInv

\* The server answers the oldest request it holds.
LEMMA RepliesKeeps ==
  ASSUME SessionInv, ServerReplies
  PROVE  SessionInv'
  <1> DEFINE h == Head(held)
  <1>1. PICK effect \in Effects :
           /\ effect = "restart" => phase = "new"
           /\ effect = "ready" => phase = "restarted"
           /\ replies' = replies \cup {[rid |-> h, effect |-> effect]}
           /\ phase' = CASE effect = "restart" -> "restarted"
                         [] effect = "ready" -> "ready"
                         [] OTHER -> phase
    BY DEF ServerReplies
  <1>2. /\ TypeOK /\ ServerInv /\ PollsInv(client)
        /\ ClientInv(client, Unanswered, None, written)
    BY DEF SessionInv
  <1> DEFINE q == [rid |-> h, effect |-> effect]
  <1>3. /\ held # <<>> /\ held' = Tail(held)
        /\ UNCHANGED <<client, written, nextRid, lastKey, accepted, got, errors>>
    BY DEF ServerReplies
  <1>4. /\ held' \in Seq(Nat) /\ h \in Nat /\ h = held[1] /\ 1 \in DOMAIN held
        /\ \A i \in DOMAIN held' : /\ i \in Nat /\ i >= 1
                                   /\ i + 1 \in DOMAIN held /\ held'[i] = held[i + 1]
    <2>1. held \in Seq(Nat) /\ held # <<>>
      BY <1>2, <1>3 DEF TypeOK
    <2>2. /\ Head(held) \in Nat /\ Tail(held) \in Seq(Nat) /\ Len(Tail(held)) = Len(held) - 1
          /\ \A i \in 1..Len(Tail(held)) : Tail(held)[i] = held[i + 1]
      BY <2>1, HeadTailProperties
    <2>3. Len(held) \in Nat /\ Len(held) > 0 /\ DOMAIN held = 1..Len(held)
      BY <2>1
    <2>4. DOMAIN Tail(held) = 1..(Len(held) - 1)
      BY <2>2
    <2>5. Head(held) = held[1]
      BY <2>1
    <2> QED
      BY <1>3, <2>1, <2>2, <2>3, <2>4, <2>5
  <1>5. \A i \in DOMAIN held : /\ held[i] \in Nat /\ i \in Nat /\ 1 <= i
                               /\ i # 1 => i - 1 \in DOMAIN held'
    <2>1. held \in Seq(Nat) /\ held # <<>>
      BY <1>2, <1>3 DEF TypeOK
    <2>2. Tail(held) \in Seq(Nat) /\ Len(Tail(held)) = Len(held) - 1
      BY <2>1, HeadTailProperties
    <2>3. /\ DOMAIN held' = 1..(Len(held) - 1) /\ DOMAIN held = 1..Len(held)
          /\ Len(held) \in Nat
      BY <1>3, <2>1, <2>2
    <2> QED
      BY <2>1, <2>3
  <1>6. /\ q \in [rid : Nat, effect : Effects] /\ q.rid = h /\ q.effect = effect
        /\ replies' = replies \cup {q}
    BY <1>1, <1>4
  <1>7. /\ phase' \in {"new", "restarted", "ready"}
        /\ effect = "ready" => phase' = "ready"
        /\ phase = "ready" => effect = "none" /\ phase' = "ready"
    BY <1>1, <1>2 DEF TypeOK, Effects
  <1> HIDE DEF h, q
  <1>8. Unanswered' = Unanswered
    <2>1. Range(held) = Range(held') \cup {h}
      <3>1. ASSUME NEW i \in DOMAIN held
            PROVE  held[i] \in Range(held') \cup {h}
        <4>1. CASE i = 1
          BY <1>4, <4>1
        <4>2. CASE i # 1
          <5> DEFINE k == i - 1
          <5>1. k \in DOMAIN held' /\ k + 1 = i
            BY <1>5, <4>2
          <5> HIDE DEF k
          <5>2. held'[k] = held[i]
            BY <1>4, <5>1
          <5> QED
            BY <5>1, <5>2 DEF Range
        <4> QED
          BY <4>1, <4>2
      <3>2. ASSUME NEW i \in DOMAIN held'
            PROVE  held'[i] \in Range(held)
        <4>1. i + 1 \in DOMAIN held /\ held'[i] = held[i + 1]
          BY <1>4
        <4> QED
          BY <4>1 DEF Range
      <3>3. h \in Range(held)
        BY <1>4 DEF Range
      <3> QED
        BY <3>1, <3>2, <3>3 DEF Range
    <2>2. Numbers(replies') = Numbers(replies) \cup {h}
      BY <1>6 DEF Numbers
    <2> QED
      BY <2>1, <2>2 DEF Unanswered
  <1>9. ClientInv(client, Unanswered, None, written)' /\ PollsInv(client)'
    BY <1>2, <1>3, <1>8, ClientStays
  <1>10. TypeOK'
    <2>1. polls' \in 0..MaxPolls
      BY <1>2 DEF ServerReplies, TypeOK
    <2>2. replies' \subseteq [rid : Nat, effect : Effects]
      BY <1>2, <1>6 DEF TypeOK
    <2> QED
      BY <1>2, <1>3, <1>4, <1>7, <2>1, <2>2 DEF TypeOK
  <1>11. ServerInv'
    <2>1. nextRid \in Nat /\ \A p \in replies : p.rid \in Nat
      BY <1>2 DEF TypeOK
    <2>2. \A i \in DOMAIN held' : held'[i] \in Nat /\ held'[i] < nextRid' /\ h < held'[i]
      BY <1>2, <1>3, <1>4, <2>1 DEF ServerInv
    <2>3. \A i, k \in DOMAIN held' : i < k => held'[i] < held'[k]
      <3>1. ASSUME NEW i \in DOMAIN held', NEW k \in DOMAIN held', i < k
            PROVE  held'[i] < held'[k]
        <4>1. i + 1 \in DOMAIN held /\ k + 1 \in DOMAIN held /\ i + 1 < k + 1
          BY <1>4, <3>1
        <4>2. held[i + 1] < held[k + 1]
          BY <1>2, <4>1 DEF ServerInv
        <4> QED
          BY <1>4, <4>2
      <3> QED
        BY <3>1
    <2>4. \A p \in replies : p.rid < h /\ p.rid < nextRid
      BY <1>2, <1>4 DEF ServerInv
    <2>5. h < nextRid
      BY <1>2, <1>4 DEF ServerInv
    <2>6. \A p \in replies' : p.rid < nextRid' /\ \A i \in DOMAIN held' : p.rid < held'[i]
      BY <1>3, <1>4, <1>6, <2>1, <2>2, <2>4, <2>5
    <2>7. \A p, s \in replies' : p.rid = s.rid => p = s
      BY <1>2, <1>4, <1>6, <2>1, <2>4 DEF ServerInv
    <2>8. client'.authorized => phase' = "ready" /\ \A p \in replies' : p.effect = "none"
      BY <1>2, <1>3, <1>6, <1>7 DEF ServerInv
    <2>9. \A p \in replies' : p.effect = "ready" => phase' = "ready"
      BY <1>2, <1>6, <1>7 DEF ServerInv
    <2>10. accepted'
      BY <1>2, <1>3 DEF ServerInv
    <2> QED
      BY <2>2, <2>3, <2>6, <2>7, <2>8, <2>9, <2>10 DEF ServerInv
  <1> QED
    BY <1>9, <1>10, <1>11 DEF SessionInv

-----------------------------------------------------------------------------
(* The theorems                                                            *)

\* Every step preserves the invariant.
LEMMA StepKeeps == SessionInv /\ [Next]_vars => SessionInv'
  <1> SUFFICES ASSUME SessionInv, [Next]_vars PROVE SessionInv'
    OBVIOUS
  <1>1. CASE open
    BY <1>1, OpenKeeps
  <1>2. CASE Write
    BY <1>2, WriteKeeps
  <1>3. CASE onRequestFinished
    BY <1>3, FinishedKeeps
  <1>4. CASE RequestFails
    BY <1>4, RequestFailsKeeps
  <1>5. CASE ReplyFails
    BY <1>5, ReplyFailsKeeps
  <1>6. CASE RequestArrives
    BY <1>6, ArrivesKeeps
  <1>7. CASE ServerReplies
    BY <1>7, RepliesKeeps
  <1>8. CASE UNCHANGED vars
    <2>1. Unanswered' = Unanswered
      BY <1>8 DEF vars, Unanswered
    <2>2. TypeOK' /\ ServerInv'
      BY <1>8 DEF vars, SessionInv, TypeOK, ServerInv
    <2>3. ClientInv(client, Unanswered, None, written)' /\ PollsInv(client)'
      BY <1>8, <2>1, ClientStays DEF vars, SessionInv
    <2> QED
      BY <2>2, <2>3 DEF SessionInv
  <1> QED
    BY <1>1, <1>2, <1>3, <1>4, <1>5, <1>6, <1>7, <1>8 DEF Next

\* The invariant holds in every reachable state.
THEOREM SpecInv == Spec => []SessionInv
  BY InitKeeps, StepKeeps, PTL DEF Spec

\* The client, its requests and the server's account of them keep their types,
\* whatever the length of a chain of keys.
THEOREM SpecTypeOK == Spec => []TypeOK
  <1>1. SessionInv => TypeOK
    BY DEF SessionInv
  <1> QED
    BY <1>1, SpecInv, PTL

\* The order is part of the invariant.
LEMMA OrderKept == SessionInv => OutboundOrder
  BY DEF SessionInv, ClientInv, FaultlessInv, PiecesInv, Once, OutboundOrder

\* What is written arrives in order, whatever overtakes what on its way: nothing is
\* missing as long as no request fails, and no piece arrives twice when one does.
THEOREM SpecOutboundOrder == Spec => []OutboundOrder
  BY OrderKept, SpecInv, PTL

\* The server never meets a key that is not of the chain it follows, never a third
\* request, and as long as nothing fails it can always speak to a client it has
\* authorized.
THEOREM SpecServerServed == Spec => []ServerServed
  <1>1. SessionInv => ServerServed
    <2> SUFFICES ASSUME SessionInv PROVE ServerServed
      OBVIOUS
    <2>1. /\ TypeOK /\ ServerInv /\ PollsInv(client)
          /\ ClientInv(client, Unanswered, None, written)
      BY DEF SessionInv
    <2>2. Outstanding = {client.dataRequest, client.emptyRequest} \ {None}
      <3>1. Outstanding = Numbers(client.posted) \cup Unanswered
        BY DEF Outstanding, Posted, Numbers, Unanswered
      <3>2. KnownInv(client, Unanswered, None)
        BY <2>1 DEF ClientInv
      <3> QED
        BY <3>1, <3>2 DEF KnownInv
    <2>3. RequestsKnown
      BY <2>2 DEF RequestsKnown
    <2>4. KeysAccepted
      <3>1. client.opened => client.left >= 2
        BY <2>1 DEF ClientInv, KeysInv
      <3>2. client.left \in Nat
        BY <2>1 DEF TypeOK, Clients
      <3>3. accepted
        BY <2>1 DEF ServerInv
      <3> QED
        BY <3>1, <3>2, <3>3 DEF KeysAccepted
    <2>5. ServerCanSpeak
      BY <2>1, <2>2 DEF PollsInv, ServerCanSpeak
    <2> QED
      BY <2>3, <2>4, <2>5 DEF ServerServed
  <1> QED
    BY <1>1, SpecInv, PTL

-----------------------------------------------------------------------------
(* Nothing is stuck                                                        *)

\* A record that counts and keeps the requests, whatever its other fields.
Shaped(c) == "rid" \in DOMAIN c /\ "posted" \in DOMAIN c

\* Every request is posted that the server has yet to take and the client has numbered.
Gapless(c) ==
    /\ Shaped(c)
    /\ c.rid \in Nat /\ nextRid \in Nat /\ nextRid <= c.rid
    /\ Numbers(c.posted) = nextRid .. c.rid - 1

\* The client is such a record.
LEMMA ClientShaped == TypeOK => Shaped(client)
  BY DEF TypeOK, Clients, Shaped

\* What does not touch the requests leaves no gap.
LEMMA OtherFields ==
  ASSUME NEW c, NEW d, Gapless(c), Shaped(d), d.rid = c.rid, d.posted = c.posted
  PROVE  Gapless(d)
  BY DEF Gapless

\* The keys do not touch the requests.
LEMMA KeysGapless ==
  ASSUME NEW c, Gapless(c)
  PROVE  Gapless(nextKey(c)) /\ Gapless(generateKey(c))
  <1>1. /\ Shaped(nextKey(c)) /\ nextKey(c).rid = c.rid /\ nextKey(c).posted = c.posted
        /\ Shaped(generateKey(c)) /\ generateKey(c).rid = c.rid
        /\ generateKey(c).posted = c.posted
    BY DEF Gapless, Shaped, nextKey, generateKey
  <1> QED
    BY <1>1, OtherFields

\* A request is posted with the next number.
LEMMA PostGapless ==
  ASSUME NEW c, Gapless(c), NEW empty, NEW key, NEW newKey, NEW body
  PROVE  Gapless(Post(c, empty, key, newKey, body))
  <1> DEFINE q == [rid |-> c.rid, key |-> key, newKey |-> newKey, body |-> body]
             d == Post(c, empty, key, newKey, body)
  <1>1. Shaped(d) /\ d.rid = c.rid + 1 /\ d.posted = c.posted \cup {q}
    <2> HIDE DEF q
    <2>1. PICK polling, data :
            d = [c EXCEPT !.rid = @ + 1, !.posted = @ \cup {q},
                          !.emptyRequest = polling, !.dataRequest = data]
      BY DEF Post, q
    <2> HIDE DEF d
    <2>2. Shaped(c)
      BY DEF Gapless
    <2> QED
      BY <2>1, <2>2 DEF Shaped
  <1>2. q.rid = c.rid
    OBVIOUS
  <1> HIDE DEF q, d
  <1>3. Numbers(d.posted) = Numbers(c.posted) \cup {c.rid}
    BY <1>1, <1>2 DEF Numbers
  <1>4. /\ Numbers(c.posted) = nextRid .. c.rid - 1
        /\ c.rid \in Nat /\ nextRid \in Nat /\ nextRid <= c.rid
    BY DEF Gapless
  <1>5. Numbers(d.posted) = nextRid .. d.rid - 1
    <2>1. ASSUME NEW m \in Nat, NEW n \in Nat, m <= n
          PROVE  (m .. n - 1) \cup {n} = m .. (n + 1) - 1
      BY <2>1
    <2>2. (nextRid .. c.rid - 1) \cup {c.rid} = nextRid .. (c.rid + 1) - 1
      BY <1>4, <2>1
    <2>3. d.rid = c.rid + 1
      BY <1>1
    <2>4. Numbers(d.posted) = (nextRid .. c.rid - 1) \cup {c.rid}
      BY <1>3, <1>4
    <2> QED
      BY <2>2, <2>3, <2>4
  <1> QED
    BY <1>1, <1>4, <1>5 DEF Gapless, d

\* So are data and headers.
LEMMA CallsGapless ==
  ASSUME NEW c, Gapless(c)
  PROVE  /\ \A body : Gapless(writeData(c, body))
         /\ \A first : Gapless(sendHeader(c, first))
  <1>1. ASSUME NEW body
        PROVE  Gapless(writeData(c, body))
    <2> DEFINE taken == nextKey(c)
               renewed == IF taken.left = 1 THEN generateKey(taken) ELSE taken
    <2>1. Gapless(taken) /\ Gapless(generateKey(taken))
      BY KeysGapless
    <2>2. Gapless(renewed)
      BY <2>1
    <2>3. Gapless([c EXCEPT !.payloads = @ \o body])
      <3> DEFINE d == [c EXCEPT !.payloads = @ \o body]
      <3>1. Shaped(d) /\ d.rid = c.rid /\ d.posted = c.posted
        BY DEF Gapless, Shaped
      <3> HIDE DEF d
      <3> QED
        BY <3>1, OtherFields DEF d
    <2>4. \A key : Gapless(Post(renewed, body = <<>>, Key(c), key, body))
      BY <2>2, PostGapless
    <2> QED
      BY <2>3, <2>4 DEF writeData
  <1>2. ASSUME NEW first
        PROVE  Gapless(sendHeader(c, first))
    <2> DEFINE renewed == generateKey(IF first THEN c ELSE nextKey(c))
    <2>1. Gapless(renewed)
      BY KeysGapless
    <2>2. \A key : Gapless(Post(renewed, FALSE, key, Announced(renewed), <<>>))
      BY <2>1, PostGapless
    <2> QED
      BY <2>2 DEF sendHeader
  <1> QED
    BY <1>1, <1>2

\* So is whatever the answer to a request makes of the stream, and of what has waited.
LEMMA AnswerGapless ==
  ASSUME NEW c, Gapless(c), NEW effect \in Effects, NEW pieces, NEW rid
  PROVE  Gapless(Answered(Parsed(c, effect, pieces), rid))
  <1>1. ASSUME NEW e, Gapless(e)
        PROVE  /\ Gapless([e EXCEPT !.authorized = TRUE])
               /\ Gapless([e EXCEPT !.dataRequest = None])
               /\ Gapless([e EXCEPT !.payloads = <<>>])
               /\ Gapless(Forgotten(e, rid))
    <2>1. ASSUME NEW d, \/ d = [e EXCEPT !.authorized = TRUE]
                        \/ d = [e EXCEPT !.dataRequest = None]
                        \/ d = [e EXCEPT !.payloads = <<>>]
                        \/ d = Forgotten(e, rid)
          PROVE  Shaped(d) /\ d.rid = e.rid /\ d.posted = e.posted
      BY <1>1, <2>1 DEF Gapless, Shaped, Forgotten
    <2> QED
      BY <1>1, <2>1, OtherFields
  <1>2. Gapless(Parsed(c, effect, pieces))
    <2> DEFINE e == IF pieces = <<>> THEN c ELSE writeData(c, pieces)
    <2>1. Gapless(e)
      BY CallsGapless
    <2> HIDE DEF e
    <2>2. Gapless(sendHeader(e, FALSE)) /\ Gapless(authorized(e))
      BY <1>1, <2>1, CallsGapless DEF authorized
    <2>3. Parsed(c, effect, pieces) \in {e, sendHeader(e, FALSE), authorized(e)}
      BY DEF Parsed, Effects, e
    <2> QED
      BY <2>1, <2>2, <2>3
  <1> DEFINE d == Parsed(c, effect, pieces)
  <1> HIDE DEF d
  <1>3. CASE d.payloads # <<>> /\ rid = d.dataRequest
    <2> DEFINE e == writeData([d EXCEPT !.dataRequest = None], d.payloads)
    <2>1. Gapless(e)
      BY <1>1, <1>2, CallsGapless DEF d
    <2> HIDE DEF e
    <2>2. Answered(d, rid) = [e EXCEPT !.payloads = <<>>]
      BY <1>3 DEF Answered, e
    <2> QED
      BY <1>1, <2>1, <2>2 DEF d
  <1>4. CASE ~(d.payloads # <<>> /\ rid = d.dataRequest)
    <2> DEFINE done == Forgotten(d, rid)
    <2>1. Gapless(done)
      BY <1>1, <1>2 DEF d
    <2> HIDE DEF done
    <2>2. Gapless(writeData(done, <<>>))
      BY <2>1, CallsGapless
    <2>3. Answered(d, rid) \in {done, writeData(done, <<>>)}
      BY <1>4, AnsweredForgets DEF done
    <2> QED
      BY <2>1, <2>2, <2>3 DEF d
  <1> QED
    BY <1>3, <1>4

\* No request of the client's is missing, unless one has failed.
NoGap == errors = 0 => Gapless(client)

\* Nothing is numbered before the stream is opened.
LEMMA InitNoGap == Init => NoGap
  <1> SUFFICES ASSUME Init PROVE Gapless(client)
    BY DEF NoGap
  <1>1. TypeOK
    BY InitKeeps DEF SessionInv
  <1>2. client.rid = 0 /\ client.posted = {} /\ nextRid = 0
    BY DEF Init
  <1>3. Numbers(client.posted) = {}
    BY <1>2 DEF Numbers
  <1> QED
    BY <1>1, <1>2, <1>3, ClientShaped DEF Gapless

\* What the client does when the server takes nothing.
LEMMA ClientNoGap ==
  ASSUME NEW c, Gapless(c), client' = c, nextRid' = nextRid
  PROVE  NoGap'
  BY DEF Gapless, Shaped, Numbers, NoGap

\* The server takes the first of the requests posted.
LEMMA ArrivesNoGap ==
  ASSUME SessionInv, Gapless(client), RequestArrives
  PROVE  NoGap'
  <1>1. PICK r \in client.posted :
          /\ r.rid = nextRid /\ nextRid' = nextRid + 1
          /\ client' = [client EXCEPT !.posted = @ \ {r}]
    BY DEF RequestArrives
  <1>2. TypeOK' /\ TypeOK
    BY ArrivesKeeps DEF SessionInv
  <1>3. Shaped(client)'
    BY <1>2 DEF TypeOK, Clients, Shaped
  <1>4. client'.posted = client.posted \ {r} /\ client'.rid = client.rid
    BY <1>1, <1>2 DEF TypeOK, Clients
  <1>5. \A q \in client.posted : q.rid = nextRid => q = r
    BY <1>1 DEF SessionInv, ClientInv, NumbersInv
  <1>6. Numbers(client'.posted) = Numbers(client.posted) \ {nextRid}
    BY <1>1, <1>4, <1>5 DEF Numbers
  <1>7. /\ Numbers(client.posted) = nextRid .. client.rid - 1
        /\ client.rid \in Nat /\ nextRid \in Nat /\ nextRid <= client.rid
    BY DEF Gapless
  <1>8. nextRid \in nextRid .. client.rid - 1
    BY <1>1, <1>7 DEF Numbers
  <1>9. Numbers(client'.posted) = nextRid' .. client'.rid - 1
    <2>1. ASSUME NEW m \in Nat, NEW n \in Nat
          PROVE  (m .. n - 1) \ {m} = m + 1 .. n - 1
      BY <2>1
    <2>2. (nextRid .. client.rid - 1) \ {nextRid} = nextRid + 1 .. client.rid - 1
      BY <1>7, <2>1
    <2>3. Numbers(client'.posted) = (nextRid .. client.rid - 1) \ {nextRid}
      BY <1>6, <1>7
    <2> QED
      BY <1>1, <1>4, <2>2, <2>3
  <1>10. nextRid' <= client'.rid
    BY <1>1, <1>4, <1>7, <1>8
  <1>11. Gapless(client)'
    BY <1>1, <1>3, <1>4, <1>7, <1>9, <1>10 DEF Gapless, Numbers
  <1> QED
    BY <1>11 DEF NoGap

\* No step leaves a gap, except that a request fails.
LEMMA StepNoGap == SessionInv /\ NoGap /\ [Next]_vars => NoGap'
  <1> SUFFICES ASSUME SessionInv, NoGap, [Next]_vars, errors' = 0 PROVE NoGap'
    BY DEF NoGap
  <1>1. TypeOK /\ errors \in Nat
    BY DEF SessionInv, TypeOK
  <1>2. ~RequestFails /\ ~ReplyFails
    <2>1. \A rid : ~Failed(rid)
      BY <1>1 DEF Failed
    <2> QED
      BY <2>1 DEF RequestFails, ReplyFails
  <1>3. errors = 0
    BY <1>2 DEF Next, vars, open, Write, onRequestFinished, RequestArrives, ServerReplies
  <1>4. Gapless(client)
    BY <1>3 DEF NoGap
  <1>5. CASE open
    <2> DEFINE c == [client EXCEPT !.opened = TRUE]
    <2>1. Shaped(c) /\ c.rid = client.rid /\ c.posted = client.posted
      BY <1>1 DEF TypeOK, Clients, Shaped
    <2>2. client' = sendHeader(c, TRUE) /\ nextRid' = nextRid
      BY <1>5 DEF open
    <2> HIDE DEF c
    <2>3. Gapless(c)
      BY <1>4, <2>1, OtherFields
    <2>4. Gapless(sendHeader(c, TRUE))
      BY <2>3, CallsGapless
    <2> QED
      BY <2>2, <2>4, ClientNoGap
  <1>6. CASE Write
    <2>1. Gapless(writeData(client, NextPiece))
      BY <1>4, CallsGapless
    <2>2. client' = writeData(client, NextPiece) /\ nextRid' = nextRid
      BY <1>6 DEF Write
    <2> QED
      BY <2>1, <2>2, ClientNoGap
  <1>7. CASE onRequestFinished
    <2>1. PICK p \in replies, pieces \in {<<>>, NextPiece} :
            /\ client' = Answered(Parsed(client, p.effect, pieces), p.rid)
            /\ nextRid' = nextRid
      BY <1>7 DEF onRequestFinished
    <2>2. p.effect \in Effects
      BY <1>1 DEF TypeOK
    <2>3. Gapless(Answered(Parsed(client, p.effect, pieces), p.rid))
      BY <1>4, <2>2, AnswerGapless
    <2> QED
      BY <2>1, <2>3, ClientNoGap
  <1>8. CASE RequestArrives
    BY <1>4, <1>8, ArrivesNoGap
  <1>9. CASE ServerReplies \/ UNCHANGED vars
    <2>1. client' = client /\ nextRid' = nextRid
      BY <1>9 DEF ServerReplies, vars
    <2> QED
      BY <1>4, <2>1, ClientNoGap
  <1> QED
    BY <1>2, <1>5, <1>6, <1>7, <1>8, <1>9 DEF Next

\* The request that data waits for is one that is out.
LEMMA WaitsForOne == SessionInv /\ NoGap => DeliveryInv
  <1> SUFFICES ASSUME SessionInv, NoGap PROVE DeliveryInv
    OBVIOUS
  <1>1. TypeOK /\ ClientInv(client, Unanswered, None, written)
    BY DEF SessionInv
  <1>2. ASSUME errors = 0
        PROVE  /\ Posted = nextRid .. client.rid - 1
               /\ client.payloads # <<>> => client.dataRequest \in Outstanding
    <2>1. Posted = nextRid .. client.rid - 1
      BY <1>2 DEF NoGap, Gapless, Numbers, Posted
    <2>2. Outstanding = Numbers(client.posted) \cup Unanswered
      BY DEF Outstanding, Posted, Numbers, Unanswered
    <2>3. Outstanding = {client.dataRequest, client.emptyRequest} \ {None}
      BY <1>1, <2>2 DEF ClientInv, KnownInv
    <2>4. client.payloads # <<>> => client.dataRequest # None
      BY <1>1, <1>2 DEF ClientInv, FaultlessInv
    <2> QED
      BY <2>1, <2>3, <2>4
  <1>3. OutboundOrder
    BY OrderKept
  <1> QED
    BY <1>1, <1>2, <1>3 DEF DeliveryInv, NeverStuck

\* What is written is kept in order; and as long as no request fails, the server has
\* the request it waits for as soon as a later one is posted, and what waits to be
\* sent waits for a request that is out, not for one that is answered already.
THEOREM SpecDeliveryInv == Spec => []DeliveryInv
  <1>1. Init => SessionInv /\ NoGap
    BY InitKeeps, InitNoGap
  <1>2. (SessionInv /\ NoGap) /\ [Next]_vars => (SessionInv /\ NoGap)'
    BY StepKeeps, StepNoGap
  <1> QED
    BY <1>1, <1>2, WaitsForOne, PTL DEF Spec

-----------------------------------------------------------------------------
(* A channel that keeps the order                                          *)

\* What is written is written to the channel.
LEMMA PieceWritten ==
  ASSUME NEW pieces \in {<<>>, NextPiece}, written' = written \o pieces,
         UNCHANGED <<got, errors>>, TypeOK
  PROVE  [Channel!Next]_(Channel!vars)
  <1>1. written \in Seq(1..MaxWrites)
    BY DEF TypeOK
  <1>2. CASE pieces = <<>>
    <2>1. written' = written
      BY <1>1, <1>2
    <2> QED
      BY <2>1 DEF Channel!vars
  <1>3. CASE pieces = NextPiece
    BY <1>3 DEF NextPiece, Channel!Next, Channel!Write
  <1> QED
    BY <1>2, <1>3

\* The pieces that arrive with a request are the next ones, unless a request has failed.
LEMMA PiecesArrive ==
  ASSUME SessionInv, SessionInv', RequestArrives
  PROVE  Channel!Arrive
  <1>1. PICK r \in client.posted :
          got' = got \o r.body /\ written' = written /\ errors' = errors
    BY DEF RequestArrives
  <1>2. /\ TypeOK /\ client \in Clients /\ got \in Seq(1..MaxWrites)
        /\ r.body \in Seq(1..MaxWrites)
    BY DEF SessionInv, TypeOK, Clients, Request
  <1>3. /\ client' \in Clients /\ got' \in Seq(1..MaxWrites) /\ written \in Seq(1..MaxWrites)
        /\ client'.payloads \in Seq(1..MaxWrites)
    BY <1>1 DEF SessionInv, TypeOK, Clients
  <1>4. /\ Len(got) <= Len(got') /\ SubSeq(got', 1, Len(got)) = got
    BY <1>1, <1>2
  <1>5. PiecesInv(client', got', written) /\ (errors = 0 => FaultlessInv(client', got', written))
    BY <1>1 DEF SessionInv, ClientInv, PiecesInv, FaultlessInv, Underway, Carrying
  <1>6. \A i, k \in DOMAIN got' : got'[i] = got'[k] => i = k
    BY <1>5 DEF PiecesInv, Once
  <1>7. got' \in Seq(1..Len(written))
    <2>1. \A i \in DOMAIN got' : got'[i] \in 1..MaxWrites /\ got'[i] <= Len(written)
      BY <1>3, <1>5 DEF PiecesInv, UpTo
    <2>2. \A i \in DOMAIN got' : got'[i] \in 1..Len(written)
      BY <1>3, <2>1
    <2>3. got' \in [1..Len(got') -> 1..Len(written)] /\ Len(got') \in Nat
      BY <1>3, <2>2
    <2> QED
      BY <2>3, SeqDef
  <1>8. errors = 0 => got' = SubSeq(written, 1, Len(got'))
    <2> SUFFICES ASSUME errors = 0 PROVE got' = SubSeq(written, 1, Len(got'))
      OBVIOUS
    <2> DEFINE t == Underway(client')
               v == client'.payloads
    <2>1. t \in Seq(1..MaxWrites) /\ v \in Seq(1..MaxWrites)
      BY <1>3, UnderwayType
    <2>2. written = got' \o t \o v
      BY <1>5 DEF FaultlessInv
    <2> HIDE DEF t, v
    <2>3. written = got' \o (t \o v) /\ t \o v \in Seq(1..MaxWrites)
      BY <1>3, <2>1, <2>2, PiecesAssociate
    <2> QED
      BY <1>3, <2>3
  <1>9. (~(errors > 0) => got' = SubSeq(written, 1, Len(got'))) /\ (errors > 0)' = (errors > 0)
    BY <1>1, <1>2, <1>8 DEF TypeOK
  <1> QED
    BY <1>1, <1>4, <1>6, <1>7, <1>9 DEF Channel!Arrive, Channel!First, Channel!EachOnce

\* Every step of the connection is one of the channel, or none.
LEMMA NextChannels ==
  ASSUME SessionInv, SessionInv', [Next]_vars
  PROVE  [Channel!Next]_(Channel!vars)
  <1>1. TypeOK /\ errors \in Nat
    BY DEF SessionInv, TypeOK
  <1>2. CASE open \/ ServerReplies \/ UNCHANGED vars
    BY <1>2 DEF open, ServerReplies, vars, Channel!vars
  <1>3. CASE Write
    <2>1. NextPiece \in {<<>>, NextPiece}
      OBVIOUS
    <2>2. written' = written \o NextPiece /\ UNCHANGED <<got, errors>>
      BY <1>3 DEF Write
    <2> QED
      BY <1>1, <2>1, <2>2, PieceWritten
  <1>4. CASE onRequestFinished
    <2>1. PICK pieces \in {<<>>, NextPiece} :
            written' = written \o pieces /\ UNCHANGED <<got, errors>>
      BY <1>4 DEF onRequestFinished
    <2> QED
      BY <1>1, <2>1, PieceWritten
  <1>5. CASE RequestFails \/ ReplyFails
    <2>1. errors' = errors + 1 /\ UNCHANGED <<written, got>>
      BY <1>5 DEF RequestFails, ReplyFails, Failed
    <2>2. errors' > 0
      BY <1>1, <2>1
    <2> QED
      BY <2>1, <2>2 DEF Channel!Next, Channel!Break
  <1>6. CASE RequestArrives
    BY <1>6, PiecesArrive DEF Channel!Next
  <1> QED
    BY <1>2, <1>3, <1>4, <1>5, <1>6 DEF Next

\* To the stream above, the two requests, the keys and the answers that overtake one
\* another are one channel that keeps the order of what is written.
THEOREM SpecImplementsChannel == Spec => ImplementsChannel
  <1>1. Init => Channel!Init
    BY DEF Init, Channel!Init
  <1>2. SessionInv /\ SessionInv' /\ [Next]_vars => [Channel!Next]_(Channel!vars)
    BY NextChannels
  <1> QED
    BY <1>1, <1>2, InitKeeps, StepKeeps, PTL DEF Spec, ImplementsChannel, Channel!Spec

=============================================================================
