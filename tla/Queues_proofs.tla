---------------------------- MODULE Queues_proofs ----------------------------
(***************************************************************************)
(* Lemmas about queues of stanzas: what the arrival of the first and the   *)
(* sending of others leave true.                                           *)
(***************************************************************************)
EXTENDS Queues, SequencesExt, FiniteSetTheorems, TLAPS

\* What stays when the first stanza has arrived.
LEMMA TailIs ==
  ASSUME NEW A, NEW q \in Seq(A), q # <<>>
  PROVE  /\ Tail(q) \in Seq(A)
         /\ Head(q) = q[1] /\ 1 \in DOMAIN q /\ q[1] \in A
         /\ \A i \in DOMAIN Tail(q) : i + 1 \in DOMAIN q /\ Tail(q)[i] = q[i + 1]
         /\ \A i \in DOMAIN q : i > 1 => i - 1 \in DOMAIN Tail(q) /\ q[i] = Tail(q)[i - 1]
         /\ \A i \in DOMAIN q : i >= 1 /\ i \in Int
         /\ \A i \in DOMAIN Tail(q) : i >= 1 /\ i \in Int
  OBVIOUS

\* What is there when others have been sent behind it.
LEMMA ConcatIs ==
  ASSUME NEW A, NEW q \in Seq(A), NEW w \in Seq(A)
  PROVE  /\ q \o w \in Seq(A) /\ Len(q \o w) = Len(q) + Len(w)
         /\ \A i \in DOMAIN q : i \in DOMAIN (q \o w) /\ (q \o w)[i] = q[i]
         /\ \A i \in DOMAIN w : /\ Len(q) + i \in DOMAIN (q \o w)
                                /\ (q \o w)[Len(q) + i] = w[i]
         /\ \A i \in DOMAIN (q \o w) : \/ i \in DOMAIN q
                                       \/ i > Len(q) /\ i - Len(q) \in DOMAIN w
         /\ \A i \in DOMAIN q : i \in Int /\ i <= Len(q)
         /\ \A i \in DOMAIN w : i \in Int /\ i >= 1
  OBVIOUS

\* One stanza more.
LEMMA AppendIs ==
  ASSUME NEW A, NEW q \in Seq(A), NEW a \in A
  PROVE  /\ <<a>> \in Seq(A)
         /\ Append(q, a) = q \o <<a>>
         /\ \A i \in DOMAIN q : i \in DOMAIN Append(q, a) /\ Append(q, a)[i] = q[i]
         /\ \A i \in DOMAIN Append(q, a) :
               \/ i \in DOMAIN q /\ Append(q, a)[i] = q[i]
               \/ i = Len(q) + 1 /\ i \notin DOMAIN q /\ Append(q, a)[i] = a
  OBVIOUS

\* Others sent behind one.
LEMMA BehindOne ==
  ASSUME NEW A, NEW a \in A, NEW c \in Seq(A), NEW w, w = <<a>> \o c
  PROVE  /\ 1 \in DOMAIN w /\ w[1] = a
         /\ \A i \in DOMAIN c : i + 1 \in DOMAIN w /\ w[i + 1] = c[i] /\ i \in Int
         /\ \A i \in DOMAIN w :
               \/ i = 1
               \/ i \in Int /\ i - 1 \in DOMAIN c /\ w[i] = c[i - 1]
  OBVIOUS

\* One that has not arrived is still under way.
LEMMA HasTail ==
  ASSUME NEW A, NEW q \in Seq(A), q # <<>>, NEW S
  PROVE  /\ Has(Tail(q), S) => Has(q, S)
         /\ Has(q, S) => Head(q) \in S \/ Has(Tail(q), S)
  <1>1. Has(Tail(q), S) => Has(q, S)
    BY TailIs DEF Has
  <1>2. ASSUME NEW i \in DOMAIN q, q[i] \in S
        PROVE  Head(q) \in S \/ Has(Tail(q), S)
    <2>1. CASE i = 1
      BY <1>2, <2>1, TailIs
    <2>2. CASE i > 1
      BY <1>2, <2>2, TailIs DEF Has
    <2> QED
      BY <2>1, <2>2, TailIs
  <1> QED
    BY <1>1, <1>2 DEF Has

\* What has been sent is under way, besides what was.
LEMMA HasConcat ==
  ASSUME NEW A, NEW q \in Seq(A), NEW w \in Seq(A), NEW S
  PROVE  Has(q \o w, S) <=> Has(q, S) \/ Has(w, S)
  <1>1. ASSUME NEW i \in DOMAIN (q \o w), (q \o w)[i] \in S
        PROVE  Has(q, S) \/ Has(w, S)
    <2>1. CASE i \in DOMAIN q
      BY <1>1, <2>1, ConcatIs DEF Has
    <2>2. CASE i > Len(q) /\ i - Len(q) \in DOMAIN w
      <3>1. i \in Int /\ i = Len(q) + (i - Len(q))
        OBVIOUS
      <3>2. w[i - Len(q)] \in S
        BY <1>1, <2>2, <3>1, ConcatIs
      <3> QED
        BY <2>2, <3>2 DEF Has
    <2> QED
      BY <2>1, <2>2, ConcatIs
  <1>2. Has(q, S) => Has(q \o w, S)
    BY ConcatIs DEF Has
  <1>3. ASSUME NEW i \in DOMAIN w, w[i] \in S
        PROVE  \E k \in DOMAIN (q \o w) : (q \o w)[k] \in S
    <2>1. Len(q) + i \in DOMAIN (q \o w) /\ (q \o w)[Len(q) + i] = w[i]
      BY ConcatIs
    <2> QED
      BY <1>3, <2>1
  <1>4. Has(q \o w, S) => Has(q, S) \/ Has(w, S)
    <2>1. SUFFICES ASSUME NEW i \in DOMAIN (q \o w), (q \o w)[i] \in S
                   PROVE  Has(q, S) \/ Has(w, S)
      BY DEF Has
    <2> QED
      BY <1>1, <2>1
  <1>5. Has(w, S) => Has(q \o w, S)
    BY <1>3 DEF Has
  <1> QED
    BY <1>2, <1>4, <1>5

\* If one that is wrong arrives, one that is right is still under way.
LEMMA FollowedTail ==
  ASSUME NEW A, NEW q \in Seq(A), q # <<>>, NEW S, NEW T, Followed(q, S, T)
  PROVE  /\ Followed(Tail(q), S, T)
         /\ Head(q) \in S => Has(Tail(q), T)
  <1>1. ASSUME NEW i \in DOMAIN q, q[i] \in S
        PROVE  \E k \in DOMAIN Tail(q) : k > i - 1 /\ Tail(q)[k] \in T
    <2>1. PICK k \in DOMAIN q : k > i /\ q[k] \in T
      BY <1>1 DEF Followed
    <2>2. k > 1 /\ k - 1 > i - 1 /\ k - 1 \in DOMAIN Tail(q) /\ q[k] = Tail(q)[k - 1]
      BY <2>1, TailIs
    <2> QED
      BY <2>1, <2>2
  <1>2. ASSUME NEW i \in DOMAIN Tail(q), Tail(q)[i] \in S
        PROVE  \E k \in DOMAIN Tail(q) : k > i /\ Tail(q)[k] \in T
    <2>1. i + 1 \in DOMAIN q /\ q[i + 1] \in S /\ (i + 1) - 1 = i
      BY <1>2, TailIs
    <2> QED
      BY <1>1, <2>1
  <1>3. Head(q) \in S => Has(Tail(q), T)
    BY <1>1, TailIs DEF Has
  <1> QED
    BY <1>2, <1>3 DEF Followed

\* What has become wrong, by a step that sends something, is put right by
\* what is sent.
LEMMA FollowedConcat ==
  ASSUME NEW A, NEW q \in Seq(A), NEW w \in Seq(A), NEW S, NEW T, NEW S2, NEW T2,
         Followed(q, S, T),
         Has(w, T2) \/ (T \subseteq T2 /\ \A i \in DOMAIN q : q[i] \in S2 => q[i] \in S),
         Followed(w, S2, T2)
  PROVE  Followed(q \o w, S2, T2)
  <1>1. ASSUME NEW i \in DOMAIN q, (q \o w)[i] \in S2
        PROVE  \E k \in DOMAIN (q \o w) : k > i /\ (q \o w)[k] \in T2
    <2>1. CASE Has(w, T2)
      <3>1. PICK k \in DOMAIN w : w[k] \in T2
        BY <2>1 DEF Has
      <3>2. Len(q) + k \in DOMAIN (q \o w) /\ (q \o w)[Len(q) + k] = w[k] /\ Len(q) + k > i
        BY ConcatIs
      <3> QED
        BY <3>1, <3>2
    <2>2. CASE T \subseteq T2 /\ q[i] \in S
      <3>1. PICK k \in DOMAIN q : k > i /\ q[k] \in T
        BY <2>2 DEF Followed
      <3> QED
        BY <2>2, <3>1, ConcatIs
    <2> QED
      BY <1>1, <2>1, <2>2, ConcatIs
  <1>2. ASSUME NEW i \in DOMAIN (q \o w), i > Len(q), i - Len(q) \in DOMAIN w, (q \o w)[i] \in S2
        PROVE  \E k \in DOMAIN (q \o w) : k > i /\ (q \o w)[k] \in T2
    <2>1. i \in Int /\ i = Len(q) + (i - Len(q))
      OBVIOUS
    <2>2. w[i - Len(q)] \in S2
      BY <1>2, <2>1, ConcatIs
    <2>3. PICK k \in DOMAIN w : k > i - Len(q) /\ w[k] \in T2
      BY <1>2, <2>2 DEF Followed
    <2>4. Len(q) + k \in DOMAIN (q \o w) /\ (q \o w)[Len(q) + k] = w[k] /\ Len(q) + k > i
      BY <2>1, <2>3, ConcatIs
    <2> QED
      BY <2>3, <2>4
  <1> QED
    BY <1>1, <1>2, ConcatIs DEF Followed

\* A step that changes what is wrong or right but not what is under way.
LEMMA FollowedWeaker ==
  ASSUME NEW q, NEW S, NEW T, NEW S2, NEW T2, Followed(q, S, T),
         T \subseteq T2, \A i \in DOMAIN q : q[i] \in S2 => q[i] \in S
  PROVE  Followed(q, S2, T2)
  BY DEF Followed

\* Nothing is under way.
LEMMA NothingUnderWay ==
  ASSUME NEW S, NEW T
  PROVE  ~ Has(<<>>, S) /\ Followed(<<>>, S, T)
  BY DEF Has, Followed

\* One stanza.
LEMMA OneUnderWay ==
  ASSUME NEW a, NEW S, NEW T
  PROVE  /\ Has(<<a>>, S) <=> a \in S
         /\ a \notin S => Followed(<<a>>, S, T)
  BY DEF Has, Followed

\* Whoever goes through a finite set in some order meets all of it.
LEMMA OrderCovers ==
  ASSUME NEW S, IsFiniteSet(S), NEW s \in SetToSeqs(S)
  PROVE  /\ s \in Seq(S)
         /\ \A i \in DOMAIN s : s[i] \in S
         /\ \A x \in S : \E i \in DOMAIN s : s[i] = x
  <1> DEFINE n == Cardinality(S)
  <1>1. n \in Nat
    BY FS_CardinalityType
  <1>2. s \in [1 .. n -> S] /\ \A i, j \in 1 .. n : i # j => s[i] # s[j]
    BY DEF SetToSeqs
  <1>3. s \in Injection(1 .. n, S)
    BY <1>2 DEF Injection, IsInjective
  <1>4. IsFiniteSet(1 .. n) /\ Cardinality(1 .. n) = n
    BY <1>1, FS_Interval
  <1>5. s \in Surjection(1 .. n, S)
    BY <1>3, <1>4, FS_Injection
  <1> QED
    BY <1>1, <1>2, <1>5 DEF Surjection

\* When the first stanza has arrived, every place is one further in front.
LEMMA LastOnTail ==
  ASSUME NEW on \in SUBSET (Nat \ {0}), NEW off \in SUBSET (Nat \ {0}),
         NEW on2 \in SUBSET (Nat \ {0}), NEW off2 \in SUBSET (Nat \ {0}),
         \A i \in Nat \ {0} : i \in on2 <=> i + 1 \in on,
         \A i \in Nat \ {0} : i \in off2 <=> i + 1 \in off,
         1 \notin on \cap off
  PROVE  /\ off = {} <=> off2 = {} /\ 1 \notin off
         /\ LastOn(on, off) <=> LastOn(on2, off2) \/ (1 \in on /\ off2 = {})
  <1>1. ASSUME NEW i \in on2, \A k \in off2 : k < i
        PROVE  LastOn(on, off)
    <2>1. ASSUME NEW k \in off PROVE k < i + 1
      <3>1. CASE k = 1
        BY <3>1
      <3>2. CASE k > 1
        <4>1. k - 1 \in Nat \ {0} /\ (k - 1) + 1 = k
          BY <3>2
        <4>2. k - 1 \in off2
          BY <4>1
        <4> QED
          BY <1>1, <4>2
      <3> QED
        BY <3>1, <3>2
    <2> QED
      BY <2>1 DEF LastOn
  <1>2. ASSUME NEW i \in on, i > 1, \A k \in off : k < i
        PROVE  LastOn(on2, off2)
    <2>1. i - 1 \in Nat \ {0} /\ (i - 1) + 1 = i
      BY <1>2
    <2>2. ASSUME NEW k \in off2 PROVE k < i - 1
      <3>1. k + 1 \in off
        OBVIOUS
      <3> QED
        BY <1>2, <3>1
    <2> QED
      BY <2>1, <2>2 DEF LastOn
  <1>3. off = {} <=> off2 = {} /\ 1 \notin off
    <2>1. ASSUME NEW k \in off2 PROVE k + 1 \in off
      OBVIOUS
    <2>2. ASSUME NEW k \in off, k # 1 PROVE \E i \in off2 : TRUE
      <3>1. k - 1 \in Nat \ {0} /\ (k - 1) + 1 = k
        BY <2>2
      <3>2. k - 1 \in off2
        BY <3>1
      <3> QED
        BY <3>2
    <2> QED
      BY <2>1, <2>2
  <1>4. ASSUME NEW i \in on, \A k \in off : k < i
        PROVE  LastOn(on2, off2) \/ (1 \in on /\ off2 = {})
    <2>1. CASE i = 1
      <3>1. off = {}
        BY <1>4, <2>1
      <3> QED
        BY <2>1, <3>1, <1>3
    <2>2. CASE i > 1
      BY <1>2, <1>4, <2>2
    <2> QED
      BY <2>1, <2>2
  <1>5. 1 \in on /\ off2 = {} => LastOn(on, off)
    BY <1>3 DEF LastOn
  <1> QED
    BY <1>1, <1>3, <1>4, <1>5 DEF LastOn

=============================================================================
