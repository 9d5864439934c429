---------------------------- MODULE MessageSessions ----------------------------
(***************************************************************************)
(* Sessions of messages (src/src/messagesession.cpp): which conversation a *)
(* message belongs to.                                                     *)
(*                                                                         *)
(* The manager keeps its sessions in two multi-hashes, by full and by bare *)
(* JID, in which the values of a key are in the order opposite to that of  *)
(* their insertion.  They hold guarded pointers; since the destructor of a *)
(* session takes it out of both (RegistryConsistent), the branches for     *)
(* pointers that have become null are not modelled.                        *)
(*                                                                         *)
(* The peers are external: they write from any of their resources and in   *)
(* any thread.  All messages are of one type.                              *)
(***************************************************************************)
EXTENDS Integers, Sequences, SequencesExt, FiniteSets

CONSTANTS
    Sessions,   \* session objects
    Bares,      \* bare JIDs of peers
    Resources,
    Threads,    \* threads that peers begin
    Hashes,     \* random threads made here
    None,       \* the empty resource, the empty thread
    Blank       \* a thread of spaces

ASSUME NoneAssumption == None \notin Resources \cup Threads \cup Hashes \cup {Blank}
ASSUME HashesAssumption ==
    /\ Hashes \cap (Threads \cup {Blank}) = {}
    /\ IsFiniteSet(Sessions) /\ IsFiniteSet(Hashes)
    /\ Cardinality(Hashes) >= Cardinality(Sessions)

VARIABLES
    alive,      \* sessions that exist
    session,    \* jid, thread, ignoreThread and m_want_upgrade of each
    hash,       \* fullSessions and bareSessions
    handler,    \* somebody handles new sessions of this type
    heard       \* the session whose filters and messageReceived() the last step was for

vars == <<alive, session, hash, handler, heard>>

JIDs == [bare : Bares, resource : Resources \cup {None}]
AnyThread == Threads \cup Hashes \cup {None, Blank}
SessionData == [jid : JIDs, thread : AnyThread, ignoreThread : BOOLEAN, wantUpgrade : BOOLEAN]

\* Both hashes, of some sessions.
Registries(some) == [full : [JIDs -> Seq(some)], bare : [Bares -> Seq(some)]]

BareJID(jid) == [jid EXCEPT !.resource = None]

TypeOK ==
    /\ alive \subseteq Sessions
    /\ session \in [alive -> SessionData]
    /\ hash \in Registries(alive)
    /\ handler \in BOOLEAN
    /\ heard \in {{}} \cup {{s} : s \in alive}

Init ==
    /\ alive = {}
    /\ session = [s \in {} |-> <<>>]
    /\ hash = [full |-> [j \in JIDs |-> <<>>], bare |-> [b \in Bares |-> <<>>]]
    /\ handler = FALSE
    /\ heard = {}

-----------------------------------------------------------------------------
(* The two hashes                                                          *)

registerMessageSession(h, s, jid) ==
    [h EXCEPT !.full[jid] = <<s>> \o @, !.bare[jid.bare] = <<s>> \o @]

\* QMultiHash::remove of a value, which a key has once at most
\* (RegistryConsistent); the others keep their order.
Without(seq, s) ==
    IF \E i \in DOMAIN seq : seq[i] = s
    THEN RemoveAt(seq, CHOOSE i \in DOMAIN seq : seq[i] = s)
    ELSE seq

\* A slip: the hash of bare JIDs is forgotten.
Unregistered_FullOnly(h, s, jid) == [h EXCEPT !.full[jid] = Without(@, s)]

Unregistered(h, s, jid) ==
    [h EXCEPT !.full[jid] = Without(@, s), !.bare[jid.bare] = Without(@, s)]

\* A slip: the session is found under its old JID as well.
setJid_KeepsOld(h, s, old, new) == IF old = new THEN h ELSE registerMessageSession(h, s, new)

setJid(h, s, old, new) ==
    IF old = new THEN h ELSE registerMessageSession(Unregistered(h, s, old), s, new)

-----------------------------------------------------------------------------
(* The application                                                         *)

Fresh(jid, ignore, thread) ==
    [jid |-> jid, thread |-> thread, ignoreThread |-> ignore, wantUpgrade |-> FALSE]

With(s, data) == [r \in alive \cup {s} |-> IF r = s THEN data ELSE session[r]]

\* The constructor of MessageSession, by default without a thread.
Construct(s, jid, ignore) ==
    /\ s \notin alive
    /\ alive' = alive \cup {s}
    /\ session' = With(s, Fresh(jid, ignore, None))
    /\ hash' = registerMessageSession(hash, s, jid)
    /\ heard' = {}
    /\ UNCHANGED handler

Delete(s) ==
    /\ s \in alive
    /\ alive' = alive \ {s}
    /\ session' = [r \in alive \ {s} |-> session[r]]
    /\ hash' = Unregistered(hash, s, session[s].jid)
    /\ heard' = {}
    /\ UNCHANGED handler

resetResource(s) ==
    /\ s \in alive
    /\ LET old == session[s].jid
       IN  /\ session' = [session EXCEPT ![s].wantUpgrade = TRUE, ![s].jid = BareJID(old)]
           /\ hash' = setJid(hash, s, old, BareJID(old))
    /\ heard' = {}
    /\ UNCHANGED <<alive, handler>>

\* MessageSessionManager::session, when there is none and one is to be created.
OpenSession(s, jid) ==
    /\ hash.full[jid] = <<>>
    /\ handler
    /\ Construct(s, jid, FALSE)

setHandler ==
    /\ handler' = ~handler
    /\ heard' = {}
    /\ UNCHANGED <<alive, session, hash>>

-----------------------------------------------------------------------------
(* A message                                                               *)

\* A slip: those of any resource first.
LookedAt_BareFirst(from) == hash.bare[from.bare] \o hash.full[from]

\* The sessions that are looked at for a message, in this order,
LookedAt(from) == hash.full[from] \o hash.bare[from.bare]

\* and the places of those that would take it.
Takes(s, thread) ==
    thread = None \/ session[s].ignoreThread \/ session[s].thread = thread
Candidates(from, thread) ==
    {i \in DOMAIN LookedAt(from) : Takes(LookedAt(from)[i], thread)}

\* A random hash nobody has.
RandomHash == Hashes \ {session[s].thread : s \in alive}

\* The thread a session has after a message.
ThreadAfter(own, thread) ==
    IF own # None THEN {own} ELSE IF thread \in {None, Blank} THEN RandomHash ELSE {thread}

\* A slip: the resource is followed whether or not it was given up.
JidAfter_Follows(data, from) == IF data.wantUpgrade THEN from ELSE data.jid

\* Its JID: that of the peer, if a resource was given up and none taken since.
JidAfter(data, from) ==
    IF data.wantUpgrade /\ BareJID(from) = data.jid THEN from ELSE data.jid

\* MessageSession::handleMessage, of a session with this data and these hashes.
Handles(s, data, h, from, thread) ==
    LET jid == JidAfter(data, from)
    IN  /\ hash' = setJid(h, s, data.jid, jid)
        /\ \E t \in ThreadAfter(data.thread, thread) :
               session' = With(s, [data EXCEPT !.jid = jid, !.thread = t])
        /\ heard' = {s}

\* MessageSessionManager::handleMessage: an existing session takes it,
MessageToSession(from, thread) ==
    /\ \E i \in Candidates(from, thread) :
           /\ \A k \in Candidates(from, thread) : i <= k
           /\ LET s == LookedAt(from)[i]
              IN  Handles(s, session[s], hash, from, thread)
    /\ UNCHANGED <<alive, handler>>

\* or a new one; without a handler it is only announced.
MessageToNewSession(s, from, thread) ==
    /\ Candidates(from, thread) = {}
    /\ handler
    /\ s \notin alive
    /\ alive' = alive \cup {s}
    /\ Handles(s, Fresh(from, FALSE, thread), registerMessageSession(hash, s, from), from, thread)
    /\ UNCHANGED handler

-----------------------------------------------------------------------------

Next ==
    \/ setHandler
    \/ \E s \in Sessions : Delete(s) \/ resetResource(s)
    \/ \E s \in Sessions, jid \in JIDs :
           OpenSession(s, jid) \/ \E ignore \in BOOLEAN : Construct(s, jid, ignore)
    \/ \E from \in JIDs, thread \in AnyThread :
           \/ MessageToSession(from, thread)
           \/ \E s \in Sessions : MessageToNewSession(s, from, thread)

Spec == Init /\ [][Next]_vars

-----------------------------------------------------------------------------
(* Properties                                                              *)

Nowhere(seq, s) == \A i \in DOMAIN seq : seq[i] # s
Once(seq, s) ==
    \E i \in DOMAIN seq : seq[i] = s /\ \A k \in DOMAIN seq : seq[k] = s => k = i

\* A session is in both hashes, once, under this JID and under no other.
Filed(h, s, jid) ==
    /\ Once(h.full[jid], s) /\ \A j \in JIDs \ {jid} : Nowhere(h.full[j], s)
    /\ Once(h.bare[jid.bare], s) /\ \A b \in Bares \ {jid.bare} : Nowhere(h.bare[b], s)

\* It is in neither.
Unfiled(h, s) ==
    (\A j \in JIDs : Nowhere(h.full[j], s)) /\ \A b \in Bares : Nowhere(h.bare[b], s)

\* Every session is where its present JID says, however often it gave up and
\* took a resource, and no other is anywhere: otherwise a message would miss
\* it, or reach it after it is gone.
RegistryConsistent ==
    \A s \in Sessions : IF s \in alive THEN Filed(hash, s, session[s].jid) ELSE Unfiled(hash, s)

\* A thread with a peer has one session, whichever of its resources writes and
\* whichever the session is bound to; sessions that ignore threads aside.
OneSessionPerThread ==
    \A s, r \in alive :
        /\ s # r /\ session[s].jid.bare = session[r].jid.bare
        /\ ~session[s].ignoreThread /\ ~session[r].ignoreThread
        => session[s].thread = None \/ session[s].thread # session[r].thread

\* Every message finds the one session of its conversation: sessions are where
\* messages look for them, and no thread has two.
OneSessionFound == RegistryConsistent /\ OneSessionPerThread

\* A session is never led from one thread to another, nor from one resource to
\* another unless it gave up the first; it stays with its peer for good.
Stays(s) ==
    /\ session[s].thread \in {None, session'[s].thread}
    /\ session[s].jid.bare = session'[s].jid.bare
    /\ \/ session[s].jid.resource = None
       \/ session'[s].jid.resource \in {None, session[s].jid.resource}
AllStay == \A s \in alive \cap alive' : Stays(s)
StaysInConversation == [][AllStay]_vars

\* Without its hashes a session is its JID, its thread and whether it minds it.
Promise == INSTANCE Conversations WITH
    conversation <- [s \in alive |-> [jid |-> session[s].jid, thread |-> session[s].thread,
                                     any |-> session[s].ignoreThread]]

\* A message is heard by one session of its conversation, of the very resource
\* it comes from if there is such a session, and by a new session only if there
\* is none: what the two hashes hold is as good as a look at every session.
ImplementsConversations == Promise!Spec

=============================================================================
