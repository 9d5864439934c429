----------------------------- MODULE Conversations -----------------------------
(***************************************************************************)
(* What message sessions promise (src/src/messagesession.cpp), without the *)
(* hashes in which they are looked up: a message is heard by one session   *)
(* that is about it, and never by a new one as long as there is such a     *)
(* session; no session is led away from its peer, from its thread, or from *)
(* a resource it has not given up.                                         *)
(*                                                                         *)
(* MessageSessions is shown to implement this module.                      *)
(***************************************************************************)
CONSTANTS
    Sessions,   \* session objects
    Bares,      \* bare JIDs of peers
    Resources,
    Threads,    \* threads that peers begin
    Hashes,     \* threads made here
    None,       \* the empty resource, the empty thread
    Blank       \* a thread of spaces

VARIABLES
    conversation,   \* what each session there is is about
    heard           \* the session that has just heard a message

vars == <<conversation, heard>>

JIDs == [bare : Bares, resource : Resources \cup {None}]
AnyThread == Threads \cup Hashes \cup {None, Blank}

Live == DOMAIN conversation

Init == conversation = [s \in {} |-> <<>>] /\ heard = {}

With(s, data) == [r \in Live \cup {s} |-> IF r = s THEN data ELSE conversation[r]]

-----------------------------------------------------------------------------
(* The application                                                         *)

Begin(s, jid, any) ==
    /\ s \notin Live
    /\ conversation' = With(s, [jid |-> jid, thread |-> None, any |-> any])
    /\ heard' = {}

End(s) ==
    /\ s \in Live
    /\ conversation' = [r \in Live \ {s} |-> conversation[r]]
    /\ heard' = {}

AnyResource(jid) == [jid EXCEPT !.resource = None]

GiveUpResource(s) ==
    /\ s \in Live
    /\ conversation' = [conversation EXCEPT ![s].jid = AnyResource(@)]
    /\ heard' = {}

\* A step that no session hears of.
Other == heard' = {} /\ UNCHANGED conversation

-----------------------------------------------------------------------------
(* A message                                                               *)

\* The sessions it may be for: of this peer, with this thread or no mind for it.
About(from, thread) ==
    {s \in Live :
        /\ conversation[s].jid.bare = from.bare
        /\ thread = None \/ conversation[s].any \/ conversation[s].thread = thread}

\* Among them those of the very resource come first.
Exact(from, thread) == {s \in About(from, thread) : conversation[s].jid = from}
Nearest(from, thread) ==
    IF Exact(from, thread) # {} THEN Exact(from, thread) ELSE About(from, thread)

\* A session without a thread takes that of the message, or one that nobody has.
FreshThreads == Hashes \ {conversation[s].thread : s \in Live}
Continued(own, thread) ==
    IF own # None THEN {own} ELSE IF thread \in {None, Blank} THEN FreshThreads ELSE {thread}

\* A session without a resource may take that of the message.
Followed(jid, from) == {jid} \cup (IF jid = AnyResource(from) THEN {from} ELSE {})

Hear(s, from, thread) ==
    /\ s \in Nearest(from, thread)
    /\ \E jid \in Followed(conversation[s].jid, from),
          t \in Continued(conversation[s].thread, thread) :
           conversation' = [conversation EXCEPT ![s].jid = jid, ![s].thread = t]
    /\ heard' = {s}

HearFirst(s, from, thread) ==
    /\ About(from, thread) = {} /\ s \notin Live
    /\ \E t \in Continued(thread, thread) :
           conversation' = With(s, [jid |-> from, thread |-> t, any |-> FALSE])
    /\ heard' = {s}

-----------------------------------------------------------------------------

Next ==
    \/ Other
    \/ \E s \in Sessions : End(s) \/ GiveUpResource(s)
    \/ \E s \in Sessions, jid \in JIDs, any \in BOOLEAN : Begin(s, jid, any)
    \/ \E s \in Sessions, from \in JIDs, thread \in AnyThread :
           Hear(s, from, thread) \/ HearFirst(s, from, thread)

Spec == Init /\ [][Next]_vars

================================================================================
