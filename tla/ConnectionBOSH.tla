--------------------------- MODULE ConnectionBOSH ---------------------------
(***************************************************************************)
(* A stream over HTTP requests (src/src/connectionbosh.cpp).               *)
(*                                                                         *)
(* The client keeps at most one request that carries data and, once it is  *)
(* authorized, one empty request for the server to answer when it has      *)
(* something to say; what is written while a data request is out waits in  *)
(* payloads.  Requests are numbered and carry keys of a chain of hashes:   *)
(* the server accepts a key when its hash is the one it saw last, so the   *)
(* client uses a chain backwards and announces the next one in time.       *)
(*                                                                         *)
(* The server is external: it takes requests in the order of their         *)
(* numbers and answers them in that order, each in its own time; the       *)
(* answers may overtake one another on their way.                          *)
(*                                                                         *)
(* The code runs to completion within a callback, so a step is a callback  *)
(* with every call made in it; its calls are functions of the client's     *)
(* state, composed in the order the code makes them.                       *)
(***************************************************************************)
EXTENDS Integers, Sequences, SequencesExt, FiniteSets

CONSTANTS
    KeyNum,     \* length of a chain of keys
    MaxWrites,  \* bound: pieces of data written
    MaxPolls,   \* bound: answers to a client that has nothing else under way
    MaxErrors   \* bound: requests that end in an error

ASSUME KeyNumAssumption == KeyNum \in Nat /\ KeyNum >= 3
ASSUME BoundsAssumption == MaxWrites \in Nat /\ MaxPolls \in Nat /\ MaxErrors \in Nat

None == -1
NoKey == [chain |-> None, at |-> None]

VARIABLES
    client,      \* ConnectionBOSHPrivate and the requests it has posted
    written,     \* what the stream above has written, piece by piece
    nextRid,     \* the server: the number of the request it waits for
    lastKey,     \* the hash the next key must have
    accepted,    \* every key so far was right
    got,         \* the data it has received
    held,        \* requests it has not answered
    phase,       \* how far it has taken the client
    replies,     \* answers under way
    polls,
    errors

vars == <<client, written, nextRid, lastKey, accepted, got, held, phase, replies, polls, errors>>

Keys == [chain : Nat, at : 0..KeyNum + 1]
Request == [rid : Nat, key : Keys \cup {NoKey}, newKey : Keys \cup {NoKey},
            body : Seq(1..MaxWrites)]
Clients == [opened : BOOLEAN, rid : Nat, chain : Nat, left : 0..KeyNum,
            dataRequest : Nat \cup {None}, emptyRequest : Nat \cup {None},
            payloads : Seq(1..MaxWrites), authorized : BOOLEAN, posted : SUBSET Request]
\* What the parser makes of an answer, the stream's restart and its end included.
Effects == {"none", "restart", "ready"}

TypeOK ==
    /\ client \in Clients
    /\ written \in Seq(1..MaxWrites)
    /\ nextRid \in Nat
    /\ lastKey \in Keys \cup {NoKey}
    /\ accepted \in BOOLEAN
    /\ got \in Seq(1..MaxWrites)
    /\ held \in Seq(Nat)
    /\ phase \in {"new", "restarted", "ready"}
    /\ replies \subseteq [rid : Nat, effect : Effects]
    /\ polls \in 0..MaxPolls
    /\ errors \in 0..MaxErrors

Init ==
    /\ client = [opened |-> FALSE, rid |-> 0, chain |-> 0, left |-> 0,
                 dataRequest |-> None, emptyRequest |-> None,
                 payloads |-> <<>>, authorized |-> FALSE, posted |-> {}]
    /\ written = <<>>
    /\ nextRid = 0
    /\ lastKey = NoKey
    /\ accepted = TRUE
    /\ got = <<>>
    /\ held = <<>>
    /\ phase = "new"
    /\ replies = {}
    /\ polls = 0
    /\ errors = 0

-----------------------------------------------------------------------------
(* The calls of ConnectionBOSH                                             *)

\* A new chain; its hash is announced, its keys are used from the last on.
generateKey(c) == [c EXCEPT !.chain = @ + 1, !.left = KeyNum]
Announced(c) == [chain |-> c.chain, at |-> KeyNum + 1]

Key(c) == [chain |-> c.chain, at |-> c.left]
nextKey(c) == [c EXCEPT !.left = @ - 1]

\* send: the request takes the place of the last one of its kind.
Post(c, empty, key, newKey, body) ==
    LET request == [rid |-> c.rid, key |-> key, newKey |-> newKey, body |-> body]
    IN  [c EXCEPT !.rid = @ + 1,
                  !.posted = @ \cup {request},
                  !.emptyRequest = IF empty THEN c.rid ELSE @,
                  !.dataRequest = IF empty THEN @ ELSE c.rid]

sendHeader(c, first) ==
    LET renewed == generateKey(IF first THEN c ELSE nextKey(c))
    IN  Post(renewed, FALSE, IF first THEN NoKey ELSE Key(c), Announced(renewed), <<>>)

\* A slip: the next chain is announced by its last key, not by the hash of that.
writeData_OwnKey(c, body) ==
    LET taken == nextKey(c)
        renewed == IF taken.left = 1 THEN generateKey(taken) ELSE taken
    IN  IF c.dataRequest # None /\ body # <<>>
        THEN [c EXCEPT !.payloads = @ \o body]
        ELSE Post(renewed, body = <<>>, Key(c),
                  IF taken.left = 1 THEN Key(renewed) ELSE NoKey, body)

\* Data waits while other data is out; no data is a request to be answered later.
writeData(c, body) ==
    LET taken == nextKey(c)
        renewed == IF taken.left = 1 THEN generateKey(taken) ELSE taken
    IN  IF c.dataRequest # None /\ body # <<>>
        THEN [c EXCEPT !.payloads = @ \o body]
        ELSE Post(renewed, body = <<>>, Key(c),
                  IF taken.left = 1 THEN Announced(renewed) ELSE NoKey, body)

authorized(c) == writeData([c EXCEPT !.authorized = TRUE], <<>>)

-----------------------------------------------------------------------------
(* The stream above                                                        *)

open ==
    /\ ~client.opened
    /\ client' = sendHeader([client EXCEPT !.opened = TRUE], TRUE)
    /\ UNCHANGED <<written, nextRid, lastKey, accepted, got, held, phase, replies, polls, errors>>

NextPiece == <<Len(written) + 1>>

\* Once the stream is ready the application may write at any time.
Write ==
    /\ client.authorized
    /\ Len(written) < MaxWrites
    /\ client' = writeData(client, NextPiece)
    /\ written' = written \o NextPiece
    /\ UNCHANGED <<nextRid, lastKey, accepted, got, held, phase, replies, polls, errors>>

\* What the parser and the application do while an answer is parsed: write
\* pieces, restart the stream, or find it ready.
Parsed(c, effect, pieces) ==
    LET c1 == IF pieces = <<>> THEN c ELSE writeData(c, pieces)
    IN  CASE effect = "none" -> c1
          [] effect = "restart" -> sendHeader(c1, FALSE)
          [] effect = "ready" -> authorized(c1)

\* A slip: what has waited is kept when it is sent.
Answered_KeepsPayloads(c, rid) ==
    IF c.payloads # <<>> /\ rid = c.dataRequest
    THEN writeData([c EXCEPT !.dataRequest = None], c.payloads)
    ELSE LET done == [c EXCEPT !.dataRequest = IF @ = rid THEN None ELSE @,
                               !.emptyRequest = IF @ = rid THEN None ELSE @]
         IN  IF done.authorized /\ done.emptyRequest = None
             THEN writeData(done, <<>>) ELSE done

\* A slip: what has waited is cleared before it is sent.
Answered_ClearsFirst(c, rid) ==
    IF c.payloads # <<>> /\ rid = c.dataRequest
    THEN writeData([c EXCEPT !.dataRequest = None, !.payloads = <<>>], <<>>)
    ELSE LET done == [c EXCEPT !.dataRequest = IF @ = rid THEN None ELSE @,
                               !.emptyRequest = IF @ = rid THEN None ELSE @]
         IN  IF done.authorized /\ done.emptyRequest = None
             THEN writeData(done, <<>>) ELSE done

\* A slip: any answer is taken for the answer to both requests.
Answered_ForgetsBoth(c, rid) ==
    IF c.payloads # <<>> /\ rid = c.dataRequest
    THEN [writeData([c EXCEPT !.dataRequest = None], c.payloads) EXCEPT !.payloads = <<>>]
    ELSE LET done == [c EXCEPT !.dataRequest = None, !.emptyRequest = None]
         IN  IF done.authorized THEN writeData(done, <<>>) ELSE done

\* onRequestFinished, after parsing: send what has waited, or see that the
\* server always has an empty request to answer.
Answered(c, rid) ==
    IF c.payloads # <<>> /\ rid = c.dataRequest
    THEN [writeData([c EXCEPT !.dataRequest = None], c.payloads) EXCEPT !.payloads = <<>>]
    ELSE LET done == [c EXCEPT !.dataRequest = IF @ = rid THEN None ELSE @,
                               !.emptyRequest = IF @ = rid THEN None ELSE @]
         IN  IF done.authorized /\ done.emptyRequest = None
             THEN writeData(done, <<>>) ELSE done

\* A piece may be written while an answer is parsed, by whoever the answer is for.
onRequestFinished ==
    \E reply \in replies, pieces \in {<<>>, NextPiece} :
        /\ Len(written \o pieces) <= MaxWrites
        /\ reply.effect = "restart" => pieces = <<>>
        /\ client' = Answered(Parsed(client, reply.effect, pieces), reply.rid)
        /\ written' = written \o pieces
        /\ replies' = replies \ {reply}
        /\ UNCHANGED <<nextRid, lastKey, accepted, got, held, phase, polls, errors>>

\* A request that fails is forgotten: the pointers to it become null when it is deleted.
Failed(rid) ==
    /\ errors < MaxErrors
    /\ errors' = errors + 1
    /\ client' = [client EXCEPT !.dataRequest = IF @ = rid THEN None ELSE @,
                                !.emptyRequest = IF @ = rid THEN None ELSE @,
                                !.posted = {r \in @ : r.rid # rid}]

RequestFails ==
    \E request \in client.posted :
        /\ Failed(request.rid)
        /\ UNCHANGED <<written, nextRid, lastKey, accepted, got, held, phase, replies, polls>>

ReplyFails ==
    \E reply \in replies :
        /\ Failed(reply.rid)
        /\ replies' = replies \ {reply}
        /\ UNCHANGED <<written, nextRid, lastKey, accepted, got, held, phase, polls>>

-----------------------------------------------------------------------------
(* The server                                                              *)

\* The hash of a key is the next one of its chain.
Hash(key) == [key EXCEPT !.at = @ + 1]

\* The first request starts the session and has no key to check.
RequestArrives ==
    \E request \in client.posted :
        /\ request.rid = nextRid
        /\ nextRid' = nextRid + 1
        /\ client' = [client EXCEPT !.posted = @ \ {request}]
        /\ accepted' = (accepted /\ (lastKey = NoKey \/ Hash(request.key) = lastKey))
        /\ lastKey' = IF request.newKey # NoKey THEN request.newKey ELSE request.key
        /\ got' = got \o request.body
        /\ held' = Append(held, request.rid)
        /\ UNCHANGED <<written, phase, replies, polls, errors>>

\* With nothing else to answer it may keep the request of a client that is ready.
Polled == Len(held) = 1 /\ phase = "ready"

\* It authorizes the client, which restarts the stream, and then binds it.
ServerReplies ==
    /\ held # <<>>
    /\ Polled => polls < MaxPolls
    /\ held' = Tail(held)
    /\ polls' = IF Polled THEN polls + 1 ELSE polls
    /\ \E effect \in Effects :
        /\ effect = "restart" => phase = "new"
        /\ effect = "ready" => phase = "restarted"
        /\ replies' = replies \cup {[rid |-> Head(held), effect |-> effect]}
        /\ phase' = CASE effect = "restart" -> "restarted"
                      [] effect = "ready" -> "ready"
                      [] OTHER -> phase
    /\ UNCHANGED <<client, written, nextRid, lastKey, accepted, got, errors>>

-----------------------------------------------------------------------------

Next ==
    \/ open
    \/ Write
    \/ onRequestFinished
    \/ RequestFails
    \/ ReplyFails
    \/ RequestArrives
    \/ ServerReplies

Spec == Init /\ [][Next]_vars

\* Requests reach the server, it answers each in the end, and answers arrive.
FairSpec ==
    /\ Spec
    /\ WF_vars(RequestArrives)
    /\ WF_vars(ServerReplies)
    /\ WF_vars(onRequestFinished)

-----------------------------------------------------------------------------
(* Properties                                                              *)

Posted == {request.rid : request \in client.posted}
Outstanding == Posted \cup Range(held) \cup {reply.rid : reply \in replies}

\* The client knows every request that is out, and there are two at most: the
\* server ends a session that exceeds what it announced in the first answer.
RequestsKnown ==
    Outstanding \subseteq {client.dataRequest, client.emptyRequest} \ {None}

\* The server never meets a key that does not belong to the chain it follows:
\* the next chain is announced with a key of the old one, before that is used
\* up, whichever of a header, data or an empty request comes then.
KeysAccepted == accepted /\ (client.opened => client.left > 0)

\* The data of the requests under way: one of them at most carries data.
Carrying(c) == {request \in c.posted : request.body # <<>>}
Underway(c) == IF Carrying(c) = {} THEN <<>> ELSE (CHOOSE request \in Carrying(c) : TRUE).body

\* What the stream above writes reaches the server in order, although some of
\* it is posted at once and some waits for an answer to earlier data; once a
\* request has failed, at least no piece arrives twice.
OutboundOrder ==
    /\ errors = 0 => written = got \o Underway(client) \o client.payloads
    /\ \A i, k \in DOMAIN got : got[i] = got[k] => i = k

\* Once authorized, the server always has a request it can answer, so that it
\* can say something unasked.  After a request that failed nothing polls.
ServerCanSpeak == client.authorized /\ errors = 0 => Outstanding # {}

\* The server is never without a way to speak nor driven to end the session: it
\* meets no foreign key and no request too many, and has one it can answer.
ServerServed == RequestsKnown /\ KeysAccepted /\ ServerCanSpeak

\* As long as nothing fails, no request is missing before one that is posted, so
\* that the server has the one it waits for; and data waits only for an answer
\* that is to come, not for one that has come or to nothing.
NeverStuck ==
    errors = 0 =>
        /\ Posted = nextRid .. client.rid - 1
        /\ client.payloads # <<>> => client.dataRequest \in Outstanding

\* All that is written is at the server, on its way or waiting for an answer that
\* is to come, each piece in its place; nothing is lost track of or left behind.
DeliveryInv == TypeOK /\ OutboundOrder /\ NeverStuck

\* For the stream above all this is a channel that keeps the order, until a request
\* fails, and repeats nothing even then: what arrives is what has been written.
Channel == INSTANCE DataChannel WITH broken <- errors > 0
ImplementsChannel == Channel!Spec

\* Everything written reaches the server, unless a request fails.
Delivered == \A n \in 1..MaxWrites : (Len(written) >= n) ~> (Len(got) >= n \/ errors > 0)

-----------------------------------------------------------------------------
(* The inductive invariant.  Its parts about the client speak of a record  *)
(* c, for they hold between the calls of a callback as well, when the      *)
(* answer that is handled is still pointed to.                             *)

Numbers(requests) == {request.rid : request \in requests}

\* The server has yet to answer these.
Unanswered == Range(held) \cup Numbers(replies)

\* A client that has not begun has nothing, one that is not authorized polls nothing.
StartInv(c, last) ==
    /\ ~c.opened => /\ c.rid = 0 /\ c.posted = {} /\ c.payloads = <<>> /\ ~c.authorized
                    /\ c.dataRequest = None /\ last = NoKey
    /\ ~c.authorized => c.emptyRequest = None

\* The server waits for the oldest of the requests posted, or for the next.
NumbersInv(c, next) ==
    /\ next <= c.rid
    /\ \A r \in c.posted : next <= r.rid /\ r.rid < c.rid
    /\ \A r, s \in c.posted : r.rid = s.rid => r = s
    /\ c.dataRequest < c.rid /\ c.emptyRequest < c.rid
    /\ c.dataRequest = c.emptyRequest => c.dataRequest = None

\* What the server expects of the request behind this one.
After(request) == IF request.newKey # NoKey THEN request.newKey ELSE request.key

\* Each request has the key that the one before it promised.
KeysInv(c, next, last) ==
    /\ c.opened => c.left >= 2
    /\ \A r \in c.posted : r.rid = next => last = NoKey \/ Hash(r.key) = last
    /\ \A r, s \in c.posted : s.rid = r.rid + 1 => Hash(s.key) = After(r)
    /\ \A r \in c.posted : r.rid + 1 = c.rid => Hash(Key(c)) = After(r)
    /\ c.opened /\ next = c.rid => Hash(Key(c)) = last

\* The client points to every request that is out, and to no other but the one
\* whose answer it handles.
KnownInv(c, unanswered, handled) ==
    Numbers(c.posted) \cup unanswered = {c.dataRequest, c.emptyRequest} \ {None, handled}

\* Only the request that dataRequest points to carries data.
CarriedInv(c) == \A r \in c.posted : r.body # <<>> => r.rid = c.dataRequest

Once(s) == \A i, k \in DOMAIN s : s[i] = s[k] => i = k
Apart(s, t) == \A i \in DOMAIN s, k \in DOMAIN t : s[i] # t[k]
UpTo(s, n) == \A i \in DOMAIN s : s[i] <= n

\* No piece is in two places.
PiecesInv(c, data, pieces) ==
    /\ Once(data) /\ Once(Underway(c)) /\ Once(c.payloads)
    /\ Apart(data, Underway(c)) /\ Apart(data, c.payloads) /\ Apart(Underway(c), c.payloads)
    /\ UpTo(data, Len(pieces)) /\ UpTo(Underway(c), Len(pieces)) /\ UpTo(c.payloads, Len(pieces))

\* As long as nothing fails, data waits only for other data, and none is missing.
FaultlessInv(c, data, pieces) ==
    /\ c.payloads # <<>> => c.dataRequest # None
    /\ pieces = data \o Underway(c) \o c.payloads

\* All that is said of the client while it handles the answer to a request.
ClientInv(c, unanswered, handled, pieces) ==
    /\ StartInv(c, lastKey) /\ NumbersInv(c, nextRid) /\ KeysInv(c, nextRid, lastKey)
    /\ KnownInv(c, unanswered, handled) /\ CarriedInv(c)
    /\ PiecesInv(c, got, pieces)
    /\ errors = 0 => FaultlessInv(c, got, pieces)

\* The server answers in the order of the numbers, and says what is special only
\* to a client that is not yet authorized.
ServerInv ==
    /\ accepted
    /\ \A i \in DOMAIN held : held[i] < nextRid
    /\ \A i, k \in DOMAIN held : i < k => held[i] < held[k]
    /\ \A p \in replies : p.rid < nextRid /\ \A i \in DOMAIN held : p.rid < held[i]
    /\ \A p, q \in replies : p.rid = q.rid => p = q
    /\ client.authorized => phase = "ready" /\ \A p \in replies : p.effect = "none"
    /\ \A p \in replies : p.effect = "ready" => phase = "ready"

\* As long as nothing fails, the client polls.
PollsInv(c) == errors = 0 /\ c.authorized => c.emptyRequest # None

SessionInv ==
    /\ TypeOK /\ ServerInv
    /\ ClientInv(client, Unanswered, None, written)
    /\ PollsInv(client)

=============================================================================
