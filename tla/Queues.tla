------------------------------- MODULE Queues -------------------------------
(***************************************************************************)
(* What is said of the stanzas that are under way in one direction of a    *)
(* stream, the first of them the next to arrive.                           *)
(***************************************************************************)
EXTENDS Integers, Sequences

\* One of these is under way.
Has(q, these) == \E i \in DOMAIN q : q[i] \in these

\* Behind each of these one of those comes: whatever the former get wrong,
\* the latter put right.
Followed(q, these, those) ==
    \A i \in DOMAIN q : q[i] \in these => \E k \in DOMAIN q : k > i /\ q[k] \in those

\* The last of the stanzas that make something so, at the places on, is behind all
\* of those that end it, at the places off.
LastOn(on, off) == \E i \in on : \A k \in off : k < i

\* Whether it will be so when all has arrived.
InTheEnd(now, on, off) == (now /\ off = {}) \/ LastOn(on, off)

=============================================================================
