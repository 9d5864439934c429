----------------------------- MODULE DataChannel -----------------------------
(***************************************************************************)
(* What a stream expects of the connection it writes to (src/src/          *)
(* connection.h): pieces of data arrive in the order in which they were    *)
(* written, each of them once.  When the connection has broken something,  *)
(* pieces may be missing and others out of order; none comes twice, and    *)
(* none that nobody wrote.                                                 *)
(*                                                                         *)
(* ConnectionBOSH is shown to implement this module over any number of     *)
(* requests.                                                               *)
(***************************************************************************)
EXTENDS Integers, Sequences

VARIABLES
    written,    \* the pieces, numbered as they are written
    got,        \* those that have arrived
    broken

vars == <<written, got, broken>>

Init == written = <<>> /\ got = <<>> /\ broken = FALSE

First(seq, n) == SubSeq(seq, 1, n)
EachOnce(seq) == \A i, k \in DOMAIN seq : seq[i] = seq[k] => i = k

Write ==
    /\ written' = written \o <<Len(written) + 1>>
    /\ UNCHANGED <<got, broken>>

Arrive ==
    /\ got' \in Seq(1..Len(written))
    /\ Len(got) <= Len(got') /\ First(got', Len(got)) = got
    /\ EachOnce(got')
    /\ ~broken => got' = First(written, Len(got'))
    /\ UNCHANGED <<written, broken>>

Break ==
    /\ broken' = TRUE
    /\ UNCHANGED <<written, got>>

Next == Write \/ Arrive \/ Break

Spec == Init /\ [][Next]_vars

==============================================================================
