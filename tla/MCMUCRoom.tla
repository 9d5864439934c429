----------------------------- MODULE MCMUCRoom -----------------------------
(***************************************************************************)
(* Small instances of MUCRoom.                                             *)
(***************************************************************************)
EXTENDS MUCRoom, TLC

NickSymmetry == Permutations(Nicks)

=============================================================================
