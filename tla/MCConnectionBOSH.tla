-------------------------- MODULE MCConnectionBOSH --------------------------
(***************************************************************************)
(* Small instances of ConnectionBOSH.                                      *)
(***************************************************************************)
EXTENDS ConnectionBOSH

=============================================================================
