--------------------------- MODULE MCPrivacyManager ---------------------------
(***************************************************************************)
(* Small instances of PrivacyManager.                                      *)
(***************************************************************************)
EXTENDS PrivacyManager, TLC

PrivacySymmetry == Permutations(Names) \cup Permutations(Contents)

=============================================================================
