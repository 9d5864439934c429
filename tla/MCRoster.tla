------------------------------ MODULE MCRoster ------------------------------
(***************************************************************************)
(* Small instances of Roster.                                              *)
(***************************************************************************)
EXTENDS Roster, TLC

\* Stamps above 1 differ, so the order of a list of changes is fixed by them.
RosterSymmetry == Permutations(Names) \cup Permutations(Jids)

=============================================================================
