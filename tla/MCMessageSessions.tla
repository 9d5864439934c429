--------------------------- MODULE MCMessageSessions ---------------------------
(***************************************************************************)
(* Small instances of MessageSessions.                                     *)
(***************************************************************************)
EXTENDS MessageSessions, TLC

SessionSymmetry ==
    Permutations(Sessions) \cup Permutations(Resources) \cup Permutations(Hashes)
        \cup Permutations(Bares)

=============================================================================
