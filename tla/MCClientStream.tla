--------------------------- MODULE MCClientStream ---------------------------
(***************************************************************************)
(* Small instances of ClientStream.                                        *)
(***************************************************************************)
EXTENDS ClientStream, TLC

CONSTANTS r1, r2   \* model values: requests of the application

Config(compression, encryption, authorization) ==
    [Compression |-> compression, Encryption |-> encryption,
     Authorization |-> authorization]

\* The default, everything forced, encryption forced alone, and a registration's
\* setting, which disables authorization.
SomeConfigs ==
    {Config("Auto", "Auto", "Force"), Config("Force", "Force", "Force"),
     Config("Disable", "Force", "Auto"), Config("Auto", "Auto", "Disable")}

DefaultConfig == {Config("Auto", "Auto", "Force"), Config("Auto", "Force", "Auto")}

UnsetPort == -1

TwoRequests == {r1, r2}

RequestSymmetry == Permutations(TwoRequests)

AllRefusals == {"starttls", "compress", "auth", "iq"}

=============================================================================
