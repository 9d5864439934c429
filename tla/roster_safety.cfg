\* Two contacts, two names, a server that may or may not support versions.
SPECIFICATION Spec
CONSTANTS
    Jids = {romeo, juliet}
    Names = {n1, n2}
    Absent = Absent
    EchoesErrors = FALSE
    MaxVersion = 3
    MaxUnderWay = 2
SYMMETRY RosterSymmetry
CHECK_DEADLOCK FALSE
INVARIANTS
    TypeOK
    VersionsHonest
    Converges
