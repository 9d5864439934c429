\* What the header says of the role of somebody who is not present.
SPECIFICATION Spec
CONSTANTS
    Nicks = {ann, bob, cat}
    NoNick = NoNick
    Roles = {"participant", "moderator"}
    MaxUnderWay = 3
    Careless = {}
SYMMETRY NickSymmetry
INVARIANTS
    NotPresentHasNoRole
