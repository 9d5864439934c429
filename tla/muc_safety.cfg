\* A careful application, three nicknames, two roles.
SPECIFICATION FairSpec
CONSTANTS
    Nicks = {ann, bob, cat}
    NoNick = NoNick
    Roles = {"participant", "moderator"}
    MaxUnderWay = 3
    Careless = {}
INVARIANTS
    WantedInv
    RoomAgrees
PROPERTIES
    WantedIsEntered
