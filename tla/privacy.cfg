\* Two lists, servers that repeat the query in their errors always or sometimes.
SPECIFICATION FairSpec
CONSTANTS
    Names = {friends, strangers}
    NoName = NoName
    Contents = {c1}
    Empty = Empty
    Echoes = {TRUE, FALSE}
    Careless = {}
    MaxId = 4
    MaxUnderWay = 2
INVARIANTS
    WaitInv
    MirrorHonest
PROPERTIES
    ListAnswered
