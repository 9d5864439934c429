\* Three sessions, two resources of one peer, one thread of its own.
SPECIFICATION Spec
CONSTANTS
    Sessions = {s1, s2, s3}
    Bares = {romeo}
    Resources = {orchard, balcony}
    Threads = {t1}
    Hashes = {h1, h2, h3}
    None = None
    Blank = Blank
SYMMETRY SessionSymmetry
INVARIANTS
    TypeOK
    OneSessionFound
PROPERTIES
    StaysInConversation
    ImplementsConversations
