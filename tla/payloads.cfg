\* All factories, what this library writes and what peers do.
SPECIFICATION Spec
CONSTANTS
    Subjects <- AllSubjects
    Samples <- MCSamples
    PeerDocuments <- MCPeerDocuments
    MaxItems = 3
INVARIANTS
    Grounded
    RoundTrip
    Verified
    Undisturbed
    Relayed
