\* Presences alone: what a granted subscription is read as.
SPECIFICATION Spec
CONSTANTS
    Subjects = {"presence"}
    Samples <- MCSamples
    PeerDocuments <- MCPeerDocuments
    MaxItems = 3
INVARIANTS
    GrantIsRead
