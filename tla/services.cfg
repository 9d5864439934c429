\* One card, two requests under way, one queued for the connection.
SPECIFICATION FairSpec
CONSTANTS
    Jids = {"contact"}
    StorageAnswers = {"payload"}
    MaxIds = 2
    MaxQueue = 1
    Careless = {}
INVARIANTS
    AwaitedInv
    RepliesAccounted
    RegistrationAccounts
PROPERTIES
    CallsSettle
    RegistrationSettles
