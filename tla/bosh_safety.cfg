\* Five pieces written, up to three requests or answers that fail, four answers to lone requests.
SPECIFICATION FairSpec
CONSTANTS
    KeyNum = 3
    MaxWrites = 5
    MaxPolls = 4
    MaxErrors = 3
CHECK_DEADLOCK FALSE
INVARIANTS
    DeliveryInv
    ServerServed
PROPERTIES
    ImplementsChannel
    Delivered
