\* The SASL library may fail to start in both of its ways.
SPECIFICATION Spec
CONSTANTS
    r1 = r1
    r2 = r2
    ServerPort = 5222
    MaxLookups = 1
    Requests = {r1}
    FeatureConfigs <- SomeConfigs
    SaslStart = {"ok", "error", "failed"}
    Refusals <- AllRefusals
INVARIANTS
    SettleInv
    StrayBitContained
PROPERTIES
    ForcedEncryption
