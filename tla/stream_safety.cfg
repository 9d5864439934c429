\* Reliable start of the SASL library, every refusal, slow and fast closes.
SPECIFICATION Spec
CONSTANTS
    r1 = r1
    r2 = r2
    ServerPort = 5222
    MaxLookups = 1
    Requests <- TwoRequests
    FeatureConfigs <- SomeConfigs
    SaslStart = {"ok", "error"}
    Refusals <- AllRefusals
SYMMETRY RequestSymmetry
INVARIANTS
    CleanSlate
    TracksMatchWire
    OneStepAtATime
    UsedMeansEffective
    ReportDiscipline
    NoGhostPresence
PROPERTIES
    ForcedInEffect
    ImplementsSession
