\* The port is unset, so connecting goes through lookups, two of which may be in
\* flight.  The server refuses only what ends the stream.
SPECIFICATION FairSpec
CONSTANTS
    r1 = r1
    r2 = r2
    ServerPort <- UnsetPort
    MaxLookups = 2
    Requests = {r1}
    FeatureConfigs <- DefaultConfig
    SaslStart = {"ok", "failed"}
    Refusals = {"starttls", "auth"}
PROPERTIES
    ConnectSettles
    RequestsSettle
