SPECIFICATION FairSpec
CONSTANTS
    None = None
    Channels = {c1}
    Keys = {k1, k2}
    BadKeys = {k1, None}
    MaxTroubles = 2
INVARIANTS
    RoutesEnabled
PROPERTIES
    Converges
    FailingLeaves
    HealthyReturns
