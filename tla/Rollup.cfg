SPECIFICATION FairSpec
CONSTANTS
    t1 = t1
    t2 = t2
    None = None
    Tenants = {t1, t2}
    TokenPricing <- MCTokenPricing
    UsageRows <- MCUsageRows
    MaxEvents = 2
    LastPeriod = 2
    MaxManual = 1
    MaxStops = 1
INVARIANTS
    InductiveInvariant
    RollupIsPast
    CostBounds
PROPERTIES
    RollupsOnlyGrow
    RollupCatchesUp
