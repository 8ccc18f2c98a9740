SPECIFICATION Spec
CONSTANTS
    t1 = t1
    t2 = t2
    k1 = k1
    k2 = k2
    k3 = k3
    None = None
    Tenants = {t1}
    Keys = {k1, k2}
    KeysOf <- SharedKeys
    Bodies <- ShortBodies
    AccountsOf <- GoodAccounts
    LastPeriod = 2
    ApiLimit <- MCApiLimit
    TokenLimit <- MCTokenLimit
    CharRatio = 4
    MaxOutput = 2
    MaxReasoning = 1
    DefaultOutput = 2
    Faults = {"abort", "alerts"}
    Evaluators = {"rollup"}
    RollupMonths = {1}
    SeedPlan <- SeedFree
INVARIANTS
    InductiveInvariant
    ReportedUsageIsActual
    AlertsAreEarned
    HundredAfterEighty
    AlertsFireOnce
    AlertsCaughtUp
PROPERTY AdmittedWithinLimit
SYMMETRY KeySymmetry
