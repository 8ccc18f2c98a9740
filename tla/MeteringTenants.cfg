SPECIFICATION Spec
CONSTANTS
    t1 = t1
    t2 = t2
    k1 = k1
    k2 = k2
    k3 = k3
    None = None
    Tenants = {t1, t2}
    Keys = {k1, k2}
    KeysOf <- SharedKeys
    Bodies <- MCBodies
    AccountsOf <- MixedAccounts
    LastPeriod = 1
    ApiLimit <- MCApiLimit
    TokenLimit <- MCTokenLimit
    CharRatio = 4
    MaxOutput = 2
    MaxReasoning = 1
    DefaultOutput = 2
    Faults = {"abort", "alerts"}
    Evaluators = {}
    RollupMonths = {1}
    SeedPlan <- NoSeed
INVARIANTS
    TypeOK
    StoredResponseIsCharged
    NoResponseKeyClash
SYMMETRY KeySymmetry
