SPECIFICATION FairSpec
CONSTANTS
    j1 = j1
    j2 = j2
    j3 = j3
    JobIds = {j1, j2, j3}
    Names <- MCNames
    Registered <- MCRegistered
    MaxAttempts = 3
    None = None
INVARIANTS
    TypeOK
    StatsBalance
    AttemptsAreUsedUp
    RetriesAreCounted
PROPERTIES
    SettledForGood
    JobsMoveForward
    EveryJobSettles
CHECK_DEADLOCK FALSE
