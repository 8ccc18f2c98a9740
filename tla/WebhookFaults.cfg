SPECIFICATION BillingSpec
CONSTANTS
    t1 = t1
    t2 = t2
    c1 = c1
    c2 = c2
    s1 = s1
    s2 = s2
    x1 = x1
    x2 = x2
    call1 = call1
    call2 = call2
    None = None
    Events <- ContestedCustomer
    Tenants = {t1, t2}
    Customers = {c1, c2}
    Subscriptions = {s1, s2}
    Linked <- OtherIsLinked
    Calls = {}
    CustomerOf <- NewCustomers
    SeedPlan <- NotSeeded
    MaxDeliveries = 2
    MaxAttempts = 2
    Faults = {"throw", "crash", "clear"}
INVARIANTS
    TypeOK
    InductiveInvariant
    OneLiveJobPerEvent
    LiveJobHasMarker
    HandledAtMostOnce
PROPERTY ImplementsContract
CHECK_DEADLOCK FALSE
