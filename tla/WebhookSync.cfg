SPECIFICATION FairBillingSpec
CONSTANTS
    t1 = t1
    t2 = t2
    c1 = c1
    c2 = c2
    s1 = s1
    s2 = s2
    x1 = x1
    x2 = x2
    call1 = call1
    call2 = call2
    None = None
    Events <- TwoTenants
    Tenants = {t1, t2}
    Customers = {c1, c2, x1}
    Subscriptions = {s1, s2}
    Linked <- OtherIsLinked
    Calls = {call1}
    CustomerOf <- NewCustomers
    SeedPlan <- OtherIsSeeded
    MaxDeliveries = 2
    MaxAttempts = 2
    Faults = {"throw"}
INVARIANTS
    MarkerMeansHandled
    PlanFollowsSubscription
    BillingInvariant
PROPERTY EventsSettle
CHECK_DEADLOCK FALSE
