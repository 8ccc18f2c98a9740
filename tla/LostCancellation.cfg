SPECIFICATION BillingSpec
CONSTANTS
    t1 = t1
    t2 = t2
    c1 = c1
    c2 = c2
    s1 = s1
    s2 = s2
    x1 = x1
    x2 = x2
    call1 = call1
    call2 = call2
    None = None
    Events <- SubscribeAndCancel
    Tenants = {t1, t2}
    Customers = {c1, c2, x1, x2}
    Subscriptions = {s1, s2}
    Linked <- NotLinked
    Calls = {call1}
    CustomerOf <- NewCustomers
    SeedPlan <- DemoPlans
    MaxDeliveries = 2
    MaxAttempts = 2
    Faults = {}
PROPERTY CancelDowngrades
CHECK_DEADLOCK FALSE
