SPECIFICATION Spec
CONSTANTS
    t1 = t1
    t2 = t2
    c1 = c1
    c2 = c2
    s1 = s1
    s2 = s2
    None = None
    Events <- ContestedCustomer
    Tenants = {t1, t2}
    Customers = {c1, c2}
    Subscriptions = {s1, s2}
    Linked <- OtherIsLinked
    MaxDeliveries = 2
    MaxAttempts = 2
    Faults = {"crash"}
INVARIANT MarkerMeansHandled
CHECK_DEADLOCK FALSE
