----------------------------- MODULE MCBilling -----------------------------
(* Constants for model-checking Billing, with the events of MCWebhookSync. *)
EXTENDS MCWebhookSync, Billing

CONSTANTS x1, x2, call1, call2

\* Customers that no event names, as Stripe has only just created them.
NewCustomers == [c \in Calls |-> IF c = call1 THEN x1 ELSE x2]

\* db/seed.js: t1 is tenant-free and t2 is tenant-pro.
DemoPlans == [t \in Tenants |-> IF t = t1 THEN "free" ELSE "pro"]

\* Only the second tenant is a demo tenant, tenant-pro.
OtherIsSeeded == [t \in Tenants |-> IF t = t1 THEN None ELSE "pro"]

\* Neither tenant is seeded, as outside a demo.
NotSeeded == [t \in Tenants |-> None]

\* A tenant subscribes, and cancels.
SubscribeAndCancel == {Checkout("checkout", t1, c1, s1), Deleted("deleted", c1, s1)}

\* What the proofs assume of events holds of these: only the contested customer is more
\* than one tenant's.
ASSUME MCBillingAssumption ==
    /\ Events # ContestedCustomer => OneTenantEach
    /\ Events = SubscribeAndCancel => OneCustomerEach

=============================================================================
