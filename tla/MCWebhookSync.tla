--------------------------- MODULE MCWebhookSync ---------------------------
(* Constants for model-checking WebhookSync. *)
EXTENDS WebhookContract, TLC

CONSTANTS t1, t2, c1, c2, s1, s2

Checkout(id, t, c, s) ==
    [id |-> id, type |-> "checkout", mode |-> "subscription", payment |-> "paid",
     tenant |-> t, customer |-> c, sub |-> s, plan |-> "pro", status |-> "active"]
Updated(id, c, s, status) ==
    [Checkout(id, None, c, s) EXCEPT !.type = "updated", !.plan = None, !.status = status]
Deleted(id, c, s) ==
    [Updated(id, c, s, "canceled") EXCEPT !.type = "deleted"]

\* A tenant subscribes and falls behind with a payment; another session of its names no
\* subscription's id and the customer another tenant is linked to.
ContestedCustomer ==
    {Checkout("checkout", t1, c1, s1), Updated("past_due", c1, s1, "unpaid"),
     Checkout("again", t1, c2, None)}

\* A tenant subscribes and falls behind with a payment; another one, linked before, is
\* told of the end of its subscription.
TwoTenants ==
    {Checkout("checkout", t1, c1, s1), Updated("past_due", c1, s1, "unpaid"),
     Deleted("deleted", c2, s2)}

\* A one-off payment that has not been made, and a subscription's session with a
\* failed payment.
UnpaidSessions ==
    {[Checkout("one-off", t1, c1, s1) EXCEPT !.mode = "payment", !.payment = "unpaid"],
     [Checkout("subscription", t1, c1, s2) EXCEPT !.payment = "unpaid"]}

NotLinked == [t \in Tenants |-> None]
OtherIsLinked == [t \in Tenants |-> IF t = t1 THEN None ELSE c2]

=============================================================================
