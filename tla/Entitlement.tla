----------------------------- MODULE Entitlement -----------------------------
(***************************************************************************)
(* What the webhook promises a tenant: each event of Stripe's moves the    *)
(* plan of one tenant, the one it concerns, and does so once, all at once, *)
(* however often it is delivered and whatever fails on the way.            *)
(***************************************************************************)

CONSTANTS Events, Tenants, Linked, None

VARIABLES
    plan,       \* plan[t]: the plan tenant t is entitled to
    customer,   \* customer[t]: the Stripe customer t is linked to, or None
    applied     \* the events that have had their effect

vars == <<plan, customer, applied>>

Init ==
    /\ plan = [t \in Tenants |-> "free"]
    /\ customer = Linked
    /\ applied = {}

\* An event that means the subscription is paid for.
Entitles(e) ==
    \/ e.type = "checkout"
    \/ e.type = "updated" /\ e.status \in {"active", "trialing"}

PlanBought(e) == IF e.plan = None THEN "pro" ELSE e.plan

\* A session that has not been paid entitles nobody.
NotPaid(e) ==
    /\ e.type = "checkout"
    /\ e.mode = "subscription"
    /\ e.payment \notin {"paid", "no_payment_required"}

Concerns(e, t) ==
    IF e.type = "checkout" THEN t = e.tenant
    ELSE e.customer # None /\ customer[t] = e.customer

Apply(e, t) ==
    /\ e \notin applied
    /\ e.type # "other" /\ ~NotPaid(e)
    /\ Concerns(e, t)
    /\ plan' = [plan EXCEPT ![t] = IF Entitles(e) THEN PlanBought(e) ELSE "free"]
    /\ customer' = [customer EXCEPT ![t] =
                        IF e.type = "checkout" /\ @ = None THEN e.customer ELSE @]
    /\ applied' = applied \cup {e}

Ignore(e) ==
    /\ e \notin applied
    /\ \/ e.type = "other"
       \/ NotPaid(e)
       \/ e.type = "deleted" /\ \A t \in Tenants : ~Concerns(e, t)
    /\ applied' = applied \cup {e}
    /\ UNCHANGED <<plan, customer>>

Next == \E e \in Events : Ignore(e) \/ \E t \in Tenants : Apply(e, t)

Spec == Init /\ [][Next]_vars

=============================================================================
