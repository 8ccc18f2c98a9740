------------------------------ MODULE Billing ------------------------------
(***************************************************************************)
(* What else writes the tenants table while webhooks are applied: POST     *)
(* /checkout/subscription, which links a tenant to a new Stripe customer   *)
(* and awaits Stripe in between, and npm run seed, which puts the demo     *)
(* tenants back on their plans from a process of its own.                  *)
(***************************************************************************)
EXTENDS WebhookSync

CONSTANTS
    Calls,          \* requests to POST /checkout/subscription
    CustomerOf,     \* CustomerOf[c]: the customer Stripe creates for call c, if it does
    SeedPlan        \* SeedPlan[t]: the plan db/seed.js gives t, None if t is no demo tenant

VARIABLE call       \* call[c]: how far it is, and the tenant it awaits Stripe for

billingVars == <<vars, call>>

ASSUME BillingAssumption ==
    /\ CustomerOf \in [Calls -> Customers]
    /\ \A c, d \in Calls : c # d => CustomerOf[c] # CustomerOf[d]
    /\ SeedPlan \in [Tenants -> Plans \cup {None}]

-----------------------------------------------------------------------------
(* POST /checkout/subscription *)

\* A tenant that is linked: ensureCustomer returns at once, and then the handler
\* reads plan.stripe.price_id of a plans row, which has no column stripe. The
\* TypeError is answered with 400 before a session is asked for.
CheckoutLinked(c, t) ==
    /\ thread = None
    /\ call[c].at = "new"
    /\ tenant[t].customer # None
    /\ call' = [call EXCEPT ![c].at = "done"]
    /\ UNCHANGED vars

\* A tenant that is not: the handler awaits customers.create, and the thread is
\* free for other requests and jobs.
StartCheckout(c, t) ==
    /\ thread = None
    /\ call[c].at = "new"
    /\ tenant[t].customer = None
    /\ call' = [call EXCEPT ![c] = [at |-> "waiting", tenant |-> t]]
    /\ UNCHANGED vars

Waiting(c) == call[c].at = "waiting"

\* The customer exists: it becomes the tenant's, whatever the row holds by now.
\* Then the same TypeError.
CustomerCreated(c) ==
    /\ thread = None
    /\ Waiting(c)
    /\ tenant' = [tenant EXCEPT ![call[c].tenant].customer = CustomerOf[c]]
    /\ call' = [call EXCEPT ![c].at = "done"]
    /\ UNCHANGED <<markers, subscriptions, thread, deliveries, handled, queueVars>>

\* Stripe refuses, or cannot be reached: nothing is written.
StripeFails(c) ==
    /\ thread = None
    /\ Waiting(c)
    /\ call' = [call EXCEPT ![c].at = "done"]
    /\ UNCHANGED vars

-----------------------------------------------------------------------------
(* npm run seed *)

\* upsertTenant: the plan of an existing row is overwritten, between any two
\* statements of the server, and its customer and status are left.
Reseed(t) ==
    /\ SeedPlan[t] # None
    /\ tenant' = [tenant EXCEPT ![t].plan = SeedPlan[t]]
    /\ UNCHANGED <<markers, subscriptions, thread, deliveries, handled, queueVars, call>>

-----------------------------------------------------------------------------
(* The system *)

BillingInit == Init /\ call = [c \in Calls |-> [at |-> "new", tenant |-> None]]

\* A restart loses the calls that wait for Stripe.
RestartAll ==
    /\ Restart
    /\ call' = [c \in Calls |->
                    IF Waiting(c) THEN [call[c] EXCEPT !.at = "done"] ELSE call[c]]

\* What the thread, the queue and its timers do by themselves.
Work ==
    \/ EnqueueEvent
    \/ \E j \in JobIds : Skip(j) \/ Upsert(j) \/ ThrowAtStart(j) \/ BackoffEnds(j)
    \/ Entitle
    \/ ThrowBetween

BillingNext ==
    \/ Work /\ UNCHANGED call
    \/ \E e \in Events : (Deliver(e) \/ DeliverAgain(e)) /\ UNCHANGED call
    \/ RestartAll
    \/ \E c \in Calls, t \in Tenants : CheckoutLinked(c, t) \/ StartCheckout(c, t)
    \/ \E c \in Calls : CustomerCreated(c) \/ StripeFails(c)
    \/ \E t \in Tenants : Reseed(t)

BillingSpec == BillingInit /\ [][BillingNext]_billingVars

\* The event loop takes the next thing to do whenever there is one.
FairBillingSpec == BillingSpec /\ WF_billingVars(Work /\ UNCHANGED call)

-----------------------------------------------------------------------------
(* What a plan rests on *)

\* Customer c is t's: it was before, or t's checkout session names it.
Owns(t, c) ==
    \/ Linked[t] = c
    \/ \E e \in Events : e.type = "checkout" /\ e.tenant = t /\ e.customer = c

\* Event e is about t.
MayConcern(e, t) ==
    \/ e.type = "checkout" /\ e.tenant = t
    \/ e.type \in {"updated", "deleted"} /\ e.customer # None /\ Owns(t, e.customer)

\* Stripe makes a customer for one tenant.
OneTenantPerCustomer ==
    \A t, u \in Tenants, c \in Customers : Owns(t, c) /\ Owns(u, c) => t = u

\* Events are of one subscription.
SameSubscription(e, f) == e = f \/ (e.sub # None /\ e.sub = f.sub)

\* A subscription's events are about one tenant, and so is an event without one.
OneTenantPerSubscription ==
    \A e, f \in Events, t, u \in Tenants :
        SameSubscription(e, f) /\ MayConcern(e, t) /\ MayConcern(f, u) => t = u

\* A customer that is created now is nobody's yet, and as no session is asked for
\* after it, no event names it.
NewCustomersAreUnknown ==
    \A c \in Calls :
        /\ \A t \in Tenants : ~Owns(t, CustomerOf[c])
        /\ \A e \in Events : e.customer # CustomerOf[c]

OneTenantEach ==
    /\ OneTenantPerCustomer
    /\ OneTenantPerSubscription
    /\ NewCustomersAreUnknown

\* All that Stripe tells of a subscription names the customer it was bought with, and a
\* tenant buys with one customer.
OneCustomerEach ==
    /\ \A e \in Events : e.type # "other" => e.customer # None
    /\ \A e, f \in Events :
          SameSubscription(e, f) /\ e.type # "other" /\ f.type # "other"
              => e.customer = f.customer
    /\ \A t \in Tenants, c, d \in Customers : Owns(t, c) /\ Owns(t, d) => c = d

\* A call that awaits Stripe does so for a tenant.
CallsAreTyped ==
    /\ call \in [Calls -> [at : {"new", "waiting", "done"}, tenant : Tenants \cup {None}]]
    /\ \A c \in Calls : Waiting(c) => call[c].tenant \in Tenants

\* A tenant is linked to a customer of its own, or to the one created for it.
CustomersHaveOwners ==
    \A t \in Tenants : tenant[t].customer # None =>
        \/ Owns(t, tenant[t].customer)
        \/ \E c \in Calls : /\ tenant[t].customer = CustomerOf[c]
                            /\ call[c].at = "done" /\ call[c].tenant = t

\* A row is a tenant's that one of the subscription's events is about.
RowsHaveOwners ==
    \A i \in DOMAIN subscriptions :
        \E e \in Events : /\ e.sub = subscriptions[i].sub
                          /\ MayConcern(e, subscriptions[i].tenant)

\* Between a handler's two writes the first one stands.
RowIsWritten ==
    thread # None /\ thread.at = "entitle" =>
        \E i \in DOMAIN subscriptions :
            subscriptions[i] = NewRow(EventOf(thread.job), thread.tenant)

\* What a subscription's row entitles its tenant to.
Grants(row) == IF row.status \in {"active", "trialing"} THEN row.plan ELSE "free"

IsGranted(t) ==
    IF \E i \in DOMAIN subscriptions : subscriptions[i].tenant = t
    THEN \E i \in DOMAIN subscriptions :
             subscriptions[i].tenant = t /\ tenant[t].plan = Grants(subscriptions[i])
    ELSE tenant[t].plan = "free"

\* An event about t has got as far as its first write: its row stands, and the event is
\* still to be handled, or is a deletion that no longer finds t by its customer.
HalfApplied(e, t) ==
    /\ ReachesDatabase(e)
    /\ MayConcern(e, t)
    /\ \E i \in DOMAIN subscriptions : subscriptions[i] = NewRow(e, t)
    /\ handled[e] = 0 \/ (e.type = "deleted" /\ tenant[t].customer # e.customer)

\* A tenant is on the plan that one of its subscriptions grants, on the free one if it
\* has none, or where the seed script put it; where the two tables disagree, it is over
\* an event that was cut short between its two writes and is still to be retried or
\* delivered again, but for a deletion whose customer a checkout has replaced. With
\* a single subscription the plan that is enforced and the subscription the payment gate
\* reads (repo.js:33) so agree in both directions: nobody who pays is left on the free
\* plan, and nobody is on the paid one unpaid for.
PlanFollowsSubscription ==
    \A t \in Tenants :
        \/ tenant[t].plan = SeedPlan[t]
        \/ IsGranted(t)
        \/ \E e \in Events : HalfApplied(e, t)

\* The customer that a subscription's events name is the one that its row's tenant is
\* linked to, but for the row whose tenant is about to be written.
RowsAreLinked ==
    \A i \in DOMAIN subscriptions :
        LET row == subscriptions[i]
        IN  \/ row.sub = None
            \/ \A e \in Events : e.sub = row.sub /\ e.type # "other" =>
                                     tenant[row.tenant].customer = e.customer
            \/ /\ thread # None /\ thread.at = "entitle"
               /\ thread.tenant = row.tenant /\ EventOf(thread.job).sub = row.sub

BillingInvariant ==
    /\ InductiveInvariant
    /\ CallsAreTyped
    /\ CustomersHaveOwners
    /\ RowsHaveOwners
    /\ RowIsWritten
    /\ PlanFollowsSubscription

-----------------------------------------------------------------------------
(* Events come to an end *)

\* No event is left between the route and its handler: a marker that was set leads
\* to the event being handled, or to the marker being cleared for Stripe to try
\* again.
EventsSettle ==
    \A e \in Events : e \in markers ~> handled[e] > 0 \/ e \notin markers

\* subscriptionService.js:143: customer.subscription.deleted cancels. An event of
\* a subscription's deletion that is handled leaves it not active.
CancelDowngrades ==
    [][\A e \in Events : e.type = "deleted" /\ e.sub # None /\ handled'[e] > handled[e] =>
          \A i \in DOMAIN subscriptions' :
              subscriptions'[i].sub = e.sub => subscriptions'[i].status = "canceled"
      ]_billingVars

=============================================================================
