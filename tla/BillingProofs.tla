----------------------------- MODULE BillingProofs -----------------------------
(***************************************************************************)
(* Proofs about Billing: the webhook keeps its invariant beside checkouts  *)
(* and the seed script, and what the two tables say of a paid plan agrees. *)
(***************************************************************************)
EXTENDS Billing, WebhookSyncProofs

-----------------------------------------------------------------------------
(* The webhook's invariant, beside what else writes tenants *)

\* A write to tenants that happens between handlers, or leaves the customers, is no
\* matter to the webhook.
LEMMA TenantsChange ==
    ASSUME InductiveInvariant,
           UNCHANGED <<markers, subscriptions, thread, deliveries, handled, queueVars>>,
           tenant' \in [Tenants -> Tenant],
           thread = None \/ \A t \in Tenants : tenant'[t].customer = tenant[t].customer
    PROVE  InductiveInvariant'
<1>1. TypeOK'
  BY DEF InductiveInvariant, TypeOK, Queue!TypeOK, queueVars
<1>2. Placed'
  <2> SUFFICES ASSUME NEW e \in Events PROVE PlacedAt(e)'
    BY PlacedByEvent
  <2>1. PlacedAt(e)
    BY PlacedByEvent DEF InductiveInvariant, Placed
  <2>2. LiveJobs(e)' = LiveJobs(e) /\ BeingEnqueued(e)' = BeingEnqueued(e)
    BY DEF queueVars, LiveJobs, Queue!Settled, BeingEnqueued
  <2> QED
    BY <2>1, <2>2 DEF PlacedAt
<1>3. HalfDone'
  <2>1. CASE thread = None
    BY <2>1 DEF HalfDone
  <2>2. CASE \A t \in Tenants : tenant'[t].customer = tenant[t].customer
    BY <2>2 DEF InductiveInvariant, HalfDone, TenantsOf, IsSkipped, NotPaid, Queue!In,
                queueVars
  <2> QED
    BY <2>1, <2>2
<1>4. OneRowPerSubscription'
  BY DEF InductiveInvariant, OneRowPerSubscription
<1> QED
  BY <1>1, <1>2, <1>3, <1>4 DEF InductiveInvariant, Placed

\* What happens is the webhook's, or one of the two other writes to tenants.
LEMMA WebhookOrOther ==
    ASSUME [BillingNext]_billingVars
    PROVE  \/ [Next]_vars
           \/ \E c \in Calls : CustomerCreated(c)
           \/ \E t \in Tenants : Reseed(t)
  BY DEF BillingNext, billingVars, Work, Next, RestartAll, CheckoutLinked, StartCheckout,
         StripeFails

LEMMA CustomerType ==
    ASSUME TypeOK, CallsAreTyped, NEW c \in Calls, CustomerCreated(c)
    PROVE  /\ call[c].tenant \in Tenants
           /\ tenant' \in [Tenants -> Tenant]
           /\ tenant'[call[c].tenant].customer = CustomerOf[c]
           /\ tenant'[call[c].tenant].plan = tenant[call[c].tenant].plan
           /\ \A t \in Tenants \ {call[c].tenant} : tenant'[t] = tenant[t]
<1>1. call[c].tenant \in Tenants /\ CustomerOf[c] \in Customers
  BY BillingAssumption DEF CustomerCreated, CallsAreTyped
<1>2. tenant \in [Tenants -> Tenant] /\ tenant[call[c].tenant] \in Tenant
  BY <1>1 DEF TypeOK
<1>3. tenant' = [tenant EXCEPT ![call[c].tenant] = [@ EXCEPT !.customer = CustomerOf[c]]]
  BY DEF CustomerCreated
<1>4. [tenant[call[c].tenant] EXCEPT !.customer = CustomerOf[c]] \in Tenant
  BY <1>1, <1>2 DEF Tenant
<1>5. /\ [tenant[call[c].tenant] EXCEPT !.customer = CustomerOf[c]].customer = CustomerOf[c]
      /\ [tenant[call[c].tenant] EXCEPT !.customer = CustomerOf[c]].plan
             = tenant[call[c].tenant].plan
  BY <1>2 DEF Tenant
<1> QED
  BY <1>1, <1>2, <1>3, <1>4, <1>5

LEMMA ReseedType ==
    ASSUME TypeOK, NEW t \in Tenants, Reseed(t)
    PROVE  /\ tenant' \in [Tenants -> Tenant]
           /\ tenant'[t].plan = SeedPlan[t]
           /\ \A u \in Tenants \ {t} : tenant'[u] = tenant[u]
           /\ \A u \in Tenants : tenant'[u].customer = tenant[u].customer
<1>1. SeedPlan[t] \in Plans
  BY BillingAssumption DEF Reseed
<1>2. tenant \in [Tenants -> Tenant] /\ tenant[t] \in Tenant
  BY DEF TypeOK
<1>3. tenant' = [tenant EXCEPT ![t] = [@ EXCEPT !.plan = SeedPlan[t]]]
  BY DEF Reseed
<1>4. LET new == [tenant[t] EXCEPT !.plan = SeedPlan[t]]
      IN  new \in Tenant /\ new.plan = SeedPlan[t] /\ new.customer = tenant[t].customer
  BY <1>1, <1>2 DEF Tenant
<1> QED
  BY <1>2, <1>3, <1>4

\* Calls keep their types: only a call of some tenant's begins to wait.
LEMMA NextCalls ==
    ASSUME CallsAreTyped, [BillingNext]_billingVars PROVE CallsAreTyped'
<1> DEFINE CallType == [at : {"new", "waiting", "done"}, tenant : Tenants \cup {None}]
<1>c. call \in [Calls -> CallType]
  BY DEF CallsAreTyped
<1>1. CASE UNCHANGED call
  BY <1>1 DEF CallsAreTyped, Waiting
<1>2. ASSUME NEW c \in Calls, call' = [call EXCEPT ![c].at = "done"]
      PROVE  CallsAreTyped'
  <2>1. [call[c] EXCEPT !.at = "done"] \in CallType
    BY <1>c
  <2>2. call'[c].at = "done"
    BY <1>c, <1>2
  <2> QED
    BY <1>c, <1>2, <2>1, <2>2 DEF CallsAreTyped, Waiting
<1>3. ASSUME NEW c \in Calls, NEW t \in Tenants, StartCheckout(c, t)
      PROVE  CallsAreTyped'
  BY <1>c, <1>3 DEF StartCheckout, CallsAreTyped, Waiting
<1>4. CASE RestartAll
  <2>1. ASSUME NEW c \in Calls
        PROVE  call'[c] \in CallType /\ (Waiting(c)' => call'[c].tenant \in Tenants)
    <3>1. [call[c] EXCEPT !.at = "done"] \in CallType
          /\ [call[c] EXCEPT !.at = "done"].at = "done"
      BY <1>c
    <3>2. call'[c] = IF Waiting(c) THEN [call[c] EXCEPT !.at = "done"] ELSE call[c]
      BY <1>4 DEF RestartAll
    <3> QED
      BY <1>c, <3>1, <3>2 DEF Waiting, CallsAreTyped
  <2>2. call' = [c \in Calls |-> call'[c]]
    BY <1>4 DEF RestartAll
  <2> QED
    BY <2>1, <2>2 DEF CallsAreTyped
<1> QED
  BY <1>1, <1>2, <1>3, <1>4
  DEF BillingNext, billingVars, CheckoutLinked, CustomerCreated, StripeFails, Reseed

LEMMA NextWebhook ==
    ASSUME InductiveInvariant, CallsAreTyped, [BillingNext]_billingVars
    PROVE  InductiveInvariant'
<1>1. TypeOK
  BY DEF InductiveInvariant
<1>2. ASSUME NEW c \in Calls, CustomerCreated(c)
      PROVE  InductiveInvariant'
  BY <1>1, <1>2, CustomerType, TenantsChange DEF CustomerCreated
<1>3. ASSUME NEW t \in Tenants, Reseed(t)
      PROVE  InductiveInvariant'
  BY <1>1, <1>3, ReseedType, TenantsChange DEF Reseed
<1> QED
  BY <1>2, <1>3, WebhookOrOther, NextInductive

LEMMA BillingInitInvariant == BillingInit => InductiveInvariant /\ CallsAreTyped
  BY InitInductive DEF BillingInit, CallsAreTyped, Waiting

\* The webhook's invariant holds while checkouts and the seed script write tenants.
THEOREM WebhookInvariantHolds == BillingSpec => [](InductiveInvariant /\ CallsAreTyped)
<1>1. InductiveInvariant /\ CallsAreTyped /\ [BillingNext]_billingVars
          => (InductiveInvariant /\ CallsAreTyped)'
  BY NextWebhook, NextCalls
<1> QED
  BY <1>1, BillingInitInvariant, PTL DEF BillingSpec


\* So do the properties it was made for: types, one live job per event, whose marker
\* stands, and one handling per event.
THEOREM WebhookIsSafe ==
    BillingSpec => [](/\ TypeOK
                      /\ OneLiveJobPerEvent
                      /\ LiveJobHasMarker
                      /\ HandledAtMostOnce)
<1>1. InductiveInvariant => /\ TypeOK
                            /\ OneLiveJobPerEvent
                            /\ LiveJobHasMarker
                            /\ HandledAtMostOnce
  BY DEF InductiveInvariant
<1> QED
  BY <1>1, WebhookInvariantHolds, PTL

\* No event is dropped while the process lives, whatever checkouts and seeds do.
THEOREM NoEventIsDroppedHere ==
    ASSUME "crash" \notin Faults, "clear" \notin Faults
    PROVE  BillingSpec => []MarkerMeansHandled
<1>1. BillingInit => MarkerMeansHandled
  BY DEF BillingInit, Init, MarkerMeansHandled
<1>2. InductiveInvariant /\ MarkerMeansHandled /\ [BillingNext]_billingVars
          => MarkerMeansHandled'
  <2> SUFFICES ASSUME InductiveInvariant, MarkerMeansHandled, [BillingNext]_billingVars
               PROVE  MarkerMeansHandled'
    OBVIOUS
  <2>1. CASE [Next]_vars
    BY <2>1, NextKeeps
  <2>2. CASE UNCHANGED <<markers, thread, handled, queueVars>>
    BY <2>2 DEF MarkerMeansHandled, LiveJobs, Queue!Settled, BeingEnqueued, queueVars
  <2> QED
    BY <2>1, <2>2, WebhookOrOther DEF CustomerCreated, Reseed
<1> QED
  BY <1>1, <1>2, WebhookInvariantHolds, PTL DEF BillingSpec

-----------------------------------------------------------------------------
(* What happens to the two tables *)

\* The first write finds the tenant, and the event is about it: the customer by which
\* it was found is not one created here.
LEMMA FoundIsConcerned ==
    ASSUME NewCustomersAreUnknown, TypeOK, CustomersHaveOwners,
           NEW e \in Events, ~IsSkipped(e), NEW t \in TenantsOf(e)
    PROVE  MayConcern(e, t)
<1>1. e \in Event /\ e.type # "other"
  BY WebhookAssumption DEF IsSkipped
<1>2. CASE e.type = "checkout"
  BY <1>2 DEF TenantsOf, MayConcern
<1>3. CASE e.type # "checkout"
  <2>1. e.customer # None /\ tenant[t].customer = e.customer /\ t \in Tenants
    BY <1>3 DEF TenantsOf
  <2>2. Owns(t, e.customer)
    BY <2>1 DEF CustomersHaveOwners, NewCustomersAreUnknown
  <2> QED
    BY <1>1, <1>3, <2>1, <2>2 DEF MayConcern, Event
<1> QED
  BY <1>2, <1>3

\* No two tenants are linked to one customer: UNIQUE never strikes.
LEMMA CustomersAreUnique ==
    ASSUME OneTenantPerCustomer, NewCustomersAreUnknown, TypeOK, CustomersHaveOwners,
           NEW t \in Tenants, NEW u \in Tenants,
           tenant[t].customer # None, tenant[t].customer = tenant[u].customer
    PROVE  t = u
<1>1. tenant[t].customer \in Customers
  BY DEF TypeOK, Tenant
<1>2. /\ \/ Owns(t, tenant[t].customer)
         \/ \E c \in Calls : tenant[t].customer = CustomerOf[c] /\ call[c].tenant = t
      /\ \/ Owns(u, tenant[t].customer)
         \/ \E c \in Calls : tenant[t].customer = CustomerOf[c] /\ call[c].tenant = u
  BY DEF CustomersHaveOwners
<1>3. \A c, d \in Calls : CustomerOf[c] = CustomerOf[d] => c = d
  BY BillingAssumption
<1> QED
  BY <1>1, <1>2, <1>3 DEF OneTenantPerCustomer, NewCustomersAreUnknown


\* What an event makes of its tenant: a customer of the tenant's, and the plan that
\* the event's row grants.
LEMMA NewTenantFields ==
    ASSUME TypeOK, NEW e \in Events, e.type # "other", NEW t \in Tenants
    PROVE  /\ NewTenant(e, t).customer =
                  IF e.type = "checkout" /\ tenant[t].customer = None THEN e.customer
                  ELSE tenant[t].customer
           /\ NewTenant(e, t).plan = Grants(NewRow(e, t))
<1>1. e \in Event /\ tenant[t] \in Tenant
  BY WebhookAssumption DEF TypeOK
<1>2. e.type \in {"checkout", "updated", "deleted"}
  BY <1>1 DEF Event
<1>3. CASE e.type = "checkout"
  BY <1>3 DEF NewTenant, NewRow, Grants
<1>4. CASE e.type = "updated"
  <2>1. NormalizeStatus(e.status) \in {"canceled", "past_due", "incomplete"}
            <=> NormalizeStatus(e.status) \notin {"active", "trialing"}
    BY StatusType DEF Statuses
  <2> QED
    BY <1>1, <1>4, <2>1 DEF NewTenant, NewRow, Tenant, Grants
<1>5. CASE e.type = "deleted"
  BY <1>1, <1>5 DEF NewTenant, NewRow, Tenant, Grants
<1> QED
  BY <1>2, <1>3, <1>4, <1>5

\* The thread is between the two writes of a handler.
Writing == thread # None /\ thread.at = "entitle"

\* Which event it applies there, and to whom.
LEMMA WritingType ==
    ASSUME TypeOK, HalfDone, Writing
    PROVE  /\ EventOf(thread.job) \in Events
           /\ EventOf(thread.job).type # "other"
           /\ ~IsSkipped(EventOf(thread.job))
           /\ thread.tenant \in Tenants
           /\ thread.tenant \in TenantsOf(EventOf(thread.job))
  BY ThreadType, EventOfJob DEF Writing, HalfDone, IsSkipped

\* The second write never meets the UNIQUE constraint.
LEMMA NoClash ==
    ASSUME OneTenantPerCustomer, NewCustomersAreUnknown, TypeOK, HalfDone,
           CustomersHaveOwners, Writing
    PROVE  ~CustomerClash(EventOf(thread.job), thread.tenant)
<1>0. PICK e \in Events, t \in Tenants : e = EventOf(thread.job) /\ t = thread.tenant
  BY WritingType
<1>1. e.type # "other" /\ t \in TenantsOf(e)
  BY <1>0, WritingType
<1> SUFFICES ASSUME NEW u \in Tenants \ {t}, tenant[u].customer = NewTenant(e, t).customer,
                    NewTenant(e, t).customer # None
             PROVE  FALSE
  BY <1>0 DEF CustomerClash
<1>2. CASE NewTenant(e, t).customer = tenant[t].customer
  BY <1>2, CustomersAreUnique
<1>3. CASE e.type = "checkout" /\ NewTenant(e, t).customer = e.customer
  <2>1. Owns(t, e.customer)
    BY <1>1, <1>3 DEF TenantsOf, Owns
  <2>2. Owns(u, e.customer)
    BY <1>3 DEF CustomersHaveOwners, NewCustomersAreUnknown
  <2>3. e.customer \in Customers
    BY <1>3 DEF TypeOK, Tenant
  <2> QED
    BY <2>1, <2>2, <2>3 DEF OneTenantPerCustomer
<1> QED
  BY <1>1, <1>2, <1>3, NewTenantFields

\* A call that is done stays as it is.
LEMMA DoneCalls ==
    ASSUME CallsAreTyped, [BillingNext]_billingVars,
           NEW c \in Calls, call[c].at = "done"
    PROVE  call'[c] = call[c]
<1>1. call \in [Calls -> [at : {"new", "waiting", "done"}, tenant : Tenants \cup {None}]]
  BY DEF CallsAreTyped
<1> QED
  BY <1>1 DEF BillingNext, billingVars, RestartAll, CheckoutLinked, StartCheckout,
              CustomerCreated, StripeFails, Reseed, Waiting

\* Whoever links a tenant does so to a customer of its own.
LEMMA NextOwners ==
    ASSUME InductiveInvariant, CallsAreTyped, CustomersHaveOwners,
           [BillingNext]_billingVars
    PROVE  CustomersHaveOwners'
<1>t. TypeOK /\ HalfDone
  BY DEF InductiveInvariant
<1> SUFFICES ASSUME NEW t \in Tenants, tenant'[t].customer # None
             PROVE  \/ Owns(t, tenant'[t].customer)
                    \/ \E c \in Calls : /\ tenant'[t].customer = CustomerOf[c]
                                        /\ call'[c].at = "done" /\ call'[c].tenant = t
  BY DEF CustomersHaveOwners, Owns
<1>1. CASE tenant'[t].customer = tenant[t].customer
  BY <1>1, DoneCalls DEF CustomersHaveOwners
<1>2. CASE Entitle
  <2>1. Writing
    BY <1>2 DEF Entitle, Writing
  <2>2. PICK e \in Events, u \in Tenants : e = EventOf(thread.job) /\ u = thread.tenant
    BY <1>t, <2>1, WritingType
  <2>3. e.type # "other" /\ u \in TenantsOf(e)
    BY <1>t, <2>1, <2>2, WritingType
  <2>4. tenant' = [tenant EXCEPT ![u] = NewTenant(e, u)]
    BY <1>2, <2>2 DEF Entitle
  <2>5. CASE t = u
    <3>1. tenant'[t].customer = IF e.type = "checkout" /\ tenant[t].customer = None
                                THEN e.customer ELSE tenant[t].customer
      BY <1>t, <2>3, <2>4, <2>5, NewTenantFields DEF TypeOK
    <3>2. e.type = "checkout" => e.tenant = t
      BY <2>3, <2>5 DEF TenantsOf
    <3> QED
      BY <1>1, <3>1, <3>2 DEF Owns
  <2>6. CASE t # u
    BY <1>1, <1>t, <2>4, <2>6 DEF TypeOK
  <2> QED
    BY <2>5, <2>6
<1>3. ASSUME NEW c \in Calls, CustomerCreated(c), tenant'[t].customer # tenant[t].customer
      PROVE  /\ tenant'[t].customer = CustomerOf[c]
             /\ call'[c].at = "done" /\ call'[c].tenant = t
  <2>1. t = call[c].tenant /\ tenant'[t].customer = CustomerOf[c]
    BY <1>t, <1>3, CustomerType
  <2>2. call'[c].at = "done" /\ call'[c].tenant = call[c].tenant
    BY <1>3 DEF CustomerCreated, CallsAreTyped
  <2> QED
    BY <2>1, <2>2
<1>4. ASSUME NEW u \in Tenants, Reseed(u)
      PROVE  tenant'[t].customer = tenant[t].customer
  BY <1>t, <1>4, ReseedType
<1>5. [Next]_vars => Entitle \/ UNCHANGED tenant
  BY DEF Next, Deliver, DeliverAgain, EnqueueEvent, Skip, Upsert, ThrowAtStart,
         ThrowBetween, BackoffEnds, Restart, vars
<1> QED
  BY <1>1, <1>2, <1>3, <1>4, <1>5, WebhookOrOther

-----------------------------------------------------------------------------
(* The first write *)

\* The row's subscription has the row, under the tenant it had if it was there; every
\* other subscription keeps its row.
LEMMA UpsertEffect ==
    ASSUME subscriptions \in Seq(Row), NEW row \in Row, UpsertSubscription(row)
    PROVE  /\ \A i \in DOMAIN subscriptions :
                 /\ i \in DOMAIN subscriptions'
                 /\ row.sub = None \/ subscriptions[i].sub # row.sub =>
                        subscriptions'[i] = subscriptions[i]
           /\ \E i \in DOMAIN subscriptions' :
                 \/ subscriptions'[i] = row
                 \/ /\ i \in DOMAIN subscriptions
                    /\ row.sub # None /\ subscriptions[i].sub = row.sub
                    /\ subscriptions[i].tenant = row.tenant => subscriptions'[i] = row
           /\ \A i \in DOMAIN subscriptions' :
                 \/ subscriptions'[i] = row
                 \/ /\ i \in DOMAIN subscriptions
                    /\ subscriptions'[i].sub = subscriptions[i].sub
                    /\ subscriptions'[i].tenant = subscriptions[i].tenant
<1>1. CASE IsKnown(row)
  <2>1. subscriptions' = [i \in DOMAIN subscriptions |->
             IF subscriptions[i].sub = row.sub
             THEN [row EXCEPT !.tenant = subscriptions[i].tenant]
             ELSE subscriptions[i]]
    BY <1>1 DEF UpsertSubscription
  <2>2. \A t \in Tenants : LET new == [row EXCEPT !.tenant = t]
                           IN  /\ new.sub = row.sub /\ new.tenant = t
                               /\ row.tenant = t => new = row
    BY DEF Row
  <2>3. \A i \in DOMAIN subscriptions : subscriptions[i] \in Row
    OBVIOUS
  <2>4. \A i \in DOMAIN subscriptions : subscriptions[i].tenant \in Tenants
    BY <2>3 DEF Row
  <2>5. \A i \in DOMAIN subscriptions : subscriptions[i].sub = row.sub =>
            /\ subscriptions'[i].sub = row.sub
            /\ subscriptions'[i].tenant = subscriptions[i].tenant
            /\ row.tenant = subscriptions[i].tenant => subscriptions'[i] = row
    BY <2>1, <2>2, <2>4
  <2>6. \A i \in DOMAIN subscriptions : subscriptions[i].sub # row.sub =>
            subscriptions'[i] = subscriptions[i]
    BY <2>1
  <2>7. DOMAIN subscriptions' = DOMAIN subscriptions
    BY <2>1
  <2> QED
    BY <1>1, <2>5, <2>6, <2>7 DEF IsKnown
<1>2. CASE ~IsKnown(row)
  <2>1. subscriptions' = Append(subscriptions, row)
    BY <1>2 DEF UpsertSubscription
  <2>2. /\ subscriptions'[Len(subscriptions) + 1] = row
        /\ \A i \in DOMAIN subscriptions : subscriptions'[i] = subscriptions[i]
        /\ DOMAIN subscriptions' = DOMAIN subscriptions \cup {Len(subscriptions) + 1}
    BY <2>1
  <2> QED
    BY <2>2
<1> QED
  BY <1>1, <1>2

LEMMA RowTenant ==
    ASSUME subscriptions \in Seq(Row), NEW i \in DOMAIN subscriptions
    PROVE  subscriptions[i].tenant \in Tenants
<1>1. subscriptions[i] \in Row
  OBVIOUS
<1> QED
  BY <1>1 DEF Row

\* The event, the tenant and the row of a first write.
LEMMA UpsertCase ==
    ASSUME NewCustomersAreUnknown, InductiveInvariant, CustomersHaveOwners,
           NEW j \in JobIds, Upsert(j)
    PROVE  \E e \in Events, t \in Tenants :
              /\ e = EventOf(j)
              /\ MayConcern(e, t)
              /\ NewRow(e, t) \in Row
              /\ UpsertSubscription(NewRow(e, t))
              /\ thread' = [at |-> "entitle", job |-> j, tenant |-> t]
              /\ thread' # None
<1>t. TypeOK
  BY DEF InductiveInvariant
<1>1. PICK t \in TenantsOf(EventOf(j)) :
          /\ UpsertSubscription(NewRow(EventOf(j), t))
          /\ thread' = [at |-> "entitle", job |-> j, tenant |-> t]
  BY DEF Upsert
<1>2. /\ EventOf(j) \in Events /\ ~IsSkipped(EventOf(j)) /\ EventOf(j).type # "other"
      /\ t \in Tenants
  BY EventOfJob DEF Upsert, IsSkipped, TenantsOf
<1>3. MayConcern(EventOf(j), t)
  BY <1>t, <1>2, FoundIsConcerned
<1>4. NewRow(EventOf(j), t) \in Row
  BY <1>t, <1>2, RowTypes
<1>5. thread' # None
  BY <1>1, <1>2, WebhookNoneAssumption DEF Thread
<1> QED
  BY <1>1, <1>2, <1>3, <1>4, <1>5

LEMMA NewRowFields ==
    ASSUME NEW e, NEW t
    PROVE  NewRow(e, t).sub = e.sub /\ NewRow(e, t).tenant = t
  BY DEF NewRow

\* Only the first write of a handler changes the subscriptions.
LEMMA SubscriptionsStay ==
    ASSUME [BillingNext]_billingVars, ~ \E j \in JobIds : Upsert(j)
    PROVE  UNCHANGED subscriptions
  BY WebhookOrOther
  DEF Next, Deliver, DeliverAgain, EnqueueEvent, Skip, Entitle, ThrowAtStart,
      ThrowBetween, BackoffEnds, Restart, vars, CustomerCreated, Reseed

\* A row stays with a tenant that its subscription's events are about.
LEMMA NextRowOwners ==
    ASSUME NewCustomersAreUnknown, InductiveInvariant, CustomersHaveOwners,
           RowsHaveOwners, [BillingNext]_billingVars
    PROVE  RowsHaveOwners'
<1>1. ASSUME NEW j \in JobIds, Upsert(j)
      PROVE  RowsHaveOwners'
  <2>1. PICK e \in Events, t \in Tenants :
            /\ MayConcern(e, t)
            /\ NewRow(e, t) \in Row
            /\ UpsertSubscription(NewRow(e, t))
    BY <1>1, UpsertCase
  <2>2. \A i \in DOMAIN subscriptions' :
            \/ subscriptions'[i] = NewRow(e, t)
            \/ /\ i \in DOMAIN subscriptions
               /\ subscriptions'[i].sub = subscriptions[i].sub
               /\ subscriptions'[i].tenant = subscriptions[i].tenant
    BY <2>1, UpsertEffect DEF InductiveInvariant, TypeOK
  <2> SUFFICES ASSUME NEW i \in DOMAIN subscriptions'
               PROVE  \E f \in Events : /\ f.sub = subscriptions'[i].sub
                                        /\ MayConcern(f, subscriptions'[i].tenant)
    BY DEF RowsHaveOwners, MayConcern, Owns
  <2> QED
    BY <2>1, <2>2, NewRowFields DEF RowsHaveOwners
<1>2. CASE UNCHANGED subscriptions
  BY <1>2 DEF RowsHaveOwners, MayConcern, Owns
<1> QED
  BY <1>1, <1>2, SubscriptionsStay

\* The first write is what the second one finds.
LEMMA UpsertWrites ==
    ASSUME OneTenantPerSubscription, NewCustomersAreUnknown,
           InductiveInvariant, CustomersHaveOwners, RowsHaveOwners,
           NEW j \in JobIds, Upsert(j)
    PROVE  RowIsWritten'
<1>1. PICK e \in Events, t \in Tenants :
          /\ e = EventOf(j)
          /\ MayConcern(e, t)
          /\ NewRow(e, t) \in Row
          /\ UpsertSubscription(NewRow(e, t))
          /\ thread' = [at |-> "entitle", job |-> j, tenant |-> t]
  BY UpsertCase
<1>r. PICK row \in Row : row = NewRow(e, t) /\ row.sub = e.sub /\ row.tenant = t
  BY <1>1, NewRowFields
<1>2. PICK i \in DOMAIN subscriptions' :
          \/ subscriptions'[i] = row
          \/ /\ i \in DOMAIN subscriptions
             /\ row.sub # None /\ subscriptions[i].sub = row.sub
             /\ subscriptions[i].tenant = row.tenant => subscriptions'[i] = row
  BY <1>1, <1>r, UpsertEffect DEF InductiveInvariant, TypeOK
<1>3. i \in DOMAIN subscriptions /\ e.sub # None /\ subscriptions[i].sub = e.sub
          => subscriptions[i].tenant = t
  <2> SUFFICES ASSUME i \in DOMAIN subscriptions, e.sub # None, subscriptions[i].sub = e.sub
               PROVE  subscriptions[i].tenant = t
    OBVIOUS
  <2>1. subscriptions[i].tenant \in Tenants
    BY RowTenant DEF InductiveInvariant, TypeOK
  <2> QED
    BY <1>1, <2>1 DEF RowsHaveOwners, OneTenantPerSubscription, SameSubscription
<1>4. subscriptions'[i] = NewRow(e, t)
  BY <1>r, <1>2, <1>3
<1>5. NewRow(EventOf(thread.job), thread.tenant)' = NewRow(e, t)
  BY <1>1 DEF NewRow, PlanOf, EventOf
<1> QED
  BY <1>4, <1>5 DEF RowIsWritten

-----------------------------------------------------------------------------
(* A plan is granted *)

\* No step but these touches either table, ends an event, or begins or ends a handler's
\* second write.
LEMMA TableSteps ==
    ASSUME [BillingNext]_billingVars
    PROVE  \/ \E j \in JobIds : Skip(j) \/ Upsert(j)
           \/ Entitle
           \/ \E c \in Calls : CustomerCreated(c)
           \/ \E t \in Tenants : Reseed(t)
           \/ /\ UNCHANGED <<subscriptions, tenant, handled>>
              /\ UNCHANGED thread \/ ~Writing'
<1>1. ASSUME NEW e \in Events, Deliver(e)
      PROVE  UNCHANGED <<subscriptions, tenant, handled>> /\ ~Writing'
  BY <1>1 DEF Deliver, Writing
<1>2. CASE EnqueueEvent
  BY <1>2 DEF EnqueueEvent, Writing
<1>3. ASSUME ThrowBetween \/ Restart
      PROVE  UNCHANGED <<subscriptions, tenant, handled>> /\ ~Writing'
  BY <1>3 DEF ThrowBetween, Restart, Writing
<1>4. ASSUME \/ \E e \in Events : DeliverAgain(e)
             \/ \E j \in JobIds : ThrowAtStart(j) \/ BackoffEnds(j)
             \/ UNCHANGED vars
      PROVE  UNCHANGED <<subscriptions, tenant, handled, thread>>
  BY <1>4 DEF DeliverAgain, ThrowAtStart, BackoffEnds, vars
<1>5. [Next]_vars =>
          \/ \E e \in Events : Deliver(e) \/ DeliverAgain(e)
          \/ EnqueueEvent
          \/ \E j \in JobIds : Skip(j) \/ Upsert(j) \/ ThrowAtStart(j) \/ BackoffEnds(j)
          \/ Entitle
          \/ ThrowBetween
          \/ Restart
          \/ UNCHANGED vars
  BY DEF Next
<1> QED
  BY <1>1, <1>2, <1>3, <1>4, <1>5, WebhookOrOther

\* A tenant whose rows and plan stay has the plan they grant, if it had it.
LEMMA SameRowsSameGrant ==
    ASSUME NEW t \in Tenants, IsGranted(t),
           tenant'[t].plan = tenant[t].plan,
           \A i \in DOMAIN subscriptions : subscriptions[i].tenant = t =>
               i \in DOMAIN subscriptions' /\ subscriptions'[i] = subscriptions[i],
           \A i \in DOMAIN subscriptions' : subscriptions'[i].tenant = t =>
               i \in DOMAIN subscriptions /\ subscriptions'[i] = subscriptions[i]
    PROVE  IsGranted(t)'
<1>1. CASE \E i \in DOMAIN subscriptions : subscriptions[i].tenant = t
  <2>1. PICK i \in DOMAIN subscriptions :
            subscriptions[i].tenant = t /\ tenant[t].plan = Grants(subscriptions[i])
    BY <1>1 DEF IsGranted
  <2> QED
    BY <2>1 DEF IsGranted, Grants
<1>2. CASE ~ \E i \in DOMAIN subscriptions : subscriptions[i].tenant = t
  BY <1>2 DEF IsGranted
<1> QED
  BY <1>1, <1>2

\* What one tenant's plan rests on.
Follows(t) ==
    \/ tenant[t].plan = SeedPlan[t]
    \/ IsGranted(t)
    \/ \E e \in Events : HalfApplied(e, t)

LEMMA FollowsByTenant ==
    /\ PlanFollowsSubscription <=> \A t \in Tenants : Follows(t)
    /\ PlanFollowsSubscription' <=> \A t \in Tenants : Follows(t)'
  BY DEF PlanFollowsSubscription, Follows

\* The row and the tenant of an event depend on no variable.
LEMMA SameEvent ==
    ASSUME NEW e, NEW t
    PROVE  /\ NewRow(e, t)' = NewRow(e, t)
           /\ MayConcern(e, t)' = MayConcern(e, t)
           /\ ReachesDatabase(e)' = ReachesDatabase(e)
  BY DEF NewRow, PlanOf, NormalizeStatus, MayConcern, Owns, ReachesDatabase, NotPaid

\* A first write leaves every other tenant's rows, as the subscription is its own, and
\* is itself what its tenant's plan waits for.
LEMMA UpsertKeepsPlans ==
    ASSUME OneTenantEach, BillingInvariant, NEW j \in JobIds, Upsert(j)
    PROVE  PlanFollowsSubscription'
<1>t. TypeOK /\ OnePlaceAtATime
  BY DEF BillingInvariant, InductiveInvariant
<1>1. PICK e \in Events, t \in Tenants :
          /\ e = EventOf(j)
          /\ MayConcern(e, t)
          /\ NewRow(e, t) \in Row
          /\ UpsertSubscription(NewRow(e, t))
          /\ thread' = [at |-> "entitle", job |-> j, tenant |-> t] /\ thread' # None
  BY UpsertCase DEF OneTenantEach, BillingInvariant
<1>2. /\ \A i \in DOMAIN subscriptions :
            /\ i \in DOMAIN subscriptions'
            /\ e.sub = None \/ subscriptions[i].sub # e.sub =>
                   subscriptions'[i] = subscriptions[i]
      /\ \A i \in DOMAIN subscriptions' : subscriptions'[i].tenant # t =>
            /\ i \in DOMAIN subscriptions
            /\ subscriptions'[i].tenant = subscriptions[i].tenant
  BY <1>t, <1>1, UpsertEffect, NewRowFields DEF TypeOK
<1>3. UNCHANGED <<tenant, handled>> /\ ~IsSkipped(e) /\ j \in LiveJobs(e)
  BY <1>1 DEF Upsert, Runs, LiveJobs, Queue!In, Queue!Settled
<1> SUFFICES ASSUME NEW u \in Tenants PROVE Follows(u)'
  BY FollowsByTenant
<1>4. CASE u = t
  <2>1. \E i \in DOMAIN subscriptions' : subscriptions'[i] = NewRow(e, t)
    <3>1. RowIsWritten'
      BY UpsertWrites DEF BillingInvariant, OneTenantEach
    <3>2. NewRow(EventOf(thread.job), thread.tenant)' = NewRow(e, t)
      BY <1>1 DEF NewRow, PlanOf, EventOf
    <3> QED
      BY <1>1, <3>1, <3>2 DEF RowIsWritten
  <2>2. ReachesDatabase(e) /\ handled'[e] = 0
    BY <1>t, <1>3 DEF IsSkipped, ReachesDatabase, OnePlaceAtATime
  <2>3. HalfApplied(e, t)'
    BY <1>1, <2>1, <2>2, SameEvent DEF HalfApplied
  <2> QED
    BY <1>4, <2>3 DEF Follows
<1>5. CASE u # t
  <2>1. Follows(u)
    BY FollowsByTenant DEF BillingInvariant
  <2>2. \A i \in DOMAIN subscriptions : subscriptions[i].tenant = u
            => e.sub = None \/ subscriptions[i].sub # e.sub
    BY <1>1, <1>5 DEF BillingInvariant, RowsHaveOwners, OneTenantEach,
                      OneTenantPerSubscription, SameSubscription
  <2>3. IsGranted(u) => IsGranted(u)'
    BY <1>2, <1>3, <1>5, <2>2, SameRowsSameGrant
  <2>4. ASSUME NEW f \in Events, HalfApplied(f, u)
        PROVE  HalfApplied(f, u)'
    <3>1. PICK i \in DOMAIN subscriptions : subscriptions[i] = NewRow(f, u)
      BY <2>4 DEF HalfApplied
    <3>2. i \in DOMAIN subscriptions' /\ subscriptions'[i] = NewRow(f, u)
      BY <1>2, <2>2, <3>1, NewRowFields
    <3> QED
      BY <1>3, <2>4, <3>2, SameEvent DEF HalfApplied
  <2> QED
    BY <1>3, <2>1, <2>3, <2>4 DEF Follows
<1> QED
  BY <1>4, <1>5

\* A second write gives the plan that the first one's row grants.
LEMMA EntitleKeepsPlans ==
    ASSUME OneTenantEach, BillingInvariant, Entitle
    PROVE  PlanFollowsSubscription'
<1>t. TypeOK /\ HalfDone /\ Writing
  BY DEF BillingInvariant, InductiveInvariant, Entitle, Writing
<1>1. PICK e \in Events, t \in Tenants : e = EventOf(thread.job) /\ t = thread.tenant
  BY <1>t, WritingType
<1>2. e.type # "other" /\ MayConcern(e, t)
  BY <1>t, <1>1, WritingType, FoundIsConcerned DEF OneTenantEach, BillingInvariant
<1>3. /\ tenant' = [tenant EXCEPT ![t] = NewTenant(e, t)]
      /\ handled' = [handled EXCEPT ![e] = @ + 1]
      /\ UNCHANGED subscriptions
  BY <1>1 DEF Entitle
<1> SUFFICES ASSUME NEW u \in Tenants PROVE Follows(u)'
  BY FollowsByTenant
<1>4. CASE u = t
  <2>1. PICK i \in DOMAIN subscriptions : subscriptions[i] = NewRow(e, t)
    BY <1>t, <1>1 DEF BillingInvariant, RowIsWritten, Writing
  <2>2. tenant'[t].plan = Grants(subscriptions[i]) /\ subscriptions[i].tenant = t
    BY <1>t, <1>2, <1>3, <2>1, NewTenantFields, NewRowFields DEF TypeOK
  <2>3. IsGranted(t)'
    BY <1>3, <2>2 DEF IsGranted
  <2> QED
    BY <1>4, <2>3 DEF Follows
<1>5. CASE u # t
  <2>1. Follows(u)
    BY FollowsByTenant DEF BillingInvariant
  <2>2. tenant'[u] = tenant[u]
    BY <1>t, <1>3, <1>5 DEF TypeOK
  <2>3. IsGranted(u) => IsGranted(u)'
    BY <1>3, <2>2, SameRowsSameGrant
  <2>4. ASSUME NEW f \in Events, HalfApplied(f, u)
        PROVE  HalfApplied(f, u)'
    <3>1. f # e
      BY <1>2, <1>5, <2>4 DEF HalfApplied, OneTenantEach, OneTenantPerSubscription,
                              SameSubscription
    <3>2. handled'[f] = handled[f]
      BY <1>t, <1>3, <3>1 DEF TypeOK
    <3> QED
      BY <1>3, <2>2, <2>4, <3>2, SameEvent DEF HalfApplied
  <2> QED
    BY <2>1, <2>2, <2>3, <2>4 DEF Follows
<1> QED
  BY <1>4, <1>5

\* What is skipped never got to its first write, or no longer finds its tenant.
LEMMA SkipKeepsPlans ==
    ASSUME BillingInvariant, NEW j \in JobIds, Skip(j)
    PROVE  PlanFollowsSubscription'
<1>t. TypeOK
  BY DEF BillingInvariant, InductiveInvariant
<1>1. PICK e \in Events : e = EventOf(j)
  BY EventOfJob
<1>2. /\ IsSkipped(e)
      /\ handled' = [handled EXCEPT ![e] = @ + 1]
      /\ UNCHANGED <<subscriptions, tenant>>
  BY <1>1 DEF Skip
<1> SUFFICES ASSUME NEW u \in Tenants PROVE Follows(u)'
  BY FollowsByTenant
<1>3. Follows(u)
  BY FollowsByTenant DEF BillingInvariant
<1>4. IsGranted(u)' = IsGranted(u)
  BY <1>2 DEF IsGranted, Grants
<1>5. ASSUME NEW f \in Events, HalfApplied(f, u)
      PROVE  HalfApplied(f, u)'
  <2>1. CASE f = e
    <3>1. e.type = "deleted" /\ TenantsOf(e) = {}
      BY <1>2, <1>5, <2>1 DEF IsSkipped, HalfApplied, ReachesDatabase
    <3>2. e.customer # None
      BY <1>5, <2>1, <3>1 DEF HalfApplied, MayConcern
    <3>3. tenant[u].customer # e.customer
      BY <3>1, <3>2 DEF TenantsOf
    <3> QED
      BY <1>2, <1>5, <2>1, <3>1, <3>3, SameEvent DEF HalfApplied
  <2>2. CASE f # e
    <3>1. handled'[f] = handled[f]
      BY <1>t, <1>2, <2>2 DEF TypeOK
    <3> QED
      BY <1>2, <1>5, <3>1, SameEvent DEF HalfApplied
  <2> QED
    BY <2>1, <2>2
<1> QED
  BY <1>2, <1>3, <1>4, <1>5 DEF Follows

\* A plan that changes is where the seed script puts it; a customer that changes is one
\* no event names.
LEMMA OthersKeepPlans ==
    ASSUME PlanFollowsSubscription, UNCHANGED <<subscriptions, handled>>,
           \A t \in Tenants :
              /\ tenant'[t].plan = tenant[t].plan \/ tenant'[t].plan = SeedPlan[t]
              /\ \/ tenant'[t].customer = tenant[t].customer
                 \/ \A e \in Events : e.customer # tenant'[t].customer
    PROVE  PlanFollowsSubscription'
<1> SUFFICES ASSUME NEW u \in Tenants, tenant'[u].plan = tenant[u].plan PROVE Follows(u)'
  BY FollowsByTenant DEF Follows
<1>1. Follows(u)
  BY FollowsByTenant
<1>2. IsGranted(u)' = IsGranted(u)
  BY DEF IsGranted, Grants
<1>3. ASSUME NEW f \in Events, HalfApplied(f, u)
      PROVE  HalfApplied(f, u)'
  BY <1>3, SameEvent DEF HalfApplied
<1> QED
  BY <1>1, <1>2, <1>3 DEF Follows

LEMMA NextBilling ==
    ASSUME OneTenantEach
    PROVE  BillingInvariant /\ [BillingNext]_billingVars => BillingInvariant'
<1> SUFFICES ASSUME BillingInvariant, [BillingNext]_billingVars
             PROVE  BillingInvariant'
  OBVIOUS
<1>t. /\ InductiveInvariant /\ TypeOK /\ CallsAreTyped /\ CustomersHaveOwners
      /\ RowsHaveOwners /\ RowIsWritten /\ PlanFollowsSubscription
      /\ OneTenantPerCustomer /\ OneTenantPerSubscription /\ NewCustomersAreUnknown
  BY DEF BillingInvariant, InductiveInvariant, OneTenantEach
<1>1. InductiveInvariant' /\ CallsAreTyped' /\ CustomersHaveOwners' /\ RowsHaveOwners'
  BY <1>t, NextWebhook, NextCalls, NextOwners, NextRowOwners
<1>2. RowIsWritten' /\ PlanFollowsSubscription'
  <2>1. ASSUME NEW j \in JobIds, Upsert(j)
        PROVE  RowIsWritten' /\ PlanFollowsSubscription'
    BY <1>t, <2>1, UpsertWrites, UpsertKeepsPlans
  <2>2. CASE Entitle
    BY <2>2, EntitleKeepsPlans DEF Entitle, RowIsWritten
  <2>3. ASSUME NEW j \in JobIds, Skip(j)
        PROVE  RowIsWritten' /\ PlanFollowsSubscription'
    BY <2>3, SkipKeepsPlans DEF Skip, Runs, RowIsWritten
  <2>4. ASSUME NEW c \in Calls, CustomerCreated(c)
        PROVE  RowIsWritten' /\ PlanFollowsSubscription'
    <3>1. thread = None /\ UNCHANGED <<thread, subscriptions, handled>>
      BY <2>4 DEF CustomerCreated
    <3>2. \A t \in Tenants :
              /\ tenant'[t].plan = tenant[t].plan
              /\ \/ tenant'[t].customer = tenant[t].customer
                 \/ \A e \in Events : e.customer # tenant'[t].customer
      BY <1>t, <2>4, CustomerType DEF NewCustomersAreUnknown
    <3> QED
      BY <1>t, <3>1, <3>2, OthersKeepPlans DEF RowIsWritten
  <2>5. ASSUME NEW u \in Tenants, Reseed(u)
        PROVE  RowIsWritten' /\ PlanFollowsSubscription'
    <3>1. UNCHANGED <<thread, subscriptions, handled>>
      BY <2>5 DEF Reseed
    <3>2. \A t \in Tenants :
              /\ tenant'[t].plan = tenant[t].plan \/ tenant'[t].plan = SeedPlan[t]
              /\ tenant'[t].customer = tenant[t].customer
      BY <1>t, <2>5, ReseedType
    <3>3. RowIsWritten'
      BY <1>t, <3>1 DEF RowIsWritten, NewRow
    <3> QED
      BY <1>t, <3>1, <3>2, <3>3, OthersKeepPlans
  <2>6. CASE UNCHANGED <<subscriptions, tenant, handled>> /\ (UNCHANGED thread \/ ~Writing')
    <3>1. RowIsWritten'
      <4>1. CASE ~Writing'
        BY <4>1 DEF RowIsWritten, Writing
      <4>2. CASE UNCHANGED thread
        BY <1>t, <2>6, <4>2 DEF RowIsWritten, NewRow
      <4> QED
        BY <2>6, <4>1, <4>2
    <3>2. tenant' = tenant /\ UNCHANGED <<subscriptions, handled>>
      BY <2>6
    <3>3. PlanFollowsSubscription'
      BY <1>t, <3>2, OthersKeepPlans
    <3> QED
      BY <3>1, <3>3
  <2> QED
    BY <2>1, <2>2, <2>3, <2>4, <2>5, <2>6, TableSteps
<1> QED
  BY <1>1, <1>2 DEF BillingInvariant

\* The two tables are linked as a paid plan needs it, whatever order the events come
\* in, and whatever fails or writes meanwhile.
THEOREM BillingInvariantHolds ==
    ASSUME OneTenantEach PROVE BillingSpec => []BillingInvariant
<1>1. BillingInit => BillingInvariant
  <2> SUFFICES ASSUME BillingInit PROVE BillingInvariant
    OBVIOUS
  <2>1. InductiveInvariant /\ CallsAreTyped
    BY BillingInitInvariant
  <2>2. /\ CustomersHaveOwners /\ RowsHaveOwners /\ RowIsWritten
        /\ PlanFollowsSubscription
    BY DEF BillingInit, Init, CustomersHaveOwners, Owns, RowsHaveOwners, RowIsWritten,
           PlanFollowsSubscription, IsGranted
  <2> QED
    BY <2>1, <2>2 DEF BillingInvariant
<1>2. BillingInvariant /\ [BillingNext]_billingVars => BillingInvariant'
  BY NextBilling
<1> QED
  BY <1>1, <1>2, PTL DEF BillingSpec

\* Every tenant is on a plan that one of its subscriptions grants, on the free one
\* without any, or where the seed script put it, but for what an event cut short between
\* its two writes has left, through throws, restarts, redeliveries and checkouts.
THEOREM PlansFollowSubscriptions ==
    ASSUME OneTenantEach PROVE BillingSpec => []PlanFollowsSubscription
<1>1. BillingInvariant => PlanFollowsSubscription
  BY DEF BillingInvariant
<1> QED
  BY <1>1, BillingInvariantHolds, PTL

-----------------------------------------------------------------------------
(* Cancellations *)

\* No statement throws and the process lives: after the first write of a checkout alone
\* its tenant is not linked.
Unharmed == "throw" \notin Faults /\ "crash" \notin Faults

\* No checkout awaits Stripe, and each tenant and subscription has one customer: nothing
\* replaces the customer by which a tenant is found.
OneCustomerStays == Calls = {} /\ OneCustomerEach

\* A handler leaves its tenant linked to the event's customer.
LEMMA EntitleLinks ==
    ASSUME OneCustomerStays, TypeOK, CustomersHaveOwners,
           NEW e \in Events, e.type # "other", NEW t \in TenantsOf(e)
    PROVE  NewTenant(e, t).customer = e.customer
<1>1. t \in Tenants /\ e.customer \in Customers /\ e.customer # None
  BY WebhookAssumption DEF TenantsOf, OneCustomerStays, OneCustomerEach, Event
<1>2. CASE e.type # "checkout"
  BY <1>1, <1>2, NewTenantFields DEF TenantsOf
<1>3. CASE e.type = "checkout" /\ tenant[t].customer = None
  BY <1>1, <1>3, NewTenantFields
<1>4. CASE e.type = "checkout" /\ tenant[t].customer # None
  <2>1. Owns(t, e.customer)
    BY <1>4 DEF TenantsOf, Owns
  <2>2. Owns(t, tenant[t].customer) /\ tenant[t].customer \in Customers
    BY <1>1, <1>4 DEF CustomersHaveOwners, OneCustomerStays, TypeOK, Tenant
  <2> QED
    BY <1>1, <1>4, <2>1, <2>2, NewTenantFields DEF OneCustomerStays, OneCustomerEach
<1> QED
  BY <1>2, <1>3, <1>4

\* The row of a first write waits for the second one, and no other is touched.
LEMMA UpsertKeepsLinks ==
    ASSUME OneTenantEach, BillingInvariant, RowsAreLinked, NEW j \in JobIds, Upsert(j)
    PROVE  RowsAreLinked'
<1>1. PICK e \in Events, t \in Tenants :
          /\ e = EventOf(j)
          /\ MayConcern(e, t)
          /\ NewRow(e, t) \in Row
          /\ UpsertSubscription(NewRow(e, t))
          /\ thread' = [at |-> "entitle", job |-> j, tenant |-> t] /\ thread' # None
  BY UpsertCase DEF OneTenantEach, BillingInvariant
<1>2. /\ \A i \in DOMAIN subscriptions' :
            \/ subscriptions'[i] = NewRow(e, t)
            \/ /\ i \in DOMAIN subscriptions
               /\ subscriptions'[i].sub = subscriptions[i].sub
               /\ subscriptions'[i].tenant = subscriptions[i].tenant
  BY <1>1, UpsertEffect, NewRowFields DEF BillingInvariant, InductiveInvariant, TypeOK
<1>3. UNCHANGED tenant /\ thread = None /\ EventOf(thread'.job) = e
  BY <1>1 DEF Upsert, Runs
<1> SUFFICES ASSUME NEW i \in DOMAIN subscriptions'
             PROVE  \/ subscriptions'[i].sub = None
                    \/ \A f \in Events : f.sub = subscriptions'[i].sub /\ f.type # "other" =>
                          tenant[subscriptions'[i].tenant].customer = f.customer
                    \/ e.sub = subscriptions'[i].sub /\ t = subscriptions'[i].tenant
  BY <1>1, <1>3 DEF RowsAreLinked, EventOf
<1>4. CASE subscriptions'[i] = NewRow(e, t)
  BY <1>4, NewRowFields
<1>5. CASE /\ i \in DOMAIN subscriptions
           /\ subscriptions'[i].sub = subscriptions[i].sub
           /\ subscriptions'[i].tenant = subscriptions[i].tenant
  <2>1. subscriptions[i].tenant \in Tenants
    BY <1>5, RowTenant DEF BillingInvariant, InductiveInvariant, TypeOK
  <2>2. subscriptions[i].sub # None /\ subscriptions[i].sub = e.sub
            => subscriptions[i].tenant = t
    BY <1>1, <1>5, <2>1
    DEF BillingInvariant, RowsHaveOwners, OneTenantEach, OneTenantPerSubscription,
        SameSubscription
  <2> QED
    BY <1>3, <1>5, <2>2 DEF RowsAreLinked
<1> QED
  BY <1>2, <1>4, <1>5

\* A second write links the row of the first, and unlinks none.
LEMMA EntitleKeepsLinks ==
    ASSUME OneCustomerStays, OneTenantEach, BillingInvariant, RowsAreLinked, Entitle
    PROVE  RowsAreLinked'
<1>t. TypeOK /\ HalfDone /\ Writing /\ CustomersHaveOwners
  BY DEF BillingInvariant, InductiveInvariant, Entitle, Writing
<1>1. PICK e \in Events, t \in Tenants : e = EventOf(thread.job) /\ t = thread.tenant
  BY <1>t, WritingType
<1>2. e.type # "other" /\ t \in TenantsOf(e)
  BY <1>t, <1>1, WritingType
<1>3. tenant' = [tenant EXCEPT ![t] = NewTenant(e, t)] /\ UNCHANGED subscriptions
  BY <1>1 DEF Entitle
<1>4. /\ tenant'[t].customer = e.customer
      /\ tenant[t].customer # None => tenant'[t].customer = tenant[t].customer
      /\ \A u \in Tenants \ {t} : tenant'[u] = tenant[u]
  <2>1. tenant'[t] = NewTenant(e, t) /\ \A u \in Tenants \ {t} : tenant'[u] = tenant[u]
    BY <1>t, <1>3 DEF TypeOK
  <2> QED
    BY <1>t, <1>2, <2>1, EntitleLinks, NewTenantFields
<1> SUFFICES ASSUME NEW i \in DOMAIN subscriptions, subscriptions[i].sub # None,
                    NEW f \in Events, f.sub = subscriptions[i].sub, f.type # "other"
             PROVE  tenant'[subscriptions[i].tenant].customer = f.customer
  BY <1>3 DEF RowsAreLinked
<1>5. subscriptions[i].tenant \in Tenants /\ f.customer # None
  BY <1>t, RowTenant DEF TypeOK, OneCustomerStays, OneCustomerEach
<1>6. CASE tenant[subscriptions[i].tenant].customer = f.customer
  BY <1>4, <1>5, <1>6
<1>7. CASE subscriptions[i].tenant = t /\ e.sub = subscriptions[i].sub
  BY <1>1, <1>2, <1>4, <1>7 DEF OneCustomerStays, OneCustomerEach, SameSubscription
<1> QED
  BY <1>1, <1>6, <1>7 DEF RowsAreLinked

\* A handler that is not harmed goes from its first write to its second.
LEMMA WritingGoesOn ==
    ASSUME Unharmed, OneTenantEach, BillingInvariant, [BillingNext]_billingVars,
           Writing, ~Entitle
    PROVE  UNCHANGED thread
<1>1. ~ThrowBetween
  BY NoClash DEF ThrowBetween, Unharmed, OneTenantEach, BillingInvariant, InductiveInvariant
<1>2. ~Restart
  BY DEF Restart, Unharmed
<1> QED
  BY <1>1, <1>2, WebhookOrOther
  DEF Next, Deliver, DeliverAgain, EnqueueEvent, Skip, Upsert, ThrowAtStart, BackoffEnds,
      Runs, vars, Writing, CustomerCreated, Reseed

LEMMA NextLinks ==
    ASSUME Unharmed, OneTenantEach, OneCustomerStays
    PROVE  BillingInvariant /\ RowsAreLinked /\ [BillingNext]_billingVars => RowsAreLinked'
<1> SUFFICES ASSUME BillingInvariant, RowsAreLinked, [BillingNext]_billingVars
             PROVE  RowsAreLinked'
  OBVIOUS
<1>t. TypeOK
  BY DEF BillingInvariant, InductiveInvariant
<1>1. ASSUME NEW j \in JobIds, Upsert(j)
      PROVE  RowsAreLinked'
  BY <1>1, UpsertKeepsLinks
<1>2. CASE Entitle
  BY <1>2, EntitleKeepsLinks
<1>3. ASSUME NEW u \in Tenants, Reseed(u)
      PROVE  RowsAreLinked'
  <2>1. UNCHANGED <<subscriptions, thread>>
    BY <1>3 DEF Reseed
  <2>2. \A t \in Tenants : tenant'[t].customer = tenant[t].customer
    BY <1>t, <1>3, ReseedType
  <2>3. \A i \in DOMAIN subscriptions : subscriptions[i].tenant \in Tenants
    BY <1>t, RowTenant DEF TypeOK
  <2> QED
    BY <2>1, <2>2, <2>3 DEF RowsAreLinked, EventOf
<1>4. CASE UNCHANGED <<subscriptions, tenant>> /\ ~Entitle
  BY <1>4, WritingGoesOn DEF RowsAreLinked, Writing, EventOf
<1>5. ~ \E c \in Calls : CustomerCreated(c)
  BY DEF OneCustomerStays
<1>6. ASSUME NEW j \in JobIds, Skip(j)
      PROVE  UNCHANGED <<subscriptions, tenant>>
  BY <1>6 DEF Skip
<1> QED
  BY <1>1, <1>2, <1>3, <1>4, <1>5, <1>6, TableSteps

\* Where no customer is replaced under a webhook's hands, a deletion that is handled
\* cancels: what is handled without effect is the deletion of an unknown subscription.
THEOREM DeletionsCancel ==
    ASSUME Unharmed, OneTenantEach, OneCustomerStays
    PROVE  BillingSpec => CancelDowngrades
<1> DEFINE Cancels ==
        \A e \in Events : e.type = "deleted" /\ e.sub # None /\ handled'[e] > handled[e] =>
            \A i \in DOMAIN subscriptions' :
                subscriptions'[i].sub = e.sub => subscriptions'[i].status = "canceled"
<1>1. BillingInit => RowsAreLinked
  BY DEF BillingInit, Init, RowsAreLinked
<1>2. BillingInvariant /\ RowsAreLinked /\ [BillingNext]_billingVars => RowsAreLinked'
  BY NextLinks
<1>3. BillingInvariant /\ RowsAreLinked /\ [BillingNext]_billingVars
          => [Cancels]_billingVars
  <2> SUFFICES ASSUME BillingInvariant, RowsAreLinked, [BillingNext]_billingVars,
                      NEW e \in Events, e.type = "deleted", e.sub # None,
                      handled'[e] > handled[e],
                      NEW i \in DOMAIN subscriptions', subscriptions'[i].sub = e.sub
               PROVE  subscriptions'[i].status = "canceled"
    OBVIOUS
  <2>t. TypeOK /\ HalfDone /\ OneRowPerSubscription
    BY DEF BillingInvariant, InductiveInvariant
  <2>1. PICK j \in JobIds : e = EventOf(j) /\ (Skip(j) \/ (Entitle /\ j = thread.job))
    <3>1. handled'[e] # handled[e]
      BY <2>t DEF TypeOK
    <3>2. (\E j \in JobIds : Skip(j)) \/ Entitle
      BY <3>1, WebhookOrOther
      DEF Next, Deliver, DeliverAgain, EnqueueEvent, Upsert, ThrowAtStart, ThrowBetween,
          BackoffEnds, Restart, vars, CustomerCreated, Reseed
    <3>3. ASSUME NEW j \in JobIds, Skip(j) PROVE e = EventOf(j)
      BY <2>t, <3>1, <3>3 DEF Skip, TypeOK
    <3>4. Entitle => e = EventOf(thread.job) /\ thread.job \in JobIds
      BY <2>t, <3>1, ThreadType DEF Entitle, TypeOK
    <3> QED
      BY <3>2, <3>3, <3>4
  <2>2. CASE Skip(j)
    <3>1. thread = None /\ TenantsOf(e) = {} /\ UNCHANGED subscriptions
      BY <2>1, <2>2 DEF Skip, Runs, IsSkipped
    <3>2. subscriptions[i].tenant \in Tenants
      BY <2>t, <3>1, RowTenant DEF TypeOK
    <3>3. tenant[subscriptions[i].tenant].customer = e.customer /\ e.customer # None
      BY <3>1 DEF RowsAreLinked, OneCustomerStays, OneCustomerEach
    <3> QED
      BY <3>1, <3>2, <3>3 DEF TenantsOf
  <2>3. CASE Entitle /\ j = thread.job
    <3>1. UNCHANGED subscriptions /\ Writing
      BY <2>3 DEF Entitle, Writing
    <3>2. PICK k \in DOMAIN subscriptions : subscriptions[k] = NewRow(e, thread.tenant)
      BY <2>1, <2>3, <3>1 DEF BillingInvariant, RowIsWritten, Writing
    <3>3. NewRow(e, thread.tenant).status = "canceled" /\ NewRow(e, thread.tenant).sub = e.sub
      BY DEF NewRow
    <3> QED
      BY <2>t, <3>1, <3>2, <3>3 DEF OneRowPerSubscription
  <2> QED
    BY <2>1, <2>2, <2>3
<1> QED
  BY <1>1, <1>2, <1>3, BillingInvariantHolds, PTL DEF BillingSpec, CancelDowngrades

-----------------------------------------------------------------------------
(* Where nothing else writes tenants *)

\* Without checkouts and seeds, the billing is the webhook, and it implements
\* Entitlement.
THEOREM BillingImplementsContract ==
    ASSUME Calls = {}, \A t \in Tenants : SeedPlan[t] = None
    PROVE  BillingSpec => ImplementsContract
<1>1. BillingInit => Init
  BY DEF BillingInit
<1>2. [BillingNext]_billingVars => [Next]_vars
  BY WebhookOrOther DEF Reseed
<1>3. BillingSpec => Spec
  BY <1>1, <1>2, PTL DEF BillingSpec, Spec
<1> QED
  BY <1>3, WebhookImplementsContract

=============================================================================
