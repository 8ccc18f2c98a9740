---------------------------- MODULE WebhookSync ----------------------------
(***************************************************************************)
(* Stripe webhooks: the route that deduplicates an event and enqueues it,  *)
(* the job that applies it to the subscriptions and tenants tables, and    *)
(* the queue's error callback that clears the dedup marker of a failed     *)
(* event. The queue itself is JobQueue.                                    *)
(*                                                                         *)
(* Stripe may deliver an event any number of times, and events in any      *)
(* order. Handlers run to their end on the one JavaScript thread, but each *)
(* of their statements commits on its own: thread is the point between two *)
(* statements where a throw or the end of the process leaves the database. *)
(***************************************************************************)
EXTENDS Integers, Sequences

CONSTANTS
    Events,         \* the events Stripe has to tell
    Tenants,        \* rows of the tenants table
    Customers, Subscriptions,   \* Stripe's customer and subscription ids
    Linked,         \* Linked[t]: the customer t was linked to before, or None
    MaxDeliveries,  \* bound: how often one event is delivered
    MaxAttempts,    \* config.job.maxAttempts
    Faults,         \* a subset of {"throw", "crash", "clear"}
    None            \* no value

VARIABLES
    markers,        \* the rows of stripe_events
    subscriptions,  \* the rows of subscriptions, in the order of created_at
    tenant,         \* tenant[t]: plan_id, status and stripe_customer_id
    thread,         \* the point between two writes the thread is at, or None
    deliveries,     \* deliveries[e]: how often e has been delivered
    handled,        \* handled[e]: how often a job of e has come to its end
    job, running, stats, timers   \* the queue's variables

queueVars == <<job, running, stats, timers>>
vars == <<markers, subscriptions, tenant, thread, deliveries, handled, queueVars>>

Plans == {"free", "pro"}
Statuses == {"active", "trialing", "past_due", "incomplete", "canceled"}
StripeStatuses == Statuses \cup {"unpaid", "incomplete_expired", "paused", "other"}

\* The parts of an event the handlers look at. Its sub is None where Stripe's id is not
\* a string, as in a session that holds the whole subscription object.
Event == [id : STRING, type : {"checkout", "updated", "deleted", "other"},
          mode : {"subscription", "payment", "setup"},
          payment : {"paid", "no_payment_required", "unpaid"},
          tenant : Tenants \cup {None}, customer : Customers \cup {None},
          sub : Subscriptions \cup {None}, plan : Plans \cup {None},
          status : StripeStatuses]
Row == [tenant : Tenants, sub : Subscriptions \cup {None},
        customer : Customers \cup {None}, plan : Plans, status : Statuses]
Tenant == [plan : Plans, status : {"active", "suspended"},
           customer : Customers \cup {None}]

\* The n-th delivery of an event makes the job <<event, n>>, if it makes one.
JobIds == Events \X (1..MaxDeliveries)
EventOf(j) == j[1]

Queue == INSTANCE JobQueue WITH
    Names <- {"webhook.process"}, Registered <- {"webhook.process"}

\* A point between two writes.
Thread == [at : {"enqueue"}, event : Events]
              \cup [at : {"entitle"}, job : JobIds, tenant : Tenants]

ASSUME WebhookAssumption ==
    /\ Events \subseteq Event
    /\ Linked \in [Tenants -> Customers \cup {None}]
    /\ MaxDeliveries \in Nat \ {0}
    /\ MaxAttempts \in Nat \ {0}
    /\ Faults \subseteq {"throw", "crash", "clear"}

ASSUME WebhookNoneAssumption ==
    /\ None \notin Thread
    /\ None \notin Queue!Job

-----------------------------------------------------------------------------
(* The route *)

Deliver_Unchecked(e) ==
    /\ thread = None
    /\ deliveries[e] < MaxDeliveries
    /\ markers' = markers \cup {e}
    /\ deliveries' = [deliveries EXCEPT ![e] = @ + 1]
    /\ thread' = [at |-> "enqueue", event |-> e]
    /\ UNCHANGED <<subscriptions, tenant, handled, queueVars>>

\* A signed event with a new id: its marker is inserted.
Deliver(e) ==
    /\ thread = None
    /\ deliveries[e] < MaxDeliveries
    /\ e \notin markers
    /\ markers' = markers \cup {e}
    /\ deliveries' = [deliveries EXCEPT ![e] = @ + 1]
    /\ thread' = [at |-> "enqueue", event |-> e]
    /\ UNCHANGED <<subscriptions, tenant, handled, queueVars>>

\* A known id: acknowledged as a duplicate.
DeliverAgain(e) ==
    /\ thread = None
    /\ deliveries[e] < MaxDeliveries
    /\ e \in markers
    /\ deliveries' = [deliveries EXCEPT ![e] = @ + 1]
    /\ UNCHANGED <<markers, subscriptions, tenant, thread, handled, queueVars>>

\* The route goes on to enqueue the event, and acknowledges it.
EnqueueEvent ==
    /\ thread # None
    /\ thread.at = "enqueue"
    /\ Queue!Enqueue(<<thread.event, deliveries[thread.event]>>, "webhook.process")
    /\ thread' = None
    /\ UNCHANGED <<markers, subscriptions, tenant, deliveries, handled>>

-----------------------------------------------------------------------------
(* The job: three handlers, of two writes each *)

NormalizeStatus_AsIs(status) == status

\* SUB_STATUS_MAP, with incomplete for a status it does not list.
NormalizeStatus(status) ==
    CASE status \in {"active", "trialing", "past_due", "canceled", "incomplete"} -> status
      [] status \in {"unpaid", "paused"} -> "past_due"
      [] status = "incomplete_expired" -> "canceled"
      [] OTHER -> "incomplete"

PlanOf(e) == IF e.plan = None THEN "pro" ELSE e.plan

\* checkout.session.completed names its tenant; the other two, a linked customer.
TenantsOf(e) ==
    IF e.type = "checkout" THEN {t \in Tenants : t = e.tenant}
    ELSE {t \in Tenants : e.customer # None /\ tenant[t].customer = e.customer}

NotPaid(e) ==
    /\ e.mode = "subscription"
    /\ e.payment \notin {"paid", "no_payment_required"}

\* {applied: false}: nothing to do, nothing to retry.
IsSkipped(e) ==
    \/ e.type = "other"
    \/ e.type = "checkout" /\ NotPaid(e)
    \/ e.type = "deleted" /\ TenantsOf(e) = {}

\* The handler throws before it writes: it cannot tell whose event this is.
IsRefused(e) == e.type \in {"checkout", "updated"} /\ ~IsSkipped(e) /\ TenantsOf(e) = {}

NewRow(e, t) ==
    [tenant |-> t, sub |-> e.sub, customer |-> e.customer,
     plan |-> IF e.type = "deleted" THEN "free" ELSE PlanOf(e),
     status |-> CASE e.type = "checkout" -> "active"
                  [] e.type = "updated"  -> NormalizeStatus(e.status)
                  [] e.type = "deleted"  -> "canceled"]

\* upsertSubscription looks a subscription up by its id, where it has one.
IsKnown(row) ==
    row.sub # None /\ \E i \in DOMAIN subscriptions : subscriptions[i].sub = row.sub

\* A known subscription's row keeps its tenant and its place. An INSERT that met the
\* UNIQUE on stripe_subscription_id would throw, and none does: between the lookup and
\* the INSERT nothing else runs.
UpsertSubscription(row) ==
    IF IsKnown(row)
    THEN subscriptions' = [i \in DOMAIN subscriptions |->
             IF subscriptions[i].sub = row.sub
             THEN [row EXCEPT !.tenant = subscriptions[i].tenant]
             ELSE subscriptions[i]]
    ELSE subscriptions' = Append(subscriptions, row)

NewTenant_LinkedKeepsPlan(e, t) ==
    CASE e.type = "checkout" ->
            [plan |-> IF tenant[t].customer = None THEN PlanOf(e) ELSE tenant[t].plan,
             status |-> "active",
             customer |-> IF tenant[t].customer = None THEN e.customer
                          ELSE tenant[t].customer]
      [] e.type = "updated" ->
            [tenant[t] EXCEPT
                !.plan = IF NormalizeStatus(e.status) \in {"canceled", "past_due", "incomplete"}
                         THEN "free" ELSE PlanOf(e),
                !.status = IF NormalizeStatus(e.status) = "canceled" THEN "active" ELSE @]
      [] e.type = "deleted" -> [tenant[t] EXCEPT !.plan = "free", !.status = "active"]

\* The tenant's row after the event.
NewTenant(e, t) ==
    CASE e.type = "checkout" ->
            [plan |-> PlanOf(e), status |-> "active",
             customer |-> IF tenant[t].customer = None THEN e.customer
                          ELSE tenant[t].customer]
      [] e.type = "updated" ->
            [tenant[t] EXCEPT
                !.plan = IF NormalizeStatus(e.status) \in {"canceled", "past_due", "incomplete"}
                         THEN "free" ELSE PlanOf(e),
                !.status = IF NormalizeStatus(e.status) = "canceled" THEN "active" ELSE @]
      [] e.type = "deleted" -> [tenant[t] EXCEPT !.plan = "free", !.status = "active"]

\* tenants.stripe_customer_id is UNIQUE.
CustomerClash(e, t) ==
    /\ NewTenant(e, t).customer # None
    /\ \E u \in Tenants \ {t} : tenant[u].customer = NewTenant(e, t).customer

\* A job whose handler is next on the thread.
Runs(j) == thread = None /\ j \in Queue!In("running")

\* The handler returns without having written anything.
Skip(j) ==
    /\ Runs(j)
    /\ IsSkipped(EventOf(j))
    /\ handled' = [handled EXCEPT ![EventOf(j)] = @ + 1]
    /\ Queue!Complete(j)
    /\ UNCHANGED <<markers, subscriptions, tenant, thread, deliveries>>

\* The first write: the subscription's row.
Upsert(j) ==
    /\ Runs(j)
    /\ ~IsSkipped(EventOf(j))
    /\ \E t \in TenantsOf(EventOf(j)) :
          /\ UpsertSubscription(NewRow(EventOf(j), t))
          /\ thread' = [at |-> "entitle", job |-> j, tenant |-> t]
    /\ UNCHANGED <<markers, tenant, deliveries, handled, queueVars>>

\* The second write, the tenant's row, and the end of the job.
Entitle ==
    /\ thread # None
    /\ thread.at = "entitle"
    /\ LET e == EventOf(thread.job)
       IN  /\ ~CustomerClash(e, thread.tenant)
           /\ tenant' = [tenant EXCEPT ![thread.tenant] = NewTenant(e, thread.tenant)]
           /\ handled' = [handled EXCEPT ![e] = @ + 1]
    /\ Queue!Complete(thread.job)
    /\ thread' = None
    /\ UNCHANGED <<markers, subscriptions, deliveries>>

Rejected_AlwaysClears(j) ==
    /\ Queue!Retry(j) \/ Queue!GiveUp(j)
    /\ markers' = markers \ {EventOf(j)}

Rejected_NeverClears(j) ==
    /\ Queue!Retry(j) \/ Queue!GiveUp(j)
    /\ UNCHANGED markers

\* The queue's error path, with server.js's callback: a job that has failed for
\* good takes its event's marker with it, unless that DELETE throws as well.
Rejected(j) ==
    \/ Queue!Retry(j) /\ UNCHANGED markers
    \/ Queue!GiveUp(j) /\ markers' = markers \ {EventOf(j)}
    \/ "clear" \in Faults /\ Queue!GiveUp(j) /\ UNCHANGED markers

\* A handler that has got as far as the database.
ReachesDatabase(e) == e.type # "other" /\ ~(e.type = "checkout" /\ NotPaid(e))

\* The handler throws: for want of a tenant, or on its first statement.
ThrowAtStart(j) ==
    /\ Runs(j)
    /\ \/ IsRefused(EventOf(j))
       \/ "throw" \in Faults /\ ReachesDatabase(EventOf(j))
    /\ Rejected(j)
    /\ UNCHANGED <<subscriptions, tenant, thread, deliveries, handled>>

\* The handler throws on its second write, after the first has been committed.
ThrowBetween ==
    /\ thread # None
    /\ thread.at = "entitle"
    /\ "throw" \in Faults \/ CustomerClash(EventOf(thread.job), thread.tenant)
    /\ Rejected(thread.job)
    /\ thread' = None
    /\ UNCHANGED <<subscriptions, tenant, deliveries, handled>>

BackoffEnds(j) ==
    /\ thread = None
    /\ Queue!TimerFires(j)
    /\ UNCHANGED <<markers, subscriptions, tenant, thread, deliveries, handled>>

\* The process ends, by a crash or by shutdown(), which does not wait for the
\* queue, and starts again with an empty one.
Restart ==
    /\ "crash" \in Faults
    /\ job' = [j \in JobIds |-> None]
    /\ running' = 0
    /\ stats' = [enqueued |-> 0, completed |-> 0, failed |-> 0, retries |-> 0]
    /\ timers' = {}
    /\ thread' = None
    /\ UNCHANGED <<markers, subscriptions, tenant, deliveries, handled>>

Init ==
    /\ markers = {}
    /\ subscriptions = <<>>
    /\ tenant = [t \in Tenants |->
                    [plan |-> "free", status |-> "active", customer |-> Linked[t]]]
    /\ thread = None
    /\ deliveries = [e \in Events |-> 0]
    /\ handled = [e \in Events |-> 0]
    /\ Queue!Init

Next ==
    \/ \E e \in Events : Deliver(e) \/ DeliverAgain(e)
    \/ EnqueueEvent
    \/ \E j \in JobIds : Skip(j) \/ Upsert(j) \/ ThrowAtStart(j) \/ BackoffEnds(j)
    \/ Entitle
    \/ ThrowBetween
    \/ Restart

Spec == Init /\ [][Next]_vars

-----------------------------------------------------------------------------
(* Properties *)

\* Every variable holds what its table, or the thread, may hold.
TypeOK ==
    /\ markers \subseteq Events
    /\ subscriptions \in Seq(Row)
    /\ tenant \in [Tenants -> Tenant]
    /\ thread \in Thread \cup {None}
    /\ deliveries \in [Events -> 0..MaxDeliveries]
    /\ handled \in [Events -> Nat]
    /\ Queue!TypeOK

\* The jobs of an event that have not settled.
LiveJobs(e) ==
    {j \in JobIds : /\ EventOf(j) = e
                    /\ job[j] # None
                    /\ ~Queue!Settled(j)}

\* However often Stripe repeats itself, and whatever failed before, no event has
\* two jobs that may both come to apply it.
OneLiveJobPerEvent ==
    \A e \in Events : \A j, k \in LiveJobs(e) : j = k

\* An event whose job is waiting for a retry is still a duplicate to the route.
LiveJobHasMarker ==
    \A e \in Events : LiveJobs(e) # {} => e \in markers

\* An event is handled at most once, through redelivery, retries of a half-done
\* handler, and restarts.
HandledAtMostOnce == \A e \in Events : handled[e] <= 1

\* The UNIQUE on stripe_subscription_id holds of the rows, which is what the lookup of
\* the upsert is for; the proofs rest on it.
OneRowPerSubscription ==
    \A i, k \in DOMAIN subscriptions :
        subscriptions[i].sub # None /\ subscriptions[i].sub = subscriptions[k].sub => i = k

\* The route has set the event's marker and not yet enqueued it.
BeingEnqueued(e) == thread # None /\ thread.at = "enqueue" /\ thread.event = e

\* What makes those hold: an event is in one place at a time, with the route or in a
\* job, and is there only before it has been handled; its marker stands all along.
OnePlaceAtATime ==
    \A e \in Events :
        /\ BeingEnqueued(e) => LiveJobs(e) = {} /\ deliveries[e] > 0
        /\ BeingEnqueued(e) \/ LiveJobs(e) # {} => handled[e] = 0
        /\ BeingEnqueued(e) \/ handled[e] > 0 => e \in markers

\* Between a handler's two writes its job is running, and what it read of the event
\* and of the tenant still holds.
HalfDone ==
    thread # None /\ thread.at = "entitle" =>
        LET e == EventOf(thread.job)
        IN  /\ thread.job \in Queue!In("running")
            /\ ~IsSkipped(e)
            /\ thread.tenant \in TenantsOf(e)

InductiveInvariant ==
    /\ TypeOK
    /\ OneLiveJobPerEvent
    /\ LiveJobHasMarker
    /\ HandledAtMostOnce
    /\ OnePlaceAtATime
    /\ HalfDone
    /\ OneRowPerSubscription

\* README.md:241 and queue.js:5-6: events are processed at least once and none is
\* dropped: an event the route turns away as a duplicate has been handled, or
\* is about to be.
MarkerMeansHandled ==
    \A e \in markers :
        \/ handled[e] > 0
        \/ LiveJobs(e) # {}
        \/ BeingEnqueued(e)

\* subscriptionService.js:64: a checkout session is applied only if its mode is
\* subscription and its payment is complete.
OnlyPaidSessionsApply ==
    \A i \in DOMAIN subscriptions :
        subscriptions[i].status = "active" =>
            \E e \in Events :
                /\ e.sub = subscriptions[i].sub
                /\ \/ e.type = "updated" /\ NormalizeStatus(e.status) = "active"
                   \/ /\ e.type = "checkout"
                      /\ e.mode = "subscription"
                      /\ e.payment \in {"paid", "no_payment_required"}

=============================================================================
