------------------------- MODULE WebhookSyncProofs -------------------------
(***************************************************************************)
(* Proofs about WebhookSync, for any events, tenants, deliveries, attempts *)
(* and faults, and that it implements Entitlement.                         *)
(***************************************************************************)
EXTENDS WebhookContract, FiniteSetTheorems, TLAPS

-----------------------------------------------------------------------------
(* Types *)

\* A status of Stripe's becomes one of the table's.
LEMMA StatusType ==
    ASSUME NEW status PROVE NormalizeStatus(status) \in Statuses
  BY DEF NormalizeStatus, Statuses

\* What an event writes are rows of their tables.
LEMMA RowTypes ==
    ASSUME TypeOK, NEW e \in Events, e.type # "other", NEW t \in Tenants
    PROVE  NewRow(e, t) \in Row /\ NewTenant(e, t) \in Tenant
<1> USE WebhookAssumption
<1>1. e \in Event /\ tenant[t] \in Tenant
  BY DEF TypeOK
<1>2. PlanOf(e) \in Plans
  BY <1>1 DEF PlanOf, Event, Plans
<1>3. NormalizeStatus(e.status) \in Statuses
  BY StatusType
<1>4. NewRow(e, t) \in Row
  BY <1>1, <1>2, <1>3 DEF NewRow, Row, Event, Plans, Statuses
<1>5. NewTenant(e, t) \in Tenant
  BY <1>1, <1>2 DEF NewTenant, Tenant, Event, Plans
<1> QED
  BY <1>4, <1>5

\* An upsert leaves a sequence of rows.
LEMMA UpsertType ==
    ASSUME subscriptions \in Seq(Row), NEW row \in Row, UpsertSubscription(row)
    PROVE  subscriptions' \in Seq(Row)
<1>1. CASE IsKnown(row)
  <2>1. subscriptions' = [i \in 1..Len(subscriptions) |->
             IF subscriptions[i].sub = row.sub
             THEN [row EXCEPT !.tenant = subscriptions[i].tenant]
             ELSE subscriptions[i]]
    BY <1>1 DEF UpsertSubscription
  <2>2. ASSUME NEW i \in 1..Len(subscriptions) PROVE subscriptions'[i] \in Row
    <3>1. subscriptions[i] \in Row
      OBVIOUS
    <3>2. [row EXCEPT !.tenant = subscriptions[i].tenant] \in Row
      BY <3>1 DEF Row
    <3> QED
      BY <2>1, <3>1, <3>2
  <2> QED
    BY <2>1, <2>2
<1>2. CASE ~IsKnown(row)
  BY <1>2 DEF UpsertSubscription
<1> QED
  BY <1>1, <1>2

-----------------------------------------------------------------------------
(* What the queue's actions do to the live jobs *)

QueueStats == [enqueued : Nat, completed : Nat, failed : Nat, retries : Nat]

\* A job that starts is the only one that becomes live.
LEMMA JobStarts ==
    ASSUME Queue!TypeOK, NEW j \in JobIds, Queue!Enqueue(j, "webhook.process")
    PROVE  /\ Queue!TypeOK'
           /\ \A e \in Events :
                 LiveJobs(e)' = LiveJobs(e) \cup (IF EventOf(j) = e THEN {j} ELSE {})
           /\ \A i \in JobIds : i \in Queue!In("running") => i \in Queue!In("running")'
<1> DEFINE new == [name |-> "webhook.process", attempt |-> 1, phase |-> "running"]
<1>1. /\ job[j] = None
      /\ job' = [job EXCEPT ![j] = new]
      /\ running' = running + 1
      /\ stats' = [stats EXCEPT !.enqueued = @ + 1]
      /\ timers' = timers
  BY DEF Queue!Enqueue
<1>2. new \in Queue!Job /\ new # None
  BY WebhookNoneAssumption DEF Queue!Job, Queue!Phases
<1>3. Queue!TypeOK'
  BY <1>1, <1>2 DEF Queue!TypeOK, Queue!Stats
<1>4. job'[j] = new /\ \A i \in JobIds \ {j} : job'[i] = job[i]
  BY <1>1 DEF Queue!TypeOK
<1>5. \A e \in Events :
          LiveJobs(e)' = LiveJobs(e) \cup (IF EventOf(j) = e THEN {j} ELSE {})
  BY <1>1, <1>2, <1>4 DEF LiveJobs, Queue!Settled
<1>6. \A i \in JobIds : i \in Queue!In("running") => i \in Queue!In("running")'
  BY <1>1, <1>4 DEF Queue!In
<1> QED
  BY <1>3, <1>5, <1>6

\* A running job that ends was live and is so no longer.
LEMMA JobEnds ==
    ASSUME Queue!TypeOK, NEW j \in JobIds, Queue!Complete(j) \/ Queue!GiveUp(j)
    PROVE  /\ Queue!TypeOK'
           /\ j \in LiveJobs(EventOf(j))
           /\ \A e \in Events : LiveJobs(e)' = LiveJobs(e) \ {j}
<1>1. /\ j \in Queue!In("running")
      /\ timers' = timers
      /\ running' = running - 1
  BY DEF Queue!Complete, Queue!GiveUp
<1>2. stats' \in QueueStats
  BY DEF Queue!Complete, Queue!GiveUp, Queue!TypeOK, Queue!Stats, QueueStats
<1>3. PICK phase \in {"completed", "failed"} : job' = [job EXCEPT ![j].phase = phase]
  BY DEF Queue!Complete, Queue!GiveUp
<1>4. job[j] # None /\ job[j] \in Queue!Job /\ job[j].phase = "running"
  BY <1>1 DEF Queue!TypeOK, Queue!In
<1>5. /\ job'[j] \in Queue!Job /\ job'[j].phase = phase
      /\ \A i \in JobIds \ {j} : job'[i] = job[i]
      /\ job' \in [JobIds -> Queue!Job \cup {None}]
  BY <1>3, <1>4 DEF Queue!TypeOK, Queue!Job, Queue!Phases
<1>6. Queue!TypeOK'
  BY <1>1, <1>2, <1>5 DEF Queue!TypeOK, Queue!Stats, QueueStats
<1>7. j \in LiveJobs(EventOf(j))
  BY <1>4 DEF LiveJobs, Queue!Settled
<1>8. \A e \in Events : LiveJobs(e)' = LiveJobs(e) \ {j}
  BY <1>5, WebhookNoneAssumption DEF LiveJobs, Queue!Settled
<1> QED
  BY <1>6, <1>7, <1>8

\* A job that waits for a retry, or is run again, stays live.
LEMMA JobGoesOn ==
    ASSUME Queue!TypeOK, NEW j \in JobIds, Queue!Retry(j) \/ Queue!TimerFires(j)
    PROVE  /\ Queue!TypeOK'
           /\ j \in LiveJobs(EventOf(j))
           /\ \A e \in Events : LiveJobs(e)' = LiveJobs(e)
<1>1. /\ timers' \subseteq JobIds
      /\ running' \in Int
      /\ stats' \in QueueStats
  BY DEF Queue!Retry, Queue!TimerFires, Queue!TypeOK, Queue!Stats, QueueStats
<1>2. /\ job[j] # None /\ job[j] \in Queue!Job
      /\ job[j].phase \in {"running", "waiting"}
  BY DEF Queue!Retry, Queue!TimerFires, Queue!TypeOK, Queue!In
<1>3. /\ job'[j] \in Queue!Job /\ job'[j].phase \in {"running", "waiting"}
      /\ \A i \in JobIds \ {j} : job'[i] = job[i]
      /\ job' \in [JobIds -> Queue!Job \cup {None}]
  <2>1. CASE Queue!Retry(j)
    BY <1>2, <2>1 DEF Queue!Retry, Queue!TypeOK, Queue!Job, Queue!Phases
  <2>2. CASE Queue!TimerFires(j)
    BY <1>2, <2>2 DEF Queue!TimerFires, Queue!TypeOK, Queue!Job, Queue!Phases
  <2> QED
    BY <2>1, <2>2
<1>4. Queue!TypeOK'
  BY <1>1, <1>3 DEF Queue!TypeOK, Queue!Stats, QueueStats
<1>5. j \in LiveJobs(EventOf(j))
  BY <1>2 DEF LiveJobs, Queue!Settled
<1>6. \A e \in Events : LiveJobs(e)' = LiveJobs(e)
  BY <1>2, <1>3, WebhookNoneAssumption DEF LiveJobs, Queue!Settled
<1> QED
  BY <1>4, <1>5, <1>6

-----------------------------------------------------------------------------
(* Type correctness *)

\* Where the thread is, and for what.
LEMMA ThreadType ==
    ASSUME TypeOK, thread # None
    PROVE  /\ thread.at = "enqueue" => thread.event \in Events
           /\ thread.at = "entitle" => thread.job \in JobIds /\ thread.tenant \in Tenants
  BY DEF TypeOK, Thread

\* The n-th delivery of an event that has been delivered has its job.
LEMMA EventOfJob ==
    /\ \A j \in JobIds : EventOf(j) \in Events
    /\ \A e \in Events, n \in 1..MaxDeliveries :
          <<e, n>> \in JobIds /\ EventOf(<<e, n>>) = e
  BY DEF JobIds, EventOf

\* The tables and the queue start well-typed.
LEMMA InitTypeOK == Init => TypeOK
<1> SUFFICES ASSUME Init PROVE TypeOK
  OBVIOUS
<1> USE WebhookAssumption
<1>1. tenant \in [Tenants -> Tenant] /\ subscriptions \in Seq(Row)
  BY DEF Init, Tenant, Plans
<1>2. deliveries \in [Events -> 0..MaxDeliveries] /\ handled \in [Events -> Nat]
  BY DEF Init
<1>3. Queue!TypeOK
  BY DEF Init, Queue!Init, Queue!TypeOK, Queue!Stats
<1> QED
  BY <1>1, <1>2, <1>3 DEF Init, TypeOK

\* A handler that throws leaves well-typed markers, and the queue's types.
LEMMA RejectedType ==
    ASSUME TypeOK, NEW j \in JobIds, Rejected(j)
    PROVE  markers' \subseteq Events /\ Queue!TypeOK'
<1>1. Queue!TypeOK /\ markers \subseteq Events
  BY DEF TypeOK
<1> QED
  BY <1>1, JobEnds, JobGoesOn DEF Rejected

\* Every action keeps the types: what is enqueued is the event's first delivery or a
\* later one, and what is entitled is of an event that has a handler.
LEMMA NextTypeOK == TypeOK /\ OnePlaceAtATime /\ HalfDone /\ [Next]_vars => TypeOK'
<1> SUFFICES ASSUME TypeOK, OnePlaceAtATime, HalfDone, [Next]_vars PROVE TypeOK'
  OBVIOUS
<1> USE WebhookAssumption
<1>q. Queue!TypeOK /\ (UNCHANGED queueVars => Queue!TypeOK')
  BY DEF TypeOK, Queue!TypeOK, queueVars
<1>1. ASSUME NEW e \in Events, Deliver(e) \/ DeliverAgain(e)
      PROVE  TypeOK'
  <2>1. deliveries' \in [Events -> 0..MaxDeliveries]
    BY <1>1 DEF Deliver, DeliverAgain, TypeOK
  <2>2. thread' \in Thread \cup {None}
    BY <1>1 DEF Deliver, DeliverAgain, TypeOK, Thread
  <2> QED
    BY <1>1, <1>q, <2>1, <2>2 DEF Deliver, DeliverAgain, TypeOK
<1>2. CASE EnqueueEvent
  <2> DEFINE e == thread.event
             j == <<e, deliveries[e]>>
  <2>1. e \in Events /\ Queue!Enqueue(j, "webhook.process")
    BY <1>2, ThreadType DEF EnqueueEvent
  <2>2. deliveries[e] \in 1..MaxDeliveries
    BY <1>2, <2>1 DEF EnqueueEvent, OnePlaceAtATime, BeingEnqueued, TypeOK
  <2>3. Queue!TypeOK'
    BY <1>q, <2>1, <2>2, EventOfJob, JobStarts
  <2> QED
    BY <1>2, <2>3 DEF EnqueueEvent, TypeOK
<1>3. ASSUME NEW j \in JobIds, Skip(j)
      PROVE  TypeOK'
  <2>1. handled' \in [Events -> Nat]
    BY <1>3, EventOfJob DEF Skip, TypeOK
  <2>2. Queue!TypeOK'
    BY <1>3, <1>q, JobEnds DEF Skip
  <2> QED
    BY <1>3, <2>1, <2>2 DEF Skip, TypeOK
<1>4. ASSUME NEW j \in JobIds, Upsert(j)
      PROVE  TypeOK'
  <2>1. PICK t \in TenantsOf(EventOf(j)) :
            /\ UpsertSubscription(NewRow(EventOf(j), t))
            /\ thread' = [at |-> "entitle", job |-> j, tenant |-> t]
    BY <1>4 DEF Upsert
  <2>2. t \in Tenants /\ EventOf(j) \in Events /\ EventOf(j).type # "other"
    BY <1>4, EventOfJob DEF Upsert, TenantsOf, IsSkipped
  <2>3. subscriptions' \in Seq(Row)
    BY <2>1, <2>2, RowTypes, UpsertType DEF TypeOK
  <2>4. thread' \in Thread
    BY <2>1, <2>2 DEF Thread
  <2> QED
    BY <1>4, <1>q, <2>3, <2>4 DEF Upsert, TypeOK
<1>5. CASE Entitle
  <2> DEFINE e == EventOf(thread.job)
             t == thread.tenant
  <2>1. /\ thread.job \in JobIds /\ t \in Tenants /\ e \in Events
        /\ tenant' = [tenant EXCEPT ![t] = NewTenant(e, t)]
        /\ handled' = [handled EXCEPT ![e] = @ + 1]
    BY <1>5, ThreadType, EventOfJob DEF Entitle
  <2>2. tenant' \in [Tenants -> Tenant]
    <3>1. e.type # "other"
      BY <1>5 DEF Entitle, HalfDone, IsSkipped
    <3> QED
      BY <2>1, <3>1, RowTypes DEF TypeOK
  <2>3. handled' \in [Events -> Nat]
    BY <2>1 DEF TypeOK
  <2>4. Queue!TypeOK'
    BY <1>5, <1>q, <2>1, JobEnds DEF Entitle
  <2> QED
    BY <1>5, <2>2, <2>3, <2>4 DEF Entitle, TypeOK
<1>6. ASSUME NEW j \in JobIds, ThrowAtStart(j)
      PROVE  TypeOK'
  BY <1>6, RejectedType DEF ThrowAtStart, TypeOK
<1>7. CASE ThrowBetween
  BY <1>7, ThreadType, RejectedType DEF ThrowBetween, TypeOK
<1>8. ASSUME NEW j \in JobIds, BackoffEnds(j)
      PROVE  TypeOK'
  BY <1>8, <1>q, JobGoesOn DEF BackoffEnds, TypeOK
<1>9. CASE Restart
  <2>1. Queue!TypeOK'
    BY <1>9 DEF Restart, Queue!TypeOK, Queue!Stats
  <2> QED
    BY <1>9, <2>1 DEF Restart, TypeOK
<1>10. CASE UNCHANGED vars
  BY <1>10, <1>q DEF vars, TypeOK
<1> QED
  BY <1>1, <1>2, <1>3, <1>4, <1>5, <1>6, <1>7, <1>8, <1>9, <1>10 DEF Next

-----------------------------------------------------------------------------
(* An event is in one place at a time *)

Placed ==
    /\ OneLiveJobPerEvent
    /\ LiveJobHasMarker
    /\ HandledAtMostOnce
    /\ OnePlaceAtATime

\* The same, event by event.
PlacedAt(e) ==
    /\ \A j, k \in LiveJobs(e) : j = k
    /\ handled[e] <= 1
    /\ BeingEnqueued(e) => LiveJobs(e) = {} /\ deliveries[e] > 0
    /\ BeingEnqueued(e) \/ LiveJobs(e) # {} => handled[e] = 0
    /\ BeingEnqueued(e) \/ LiveJobs(e) # {} \/ handled[e] > 0 => e \in markers

LEMMA PlacedByEvent ==
    /\ Placed <=> \A e \in Events : PlacedAt(e)
    /\ Placed' <=> \A e \in Events : PlacedAt(e)'
  BY DEF Placed, PlacedAt, OneLiveJobPerEvent, LiveJobHasMarker, HandledAtMostOnce,
         OnePlaceAtATime

\* A handler that ends well has handled its event, once: it was not handled before,
\* and no other job of it is live.
LEMMA HandledStep ==
    ASSUME TypeOK, Placed, NEW j \in JobIds, Queue!Complete(j),
           handled' = [handled EXCEPT ![EventOf(j)] = @ + 1],
           thread' = None \/ thread' = thread,
           UNCHANGED <<markers, deliveries>>
    PROVE  Placed'
<1> SUFFICES ASSUME NEW e \in Events PROVE PlacedAt(e)'
  BY PlacedByEvent
<1>1. PlacedAt(e) /\ EventOf(j) \in Events
  BY PlacedByEvent, EventOfJob
<1>2. j \in LiveJobs(EventOf(j)) /\ LiveJobs(e)' = LiveJobs(e) \ {j}
  BY JobEnds DEF TypeOK
<1>3. BeingEnqueued(e)' => BeingEnqueued(e)
  BY DEF BeingEnqueued
<1>4. CASE e = EventOf(j)
  <2>1. handled[e] = 0 /\ handled'[e] = 1 /\ LiveJobs(e)' = {} /\ e \in markers
        /\ ~BeingEnqueued(e)
    BY <1>1, <1>2, <1>4 DEF PlacedAt, TypeOK
  <2> QED
    BY <1>3, <2>1 DEF PlacedAt
<1>5. CASE e # EventOf(j)
  <2>1. handled'[e] = handled[e]
    BY <1>1, <1>5 DEF TypeOK
  <2> QED
    BY <1>1, <1>2, <1>3, <2>1 DEF PlacedAt
<1> QED
  BY <1>4, <1>5

\* A handler that throws leaves its event live, or neither live nor handled; only
\* then may its marker go.
LEMMA RejectedStep ==
    ASSUME TypeOK, Placed, NEW j \in JobIds, Rejected(j),
           thread' = None \/ thread' = thread,
           UNCHANGED <<handled, deliveries>>
    PROVE  Placed'
<1> SUFFICES ASSUME NEW e \in Events PROVE PlacedAt(e)'
  BY PlacedByEvent
<1>1. PlacedAt(e) /\ EventOf(j) \in Events
  BY PlacedByEvent, EventOfJob
<1>2. BeingEnqueued(e)' => BeingEnqueued(e)
  BY DEF BeingEnqueued
<1>3. CASE Queue!Retry(j) /\ UNCHANGED markers
  <2>1. LiveJobs(e)' = LiveJobs(e)
    BY <1>3, JobGoesOn DEF TypeOK
  <2> QED
    BY <1>1, <1>2, <1>3, <2>1 DEF PlacedAt
<1>4. CASE Queue!GiveUp(j) /\ (markers' = markers \ {EventOf(j)} \/ UNCHANGED markers)
  <2>1. j \in LiveJobs(EventOf(j)) /\ LiveJobs(e)' = LiveJobs(e) \ {j}
    BY <1>4, JobEnds DEF TypeOK
  <2>2. CASE e = EventOf(j)
    <3>1. handled[e] = 0 /\ LiveJobs(e)' = {} /\ ~BeingEnqueued(e)
      BY <1>1, <2>1, <2>2 DEF PlacedAt
    <3> QED
      BY <1>2, <3>1 DEF PlacedAt
  <2>3. CASE e # EventOf(j)
    BY <1>1, <1>2, <1>4, <2>1, <2>3 DEF PlacedAt
  <2> QED
    BY <2>2, <2>3
<1> QED
  BY <1>3, <1>4 DEF Rejected

\* Every action keeps events in one place.
LEMMA NextPlaced == TypeOK /\ HalfDone /\ Placed /\ [Next]_vars => Placed'
<1> SUFFICES ASSUME TypeOK, HalfDone, Placed, [Next]_vars PROVE Placed'
  OBVIOUS
<1>q. \A e \in Events : UNCHANGED queueVars => LiveJobs(e)' = LiveJobs(e)
  BY DEF queueVars, LiveJobs, Queue!Settled
<1>e. \A e \in Events : PlacedAt(e)
  BY PlacedByEvent
<1>1. ASSUME NEW d \in Events, Deliver(d)
      PROVE  Placed'
  <2> SUFFICES ASSUME NEW e \in Events PROVE PlacedAt(e)'
    BY PlacedByEvent
  <2>1. LiveJobs(e)' = LiveJobs(e) /\ handled' = handled
    BY <1>1, <1>q DEF Deliver
  <2>2. BeingEnqueued(e)' => e = d
    BY <1>1 DEF Deliver, BeingEnqueued
  <2>3. CASE e = d
    <3>1. e \notin markers /\ e \in markers' /\ deliveries'[e] > 0
      BY <1>1, <2>3 DEF Deliver, TypeOK
    <3>2. LiveJobs(e) = {} /\ handled[e] = 0
      BY <1>e, <3>1 DEF PlacedAt, TypeOK
    <3> QED
      BY <2>1, <3>1, <3>2 DEF PlacedAt
  <2>4. CASE e # d
    BY <1>1, <1>e, <2>1, <2>2, <2>4 DEF PlacedAt, Deliver
  <2> QED
    BY <2>3, <2>4
<1>2. ASSUME NEW d \in Events, DeliverAgain(d)
      PROVE  Placed'
  <2> SUFFICES ASSUME NEW e \in Events PROVE PlacedAt(e)'
    BY PlacedByEvent
  <2>1. LiveJobs(e)' = LiveJobs(e) /\ ~BeingEnqueued(e)'
    BY <1>2, <1>q DEF DeliverAgain, BeingEnqueued
  <2> QED
    BY <1>2, <1>e, <2>1 DEF DeliverAgain, PlacedAt
<1>3. CASE EnqueueEvent
  <2> DEFINE d == thread.event
             j == <<d, deliveries[d]>>
  <2>1. /\ d \in Events /\ BeingEnqueued(d)
        /\ Queue!Enqueue(j, "webhook.process")
    BY <1>3, ThreadType DEF EnqueueEvent, BeingEnqueued
  <2>2. j \in JobIds /\ EventOf(j) = d
    BY <1>e, <2>1, EventOfJob DEF PlacedAt, TypeOK
  <2> SUFFICES ASSUME NEW e \in Events PROVE PlacedAt(e)'
    BY PlacedByEvent
  <2>3. LiveJobs(e)' = LiveJobs(e) \cup (IF d = e THEN {j} ELSE {})
    BY <2>1, <2>2, JobStarts DEF TypeOK
  <2>4. ~BeingEnqueued(e)' /\ UNCHANGED <<handled, markers, deliveries>>
    BY <1>3 DEF EnqueueEvent, BeingEnqueued
  <2> HIDE DEF j
  <2> QED
    BY <1>e, <2>1, <2>3, <2>4 DEF PlacedAt
<1>4. ASSUME NEW j \in JobIds, Skip(j)
      PROVE  Placed'
  BY <1>4, HandledStep DEF Skip
<1>5. ASSUME NEW j \in JobIds, Upsert(j)
      PROVE  Placed'
  <2> SUFFICES ASSUME NEW e \in Events PROVE PlacedAt(e)'
    BY PlacedByEvent
  <2>1. LiveJobs(e)' = LiveJobs(e) /\ ~BeingEnqueued(e)'
    BY <1>5, <1>q DEF Upsert, BeingEnqueued
  <2> QED
    BY <1>5, <1>e, <2>1 DEF Upsert, PlacedAt
<1>6. CASE Entitle
  BY <1>6, ThreadType, HandledStep DEF Entitle
<1>7. ASSUME NEW j \in JobIds, ThrowAtStart(j)
      PROVE  Placed'
  BY <1>7, RejectedStep DEF ThrowAtStart
<1>8. CASE ThrowBetween
  BY <1>8, ThreadType, RejectedStep DEF ThrowBetween
<1>9. ASSUME NEW j \in JobIds, BackoffEnds(j)
      PROVE  Placed'
  <2> SUFFICES ASSUME NEW e \in Events PROVE PlacedAt(e)'
    BY PlacedByEvent
  <2>1. LiveJobs(e)' = LiveJobs(e) /\ BeingEnqueued(e)' = BeingEnqueued(e)
    BY <1>9, JobGoesOn DEF BackoffEnds, BeingEnqueued, TypeOK
  <2> QED
    BY <1>9, <1>e, <2>1 DEF BackoffEnds, PlacedAt
<1>10. CASE Restart
  <2> SUFFICES ASSUME NEW e \in Events PROVE PlacedAt(e)'
    BY PlacedByEvent
  <2>1. LiveJobs(e)' = {} /\ ~BeingEnqueued(e)'
    BY <1>10 DEF Restart, LiveJobs, BeingEnqueued
  <2> QED
    BY <1>10, <1>e, <2>1 DEF Restart, PlacedAt
<1>11. CASE UNCHANGED vars
  <2> SUFFICES ASSUME NEW e \in Events PROVE PlacedAt(e)'
    BY PlacedByEvent
  <2> QED
    BY <1>11, <1>e, <1>q DEF vars, PlacedAt, BeingEnqueued
<1> QED
  BY <1>1, <1>2, <1>3, <1>4, <1>5, <1>6, <1>7, <1>8, <1>9, <1>10, <1>11 DEF Next

-----------------------------------------------------------------------------
(* Between two writes, and the subscriptions table *)

\* Only the first write leads between the two, and nothing happens there but the end
\* of the handler.
LEMMA NextHalfDone == HalfDone /\ [Next]_vars => HalfDone'
<1> SUFFICES ASSUME HalfDone, [Next]_vars PROVE HalfDone'
  OBVIOUS
<1>1. ASSUME NEW j \in JobIds, Upsert(j)
      PROVE  HalfDone'
  <2>1. PICK t \in TenantsOf(EventOf(j)) :
            thread' = [at |-> "entitle", job |-> j, tenant |-> t]
    BY <1>1 DEF Upsert
  <2>2. /\ j \in Queue!In("running") /\ ~IsSkipped(EventOf(j))
        /\ UNCHANGED <<job, tenant>>
    BY <1>1 DEF Upsert, Runs, queueVars
  <2>3. /\ Queue!In("running")' = Queue!In("running")
        /\ TenantsOf(EventOf(j))' = TenantsOf(EventOf(j))
        /\ IsSkipped(EventOf(j))' <=> IsSkipped(EventOf(j))
    BY <2>2 DEF Queue!In, TenantsOf, IsSkipped, NotPaid, EventOf
  <2> QED
    BY <2>1, <2>2, <2>3 DEF HalfDone
<1>2. CASE UNCHANGED vars
  BY <1>2 DEF vars, queueVars, HalfDone, Queue!In, TenantsOf, IsSkipped
<1>3. ASSUME Next, ~ \E j \in JobIds : Upsert(j)
      PROVE  thread' = None \/ thread'.at = "enqueue"
  BY <1>3 DEF Next, Deliver, DeliverAgain, EnqueueEvent, Skip, Entitle, ThrowAtStart,
              ThrowBetween, BackoffEnds, Restart, Runs
<1> QED
  BY <1>1, <1>2, <1>3 DEF HalfDone

\* The upsert writes the row of the subscription, and adds no second one.
LEMMA UpsertRows ==
    ASSUME subscriptions \in Seq(Row), NEW row \in Row, UpsertSubscription(row),
           OneRowPerSubscription
    PROVE  OneRowPerSubscription'
<1>1. CASE IsKnown(row)
  <2>1. subscriptions' = [i \in DOMAIN subscriptions |->
             IF subscriptions[i].sub = row.sub
             THEN [row EXCEPT !.tenant = subscriptions[i].tenant]
             ELSE subscriptions[i]]
    BY <1>1 DEF UpsertSubscription
  <2>2. \A i \in DOMAIN subscriptions : subscriptions'[i].sub = subscriptions[i].sub
    <3> SUFFICES ASSUME NEW i \in DOMAIN subscriptions, subscriptions[i].sub = row.sub
                 PROVE  subscriptions'[i].sub = subscriptions[i].sub
      BY <2>1
    <3>1. [row EXCEPT !.tenant = subscriptions[i].tenant].sub = row.sub
      BY DEF Row
    <3> QED
      BY <2>1, <3>1
  <2> QED
    BY <2>1, <2>2 DEF OneRowPerSubscription
<1>2. CASE ~IsKnown(row)
  <2>1. subscriptions' = Append(subscriptions, row)
    BY <1>2 DEF UpsertSubscription
  <2>2. /\ Len(subscriptions') = Len(subscriptions) + 1
        /\ subscriptions'[Len(subscriptions) + 1] = row
        /\ \A i \in DOMAIN subscriptions : subscriptions'[i] = subscriptions[i]
        /\ DOMAIN subscriptions' = DOMAIN subscriptions \cup {Len(subscriptions) + 1}
    BY <2>1
  <2> QED
    BY <1>2, <2>2 DEF OneRowPerSubscription, IsKnown
<1> QED
  BY <1>1, <1>2

\* Only the first write of a handler touches the subscriptions.
LEMMA NextRows ==
    TypeOK /\ OneRowPerSubscription /\ [Next]_vars => OneRowPerSubscription'
<1> SUFFICES ASSUME TypeOK, OneRowPerSubscription, [Next]_vars PROVE OneRowPerSubscription'
  OBVIOUS
<1>1. ASSUME NEW j \in JobIds, Upsert(j)
      PROVE  OneRowPerSubscription'
  <2>1. PICK t \in TenantsOf(EventOf(j)) : UpsertSubscription(NewRow(EventOf(j), t))
    BY <1>1 DEF Upsert
  <2>2. t \in Tenants /\ EventOf(j) \in Events /\ EventOf(j).type # "other"
    BY <1>1, EventOfJob DEF Upsert, TenantsOf, IsSkipped
  <2> QED
    BY <2>1, <2>2, RowTypes, UpsertRows DEF TypeOK
<1>2. (~ \E j \in JobIds : Upsert(j)) => UNCHANGED subscriptions
  BY DEF Next, Deliver, DeliverAgain, EnqueueEvent, Skip, Entitle, ThrowAtStart,
         ThrowBetween, BackoffEnds, Restart, vars
<1> QED
  BY <1>1, <1>2 DEF OneRowPerSubscription

-----------------------------------------------------------------------------
(* The theorems *)

LEMMA InitInductive == Init => InductiveInvariant
<1> SUFFICES ASSUME Init PROVE InductiveInvariant
  OBVIOUS
<1>1. TypeOK
  BY InitTypeOK
<1>2. \A e \in Events : LiveJobs(e) = {} /\ handled[e] = 0 /\ ~BeingEnqueued(e)
  BY DEF Init, Queue!Init, LiveJobs, BeingEnqueued
<1>3. HalfDone /\ OneRowPerSubscription
  BY DEF Init, HalfDone, OneRowPerSubscription
<1> QED
  BY <1>1, <1>2, <1>3 DEF InductiveInvariant, OneLiveJobPerEvent, LiveJobHasMarker,
                          HandledAtMostOnce, OnePlaceAtATime

LEMMA NextInductive == InductiveInvariant /\ [Next]_vars => InductiveInvariant'
<1>1. InductiveInvariant <=>
          TypeOK /\ Placed /\ HalfDone /\ OneRowPerSubscription
  BY DEF InductiveInvariant, Placed
<1>2. InductiveInvariant' <=>
          TypeOK' /\ Placed' /\ HalfDone' /\ OneRowPerSubscription'
  BY DEF InductiveInvariant, Placed
<1> QED
  BY <1>1, <1>2, NextTypeOK, NextPlaced, NextHalfDone, NextRows DEF Placed

\* The invariant holds through redelivery, retries, restarts and failing deletions.
THEOREM InvariantHolds == Spec => []InductiveInvariant
  BY InitInductive, NextInductive, PTL DEF Spec

\* Every variable keeps its type.
THEOREM TypeCorrect == Spec => []TypeOK
<1>1. InductiveInvariant => TypeOK
  BY DEF InductiveInvariant
<1> QED
  BY <1>1, InvariantHolds, PTL

\* No number of redeliveries and failures gives an event two jobs that may both come
\* to apply it.
THEOREM JobsDoNotOverlap == Spec => []OneLiveJobPerEvent
<1>1. InductiveInvariant => OneLiveJobPerEvent
  BY DEF InductiveInvariant
<1> QED
  BY <1>1, InvariantHolds, PTL

\* While a job may still come to apply its event, the route turns redeliveries away.
THEOREM LiveJobsAreMarked == Spec => []LiveJobHasMarker
<1>1. InductiveInvariant => LiveJobHasMarker
  BY DEF InductiveInvariant
<1> QED
  BY <1>1, InvariantHolds, PTL

\* No event is handled twice, not after a crash and a redelivery either.
THEOREM EventsAreHandledOnce == Spec => []HandledAtMostOnce
<1>1. InductiveInvariant => HandledAtMostOnce
  BY DEF InductiveInvariant
<1> QED
  BY <1>1, InvariantHolds, PTL

-----------------------------------------------------------------------------
(* No event is dropped while the process lives *)

Accounted(e) == handled[e] > 0 \/ LiveJobs(e) # {} \/ BeingEnqueued(e)

LEMMA MarkersAccounted ==
    /\ MarkerMeansHandled <=> \A e \in markers : Accounted(e)
    /\ MarkerMeansHandled' <=> \A e \in markers' : Accounted(e)'
  BY DEF MarkerMeansHandled, Accounted

\* A handler that throws takes the marker along when it gives its event up.
LEMMA RejectedKeeps ==
    ASSUME "clear" \notin Faults, TypeOK, OneLiveJobPerEvent,
           NEW j \in JobIds, Rejected(j), UNCHANGED handled,
           ~BeingEnqueued(EventOf(j)),
           NEW e \in markers', e \in markers, Accounted(e),
           BeingEnqueued(e) => BeingEnqueued(e)'
    PROVE  Accounted(e)'
<1>1. e \in Events
  BY DEF TypeOK
<1>2. CASE Queue!Retry(j)
  BY <1>1, <1>2, JobGoesOn DEF Accounted, TypeOK
<1>3. CASE Queue!GiveUp(j) /\ markers' = markers \ {EventOf(j)}
  <2>1. e # EventOf(j) /\ LiveJobs(e)' = LiveJobs(e) \ {j}
    BY <1>1, <1>3, JobEnds DEF TypeOK
  <2>2. j \notin LiveJobs(e)
    BY <2>1 DEF LiveJobs
  <2> QED
    BY <2>1, <2>2 DEF Accounted
<1> QED
  BY <1>2, <1>3 DEF Rejected

LEMMA NextKeeps ==
    ASSUME "crash" \notin Faults, "clear" \notin Faults
    PROVE  InductiveInvariant /\ MarkerMeansHandled /\ [Next]_vars => MarkerMeansHandled'
<1> SUFFICES ASSUME InductiveInvariant, MarkerMeansHandled, [Next]_vars,
                    NEW e \in markers'
             PROVE  Accounted(e)'
  BY MarkersAccounted
<1>t. TypeOK /\ OneLiveJobPerEvent /\ HalfDone
  BY DEF InductiveInvariant
<1>a. e \in markers => e \in Events /\ Accounted(e)
  BY <1>t, MarkersAccounted DEF TypeOK
<1>q. UNCHANGED queueVars => LiveJobs(e)' = LiveJobs(e)
  BY DEF queueVars, LiveJobs, Queue!Settled
<1>1. ASSUME NEW d \in Events, Deliver(d)
      PROVE  Accounted(e)'
  <2>1. thread' = [at |-> "enqueue", event |-> d] /\ thread' # None
    BY <1>1, WebhookNoneAssumption DEF Deliver, Thread
  <2>2. CASE e = d
    BY <2>1, <2>2 DEF Accounted, BeingEnqueued
  <2>3. CASE e # d
    <3>1. e \in markers /\ UNCHANGED <<handled, queueVars>> /\ ~BeingEnqueued(e)
      BY <1>1, <2>3 DEF Deliver, BeingEnqueued
    <3> QED
      BY <1>a, <1>q, <3>1 DEF Accounted
  <2> QED
    BY <2>2, <2>3
<1>2. ASSUME NEW d \in Events, DeliverAgain(d)
      PROVE  Accounted(e)'
  BY <1>2, <1>a, <1>q DEF DeliverAgain, Accounted, BeingEnqueued
<1>3. CASE EnqueueEvent
  <2> DEFINE d == thread.event
             j == <<d, deliveries[d]>>
  <2>1. /\ d \in Events /\ BeingEnqueued(d)
        /\ Queue!Enqueue(j, "webhook.process")
        /\ UNCHANGED <<markers, handled>>
    BY <1>3, <1>t, ThreadType DEF EnqueueEvent, BeingEnqueued
  <2>2. j \in JobIds /\ EventOf(j) = d
    BY <1>t, <2>1, EventOfJob DEF InductiveInvariant, OnePlaceAtATime, TypeOK
  <2>3. \A f \in Events : LiveJobs(f)' = LiveJobs(f) \cup (IF d = f THEN {j} ELSE {})
    BY <1>t, <2>1, <2>2, JobStarts DEF TypeOK
  <2>4. BeingEnqueued(e) => e = d
    BY DEF BeingEnqueued
  <2> HIDE DEF j
  <2> QED
    BY <1>a, <2>1, <2>3, <2>4 DEF Accounted
<1>4. ASSUME NEW j \in JobIds, Queue!Complete(j), UNCHANGED markers,
             handled' = [handled EXCEPT ![EventOf(j)] = @ + 1],
             ~BeingEnqueued(e)
      PROVE  Accounted(e)'
  <2>1. EventOf(j) \in Events /\ LiveJobs(e)' = LiveJobs(e) \ {j}
    BY <1>4, <1>a, <1>t, EventOfJob, JobEnds DEF TypeOK
  <2>2. CASE e = EventOf(j)
    BY <1>4, <1>t, <2>1, <2>2 DEF Accounted, TypeOK
  <2>3. CASE e # EventOf(j)
    <3>1. j \notin LiveJobs(e) /\ handled'[e] = handled[e]
      BY <1>4, <1>a, <1>t, <2>3 DEF LiveJobs, TypeOK
    <3> QED
      BY <1>4, <1>a, <2>1, <3>1 DEF Accounted
  <2> QED
    BY <2>2, <2>3
<1>5. ASSUME NEW j \in JobIds, Skip(j)
      PROVE  Accounted(e)'
  BY <1>4, <1>5 DEF Skip, Runs, BeingEnqueued
<1>6. ASSUME NEW j \in JobIds, Upsert(j)
      PROVE  Accounted(e)'
  BY <1>6, <1>a, <1>q DEF Upsert, Runs, Accounted, BeingEnqueued
<1>7. CASE Entitle
  BY <1>4, <1>7, <1>t, ThreadType DEF Entitle, BeingEnqueued
<1>8. ASSUME NEW j \in JobIds, Rejected(j), UNCHANGED handled,
             \A f \in Events : ~BeingEnqueued(f)
      PROVE  Accounted(e)'
  <2>1. e \in markers
    BY <1>8 DEF Rejected
  <2>2. EventOf(j) \in Events
    BY EventOfJob
  <2> QED
    BY <1>8, <1>a, <1>t, <2>1, <2>2, RejectedKeeps
<1>9. ASSUME NEW j \in JobIds, ThrowAtStart(j)
      PROVE  Accounted(e)'
  BY <1>8, <1>9 DEF ThrowAtStart, Runs, BeingEnqueued
<1>10. CASE ThrowBetween
  BY <1>8, <1>10, <1>t, ThreadType DEF ThrowBetween, BeingEnqueued
<1>11. ASSUME NEW j \in JobIds, BackoffEnds(j)
      PROVE  Accounted(e)'
  BY <1>11, <1>a, <1>t, JobGoesOn DEF BackoffEnds, Accounted, BeingEnqueued, TypeOK
<1>12. CASE UNCHANGED vars
  BY <1>12, <1>a, <1>q DEF vars, Accounted, BeingEnqueued
<1> QED
  BY <1>1, <1>2, <1>3, <1>5, <1>6, <1>7, <1>9, <1>10, <1>11, <1>12 DEF Next, Restart

\* While the process lives and markers can be deleted, an event the route turns away
\* has been handled or is about to be, though statements of its handlers may throw.
THEOREM NoEventIsDropped ==
    ASSUME "crash" \notin Faults, "clear" \notin Faults
    PROVE  Spec => []MarkerMeansHandled
<1>1. Init => MarkerMeansHandled
  BY DEF Init, MarkerMeansHandled
<1>2. InductiveInvariant /\ MarkerMeansHandled /\ [Next]_vars => MarkerMeansHandled'
  BY NextKeeps
<1> QED
  BY <1>1, <1>2, InvariantHolds, PTL DEF Spec

-----------------------------------------------------------------------------
(* The webhook implements Entitlement *)

\* A step that leaves the tenants and what has been handled is none of the contract's.
LEMMA Stutters ==
    ASSUME UNCHANGED <<tenant, handled>> PROVE UNCHANGED Contract!vars
  BY DEF Contract!vars

\* The events handled so far, when one more has been.
LEMMA AppliedGrows ==
    ASSUME TypeOK, NEW e \in Events, handled' = [handled EXCEPT ![e] = @ + 1]
    PROVE  {d \in Events : handled'[d] > 0} = {d \in Events : handled[d] > 0} \cup {e}
<1>1. /\ handled'[e] = handled[e] + 1 /\ handled[e] \in Nat
      /\ \A d \in Events \ {e} : handled'[d] = handled[d]
  BY DEF TypeOK
<1>2. \A d \in Events : handled'[d] > 0 <=> handled[d] > 0 \/ d = e
  BY <1>1
<1> QED
  BY <1>2

\* An event that a running job is of has had no effect yet.
LEMMA RunningIsNotApplied ==
    ASSUME InductiveInvariant, NEW j \in JobIds, j \in Queue!In("running")
    PROVE  EventOf(j) \in Events /\ handled[EventOf(j)] = 0
<1>1. j \in LiveJobs(EventOf(j))
  BY DEF Queue!In, LiveJobs, Queue!Settled
<1> QED
  BY <1>1, EventOfJob DEF InductiveInvariant, OnePlaceAtATime

\* A handler with nothing to do: the contract ignores the event.
LEMMA SkipIgnores ==
    ASSUME InductiveInvariant, NEW j \in JobIds, Skip(j)
    PROVE  Contract!Next
<1> DEFINE e == EventOf(j)
<1>1. e \in Events /\ handled[e] = 0
  BY RunningIsNotApplied DEF Skip, Runs
<1>2. /\ UNCHANGED tenant
      /\ {d \in Events : handled'[d] > 0} = {d \in Events : handled[d] > 0} \cup {e}
  BY <1>1, AppliedGrows DEF Skip, InductiveInvariant
<1>3. \/ e.type = "other"
      \/ Contract!NotPaid(e)
      \/ e.type = "deleted" /\ \A t \in Tenants : ~Contract!Concerns(e, t)
  BY DEF Skip, IsSkipped, NotPaid, TenantsOf, Contract!NotPaid, Contract!Concerns
<1>4. Contract!Ignore(e)
  BY <1>1, <1>2, <1>3 DEF Contract!Ignore
<1> QED
  BY <1>1, <1>4 DEF Contract!Next

\* A handler's second write: the contract applies the event.
LEMMA EntitleApplies ==
    ASSUME InductiveInvariant, Entitle
    PROVE  Contract!Next
<1>t. TypeOK
  BY DEF InductiveInvariant
<1>j. thread.job \in JobIds /\ thread.tenant \in Tenants
  BY <1>t, ThreadType DEF Entitle
<1>0. PICK e \in Events, t \in Tenants : e = EventOf(thread.job) /\ t = thread.tenant
  BY <1>j, EventOfJob
<1>1. /\ thread.job \in Queue!In("running")
      /\ ~IsSkipped(e) /\ t \in TenantsOf(e)
  BY <1>0 DEF Entitle, HalfDone, InductiveInvariant
<1>2. e \in Events /\ handled[e] = 0 /\ t \in Tenants
  BY <1>0, <1>1, <1>j, RunningIsNotApplied
<1>3. /\ tenant' = [tenant EXCEPT ![t] = NewTenant(e, t)]
      /\ {d \in Events : handled'[d] > 0} = {d \in Events : handled[d] > 0} \cup {e}
  BY <1>0, <1>t, AppliedGrows DEF Entitle
<1>4. e.type # "other" /\ ~Contract!NotPaid(e) /\ Contract!Concerns(e, t)
  BY <1>1, <1>2 DEF IsSkipped, NotPaid, TenantsOf, Contract!NotPaid, Contract!Concerns
<1>5. /\ NewTenant(e, t).plan =
              IF Contract!Entitles(e) THEN Contract!PlanBought(e) ELSE "free"
      /\ NewTenant(e, t).customer =
              IF e.type = "checkout" /\ tenant[t].customer = None THEN e.customer
              ELSE tenant[t].customer
  <2>1. e \in Event /\ tenant[t] \in Tenant
    BY <1>2, <1>t, WebhookAssumption DEF TypeOK
  <2>2. e.type \in {"checkout", "updated", "deleted"}
    BY <1>4, <2>1 DEF Event
  <2>3. CASE e.type = "checkout"
    BY <2>3 DEF NewTenant, PlanOf, Contract!Entitles, Contract!PlanBought
  <2>4. CASE e.type = "updated"
    <3>1. NormalizeStatus(e.status) \in {"canceled", "past_due", "incomplete"}
              <=> e.status \notin {"active", "trialing"}
      BY DEF NormalizeStatus
    <3> QED
      BY <2>1, <2>4, <3>1
      DEF NewTenant, PlanOf, Tenant, Contract!Entitles, Contract!PlanBought
  <2>5. CASE e.type = "deleted"
    BY <2>1, <2>5 DEF NewTenant, Tenant, Contract!Entitles
  <2> QED
    BY <2>2, <2>3, <2>4, <2>5
<1> DEFINE plan == [u \in Tenants |-> tenant[u].plan]
           customer == [u \in Tenants |-> tenant[u].customer]
<1>6. /\ plan' = [plan EXCEPT ![t] =
                     IF Contract!Entitles(e) THEN Contract!PlanBought(e) ELSE "free"]
      /\ customer' = [customer EXCEPT ![t] =
                         IF e.type = "checkout" /\ @ = None THEN e.customer ELSE @]
  BY <1>2, <1>3, <1>5, <1>t DEF TypeOK
<1>7. Contract!Apply(e, t)
  BY <1>2, <1>3, <1>4, <1>6 DEF Contract!Apply
<1> QED
  BY <1>2, <1>7 DEF Contract!Next

\* Every step is a step of the contract or none.
LEMMA NextImplements ==
    InductiveInvariant /\ [Next]_vars => [Contract!Next]_(Contract!vars)
<1> SUFFICES ASSUME InductiveInvariant, [Next]_vars
             PROVE  Contract!Next \/ UNCHANGED Contract!vars
  OBVIOUS
<1>1. ASSUME NEW j \in JobIds, Skip(j)
      PROVE  Contract!Next
  BY <1>1, SkipIgnores
<1>2. CASE Entitle
  BY <1>2, EntitleApplies
<1>3. \/ \E j \in JobIds : Skip(j)
      \/ Entitle
      \/ UNCHANGED <<tenant, handled>>
  BY DEF Next, Deliver, DeliverAgain, EnqueueEvent, Upsert, ThrowAtStart, ThrowBetween,
         BackoffEnds, Restart, vars
<1> QED
  BY <1>1, <1>2, <1>3, Stutters

\* The tenants table moves by whole events, each at most once, through redelivery,
\* half-done handlers, retries, restarts and markers that are cleared or stay.
THEOREM WebhookImplementsContract == Spec => ImplementsContract
<1>1. Init => Contract!Init
  <2> SUFFICES ASSUME Init PROVE Contract!Init
    OBVIOUS
  <2>1. [t \in Tenants |-> tenant[t].customer] = Linked
    BY WebhookAssumption DEF Init
  <2>2. [t \in Tenants |-> tenant[t].plan] = [t \in Tenants |-> "free"]
    BY DEF Init
  <2>3. {e \in Events : handled[e] > 0} = {}
    BY DEF Init
  <2> QED
    BY <2>1, <2>2, <2>3 DEF Contract!Init
<1> QED
  BY <1>1, NextImplements, InvariantHolds, PTL
  DEF Spec, ImplementsContract, Contract!Spec

-----------------------------------------------------------------------------
(* What is paid for *)

\* Every checkout session is one for a subscription.
SubscriptionsOnly == \A e \in Events : e.type = "checkout" => e.mode = "subscription"

\* After an upsert every row is one that was there, or has what the new one says of the
\* subscription and its status.
LEMMA UpsertStatus ==
    ASSUME subscriptions \in Seq(Row), NEW row \in Row, UpsertSubscription(row)
    PROVE  \A i \in DOMAIN subscriptions' :
              \/ /\ i \in DOMAIN subscriptions
                 /\ subscriptions'[i] = subscriptions[i]
              \/ /\ subscriptions'[i].sub = row.sub
                 /\ subscriptions'[i].status = row.status
<1>1. CASE IsKnown(row)
  <2>1. subscriptions' = [i \in DOMAIN subscriptions |->
             IF subscriptions[i].sub = row.sub
             THEN [row EXCEPT !.tenant = subscriptions[i].tenant]
             ELSE subscriptions[i]]
    BY <1>1 DEF UpsertSubscription
  <2>2. \A t : LET new == [row EXCEPT !.tenant = t]
               IN  new.sub = row.sub /\ new.status = row.status
    BY DEF Row
  <2> QED
    BY <2>1, <2>2
<1>2. CASE ~IsKnown(row)
  <2>1. subscriptions' = Append(subscriptions, row)
    BY <1>2 DEF UpsertSubscription
  <2> QED
    BY <2>1
<1> QED
  BY <1>1, <1>2

\* Where every session is one for a subscription, a subscription is active only after
\* its session was paid, or Stripe said so: the sessions of other modes are the only
\* way round the check of the payment.
THEOREM OnlyPaidSubscriptionsApply ==
    ASSUME SubscriptionsOnly PROVE Spec => []OnlyPaidSessionsApply
<1>1. Init => OnlyPaidSessionsApply
  BY DEF Init, OnlyPaidSessionsApply
<1>2. InductiveInvariant /\ OnlyPaidSessionsApply /\ [Next]_vars => OnlyPaidSessionsApply'
  <2> SUFFICES ASSUME InductiveInvariant, OnlyPaidSessionsApply, [Next]_vars
               PROVE  OnlyPaidSessionsApply'
    OBVIOUS
  <2>t. TypeOK
    BY DEF InductiveInvariant
  <2>1. ASSUME NEW j \in JobIds, Upsert(j)
        PROVE  OnlyPaidSessionsApply'
    <3>1. PICK e \in Events, t \in Tenants :
              /\ ~IsSkipped(e)
              /\ UpsertSubscription(NewRow(e, t))
      BY <2>1, EventOfJob DEF Upsert, TenantsOf
    <3>2. e \in Event /\ e.type \in {"checkout", "updated", "deleted"}
      BY <3>1, WebhookAssumption DEF IsSkipped, Event
    <3>3. NewRow(e, t) \in Row
      BY <2>t, <3>2, RowTypes
    <3>4. NewRow(e, t).sub = e.sub
      BY DEF NewRow
    <3>5. NewRow(e, t).status = "active" =>
              \/ e.type = "updated" /\ NormalizeStatus(e.status) = "active"
              \/ /\ e.type = "checkout"
                 /\ e.mode = "subscription"
                 /\ e.payment \in {"paid", "no_payment_required"}
      BY <3>1, <3>2 DEF NewRow, IsSkipped, NotPaid, SubscriptionsOnly
    <3> SUFFICES ASSUME NEW i \in DOMAIN subscriptions',
                        subscriptions'[i].status = "active"
                 PROVE  \E f \in Events :
                          /\ f.sub = subscriptions'[i].sub
                          /\ \/ f.type = "updated" /\ NormalizeStatus(f.status) = "active"
                             \/ /\ f.type = "checkout"
                                /\ f.mode = "subscription"
                                /\ f.payment \in {"paid", "no_payment_required"}
      BY DEF OnlyPaidSessionsApply, NormalizeStatus
    <3>6. \/ i \in DOMAIN subscriptions /\ subscriptions'[i] = subscriptions[i]
          \/ /\ subscriptions'[i].sub = e.sub
             /\ subscriptions'[i].status = NewRow(e, t).status
      BY <2>t, <3>1, <3>3, <3>4, UpsertStatus DEF TypeOK
    <3> QED
      BY <3>5, <3>6 DEF OnlyPaidSessionsApply
  <2>2. [Next]_vars => (\E j \in JobIds : Upsert(j)) \/ UNCHANGED subscriptions
    BY DEF Next, Deliver, DeliverAgain, EnqueueEvent, Skip, Entitle, ThrowAtStart,
           ThrowBetween, BackoffEnds, Restart, vars
  <2> QED
    BY <2>1, <2>2 DEF OnlyPaidSessionsApply, NormalizeStatus
<1> QED
  BY <1>1, <1>2, InvariantHolds, PTL DEF Spec

-----------------------------------------------------------------------------
(* The queue under webhooks *)

\* The queue once more, with what is proved about it.
Jobs == INSTANCE JobQueueProofs WITH
    Names <- {"webhook.process"}, Registered <- {"webhook.process"}

\* Whatever happens to an event's job is a step of the queue, or the end of the process,
\* after which the queue is a new one.
LEMMA QueueSteps ==
    ASSUME InductiveInvariant, [Next]_vars
    PROVE  \/ [Jobs!Next]_Jobs!vars
           \/ "crash" \in Faults /\ Jobs!Init'
<1>t. TypeOK /\ HalfDone /\ OnePlaceAtATime
  BY DEF InductiveInvariant
<1>1. CASE EnqueueEvent
  <2>1. <<thread.event, deliveries[thread.event]>> \in JobIds
    <3>1. thread.event \in Events /\ deliveries[thread.event] > 0
      BY <1>t, <1>1, ThreadType DEF EnqueueEvent, OnePlaceAtATime, BeingEnqueued
    <3>2. deliveries[thread.event] \in 1..MaxDeliveries
      BY <1>t, <3>1, WebhookAssumption DEF TypeOK
    <3> QED
      BY <3>1, <3>2, EventOfJob
  <2>2. \E j \in JobIds : Jobs!Enqueue(j, "webhook.process")
    BY <1>1, <2>1 DEF EnqueueEvent, Queue!Enqueue, Jobs!Enqueue
  <2> QED
    BY <2>2 DEF Jobs!Next
<1>2. ASSUME NEW j \in JobIds,
             Queue!Complete(j) \/ Queue!Retry(j) \/ Queue!GiveUp(j) \/ Queue!TimerFires(j)
      PROVE  Jobs!Next
  <2>1. Jobs!Complete(j) \/ Jobs!Retry(j) \/ Jobs!GiveUp(j) \/ Jobs!TimerFires(j)
    BY <1>2 DEF Queue!Complete, Queue!Retry, Queue!GiveUp, Queue!TimerFires, Queue!In,
                Queue!MayRetry, Jobs!Complete, Jobs!Retry, Jobs!GiveUp, Jobs!TimerFires,
                Jobs!In, Jobs!MayRetry
  <2> QED
    BY <2>1 DEF Jobs!Next
<1>3. CASE Entitle \/ ThrowBetween
  <2>1. thread.job \in JobIds
    BY <1>t, <1>3, ThreadType DEF Entitle, ThrowBetween
  <2>2. Queue!Complete(thread.job) \/ Queue!Retry(thread.job) \/ Queue!GiveUp(thread.job)
    BY <1>3 DEF Entitle, ThrowBetween, Rejected
  <2> QED
    BY <1>2, <2>1, <2>2
<1>4. ASSUME NEW j \in JobIds, Skip(j) \/ ThrowAtStart(j) \/ BackoffEnds(j)
      PROVE  Jobs!Next
  BY <1>2, <1>4 DEF Skip, ThrowAtStart, BackoffEnds, Rejected
<1>5. CASE Restart
  BY <1>5 DEF Restart, Jobs!Init
<1>6. ASSUME \/ \E e \in Events : Deliver(e) \/ DeliverAgain(e)
             \/ \E j \in JobIds : Upsert(j)
             \/ UNCHANGED vars
      PROVE  UNCHANGED Jobs!vars
  BY <1>6 DEF Deliver, DeliverAgain, Upsert, vars, queueVars, Jobs!vars
<1> QED
  BY <1>1, <1>3, <1>4, <1>5, <1>6 DEF Next

\* What the queue's own proofs assume.
LEMMA JobsAssumption ==
    ASSUME IsFiniteSet(Events)
    PROVE  Jobs!JobQueueAssumption
<1>1. IsFiniteSet(1..MaxDeliveries)
  BY FS_Interval, WebhookAssumption
<1>2. IsFiniteSet(JobIds)
  BY <1>1, FS_Product DEF JobIds
<1>3. Jobs!IsFiniteSet(JobIds)
  BY <1>2 DEF IsFiniteSet, Jobs!IsFiniteSet
<1>4. None \notin Jobs!Job
  BY WebhookNoneAssumption DEF Jobs!Job, Jobs!Phases, Queue!Job, Queue!Phases
<1> QED
  BY <1>3, <1>4, WebhookAssumption

\* The queue's counters account for every job of a webhook, its attempts are used up
\* before it fails, and its retries are counted once, through any faults and restarts.
THEOREM WebhookJobsAreCounted ==
    ASSUME IsFiniteSet(Events)
    PROVE  Spec => [](Jobs!StatsBalance /\ Jobs!AttemptsAreUsedUp /\ Jobs!RetriesAreCounted)
<1>1. Jobs!Init => Jobs!QueueInvariant
  BY JobsAssumption, Jobs!InitQueue
<1>2. Jobs!QueueInvariant /\ [Jobs!Next]_Jobs!vars => Jobs!QueueInvariant'
  BY JobsAssumption, Jobs!NextQueue
<1>3. Init => Jobs!Init
  BY DEF Init, Queue!Init, Jobs!Init
<1>4. InductiveInvariant /\ [Next]_vars => [Jobs!Next]_Jobs!vars \/ Jobs!Init'
  BY QueueSteps
<1>5. Jobs!QueueInvariant =>
          Jobs!StatsBalance /\ Jobs!AttemptsAreUsedUp /\ Jobs!RetriesAreCounted
  BY DEF Jobs!QueueInvariant
<1> QED
  BY <1>1, <1>2, <1>3, <1>4, <1>5, InvariantHolds, PTL DEF Spec

\* While the process lives, all that the route, the handlers and the timers do to their
\* jobs is what the queue does.
THEOREM WebhookImplementsQueue ==
    ASSUME "crash" \notin Faults PROVE Spec => Jobs!Spec
<1>1. Init => Jobs!Init
  BY DEF Init, Queue!Init, Jobs!Init
<1>2. InductiveInvariant /\ [Next]_vars => [Jobs!Next]_Jobs!vars
  BY QueueSteps
<1> QED
  BY <1>1, <1>2, InvariantHolds, PTL DEF Spec, Jobs!Spec

\* So an event's job only goes forward, to an end it stays at.
THEOREM WebhookJobsMoveForward ==
    ASSUME "crash" \notin Faults, IsFiniteSet(Events)
    PROVE  Spec => Jobs!JobsMoveForward /\ Jobs!SettledForGood
<1>1. Jobs!Spec => Jobs!JobsMoveForward
  BY JobsAssumption, Jobs!JobsGoForward
<1>2. Jobs!Spec => Jobs!SettledForGood
  BY JobsAssumption, Jobs!SettledJobsRest
<1> QED
  BY <1>1, <1>2, WebhookImplementsQueue, PTL

=============================================================================
