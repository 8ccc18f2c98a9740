# A TLA+ model of the usage metering and billing service

The service meters a billable endpoint per tenant and month, enforces plan limits, alerts at 80% and
100% of a limit, and keeps each tenant's plan in step with Stripe through signed webhooks. It is one
Node.js process over an SQLite file (`better-sqlite3`, synchronous). This directory holds its TLA+
model: the modules, the TLC configurations that check them on small instances, and proofs checked by
TLAPS. Source paths below are relative to the repository's `src/`; `README.md:<line>` is the
repository's own README.

What makes the code hard is one fact, met in every part: **no transaction spans a handler**. Handlers
run to their end on one JavaScript thread, so two requests never interleave inside one, but each SQL
statement commits by itself. Between two statements the process may die, a statement may throw, the
calendar month may end, and the scripts, which are processes of their own, may write: `npm run seed` a
plan, `npm run rollup` alerts and rollups. Afterwards the client or Stripe sends the same thing again.

## 1. Inventory

| component | source | state | operations | hard behaviour | what makes it correct |
|---|---|---|---|---|---|
| Billable endpoint | `routes/generate.js`, `middleware/tenantAuth.js` | `request_responses`, the handler's locals | `POST /generate` | cut short between writes, same key again, another tenant's key, month rollover, a plan seeded meanwhile | billed once, in full, within the limits; a repeated key gets the original answer |
| Meter | `services/meterService.js`, `001_init.sql` | `usage_events` | `record`, `recordRequest`, totals | duplicate detection row by row | a response's rows are all there; totals are what is reported |
| Quota and payment gate | `services/quotaService.js` | none | `enforceQuota` | checked once, used later | limits are inclusive and never passed under the plan that was checked |
| Alerts | `services/alertService.js`, `002_alerts.sql` | `usage_alerts` | `evaluateAlerts` | partial evaluation, rounding, plan changes, the rollup as a second writer | earned, ordered, reported at most once, none missing after an evaluation that ended |
| Job queue | `jobs/queue.js` | `running`, `stats`, `timers`, jobs | `enqueue`, `_dispatch`, `_fail` | overlap, retries, timers | counters balance, attempts bounded, every job settles for good |
| Webhook route | `routes/webhooks.js` | `stripe_events` (markers) | `POST /webhooks/stripe` | redelivery, restart | an event is handled at most once, and never lost |
| Subscription sync | `jobs/index.js`, `services/subscriptionService.js` | `subscriptions`, `tenants` | three event handlers | two writes each, any order of events | a tenant's plan is one that its subscriptions grant; plans move by whole events |
| Server wiring | `server.js` | – | `onError`, scheduler, `shutdown` | marker deletion may throw; shutdown does not wait for the queue | – |
| Checkout | `routes/checkout.js`, `services/stripeService.js` | `tenants.stripe_customer_id` | `ensureCustomer`, `createCheckoutSession` | an `await` between read and write | a cancelled subscription's tenant is still found |
| Rollup | `jobs/rollup.js` | `usage_rollups` | `runRollup` | two processes, a row per tenant, an early end | never claims more than was recorded; only the script can take it back; the current month catches up |
| Cost | `services/costService.js` | none | integer prices | rounding per event and per total | a month costs no less than its events, and less than a micro-dollar a row more |
| Seed | `db/seed.js` | `tenants.plan_id` | upsert of the demo tenants | a process beside the server, inside its handlers too | a request is served under one plan throughout; a plan that no subscription grants is a seeded one |
| Queries, validation, configuration, migrations, scripts | `routes/usage.js`, `app.js`, `middleware/`, `config.js`, `db/`, `scripts/` | – | – | – | – |

The parts interact through the database and by plain calls. `generate` calls quota, meter and alerts.
The webhook route puts an event on the queue; the queue runs a handler of the subscription sync,
which writes the plan and subscription status that `tenantAuth` loads for the next `generate`; the
queue's error callback in `server.js` deletes the event's marker. The rollup reads what `generate`
records and inserts alerts beside it; checkout and the seed write the `tenants` rows that webhooks
write. `npm run rollup` and `npm run seed` are processes of their own. `PROJECT.json` lists every hazard
at its line with the properties that would catch it.

## 2. Modules

    MeterContract <- MeterContractProofs   (TLAPS)   atomic billing: what a client is promised
        ^  INSTANCE, refinement
    Metering <- MeteringContract <- MCMetering       (TLC)
        ^               ^---------- MeteringContractProofs (TLAPS), which carries the
        '- UsageProofs <- MeteringProofs <--'        theorem of MeterContractProofs over

    JobQueue <- MCJobQueue   (TLC)       JobQueue <- JobQueueProofs   (TLAPS)
        ^  INSTANCE                                      ^  INSTANCE, in WebhookSyncProofs
    WebhookSync <- WebhookContract <- MCWebhookSync <---.
        ^               ^------ WebhookSyncProofs      (TLAPS)
        '------ Billing <------------------------------ MCBilling   (TLC)
                   ^----------- BillingProofs, which extends WebhookSyncProofs
    Entitlement                          abstract: plans move by whole events
        ^  INSTANCE, refinement, in WebhookContract

    Rollup <- MCRollup   (TLC)           Rollup <- RollupProofs     (TLAPS)

### Metering

| variable | code |
|---|---|
| `account[t]` | what `loadTenantWithPlan` returns: `tenants.status`, the plan, the newest subscription's status |
| `clock` | the calendar month; `periodOf()` reads it, the database's `recorded_at` default too |
| `events`, `alerts`, `responses` | the rows of `usage_events`, `usage_alerts`, `request_responses` |
| `req` | the handler's locals: the account that was loaded, which types are still to be recorded, which were, which alert thresholds are left to evaluate |
| `reply` | the answer the last step sent |
| `loaded[w]`, `firing[w]` | the locals of a rollup's evaluation of alerts: the tenant and plan it has loaded, then the alerts it has still to insert |

`usage[t][p][type]` is no variable but what `totalsByType` selects: the SUM of the quantities of those
rows of `events`. It is written as the number of units they stand for (`SumOfQuantities`, a
cardinality) so that proofs need no recursion; `SumAssumption` in `MCMetering` checks this form against
`MapThenSumSet`. Rows are known by their idempotency key `key::type`, the pair of those fields:
`InsertEvent` refuses a second row of a pair, as the column's UNIQUE does by throwing.

One action per outcome of the handler's read-only prefix (`Forbidden`, `Mirror`, `PaymentRequired`,
`QuotaExceeded`, `Admit`) and one per committed statement after it: `RecordFresh` and
`RecordExisting` (one `record()` each, in the order of `usageByType`), `AnswerDuplicate`,
`EvaluateAlert` (one turn of the loop in `evaluateAlerts`), `AlertsThrow` (the handler's `catch`),
`Respond`. The account is loaded by `tenantAuth` before all that and not again: `req.account` keeps it.
Quota, alerts and response go by that copy. The reads of the prefix are one step: of what they read
only the account and the month can change meanwhile, both are read first, and a later change is one that
follows the step.

Around the handler: `Abort` (a crash, or a statement that throws and ends in a 500), `NextMonth` and
`Reseed` at any time, `SetAccount` (a webhook job, on the handler's thread) only between handlers, and a
rollup's `evaluateAlertsForPeriod`: `LoadTenant`, `ReadTotals`, then one `InsertAlert` per crossed
threshold in the order of the loop, or `EvaluationEnds`. `npm run rollup` is a process of its own, so
any statement of the handler, of the seed and of the calendar may come between these, and what it
inserts was due when it read. `Evaluators` are the rollups that may do so at one time; `RollupMonths` bounds the months they
are started for. `Abort` and `AlertsThrow` are switched by the constant `Faults`, the seed by `SeedPlan`.
`Reseed` leaves the limits alone: `db/seed.js` writes those of `config.js`, which they are already.

A body is its byte length and its three optional fields; `SimulateTokens` computes the token counts as
the code does. A stored response is what tells two responses apart; its `plan`, `period` and `thrown`
(whether evaluating its alerts threw) are fields of the model only, for the properties. Bodies refused
with 400 and unknown API keys (401) change nothing and are left out. `src/` never sets a tenant to
`suspended`; an operator may, so accounts include it.

`MeterContract` states the same service as an atomic step, `Charge`: a key is billed once, with its
answer, within the limits of the terms the request was accepted on; `Repeat` gives the original bill;
`Refuse` changes nothing. Its answers are outcomes (`billed`, `repeated`, `unpaid`, `forbidden`,
`exceeded`) and not HTTP statuses, because code and documentation disagree on one of those (section 4).
Its `SpentIsBilled` says that what a tenant has spent is what its bills add up to.
`MeteringContract` maps `Metering` to it: a request's rows count when its response is stored, and a
tenant's terms are those of its request while that is in the handler (`Terms`), so that a plan seeded meanwhile takes
effect with the next one. `SettledIsBilled` is `SpentIsBilled` of the code's tables.
`ContractInvariant` is what the refinement rests on: a key is its tenant's own; rows without a response
are those of the request under way, and all of it fits under the plan it was loaded with.

### JobQueue

`job[j]` is a job's name, attempt and phase; `running`, `stats` and `timers` are the fields of the
class. `Enqueue` includes the first `_dispatch`, `Complete`/`Retry`/`GiveUp` are the promise's two
outcomes and the retry test, `TimerFires` is the dispatch after a backoff. Backoff times are left out,
so timers fire in any order. `Age` is how far a job is from its first attempt to the end of its last;
`JobsMoveForward` says that every step of a job adds to it. `RetriedAttempts` is what `RetriesAreCounted`
compares `stats.retries` and `timers` with. `JOB_MAX_ATTEMPTS=0` (which would still run a job once) is outside the
assumption `MaxAttempts \in Nat \ {0}`.

### WebhookSync

`markers` is `stripe_events`, `subscriptions` and `tenant` are the two tables, the queue is an
INSTANCE of `JobQueue` over the same variables. `thread` is the point between two writes the thread
has reached: between the marker and `enqueue`, or between `upsertSubscription` and the UPDATE of
`tenants`. `Deliver`, `DeliverAgain` and `EnqueueEvent` are the route; `Skip`, `Upsert`, `Entitle`,
`ThrowAtStart` and `ThrowBetween` are the handlers; `Rejected` is the queue's error path together with
the callback in `server.js`; `Restart` is a crash, or `shutdown()`, which does not wait for the queue.
`upsertSubscription` looks a subscription up by its id (`IsKnown`) and updates it in place, keeping its
tenant; a session whose id is no string (`subscriptionService.js:86`) has none, and each run of its
handler inserts another row. The column's UNIQUE is never met, because nothing runs between the lookup
and the INSERT; `OneRowPerSubscription` says so, as part of the invariant.
`handled[e]` counts for the properties how often a job of `e` has ended well. `OnePlaceAtATime` says
that an event is at the route, in the queue or handled, never in two of these; `HalfDone` says that
between a handler's two writes its job runs and the tenant it found is still the one it would find.
Signature verification
is Stripe's library: the model starts from verified events. Faults: `throw` (a statement throws),
`crash`, `clear` (the DELETE of a marker throws).

`Entitlement` is what this promises a tenant, in one step per event: `Apply` moves the plan and the
customer link of the tenant the event concerns, `Ignore` leaves them, and no event has an effect
twice. `WebhookContract` maps `WebhookSync` to it; a half-done handler (the subscription written, the
tenant not) is a stutter. Events count in the order in which they are applied: the code compares no
times, so `Entitlement` does not promise Stripe's order.

### Billing

`WebhookSync` together with what else writes `tenants`. `call[c]` is a request to
`POST /checkout/subscription`: `StartCheckout` ends at the `await` of `customers.create`,
`CustomerCreated` is the UPDATE after it, which does not look at the row again, `StripeFails` the
rejection, `CheckoutLinked` the path of a tenant who has a customer already. Stripe gives each call a
customer of its own (`CustomerOf`). `Reseed` is the upsert of `db/seed.js` for a demo tenant
(`SeedPlan`). `RestartAll` is `Restart` and the loss of the waiting calls.

Every request ends at `stripeService.js:47`, where `plan.stripe.price_id` is read of a row of `plans`;
that row has no field `stripe`, and the error handler turns the `TypeError` into a 400. No checkout
session is ever asked for, although `README.md:126` documents `201`. A session's events reach the
webhook all the same, from sessions made otherwise (`scripts/simulate_webhook.js`, the dashboard), so
the model's customers of calls appear in no event.

`PlanFollowsSubscription` relates the two tables that a handler writes one after the other: the plan of
`tenants` is what a row of `subscriptions` grants (`Grants`), and the free one without rows, or the
seeded one. Where the two disagree there is an event about the tenant that was cut short after its
first write (`HalfApplied`): its row stands and the event is still to be handled, so a retry or a new
delivery will write the plan. One disagreement is not made good: a deletion that was cut short and then no
longer finds the tenant by its customer, because a checkout has replaced that (the cause of
`lost_cancellation`, section 4), is handled without writing the plan; `HalfApplied` names it (the events of
`webhook_sync` do not get there, the proof covers it). For a tenant with one subscription the plan that `enforceQuota` reads and the status its payment gate reads
(`repo.js:33`) so agree; with several, either may be of another subscription, as the code compares none.

The invariant follows who a row can be about: `Owns(t, c)` and `MayConcern(e, t)` say whose customers
and events these are, from the links at the start and the checkout events alone; `CustomersHaveOwners`
and `RowsHaveOwners` say the tables agree; `RowIsWritten` says the first write still stands when the
second comes. `RowsAreLinked` says that a row's tenant is still found by the customer its subscription's
events name; it holds where no checkout replaces customers (`OneCustomerEach`, section 5).
`OneTenantEach` is the assumption on the events (section 5).

### Rollup

`totals[t][p]` is what the SELECT of `persistRollups` sums, `rollups` the table, `run[w]` the rows a
run has read and not yet written, one run of the server's and one of `npm run rollup`. `ServerRead`
and `ManualRead` are the SELECT, `Write` is one tenant's upsert, `Finish` the end, `Stop` an early
one. In the server `Record` and the rollup exclude each other, because `persistRollups` does not
await; so what a run of the server's has read is never out of date (`ServerReadIsCurrent`), and only a
run of the script's can lower a row (`RollupsOnlyGrow`). `CostMicrosFor` and `CostMicrosForTotals` are
`costService.js`; `UsageCost` is what `GET /usage` answers. `counted` and `priced` are the number of a
month's rows and the sum of what each costs by itself (`costMicrosForEvents`), kept for `CostBounds`:
the cost of the month's totals is at least that sum, and above it by fewer micro-dollars than there are
rows.

## 3. Runs

| run | instance | states | shows |
|---|---|---|---|
| `metering_months` | 1 tenant, 2 keys, 2 bodies, 2 months, both plans, both faults, a rollup of the first month, the seed | 1,053,949 | `AdmittedWithinLimit`, `ReportedUsageIsActual`, `AlertsAreEarned`, `HundredAfterEighty`, `AlertsFireOnce`, `AlertsCaughtUp`, and the inductive invariant of the proofs |
| `metering_tenants` | 2 tenants sharing 2 keys, all kinds of account, 1 month, both faults | about 1,040,000 | `StoredResponseIsCharged`, `NoResponseKeyClash` |
| `metering_contract` | 2 tenants with keys of their own, the seed, no faults | 6,696 | `Metering` implements `MeterContract`; `SettledIsBilled`; the invariant `ContractInvariant` of their proofs |
| `job_queue` | 3 jobs, a registered and an unknown name, 3 attempts | 1,331 | `StatsBalance`, `AttemptsAreUsedUp`, `RetriesAreCounted`, `SettledForGood`, `JobsMoveForward`; `EveryJobSettles` under fairness |
| `webhook_faults` | 3 events: a subscription, its past-due notice, a session without an id that names another tenant's customer; 2 deliveries, 2 attempts, all faults | 383,317 | `OneLiveJobPerEvent`, `LiveJobHasMarker`, `HandledAtMostOnce`, the inductive invariant of the proofs; `WebhookSync` implements `Entitlement` |
| `webhook_sync` | 3 events of two tenants, 2 deliveries, one checkout call, the second tenant seeded, statements that throw | 325,510 | `MarkerMeansHandled`, `PlanFollowsSubscription` and its invariant `BillingInvariant`; `EventsSettle` under fairness |
| `rollup` | 2 tenants, 2 months, 2 rows each, one manual run, one early end | 698,795 | `RollupIsPast`, `CostBounds`, `RollupsOnlyGrow`, the inductive invariant; `RollupCatchesUp` under fairness |
| `duplicate_records`, `duplicate_answer`, `webhook_crash`, `webhook_unpaid`, `lost_cancellation` | as above, the last with two events and one call | – | the disagreements of section 4 |

Why the bounds are enough. With limits of 1 and 2 calls and 4 and 5 tokens, requests of 2 and 3
tokens land below, on and over each limit, and a request can cross both thresholds at once. Two bodies
under one key differ in a sub-key (`input` or `cached_input`, and `reasoning`), which is all that
duplicate detection can see of them. Two months allow a request to be admitted in one and recorded in
the next, where another request follows; the rollup there evaluates the first of the two, the month that
usage is recorded in and that then ends, and the seed puts a tenant that may be on `pro` back on `free`, whose limits are the lower
ones. Keys are symmetric where every tenant may use every key. In the
queue, three jobs are in three phases at once, and with three attempts a job is neither on its first
nor its last. Two deliveries of an event are one and its repetition; two attempts are one retry and
the last. One checkout call is enough for its two halves to enclose any number of events, and a second
would only replace the link again. The tenant the seed writes in `webhook_sync` is linked and is told of
a deletion, so the seed comes between the two writes of that too. In the rollup, the row of one tenant
can be written and that of the other be left; one manual run can hold older totals while the server's
timer runs any number of times; two rows cost 0.6 micro-dollars each and 1.2 together for one tenant and 0.3 and 0.6 for the other, so
that a sum gains or does not gain a whole micro-dollar, and a month may hold rows of two types.

`MeteringContract.cfg` leaves out failures, months and shared keys because the contract is false with
them: that is what `duplicate_answer` shows, and another tenant's key does the same. `webhook_sync`
leaves out the crash for the reason `webhook_crash` shows, and the throwing DELETE of a marker because
the marker then stays for good. `webhook_faults` has no checkout and no seed: `Entitlement` is about the
webhook alone, and either of them writes the plan or the link without an event.

Deadlock is checked in all runs of `Metering` and of `Rollup`, where a step is always possible. The
queue stops when all its jobs have settled and the webhooks when all deliveries are used up: there
`CHECK_DEADLOCK FALSE`.

Fairness is assumed in three places, of what runs without anyone asking:

- `JobQueue`: weak fairness per job of "the handler's promise settles" and "the timer fires". The
  registered handlers end on every path, and Node.js fires timers that are due while the process
  runs. Which outcome a promise has is not constrained.
- `FairBillingSpec`: weak fairness of `Work`, the event loop taking the next job, timer or statement.
  Deliveries, checkouts, Stripe's answers and the seed are under no obligation. `EventsSettle`
  follows although events whose tenant is not known keep throwing.
- `Rollup`: weak fairness of `ServerRead`, `Write("server")` and `Finish("server")`, the scheduler's
  interval with `ROLLUP_INTERVAL_MS > 0` and a synchronous handler. Usage, months, manual runs and
  early ends are bounded, so the property is about what holds once they come to rest; the month that
  has ended is not part of it (its last rows may never be rolled up).

## 4. Where the code and its words differ

- **A duplicate may record rows** (`duplicate_records`). `recordRequest` does not stop at a sub-key that
  exists, so a key sent with `cache_input` changed inserts a new row and is then called a
  duplicate. The comment at `meterService.js:55-57` says nothing new is recorded. In the run's trace the
  rows that exist are another tenant's, under the same key; a tenant's own key sent again does the same
  after a handler that was cut short.
- **A duplicate of nothing** (`duplicate_answer`). If a handler ends after its rows and before its
  response, every later request of the key is answered `duplicate: true` without a result: it has
  been billed and cannot be had. `generate.js:40` promises the original response.
- **An event lost in a restart** (`webhook_crash`). The marker is committed before the event is handled,
  the queue is in memory, and the route turns every redelivery away. `README.md:241` says
  at-least-once; `README.md:239-240` admits that jobs do not survive, and the marker makes it final.
- **Unpaid sessions that are not subscriptions** (`webhook_unpaid`). The comment at
  `subscriptionService.js:64` says only paid subscription sessions apply; line 68 tests the payment
  only of those.
- **A cancellation without effect** (`lost_cancellation`). `ensureCustomer` reads the tenant before it
  awaits Stripe and writes the new customer after it, over one that a webhook has linked meanwhile
  (`stripeService.js:31`). The linked customer's deletion event then finds no tenant, counts as
  handled, and subscription and plan stay. The comment at `subscriptionService.js:143` says that it
  cancels and downgrades.

Other differences have no run of their own:

- **A duplicate is answered 201.** `README.md:123` and the comment at `generate.js:40` promise `200` for
  a duplicate; both of its paths answer 201 (`generate.js:70`, `generate.js:105`). The model's `Mirror`
  and `AnswerDuplicate` answer 201 as the code does, and no property and no contract asks for a status.
- **An alert may be reported by nobody.** `README.md:191` says each alert fires exactly once.
  `AlertsFireOnce` is the half that holds. The other does not: when evaluation throws after an INSERT, the
  row stands, the response lists no alerts, and `INSERT OR IGNORE` keeps a later one from reporting it.
- **Rounding.** `README.md:245` says the cost is floored per event; `persistRollups` and `GET /usage`
  floor each type's monthly total. `CostBounds` says how far the two are apart: the run has months that
  cost a micro-dollar more than their events.
- **A session without a subscription's id** inserts another row of `subscriptions` each time its handler
  is tried again, as nothing can find the row of the first attempt.
- **Checkout's 400** (section 2, Billing).

## 5. Proofs

`MeteringProofs` proves for all tenants, keys, bodies, accounts, seeded plans, limits, months, rollups
and faults (the assumptions `MeteringAssumption` and `NoneAssumption`, which TLC evaluates on each
run): `TypeCorrect`, `InvariantHolds`, `ResponsesArePaidFor`, `ResponseCanBeStored`,
`ReportIsActual`, `AlertsStandForUsage`, `AlertsAreOrdered`, `AlertsFireAtMostOnce` and `LimitsHold`.

The properties are not inductive by themselves. `InductiveInvariant` is `AccountingInvariant`, what the
handler relies on between its statements, with `AlertsFireOnce` and `FiredAlertsStand`. The parts of the
first:

- `RoomForPending` is the heart of `LimitsHold`. What a request has not yet inserted fits, under the plan
  it was loaded with, into its own month *and every later one*; on admission because `WithinQuota` was
  tested for the current month and later months are empty (`FutureIsUnused`). Each `RecordFresh` takes
  from that room exactly what it adds to usage, in whichever month the database dates the row. That
  the tenant's row may have another plan by then (`Reseed`) does not matter, and the theorem does not
  speak of it: a tenant seeded back to `free` while a request is in the handler may end up over the
  `free` limit.
- `RequestIsCurrent` says the key has no stored response, which with `RecordedRowsExist` gives
  `StoredResponseIsCharged`: a request that is no duplicate has inserted each of its rows itself.
- `NoResponseKeyClash` joins two tables: another tenant's response under the key would have its
  `api_call` row (`ResponsesAreCalls`), and `record()`, which looks across tenants, would have made
  the request a duplicate.
- `UsageIsAccounted` says that while the month lasts usage is what was read plus what was recorded,
  hence `ReportIsActual`.
- `EightyIsSettled` says that between a metric's two thresholds the 80% alert stands if usage calls for
  it, and `FiringIsDue` that what a rollup has still to insert was earned when it read the totals and
  comes after its 80% alert; with `ThresholdMeaning` (rounding up) they give `HundredAfterEighty` and
  `AlertsAreEarned`.

`NextAccounting` has one lemma per action that disturbs it, and `QuietStep` and `BesideStep` for the
others. `AlertsFireAtMostOnce` rests on `FiredAlertsStand`: what a stored response or the request at
hand reports is a row of `usage_alerts`, and an insert reports only a row that was not there, whether
the handler or a rollup put it there (`NextFiring`; `NoFiring` for steps that report nothing).

`UsageProofs` holds the lemmas about the sums. A sum over a set is an induction the provers cannot do;
as the cardinality of the set of units it needs only that a new row adds as many units as its quantity
(`SumOfOneMore`), all disjoint from those of the other rows because the row is new. `NewRowCounts` does
this for the usage of one tenant, month and type; `SameRowsSameUsage` and `OnlyRecordingCounts` say that
no other step changes any. That the units are finitely many is part of `TypeOK`.

`RollupProofs` proves for all tenants, prices, rows, months and bounds (`RollupAssumption`)
`InvariantHolds`, `RollupsArePast`, `RoundingIsFair` and `RollupsGrow`. `RollupIsPast` needs `ReadIsPast`: rows that a
run has read were the totals then, and totals only grow; `TotalCostOrder` carries the order over to
costs. `CostBounds` is inductive with `EmptyMonthIsUnused`: a row adds to the month's cost what it costs
by itself, or one micro-dollar more (`CostOfRowInTotals`), and the first row of a month exactly what it
costs. `RollupsGrow` needs `ServerReadIsCurrent`, and
`RollupIsPast` for the rows a script has left: what the server writes over them late is no less.

`JobQueueProofs` proves `TypeCorrect`, `StatsAreBalanced` (for any finite set of jobs, by counting the
jobs of each phase before and after one moves: `OneJobMoves`), `AttemptsAreRespected`, `SettledJobsRest`,
`RetriesAreCountedOnce` and `JobsGoForward`. `QueueInvariant` joins what is inductive with `TypeOK`; that
retries are counted needs that attempts are used up, as a retry adds one pair to `RetriedAttempts` only
while its attempt is within the bound. `JobsGoForward` is the safety half of `EveryJobSettles`: as
`Age` grows with each step of a job and is at most `2 * MaxAttempts`, a job cannot be retried in a
circle; that it is not left alone is the fairness TLC checks it under.

`MeteringContractProofs` adds what needs a hypothesis.

- `AlertsCatchUp`: `[]AlertsCaughtUp`, which needs none: the property itself excepts responses whose
  evaluation threw, as that is not made up for until the next request or rollup of the month, by design
  (the `catch` in `generate.js` answers 201 all the same). It rests on `[]DueIsSettled`: a threshold the
  handler has passed, reached by usage, has its alert, whoever inserted it (`EvaluatedIsSettled`).
- `NothingIsLeftBehind`: `[]ContractInvariant` if `KeysArePrivate` and `"abort"` is not in `Faults`. A
  request then never finds a sub-key of its own in the table (`NoDuplicate`), as every older row has its
  response, which `Mirror` would have sent. What the request was granted (`RequestIsGranted`) is judged by
  the account it was loaded with, as the handler's own decisions are. From it follows `DuplicatesAreMirrored`: then duplicates
  record nothing and get the original response, so both findings about duplicates (section 4) need a
  shared key or a handler that was cut short.
- `MeteringImplementsContract`: `Spec => ImplementsContract` under `OneQuietMonth`, which is these two
  with `LastPeriod = 1` and `Bodies # {}`, for any seeded plans. `Respond` maps to `Charge`, `Mirror` to `Repeat`, the three
  refusals to `Refuse`, every other step to `Quiet` or a stutter: one lemma each, collected in
  `StepIsContractStep`. Each hypothesis excludes behaviour of the code that breaks the contract:
  with an abort, or with another tenant's key, comes `duplicate_answer`; a request that is recorded
  while the month ends is split between two months, so it is no single charge. `Bodies # {}` only says
  that there is something to ask for: a refusal in the contract names the usage that was refused.
- `UsageIsBilled`: `[]SettledIsBilled` under `OneQuietMonth`. It is not proved of the handler: it is proved
  once of the atomic service (`MeterContractProofs`, `SpendingIsBilled`, where one `Charge` adds one
  bill; it asks only that usages are numbers) and holds of the handler because that implements it.

`WebhookSyncProofs` proves for all tenants, events, deliveries, attempts and faults
(`WebhookAssumption`) `InvariantHolds`, `TypeCorrect`, `JobsDoNotOverlap`, `LiveJobsAreMarked` and
`EventsAreHandledOnce`, with the deletion of a marker throwing or not.

- None of these is inductive alone. That jobs of an event do not overlap holds because a marker stands
  while a job lives, that an event is handled once because its marker also stands afterwards, and
  `Rejected` may delete a marker only because its job was the one live job: `OnePlaceAtATime` says this
  once. `PlacedByEvent` takes the four statements apart by event; `HandledStep` and
  `RejectedStep` prove them for the two ways a job ends, `NextPlaced` for all steps. What the queue's
  own actions do to the live jobs is `JobStarts`, `JobEnds`, `JobGoesOn`.
- `HalfDone` makes `Entitle` write for the event and the tenant that `Upsert` wrote for.
- `OnlyPaidSubscriptionsApply`: `[]OnlyPaidSessionsApply` if every checkout session is one for a
  subscription, with all faults. Sessions of other modes (`webhook_unpaid`) are the only way round the
  check of the payment.
- `WebhookImplementsQueue`: without restarts `Spec => Jobs!Spec`, where `Jobs` is `JobQueue` with its
  proofs. `QueueSteps` is the argument: what a handler, the route or a timer does to its job is a step
  of the queue, of a job the queue can have (`OnePlaceAtATime`). So `JobsGoForward` and
  `SettledJobsRest` carry over (`WebhookJobsMoveForward`, for finitely many events). A restart is no step of the
  queue, but leaves a new one, so the counters, attempts and retries are right with restarts too
  (`WebhookJobsAreCounted`).
- `NoEventIsDropped`: `[]MarkerMeansHandled` if neither `"crash"` nor `"clear"` is in `Faults`. Without
  the first `webhook_crash` is the counterexample; without the second a marker stays for good when its
  deletion throws (`server.js`).
- `WebhookImplementsContract`: `Spec => ImplementsContract`, with all faults. `Entitle` maps to `Apply`
  (`EntitleApplies`), `Skip` to `Ignore` (`SkipIgnores`), every other step to a stutter. Crashes and
  throwing statements do no harm here: they leave a subscription without its plan, which `Entitlement`
  does not see, and a retry then moves the plan as one event.

`BillingProofs` proves the same of the webhook beside checkouts and the seed, which write `tenants`
between its steps: `WebhookInvariantHolds`, `WebhookIsSafe`, `NoEventIsDroppedHere`. `TenantsChange` is
the reason: of `tenant` the webhook's invariant says only whose customer is whose while a handler is
between its two writes, and then no checkout runs and the seed leaves the customer alone. Then:

- `PlansFollowSubscriptions`, with `BillingInvariantHolds`: `[]PlanFollowsSubscription` under
  `OneTenantEach` alone, for any calls, seeded plans, order of the events and faults. By tenant
  (`FollowsByTenant`): `UpsertKeepsPlans` makes the event half applied, and needs that a row it overwrites is of
  the tenant it is about to write, otherwise a subscription that changes tenants takes away what the
  first one's plan rests on; `EntitleKeepsPlans` needs that the row of the first write still stands
  (`RowIsWritten`) and that the handlers write the plan that row grants (`NewTenantFields`);
  `SkipKeepsPlans` that a handler that returns without writing is of no event that was half applied, or
  of the deletion that `HalfApplied` excepts.
- `DeletionsCancel`: `CancelDowngrades` under `Unharmed`, `OneTenantEach` and `OneCustomerStays`: no
  checkout calls, all events of a subscription name one customer, and a tenant buys with one.
  `RowsAreLinked` is the invariant (`NextLinks`): the tenant of a row is found by the customer of its
  subscription, so a deletion that finds no tenant is of a subscription without a row. Each hypothesis
  excludes a way to lose the link: the checkout of `lost_cancellation`, a second customer that COALESCE
  ignores, and a handler that ends between its writes (`Unharmed` excludes `"throw"` and `"crash"`; with
  `"throw"`, TLC finds `RowsAreLinked` violated).
- `OneTenantEach` says that Stripe's customers and subscriptions belong to one tenant each, and that no
  event names a customer a checkout call creates. The first two are how customers and subscriptions are
  made: `ensureCustomer` makes a customer for one tenant, Stripe a subscription for one customer. The
  webhook does not check them: it finds a checkout event's tenant by its metadata and the others' by
  their customer, and compares neither with the row it updates, so a session made elsewhere for another
  tenant's customer breaks them. The last holds as long as no session follows such a customer
  (section 2, Billing). `MCBilling` asserts this assumption and `OneCustomerEach` (`MCBillingAssumption`) for all its sets of
  events but the one in which two tenants contest a customer, which `webhook_faults` uses.
- `BillingImplementsContract`: with no calls and no seeded plans `BillingSpec => ImplementsContract`,
  which is what `webhook_faults` checks. With either the plan or the link changes without an event.

Only model-checked:

- `EveryJobSettles`, `EventsSettle` and `RollupCatchesUp`: liveness is out of the prover's reach.
- `SumAssumption` in `MCMetering`: that counting units is what a fold over the rows computes needs induction over
  data.
- The five properties of section 4 are violated in general. `NoEventIsDropped`, `DuplicatesAreMirrored`,
  `OnlyPaidSubscriptionsApply` and `DeletionsCancel` say under which circumstances they hold.

The theorems rest on the named assumptions of the constants, which TLC evaluates on each run, and on the
hypotheses stated above, which the instances of the runs that check the same property satisfy.

## 6. Plan

Done: `Metering` with its contract, `JobQueue`, `WebhookSync` with its contract and its queue, `Billing`,
`Rollup`, and the proofs of every safety property and refinement the runs check. What would come next:

1. The payment gate as a state of `Billing`: with several subscriptions the newest row of
   `loadTenantWithPlan` (`repo.js:33`) decides about 402, and a row recorded late hides an older active one.
2. The order in which Stripe issued events, as a ghost, to say under which orders of delivery the plan
   ends as Stripe has it.
3. A client that retries: what a request that was billed and cut short is answered when usage is at the
   limit (429).

Not modelled: signature verification and HTTP parsing (libraries), validation (what is refused changes
nothing), `moneyView` and the conversions to cents (display), the read-only routes beyond the cost of
`GET /usage`, migrations and the creation of a Stripe price (run once, before the server), and the demo
scripts. They keep no state that others interleave with.
