------------------------------ MODULE Metering ------------------------------
(***************************************************************************)
(* The billable endpoint, POST /generate: authentication, the payment gate *)
(* and the quota check, idempotent recording of usage rows, usage alerts   *)
(* and the stored response that answers a repeated request.                *)
(*                                                                         *)
(* The server is one JavaScript thread over an SQLite file whose           *)
(* statements each commit on their own: no transaction spans the handler.  *)
(* So one request is in the handler at a time (req), but it reaches the    *)
(* database one write after the other, and between two writes the process  *)
(* may die, a statement may throw, the month may end, and the scripts, as  *)
(* processes of their own, may write: npm run rollup alerts, npm run seed  *)
(* plans.                                                                  *)
(***************************************************************************)
EXTENDS Integers, FiniteSets

CONSTANTS
    Tenants,        \* rows of the tenants table
    Keys,           \* idempotency keys
    KeysOf,         \* KeysOf[t]: the keys tenant t sends requests under
    Bodies,         \* request bodies: the fields of a request but its key
    AccountsOf,     \* AccountsOf[t]: what tenantAuth may load for tenant t
    LastPeriod,     \* bound: the months the clock runs through are 1..LastPeriod
    ApiLimit,       \* ApiLimit[plan]: plans.api_call_limit
    TokenLimit,     \* TokenLimit[plan]: plans.token_limit
    CharRatio, MaxOutput, MaxReasoning, DefaultOutput,  \* config.TOKEN_SIMULATION
    SeedPlan,       \* SeedPlan[t]: the plan npm run seed puts t on, or None
    Evaluators,     \* the rollups that may be evaluating alerts at one time
    RollupMonths,   \* the months rollups are run for
    Faults,         \* the failures that may happen, a subset of {"abort", "alerts"}
    None            \* no value: undefined, null, or no row

VARIABLES
    account,        \* account[t]: the tenant's status, plan and subscription status
    clock,          \* the current month
    events,         \* the rows of usage_events
    alerts,         \* the rows of usage_alerts
    responses,      \* the rows of request_responses
    req,            \* the request in the handler, or None
    reply,          \* the answer the last step sent, or None
    loaded,         \* loaded[w]: the tenant and plan rollup w goes on to evaluate, or None
    firing          \* firing[w]: the alert rows w has still to insert

vars == <<account, clock, events, alerts, responses, req, reply, loaded, firing>>

TokenTypes == {"input", "cached_input", "output", "reasoning"}
Types == {"api_call"} \cup TokenTypes
Plans == {"free", "pro"}
SubscriptionStatuses == {"active", "trialing", "past_due", "incomplete", "canceled"}
Periods == 1..LastPeriod
Metrics == {"api_call", "token"}
Thresholds == {80, 100}

\* A quantity for every usage type; 0 for a type the request does not have.
Quantities == [Types -> Nat]

Body == [bytes : Nat, max_output_tokens : Nat \cup {None},
         reasoning_tokens : Nat \cup {None}, cache_input : BOOLEAN]
Account == [status : {"active", "suspended"}, plan : Plans,
            subscription : SubscriptionStatuses \cup {None}]
\* key and type make up usage_events.idempotency_key, by which a row is known.
EventRow == [tenant : Tenants, key : Keys, type : Types, quantity : Nat, period : Periods]
AlertRow == [tenant : Tenants, period : Periods, metric : Metrics, pct : Thresholds]
\* What a stored response tells apart. Its plan, its month and whether the evaluation
\* of its alerts threw are kept for the properties only.
Response == [tenant : Tenants, key : Keys, plan : Plans, period : Periods,
             quantities : Quantities, api_calls_used : Nat, tokens_used : Nat,
             fired : SUBSET AlertRow, thrown : BOOLEAN]
\* account is req.tenant, loaded by tenantAuth before the handler and not again.
Request == [tenant : Tenants, key : Keys, account : Account, period : Periods,
            quantities : Quantities, before : Quantities,
            pending : SUBSET Types, recorded : SUBSET Types,
            due : SUBSET (Metrics \X Thresholds), fired : SUBSET AlertRow,
            thrown : BOOLEAN]
Loaded == [tenant : Tenants, plan : Plans]
Reply == [tenant : Tenants, key : Keys, status : {200, 201, 402, 403, 429},
          duplicate : BOOLEAN, base : Response \cup {None}]

ASSUME MeteringAssumption ==
    /\ KeysOf \in [Tenants -> SUBSET Keys]
    /\ Bodies \subseteq Body
    /\ AccountsOf \in [Tenants -> SUBSET Account]
    /\ LastPeriod \in Nat \ {0}
    /\ ApiLimit \in [Plans -> Nat]
    /\ TokenLimit \in [Plans -> Nat]
    /\ {CharRatio, MaxOutput, MaxReasoning, DefaultOutput} \subseteq Nat \ {0}
    /\ SeedPlan \in [Tenants -> Plans \cup {None}]
    /\ RollupMonths \subseteq Periods
    /\ Faults \subseteq {"abort", "alerts"}

ASSUME NoneAssumption ==
    /\ None \notin Nat
    /\ None \notin Request
    /\ None \notin Reply
    /\ None \notin Response
    /\ None \notin Loaded

-----------------------------------------------------------------------------
(* Token counts and limits *)

AtMost(n, bound) == IF n <= bound THEN n ELSE bound
AtLeast(n, bound) == IF n >= bound THEN n ELSE bound
CeilDiv(n, d) == (n + d - 1) \div d

\* simulateTokens, laid out by usage type as recordRequest receives it.
SimulateTokens(body) ==
    LET input == AtLeast(CeilDiv(body.bytes, CharRatio), 1)
        asked == IF body.max_output_tokens = None THEN DefaultOutput
                 ELSE body.max_output_tokens
        thought == IF body.reasoning_tokens = None THEN 0 ELSE body.reasoning_tokens
    IN  [type \in Types |->
            CASE type = "api_call"     -> 1
              [] type = "input"        -> IF body.cache_input THEN 0 ELSE input
              [] type = "cached_input" -> IF body.cache_input THEN input ELSE 0
              [] type = "output"       -> AtMost(AtLeast(asked, 1), MaxOutput)
              [] type = "reasoning"    -> AtMost(thought, MaxReasoning)]

\* All token categories count towards the one token limit.
Tokens(q) == q["input"] + q["cached_input"] + q["output"] + q["reasoning"]

MeteredBy(q, metric) == IF metric = "api_call" THEN q["api_call"] ELSE Tokens(q)
LimitOf(plan, metric) == IF metric = "api_call" THEN ApiLimit[plan] ELSE TokenLimit[plan]
ThresholdQty_Floor(plan, metric, pct) == (LimitOf(plan, metric) * pct) \div 100

ThresholdQty(plan, metric, pct) == CeilDiv(LimitOf(plan, metric) * pct, 100)

TypesOf_NoReasoning(q) == {type \in Types \ {"reasoning"} : q[type] > 0}

\* The types a request has a quantity of: the entries of usageByType.
TypesOf(q) == {type \in Types : q[type] > 0}

-----------------------------------------------------------------------------
(* Usage: what is selected of the rows *)

\* SUM(quantity) over a set of rows: as many as the units they stand for.
UnitsOf(rows) == UNION {{row} \X (1..row.quantity) : row \in rows}
SumOfQuantities(rows) == Cardinality(UnitsOf(rows))

RowsOf(t, p, type) == {e \in events : e.tenant = t /\ e.period = p /\ e.type = type}

\* meterService.totalsByType, of every tenant and month.
usage == [t \in Tenants |-> [p \in Periods |-> [type \in Types |->
              SumOfQuantities(RowsOf(t, p, type))]]]

-----------------------------------------------------------------------------
(* Admission: everything the handler reads before its first write *)

PaymentGate_AnyRow(acct) == acct.plan = "free" \/ acct.subscription # None

\* enforceQuota's payment gate: a paid plan needs an active or trialing subscription.
PaymentGate(acct) ==
    acct.plan = "free" \/ acct.subscription \in {"active", "trialing"}

WithinQuota_CallsOnly(plan, used, q) ==
    used["api_call"] + q["api_call"] <= ApiLimit[plan]

\* enforceQuota's boundary rule: landing exactly on a limit is allowed.
WithinQuota(plan, used, q) ==
    /\ used["api_call"] + q["api_call"] <= ApiLimit[plan]
    /\ Tokens(used) + Tokens(q) <= TokenLimit[plan]

Stored(t, k) == {r \in responses : r.key = k /\ r.tenant = t}

Answer_DuplicateConflicts(t, k, status, duplicate, base) ==
    reply' = [tenant |-> t, key |-> k, status |-> IF duplicate THEN 409 ELSE status,
              duplicate |-> duplicate, base |-> base]

Answer(t, k, status, duplicate, base) ==
    reply' = [tenant |-> t, key |-> k, status |-> status,
              duplicate |-> duplicate, base |-> base]

\* Every request starts here: the handler is free and the tenant sends one of its keys.
Arrives(t, k) == req = None /\ k \in KeysOf[t]

Forbidden(t, k) ==
    /\ Arrives(t, k)
    /\ account[t].status = "suspended"
    /\ Answer(t, k, 403, FALSE, None)
    /\ UNCHANGED <<account, clock, events, alerts, responses, req, loaded, firing>>

Mirror(t, k) ==
    /\ Arrives(t, k)
    /\ account[t].status # "suspended"
    /\ \E r \in Stored(t, k) : Answer(t, k, 201, TRUE, r)
    /\ UNCHANGED <<account, clock, events, alerts, responses, req, loaded, firing>>

PaymentRequired(t, k) ==
    /\ Arrives(t, k)
    /\ account[t].status # "suspended"
    /\ Stored(t, k) = {}
    /\ ~PaymentGate(account[t])
    /\ Answer(t, k, 402, FALSE, None)
    /\ UNCHANGED <<account, clock, events, alerts, responses, req, loaded, firing>>

QuotaExceeded(t, k, body) ==
    /\ Arrives(t, k)
    /\ account[t].status # "suspended"
    /\ Stored(t, k) = {}
    /\ PaymentGate(account[t])
    /\ ~WithinQuota(account[t].plan, usage[t][clock], SimulateTokens(body))
    /\ Answer(t, k, 429, FALSE, None)
    /\ UNCHANGED <<account, clock, events, alerts, responses, req, loaded, firing>>

\* The request passes every check; the handler goes on to write.
Admit(t, k, body) ==
    /\ Arrives(t, k)
    /\ account[t].status # "suspended"
    /\ Stored(t, k) = {}
    /\ PaymentGate(account[t])
    /\ WithinQuota(account[t].plan, usage[t][clock], SimulateTokens(body))
    /\ req' = [tenant |-> t, key |-> k, account |-> account[t], period |-> clock,
               quantities |-> SimulateTokens(body), before |-> usage[t][clock],
               pending |-> TypesOf(SimulateTokens(body)), recorded |-> {},
               due |-> Metrics \X Thresholds, fired |-> {}, thrown |-> FALSE]
    /\ reply' = None
    /\ UNCHANGED <<account, clock, events, alerts, responses, loaded, firing>>

-----------------------------------------------------------------------------
(* Recording: one usage row per type, in the order of usageByType *)

TypeRank == [type \in Types |->
    CASE type = "api_call" -> 1 [] type = "input" -> 2 [] type = "cached_input" -> 2
      [] type = "output" -> 3 [] type = "reasoning" -> 4]

RecordsNext(type) ==
    /\ req # None
    /\ type \in req.pending
    /\ \A other \in req.pending : TypeRank[type] <= TypeRank[other]

\* meterService.record looks the sub-key up across all tenants.
HasSubKey(k, type) == \E e \in events : e.key = k /\ e.type = type

\* INSERT INTO usage_events. A sub-key that is there already violates the column's
\* UNIQUE: the statement throws, which is Abort.
InsertEvent(row) ==
    /\ \A e \in events : ~(e.key = row.key /\ e.type = row.type)
    /\ events' = events \cup {row}

\* The sub-key is new: the row is inserted, dated by the database's clock.
RecordFresh(type) ==
    /\ RecordsNext(type)
    /\ ~HasSubKey(req.key, type)
    /\ InsertEvent([tenant |-> req.tenant, key |-> req.key, type |-> type,
                    quantity |-> req.quantities[type], period |-> clock])
    /\ req' = [req EXCEPT !.pending = @ \ {type}, !.recorded = @ \cup {type}]
    /\ reply' = None
    /\ UNCHANGED <<account, clock, alerts, responses, loaded, firing>>

RecordExisting_Counts(type) ==
    /\ RecordsNext(type)
    /\ HasSubKey(req.key, type)
    /\ req' = [req EXCEPT !.pending = @ \ {type}, !.recorded = @ \cup {type}]
    /\ reply' = None
    /\ UNCHANGED <<account, clock, events, alerts, responses, loaded, firing>>

\* The sub-key exists: the existing row is returned and nothing is inserted.
RecordExisting(type) ==
    /\ RecordsNext(type)
    /\ HasSubKey(req.key, type)
    /\ req' = [req EXCEPT !.pending = @ \ {type}]
    /\ reply' = None
    /\ UNCHANGED <<account, clock, events, alerts, responses, loaded, firing>>

IsDuplicate_AllExisted(r) == r.recorded = {}

\* recordRequest's isDuplicate: some sub-key existed already.
IsDuplicate(r) == r.recorded # TypesOf(r.quantities)

AnswerDuplicate ==
    /\ req # None
    /\ req.pending = {}
    /\ IsDuplicate(req)
    /\ \/ \E r \in Stored(req.tenant, req.key) : Answer(req.tenant, req.key, 201, TRUE, r)
       \/ /\ Stored(req.tenant, req.key) = {}
          /\ Answer(req.tenant, req.key, 201, TRUE, None)
    /\ req' = None
    /\ UNCHANGED <<account, clock, events, alerts, responses, loaded, firing>>

-----------------------------------------------------------------------------
(* Alerts: one INSERT OR IGNORE per crossed threshold, then the response *)

Recorded == req # None /\ req.pending = {} /\ ~IsDuplicate(req)

MetricRank == [metric \in Metrics |-> IF metric = "api_call" THEN 0 ELSE 1]

DueOrder_HundredFirst(d) == MetricRank[d[1]] * 1000 - d[2]

\* The loop order of evaluateAlerts: metric by metric, 80 before 100.
DueOrder(d) == MetricRank[d[1]] * 1000 + d[2]

CrossesThreshold_CallsOnly(used, plan, metric, pct) ==
    used["api_call"] >= ThresholdQty(plan, metric, pct)

CrossesThreshold(used, plan, metric, pct) ==
    MeteredBy(used, metric) >= ThresholdQty(plan, metric, pct)

EvaluateAlert_ReportsAll(metric, pct) ==
    LET row == [tenant |-> req.tenant, period |-> req.period, metric |-> metric, pct |-> pct]
        crossed == CrossesThreshold(usage[req.tenant][req.period], req.account.plan, metric, pct)
        inserted == IF crossed THEN {row} ELSE {}
    IN  /\ Recorded
        /\ <<metric, pct>> \in req.due
        /\ \A d \in req.due : DueOrder(<<metric, pct>>) <= DueOrder(d)
        /\ alerts' = alerts \cup inserted
        /\ req' = [req EXCEPT !.due = @ \ {<<metric, pct>>}, !.fired = @ \cup inserted]
        /\ reply' = None
        /\ UNCHANGED <<account, clock, events, responses, loaded, firing>>

EvaluateAlert(metric, pct) ==
    LET row == [tenant |-> req.tenant, period |-> req.period, metric |-> metric, pct |-> pct]
        isNew == /\ CrossesThreshold(usage[req.tenant][req.period], req.account.plan, metric, pct)
                 /\ row \notin alerts
        inserted == IF isNew THEN {row} ELSE {}
    IN  /\ Recorded
        /\ <<metric, pct>> \in req.due
        /\ \A d \in req.due : DueOrder(<<metric, pct>>) <= DueOrder(d)
        /\ alerts' = alerts \cup inserted
        /\ req' = [req EXCEPT !.due = @ \ {<<metric, pct>>}, !.fired = @ \cup inserted]
        /\ reply' = None
        /\ UNCHANGED <<account, clock, events, responses, loaded, firing>>

\* evaluateAlerts throws: the handler logs it and goes on with no alerts to report.
AlertsThrow ==
    /\ "alerts" \in Faults
    /\ Recorded
    /\ req.due # {}
    /\ req' = [req EXCEPT !.due = {}, !.fired = {}, !.thrown = TRUE]
    /\ reply' = None
    /\ UNCHANGED <<account, clock, events, alerts, responses, loaded, firing>>

Respond_UsageReadAgain ==
    LET response ==
            [tenant |-> req.tenant, key |-> req.key, plan |-> req.account.plan,
             period |-> req.period, quantities |-> req.quantities,
             api_calls_used |-> usage[req.tenant][req.period]["api_call"] + 1,
             tokens_used |-> Tokens(req.before) + Tokens(req.quantities),
             fired |-> req.fired, thrown |-> req.thrown]
    IN  /\ Recorded
        /\ req.due = {}
        /\ responses' = responses \cup {response}
        /\ Answer(req.tenant, req.key, 201, FALSE, response)
        /\ req' = None
        /\ UNCHANGED <<account, clock, events, alerts, loaded, firing>>

\* The answer reports the usage read on admission plus what was asked for.
Respond ==
    LET response ==
            [tenant |-> req.tenant, key |-> req.key, plan |-> req.account.plan,
             period |-> req.period, quantities |-> req.quantities,
             api_calls_used |-> req.before["api_call"] + 1,
             tokens_used |-> Tokens(req.before) + Tokens(req.quantities),
             fired |-> req.fired, thrown |-> req.thrown]
    IN  /\ Recorded
        /\ req.due = {}
        /\ responses' = responses \cup {response}
        /\ Answer(req.tenant, req.key, 201, FALSE, response)
        /\ req' = None
        /\ UNCHANGED <<account, clock, events, alerts, loaded, firing>>

-----------------------------------------------------------------------------
(* What happens around the handler *)

\* evaluateAlertsForPeriod: the rollup evaluates the alerts of every tenant with usage
\* rows, for one month. npm run rollup does so in a process of its own, between any
\* two statements of the handler; it loads the tenant first.
LoadTenant(w, t) ==
    /\ loaded[w] = None
    /\ firing[w] = {}
    /\ \E e \in events : e.tenant = t
    /\ loaded' = [loaded EXCEPT ![w] = [tenant |-> t, plan |-> account[t].plan]]
    /\ reply' = None
    /\ UNCHANGED <<account, clock, events, alerts, responses, req, firing>>

\* The alert rows that a tenant's usage of a month calls for under a plan.
CrossedAlerts(t, p, plan) ==
    {row \in [tenant : {t}, period : {p}, metric : Metrics, pct : Thresholds] :
        CrossesThreshold(usage[t][p], plan, row.metric, row.pct)}

\* evaluateAlerts then reads the totals, and knows what it is going to insert.
ReadTotals(w, p) ==
    /\ loaded[w] # None
    /\ firing' = [firing EXCEPT ![w] = CrossedAlerts(loaded[w].tenant, p, loaded[w].plan)]
    /\ loaded' = [loaded EXCEPT ![w] = None]
    /\ reply' = None
    /\ UNCHANGED <<account, clock, events, alerts, responses, req>>

\* One INSERT OR IGNORE of the loop.
InsertAlert(w, row) ==
    /\ row \in firing[w]
    /\ \A other \in firing[w] :
           DueOrder(<<row.metric, row.pct>>) <= DueOrder(<<other.metric, other.pct>>)
    /\ alerts' = alerts \cup {row}
    /\ firing' = [firing EXCEPT ![w] = @ \ {row}]
    /\ reply' = None
    /\ UNCHANGED <<account, clock, events, responses, req, loaded>>

\* The rollup ends early: its process stops, or a statement throws.
EvaluationEnds(w) ==
    /\ firing[w] # {}
    /\ firing' = [firing EXCEPT ![w] = {}]
    /\ reply' = None
    /\ UNCHANGED <<account, clock, events, alerts, responses, req, loaded>>

\* The process dies between two statements, or a statement throws (500): what
\* was committed stays, and the client learns nothing.
Abort ==
    /\ "abort" \in Faults
    /\ req # None
    /\ req' = None
    /\ reply' = None
    /\ UNCHANGED <<account, clock, events, alerts, responses, loaded, firing>>

\* The calendar month ends, whatever the handler is doing.
NextMonth ==
    /\ clock < LastPeriod
    /\ clock' = clock + 1
    /\ reply' = None
    /\ UNCHANGED <<account, events, alerts, responses, req, loaded, firing>>

\* npm run seed, a process of its own, upserts a demo tenant: its plan is overwritten,
\* whatever the handler is doing.
Reseed(t) ==
    /\ SeedPlan[t] # None
    /\ account' = [account EXCEPT ![t].plan = SeedPlan[t]]
    /\ reply' = None
    /\ UNCHANGED <<clock, events, alerts, responses, req, loaded, firing>>

\* A webhook job changes the tenant's row; it runs on the handler's thread, so
\* never inside the handler.
SetAccount(t, acct) ==
    /\ req = None
    /\ acct \in AccountsOf[t]
    /\ account' = [account EXCEPT ![t] = acct]
    /\ reply' = None
    /\ UNCHANGED <<clock, events, alerts, responses, req, loaded, firing>>

Init ==
    /\ account \in [Tenants -> Account]
    /\ \A t \in Tenants : account[t] \in AccountsOf[t]
    /\ clock = 1
    /\ events = {}
    /\ alerts = {}
    /\ responses = {}
    /\ req = None
    /\ reply = None
    /\ loaded = [w \in Evaluators |-> None]
    /\ firing = [w \in Evaluators |-> {}]

Next ==
    \/ \E t \in Tenants, k \in Keys :
          \/ Forbidden(t, k)
          \/ Mirror(t, k)
          \/ PaymentRequired(t, k)
          \/ \E body \in Bodies : QuotaExceeded(t, k, body) \/ Admit(t, k, body)
    \/ \E type \in Types : RecordFresh(type) \/ RecordExisting(type)
    \/ AnswerDuplicate
    \/ \E metric \in Metrics, pct \in Thresholds : EvaluateAlert(metric, pct)
    \/ AlertsThrow
    \/ Respond
    \/ Abort
    \/ \E w \in Evaluators :
          \/ \E t \in Tenants : LoadTenant(w, t)
          \/ \E p \in RollupMonths : ReadTotals(w, p)
          \/ \E row \in AlertRow : InsertAlert(w, row)
          \/ EvaluationEnds(w)
    \/ NextMonth
    \/ \E t \in Tenants : Reseed(t)
    \/ \E t \in Tenants, acct \in Account : SetAccount(t, acct)

Spec == Init /\ [][Next]_vars

-----------------------------------------------------------------------------
(* Properties *)

\* Every variable holds what its table or its place in the handler allows.
TypeOK ==
    /\ account \in [Tenants -> Account]
    /\ clock \in Periods
    /\ events \subseteq EventRow
    /\ IsFiniteSet(UnitsOf(events))
    /\ alerts \subseteq AlertRow
    /\ responses \subseteq Response
    /\ req \in Request \cup {None}
    /\ reply \in Reply \cup {None}
    /\ loaded \in [Evaluators -> Loaded \cup {None}]
    /\ firing \in [Evaluators -> SUBSET AlertRow]

\* A stored response, the only result a client is ever given, has been paid
\* for: each of its quantities is a usage row of the same tenant and key.
StoredResponseIsCharged ==
    \A r \in responses : \A type \in TypesOf(r.quantities) :
        \E e \in events : /\ e.tenant = r.tenant
                          /\ e.key = r.key
                          /\ e.type = type
                          /\ e.quantity = r.quantities[type]

\* The INSERT into request_responses never meets its primary key, which is the
\* key alone, whoever sent it: two tables' uniqueness must agree for a billed
\* request not to end in a 500.
NoResponseKeyClash ==
    Recorded => \A r \in responses : r.key # req.key

\* Usage grows only for the request in the handler, and never over a limit of the plan
\* it was admitted under: not by a retry, not by a half-recorded request, not by one
\* whose month ends between the quota check and the insert, nor by one whose tenant the
\* seed puts on another plan meanwhile. (Only where the rows change can their sum.)
AdmittedWithinLimit ==
    [][events' # events =>
          \A t \in Tenants, p \in Periods :
              usage'[t][p] # usage[t][p] =>
                  /\ req # None /\ req.tenant = t
                  /\ usage'[t][p]["api_call"] <= ApiLimit[req.account.plan]
                  /\ Tokens(usage'[t][p]) <= TokenLimit[req.account.plan]]_vars

\* The running totals a response reports (read before recording, plus what was
\* requested) are what the table holds when it is sent, if the month is the same.
ReportedUsageIsActual ==
    reply # None /\ reply.status = 201 /\ ~reply.duplicate /\ reply.base.period = clock
        => /\ reply.base.api_calls_used = usage[reply.tenant][clock]["api_call"]
           /\ reply.base.tokens_used = Tokens(usage[reply.tenant][clock])

\* The month's recorded usage has reached the alert's share of some plan's limit.
Earned(a) ==
    \E plan \in Plans :
        100 * MeteredBy(usage[a.tenant][a.period], a.metric)
            >= a.pct * LimitOf(plan, a.metric)

\* An alert is a statement about money and is never taken back: it stands only where
\* usage earned it, though the rollup inserts what was due when it read the totals.
AlertsAreEarned == \A a \in alerts : Earned(a)

\* A 100% alert never stands without the 80% alert of its tenant, month and
\* metric, even when evaluation was cut short between the two inserts.
HundredAfterEighty ==
    \A a \in alerts : a.pct = 100 => [a EXCEPT !.pct = 80] \in alerts

\* README.md:191: each threshold fires exactly once. No two responses report the
\* same alert, though handlers are cut short, evaluations fail half-way and the
\* rollup inserts alerts between the handler's statements.
AlertsFireOnce ==
    \A r, s \in responses : r # s => r.fired \cap s.fired = {}

\* Unless its evaluation threw, a fresh response leaves no threshold of the plan it
\* was admitted under, reached by the usage of its month, without its alert row, though
\* the rollup may have been there first with another plan's limits, the seed may have
\* changed the plan and the month may have ended.
AlertsCaughtUp ==
    reply # None /\ reply.status = 201 /\ ~reply.duplicate /\ ~reply.base.thrown =>
        \A metric \in Metrics, pct \in Thresholds :
            100 * MeteredBy(usage[reply.tenant][reply.base.period], metric)
                >= pct * LimitOf(reply.base.plan, metric)
            => [tenant |-> reply.tenant, period |-> reply.base.period,
                metric |-> metric, pct |-> pct] \in alerts

\* meterService.js:55-56: if any of the sub-keys already exists, the request is
\* a duplicate and nothing new is recorded.
DuplicateRecordsNothing ==
    req # None /\ req.pending = {} /\ IsDuplicate(req) => req.recorded = {}

\* generate.js:40: a duplicate key is answered with the original response.
DuplicateMirrorsOriginal ==
    reply # None /\ reply.duplicate => reply.base # None

-----------------------------------------------------------------------------
(* The inductive invariant: what the properties above rest on *)

\* What the column's UNIQUE says of the table.
OneRowPerSubKey ==
    \A e, f \in events : e.key = f.key /\ e.type = f.type => e = f

\* While a request is in the handler its month has begun, its key has no stored
\* response, and its rows are either still to be inserted or passed.
RequestIsCurrent ==
    req # None =>
        /\ req.period <= clock
        /\ Stored(req.tenant, req.key) = {}
        /\ req.quantities["api_call"] = 1
        /\ req.pending \subseteq TypesOf(req.quantities)
        /\ req.recorded \subseteq TypesOf(req.quantities) \ req.pending

\* The rows this request inserted are in the table.
RecordedRowsExist ==
    req # None => \A type \in req.recorded :
        \E e \in events : /\ e.tenant = req.tenant
                          /\ e.key = req.key
                          /\ e.type = type
                          /\ e.quantity = req.quantities[type]

\* What the request has still to insert.
Pending(type) == IF type \in req.pending THEN req.quantities[type] ELSE 0

\* It fits into every month it may still be recorded in.
RoomForPending ==
    req # None => \A p \in Periods : p >= req.period =>
        LET used == usage[req.tenant][p]
        IN  /\ used["api_call"] + Pending("api_call") <= ApiLimit[req.account.plan]
            /\ Tokens(used) + Tokens([type \in Types |-> Pending(type)])
                   <= TokenLimit[req.account.plan]

\* Nothing is recorded in a month that has not begun.
FutureIsUnused ==
    \A t \in Tenants, p \in Periods, type \in Types :
        p > clock => usage[t][p][type] = 0

\* Until the month ends, usage is what was read on admission and the rows since.
UsageIsAccounted ==
    req # None /\ req.period = clock => \A type \in Types :
        usage[req.tenant][clock][type] =
            req.before[type] + (IF type \in req.recorded THEN req.quantities[type] ELSE 0)

\* Between a metric's two thresholds all rows are in, and the 80% alert stands if
\* usage calls for it.
EightyIsSettled ==
    req # None => \A metric \in Metrics :
        <<metric, 100>> \in req.due /\ <<metric, 80>> \notin req.due =>
            /\ Recorded
            /\ CrossesThreshold(usage[req.tenant][req.period], req.account.plan, metric, 80)
               => [tenant |-> req.tenant, period |-> req.period,
                   metric |-> metric, pct |-> 80] \in alerts

\* What AlertsCaughtUp rests on: a threshold the handler has evaluated, with all rows
\* in, has its alert row if usage calls for it.
DueIsSettled ==
    req # None /\ ~req.thrown => \A metric \in Metrics, pct \in Thresholds :
        <<metric, pct>> \notin req.due =>
            /\ Recorded
            /\ 100 * MeteredBy(usage[req.tenant][req.period], metric)
                   >= pct * LimitOf(req.account.plan, metric)
               => [tenant |-> req.tenant, period |-> req.period,
                   metric |-> metric, pct |-> pct] \in alerts

\* What a rollup has still to insert was called for when it read the totals, which only
\* grow, and it inserts a metric's 80% alert before the other one.
FiringIsDue ==
    \A w \in Evaluators : \A a \in firing[w] :
        /\ Earned(a)
        /\ a.pct = 100 => [a EXCEPT !.pct = 80] \in firing[w] \cup alerts

\* What was reported as fired is in the table, and what the request is going to
\* report has not been reported.
FiredAlertsStand ==
    /\ \A r \in responses : r.fired \subseteq alerts
    /\ req # None =>
          /\ req.fired \subseteq alerts
          /\ \A r \in responses : req.fired \cap r.fired = {}

\* Every stored response is that of a call.
ResponsesAreCalls == \A r \in responses : r.quantities["api_call"] = 1

\* What is charged, what is reported and what stands: what a request has not yet
\* inserted still fits, what it has inserted is there, whatever happens around it.
AccountingInvariant ==
    /\ TypeOK
    /\ OneRowPerSubKey
    /\ StoredResponseIsCharged
    /\ ReportedUsageIsActual
    /\ AlertsAreEarned
    /\ HundredAfterEighty
    /\ RequestIsCurrent
    /\ RecordedRowsExist
    /\ RoomForPending
    /\ FutureIsUnused
    /\ UsageIsAccounted
    /\ EightyIsSettled
    /\ FiringIsDue
    /\ ResponsesAreCalls

\* All of it together is what one step preserves.
InductiveInvariant == AccountingInvariant /\ AlertsFireOnce /\ FiredAlertsStand

=============================================================================
