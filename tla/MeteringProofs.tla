--------------------------- MODULE MeteringProofs ---------------------------
(***************************************************************************)
(* Proofs about Metering, for all tenants, keys, bodies, limits, months    *)
(* and failures.                                                           *)
(***************************************************************************)
EXTENDS UsageProofs

-----------------------------------------------------------------------------
(* Quantities *)

\* simulateTokens gives every type a quantity, and each request is one call.
LEMMA SimulateTokensType ==
    ASSUME NEW body \in Bodies
    PROVE  /\ SimulateTokens(body) \in Quantities
           /\ SimulateTokens(body)["api_call"] = 1
<1>1. body \in Body /\ CharRatio \in Nat \ {0} /\ MaxOutput \in Nat
      /\ MaxReasoning \in Nat /\ DefaultOutput \in Nat
  BY MeteringAssumption
<1> DEFINE input == AtLeast(CeilDiv(body.bytes, CharRatio), 1)
           asked == IF body.max_output_tokens = None THEN DefaultOutput
                    ELSE body.max_output_tokens
           thought == IF body.reasoning_tokens = None THEN 0 ELSE body.reasoning_tokens
<1>2. CeilDiv(body.bytes, CharRatio) \in Int
  BY <1>1 DEF CeilDiv, Body
<1>3. input \in Nat
  BY <1>2 DEF AtLeast
<1>4. AtMost(AtLeast(asked, 1), MaxOutput) \in Nat /\ AtMost(thought, MaxReasoning) \in Nat
  BY <1>1 DEF AtMost, AtLeast, Body
<1> HIDE DEF input, asked, thought
<1>5. SimulateTokens(body) = [type \in Types |->
            CASE type = "api_call"     -> 1
              [] type = "input"        -> IF body.cache_input THEN 0 ELSE input
              [] type = "cached_input" -> IF body.cache_input THEN input ELSE 0
              [] type = "output"       -> AtMost(AtLeast(asked, 1), MaxOutput)
              [] type = "reasoning"    -> AtMost(thought, MaxReasoning)]
  BY DEF SimulateTokens, input, asked, thought
<1> QED
  BY <1>3, <1>4, <1>5 DEF Quantities, Types, TokenTypes

\* What a quantity record is metered as is a number.
LEMMA TokensType ==
    ASSUME NEW q \in Quantities
    PROVE  /\ Tokens(q) \in Nat
           /\ \A metric \in Metrics : MeteredBy(q, metric) \in Nat
  BY DEF Tokens, MeteredBy, Quantities, Types, TokenTypes, Metrics

\* Every plan limits both metrics.
LEMMA LimitType ==
    ASSUME NEW plan \in Plans, NEW metric \in Metrics
    PROVE  LimitOf(plan, metric) \in Nat
  BY MeteringAssumption DEF LimitOf

-----------------------------------------------------------------------------
(* Type correctness *)

\* The empty database is well-typed.
LEMMA InitTypeOK == Init => TypeOK
  BY MeteringAssumption, SumOfNone DEF Init, TypeOK, Periods

\* Every action keeps the types.
LEMMA NextTypeOK == TypeOK /\ [Next]_vars => TypeOK'
<1> SUFFICES ASSUME TypeOK, [Next]_vars PROVE TypeOK'
  OBVIOUS
<1> USE MeteringAssumption DEF TypeOK
<1>1. ASSUME NEW t \in Tenants, NEW k \in Keys,
             Forbidden(t, k) \/ Mirror(t, k) \/ PaymentRequired(t, k)
      PROVE  TypeOK'
  <2>1. CASE Forbidden(t, k)
    BY <2>1 DEF Forbidden, Answer, Reply
  <2>2. CASE Mirror(t, k)
    BY <2>2 DEF Mirror, Answer, Reply, Stored
  <2>3. CASE PaymentRequired(t, k)
    BY <2>3 DEF PaymentRequired, Answer, Reply
  <2> QED
    BY <1>1, <2>1, <2>2, <2>3
<1>2. ASSUME NEW t \in Tenants, NEW k \in Keys, NEW body \in Bodies,
             QuotaExceeded(t, k, body)
      PROVE  TypeOK'
  BY <1>2 DEF QuotaExceeded, Answer, Reply
<1>3. ASSUME NEW t \in Tenants, NEW k \in Keys, NEW body \in Bodies,
             Admit(t, k, body)
      PROVE  TypeOK'
  <2>1. SimulateTokens(body) \in Quantities
    BY SimulateTokensType
  <2>2. account[t] \in Account /\ usage[t][clock] \in Quantities
    BY UsageType
  <2>3. req' \in Request
    BY <1>3, <2>1, <2>2 DEF Admit, Request, TypesOf
  <2> QED
    BY <1>3, <2>3 DEF Admit
<1>4. ASSUME NEW type \in Types, RecordFresh(type)
      PROVE  TypeOK'
  <2>1. req \in Request /\ type \in Types
    BY <1>4 DEF RecordFresh, RecordsNext
  <2>2. req' \in Request
    BY <1>4, <2>1 DEF RecordFresh, Request
  <2>3. events' \subseteq EventRow
    BY <1>4, <2>1 DEF RecordFresh, InsertEvent, Request, EventRow, Quantities
  <2>4. IsFiniteSet(UnitsOf(events'))
    BY <1>4, RecordFreshCounts
  <2> QED
    BY <1>4, <2>2, <2>3, <2>4 DEF RecordFresh, UnitsOf
<1>5. ASSUME NEW type \in Types, RecordExisting(type)
      PROVE  TypeOK'
  BY <1>5 DEF RecordExisting, RecordsNext, Request
<1>6. CASE AnswerDuplicate
  <2>1. req \in Request
    BY <1>6 DEF AnswerDuplicate
  <2>2. PICK base \in Response \cup {None} :
            Answer(req.tenant, req.key, 201, TRUE, base)
    BY <1>6 DEF AnswerDuplicate, Stored
  <2> QED
    BY <1>6, <2>1, <2>2 DEF AnswerDuplicate, Answer, Reply, Request
<1>7. ASSUME NEW metric \in Metrics, NEW pct \in Thresholds, EvaluateAlert(metric, pct)
      PROVE  TypeOK'
  <2>1. req \in Request
    BY <1>7 DEF EvaluateAlert, Recorded
  <2>2. [tenant |-> req.tenant, period |-> req.period, metric |-> metric, pct |-> pct]
            \in AlertRow
    BY <2>1 DEF Request, AlertRow
  <2>3. PICK inserted \in SUBSET AlertRow :
            /\ alerts' = alerts \cup inserted
            /\ req' = [req EXCEPT !.due = @ \ {<<metric, pct>>}, !.fired = @ \cup inserted]
    BY <1>7, <2>2, Zenon DEF EvaluateAlert
  <2>4. req' \in Request
    BY <2>1, <2>3 DEF Request
  <2> QED
    BY <1>7, <2>3, <2>4 DEF EvaluateAlert
<1>8. CASE AlertsThrow
  BY <1>8 DEF AlertsThrow, Recorded, Request
<1>9. CASE Respond
  <2>1. req \in Request /\ req.before \in Quantities /\ req.quantities \in Quantities
    BY <1>9 DEF Respond, Recorded, Request
  <2>2. /\ Tokens(req.before) \in Nat /\ Tokens(req.quantities) \in Nat
        /\ req.before["api_call"] \in Nat
    BY <2>1, TokensType DEF Quantities, Types
  <2> DEFINE response ==
            [tenant |-> req.tenant, key |-> req.key, plan |-> req.account.plan,
             period |-> req.period, quantities |-> req.quantities,
             api_calls_used |-> req.before["api_call"] + 1,
             tokens_used |-> Tokens(req.before) + Tokens(req.quantities),
             fired |-> req.fired, thrown |-> req.thrown]
  <2>3. response \in Response
    BY <2>1, <2>2 DEF Request, Response, Account
  <2>4. /\ responses' = responses \cup {response}
        /\ reply' = [tenant |-> req.tenant, key |-> req.key, status |-> 201,
                     duplicate |-> FALSE, base |-> response]
    BY <1>9 DEF Respond, Answer
  <2> HIDE DEF response
  <2>5. reply' \in Reply
    BY <2>1, <2>3, <2>4 DEF Reply, Request
  <2> QED
    BY <1>9, <2>3, <2>4, <2>5 DEF Respond
<1>10. CASE Abort
  BY <1>10 DEF Abort
<1>11. CASE NextMonth
  BY <1>11 DEF NextMonth, Periods
<1>12. ASSUME NEW t \in Tenants, NEW acct \in Account, SetAccount(t, acct)
       PROVE  TypeOK'
  BY <1>12 DEF SetAccount
<1>13. ASSUME NEW t \in Tenants, Reseed(t)
       PROVE  TypeOK'
  <2>1. account[t] \in Account /\ SeedPlan[t] \in Plans
    BY <1>13 DEF Reseed
  <2>2. [account[t] EXCEPT !.plan = SeedPlan[t]] \in Account
    BY <2>1 DEF Account
  <2> QED
    BY <1>13, <2>2 DEF Reseed
<1>14. ASSUME NEW w \in Evaluators, NEW t \in Tenants, LoadTenant(w, t)
       PROVE  TypeOK'
  <2>1. [tenant |-> t, plan |-> account[t].plan] \in Loaded
    BY DEF Loaded, Account
  <2> QED
    BY <1>14, <2>1 DEF LoadTenant
<1>15. ASSUME NEW w \in Evaluators, NEW p \in RollupMonths, ReadTotals(w, p)
       PROVE  TypeOK'
  <2>1. loaded[w].tenant \in Tenants /\ p \in Periods
    BY <1>15 DEF ReadTotals, Loaded
  <2>2. CrossedAlerts(loaded[w].tenant, p, loaded[w].plan) \subseteq AlertRow
    BY <2>1 DEF CrossedAlerts, AlertRow
  <2> QED
    BY <1>15, <2>2 DEF ReadTotals
<1>16. ASSUME NEW w \in Evaluators, NEW row \in AlertRow, InsertAlert(w, row)
       PROVE  TypeOK'
  BY <1>16 DEF InsertAlert
<1>17. ASSUME NEW w \in Evaluators, EvaluationEnds(w)
       PROVE  TypeOK'
  BY <1>17 DEF EvaluationEnds
<1>18. CASE UNCHANGED vars
  BY <1>18 DEF vars
<1> QED
  BY <1>1, <1>2, <1>3, <1>4, <1>5, <1>6, <1>7, <1>8, <1>9, <1>10, <1>11, <1>12, <1>13,
     <1>14, <1>15, <1>16, <1>17, <1>18
  DEF Next

\* Every variable keeps its type, whatever is requested and whatever fails.
THEOREM TypeCorrect == Spec => []TypeOK
  BY InitTypeOK, NextTypeOK, PTL DEF Spec

-----------------------------------------------------------------------------
(* The inductive invariant *)

\* The empty database satisfies it.
LEMMA InitAccounting == Init => AccountingInvariant
<1> SUFFICES ASSUME Init PROVE AccountingInvariant
  OBVIOUS
<1>1. TypeOK
  BY InitTypeOK
<1>2. OneRowPerSubKey /\ StoredResponseIsCharged /\ ReportedUsageIsActual
      /\ AlertsAreEarned /\ HundredAfterEighty /\ ResponsesAreCalls
  BY DEF Init, OneRowPerSubKey, StoredResponseIsCharged, ReportedUsageIsActual,
         AlertsAreEarned, HundredAfterEighty, ResponsesAreCalls
<1>3. RequestIsCurrent /\ RecordedRowsExist /\ RoomForPending /\ UsageIsAccounted
      /\ EightyIsSettled
  BY DEF Init, RequestIsCurrent, RecordedRowsExist, RoomForPending, UsageIsAccounted,
         EightyIsSettled, Recorded
<1>4. FutureIsUnused
  BY NoRowsNoUsage DEF Init, FutureIsUnused
<1>5. FiringIsDue
  BY DEF Init, FiringIsDue
<1> QED
  BY <1>1, <1>2, <1>3, <1>4, <1>5 DEF AccountingInvariant

\* A step that leaves the handler empty and the tables as they are, and does not
\* answer with a fresh response.
LEMMA QuietStep ==
    ASSUME AccountingInvariant, TypeOK',
           UNCHANGED <<clock, events, alerts, responses, firing>>,
           req' = None,
           reply' = None \/ reply'.duplicate \/ reply'.status # 201
    PROVE  AccountingInvariant'
<1>1. UNCHANGED usage
  BY SameRowsSameUsage
<1>2. OneRowPerSubKey' /\ StoredResponseIsCharged' /\ AlertsAreEarned'
      /\ HundredAfterEighty' /\ ResponsesAreCalls' /\ FutureIsUnused' /\ FiringIsDue'
  BY <1>1 DEF AccountingInvariant, OneRowPerSubKey, StoredResponseIsCharged,
         AlertsAreEarned, Earned, HundredAfterEighty, ResponsesAreCalls, FutureIsUnused,
         FiringIsDue
<1>3. ReportedUsageIsActual'
  BY DEF ReportedUsageIsActual
<1>4. RequestIsCurrent' /\ RecordedRowsExist' /\ RoomForPending' /\ UsageIsAccounted'
      /\ EightyIsSettled'
  BY DEF RequestIsCurrent, RecordedRowsExist, RoomForPending, UsageIsAccounted,
         EightyIsSettled, Recorded
<1> QED
  BY <1>2, <1>3, <1>4 DEF AccountingInvariant

\* A step beside the handler: what the request in it rests on stays.
LEMMA BesideStep ==
    ASSUME AccountingInvariant, TypeOK', reply' = None,
           UNCHANGED <<clock, events, responses, req>>, alerts \subseteq alerts',
           AlertsAreEarned', HundredAfterEighty', FiringIsDue'
    PROVE  AccountingInvariant'
<1> USE DEF AccountingInvariant
<1>1. UNCHANGED usage
  BY SameRowsSameUsage
<1>2. OneRowPerSubKey' /\ StoredResponseIsCharged' /\ ReportedUsageIsActual'
      /\ FutureIsUnused' /\ ResponsesAreCalls' /\ RecordedRowsExist'
      /\ RoomForPending' /\ UsageIsAccounted' /\ RequestIsCurrent'
  BY <1>1 DEF OneRowPerSubKey, StoredResponseIsCharged, ReportedUsageIsActual,
         FutureIsUnused, ResponsesAreCalls, RecordedRowsExist, RoomForPending,
         Pending, UsageIsAccounted, RequestIsCurrent, Stored
<1>3. EightyIsSettled'
  BY <1>1 DEF EightyIsSettled, Recorded, IsDuplicate, CrossesThreshold
<1> QED
  BY <1>2, <1>3

\* A month that ends under a request does not change its room: the new
\* month is empty.
LEMMA NextMonthStep ==
    ASSUME AccountingInvariant, TypeOK', NextMonth
    PROVE  AccountingInvariant'
<1> USE DEF AccountingInvariant
<1>1. /\ UNCHANGED <<account, events, usage, alerts, responses, req, firing>>
      /\ clock' = clock + 1 /\ reply' = None /\ clock \in Nat
  BY SameRowsSameUsage DEF NextMonth, TypeOK, Periods
<1>2. OneRowPerSubKey' /\ StoredResponseIsCharged' /\ AlertsAreEarned'
      /\ HundredAfterEighty' /\ ResponsesAreCalls' /\ RecordedRowsExist'
      /\ RoomForPending' /\ EightyIsSettled' /\ FiringIsDue'
  BY <1>1 DEF OneRowPerSubKey, StoredResponseIsCharged, AlertsAreEarned, Earned,
         HundredAfterEighty, ResponsesAreCalls, RecordedRowsExist, RoomForPending,
         FiringIsDue, Pending, EightyIsSettled, Recorded, IsDuplicate, CrossesThreshold
<1>3. ReportedUsageIsActual'
  BY <1>1 DEF ReportedUsageIsActual
<1>4. RequestIsCurrent'
  <2>1. ASSUME req # None PROVE req.period \in Nat /\ req.period <= clock
    BY <2>1 DEF RequestIsCurrent, TypeOK, Request, Periods
  <2> QED
    BY <1>1, <2>1 DEF RequestIsCurrent, Stored
<1>5. FutureIsUnused'
  BY <1>1 DEF FutureIsUnused, Periods
<1>6. UsageIsAccounted'
  BY <1>1 DEF UsageIsAccounted, RequestIsCurrent, TypeOK, Request, Periods
<1> QED
  BY <1>2, <1>3, <1>4, <1>5, <1>6

\* A request is admitted with room for all it will insert, in this and any later month.
LEMMA AdmitStep ==
    ASSUME AccountingInvariant, TypeOK',
           NEW t \in Tenants, NEW k \in Keys, NEW body \in Bodies, Admit(t, k, body)
    PROVE  AccountingInvariant'
<1> USE DEF AccountingInvariant
<1> DEFINE q == SimulateTokens(body)
<1>1. q \in Quantities /\ q["api_call"] = 1
  BY SimulateTokensType
<1> HIDE DEF q
<1>2. /\ UNCHANGED <<account, clock, events, usage, alerts, responses, firing>>
      /\ reply' = None
      /\ req' = [tenant |-> t, key |-> k, account |-> account[t], period |-> clock,
                 quantities |-> q, before |-> usage[t][clock],
                 pending |-> TypesOf(q), recorded |-> {},
                 due |-> Metrics \X Thresholds, fired |-> {}, thrown |-> FALSE]
      /\ Stored(t, k) = {}
      /\ WithinQuota(account[t].plan, usage[t][clock], q)
  BY SameRowsSameUsage DEF Admit, q
<1>3. req' # None /\ req' \in Request
  <2>1. account[t] \in Account /\ clock \in Periods /\ usage[t][clock] \in Quantities
    BY UsageType DEF TypeOK
  <2>2. req' \in Request
    BY <1>1, <1>2, <2>1 DEF Request, TypesOf
  <2> QED
    BY <2>2, NoneAssumption
<1>4. OneRowPerSubKey' /\ StoredResponseIsCharged' /\ AlertsAreEarned'
      /\ HundredAfterEighty' /\ ResponsesAreCalls' /\ FutureIsUnused' /\ FiringIsDue'
  BY <1>2 DEF OneRowPerSubKey, StoredResponseIsCharged, AlertsAreEarned, Earned,
              HundredAfterEighty, ResponsesAreCalls, FutureIsUnused, FiringIsDue
<1>5. ReportedUsageIsActual' /\ RecordedRowsExist'
  BY <1>2 DEF ReportedUsageIsActual, RecordedRowsExist
<1>6. RequestIsCurrent'
  BY <1>1, <1>2 DEF RequestIsCurrent, Stored, TypeOK, Periods
<1>7. UsageIsAccounted'
  BY <1>2, UsageType DEF UsageIsAccounted, TypeOK, Quantities
<1>8. EightyIsSettled'
  BY <1>2 DEF EightyIsSettled, Metrics, Thresholds
<1>9. \A type \in Types : Pending(type)' = q[type]
  BY <1>1, <1>2 DEF Pending, TypesOf, Quantities
<1>10. \A p \in Periods : usage[t][p] \in Quantities
  BY UsageType DEF TypeOK
<1>11. ASSUME NEW p \in Periods, p >= clock
       PROVE  /\ usage[t][p]["api_call"] + q["api_call"] <= ApiLimit[account[t].plan]
              /\ Tokens(usage[t][p]) + Tokens(q) <= TokenLimit[account[t].plan]
  <2>1. CASE p = clock
    BY <1>2, <2>1 DEF WithinQuota
  <2>2. CASE p > clock
    <3>1. \A type \in Types : usage[t][p][type] = 0
      BY <2>2 DEF FutureIsUnused
    <3>2. Tokens(usage[t][p]) = 0 /\ usage[t][p]["api_call"] = 0
      BY <3>1 DEF Tokens, Types, TokenTypes
    <3>3. /\ Tokens(usage[t][clock]) \in Nat /\ Tokens(q) \in Nat
          /\ usage[t][clock]["api_call"] \in Nat
      BY <1>1, <1>10, TokensType DEF TypeOK, Quantities, Types
    <3>4. ApiLimit[account[t].plan] \in Nat /\ TokenLimit[account[t].plan] \in Nat
      BY MeteringAssumption DEF TypeOK, Account
    <3> QED
      BY <1>1, <1>2, <3>2, <3>3, <3>4 DEF WithinQuota
  <2> QED
    BY <1>11, <2>1, <2>2 DEF TypeOK, Periods
<1>12. (Tokens([type \in Types |-> Pending(type)]))' = Tokens(q)
  BY <1>9 DEF Tokens, Types, TokenTypes
<1>13. RoomForPending'
  BY <1>2, <1>9, <1>11, <1>12 DEF RoomForPending, Types, TokenTypes
<1> QED
  BY <1>4, <1>5, <1>6, <1>7, <1>8, <1>13

\* An inserted row uses up exactly the room that was kept for it, so usage stays
\* within the limits.
LEMMA RecordFreshStep ==
    ASSUME AccountingInvariant, TypeOK',
           NEW type \in Types, RecordFresh(type)
    PROVE  /\ AccountingInvariant'
           /\ usage'[req.tenant][clock]["api_call"] <= ApiLimit[req.account.plan]
           /\ Tokens(usage'[req.tenant][clock]) <= TokenLimit[req.account.plan]
<1> USE DEF AccountingInvariant
<1> DEFINE row == [tenant |-> req.tenant, key |-> req.key, type |-> type,
                   quantity |-> req.quantities[type], period |-> clock]
           t == req.tenant
           qty == req.quantities[type]
<1>1. /\ req # None /\ req \in Request /\ t \in Tenants /\ clock \in Periods
      /\ type \in req.pending
      /\ qty \in Nat
      /\ req.quantities \in Quantities
  BY DEF RecordFresh, RecordsNext, TypeOK, Request, Quantities
<1>2. /\ UNCHANGED <<account, clock, alerts, responses, firing>>
      /\ reply' = None
      /\ events' = events \cup {row}
      /\ \A e \in events : ~(e.key = req.key /\ e.type = type)
      /\ req' = [req EXCEPT !.pending = @ \ {type}, !.recorded = @ \cup {type}]
  BY DEF RecordFresh, InsertEvent
<1>3. /\ req'.tenant = t /\ req'.key = req.key /\ req'.account = req.account
      /\ req'.period = req.period /\ req'.quantities = req.quantities
      /\ req'.before = req.before
      /\ req'.pending = req.pending \ {type}
      /\ req'.recorded = req.recorded \cup {type}
      /\ req'.due = req.due
  BY <1>1, <1>2 DEF Request
<1>4. \A u \in Tenants, p \in Periods, y \in Types :
          /\ usage[u][p][y] \in Nat
          /\ usage'[u][p][y] = usage[u][p][y]
                + (IF u = t /\ p = clock /\ y = type THEN qty ELSE 0)
  <2>1. /\ usage \in [Tenants -> [Periods -> Quantities]]
        /\ usage' = [usage EXCEPT ![t][clock][type] = @ + qty]
    BY UsageType, RecordFreshCounts DEF TypeOK
  <2> QED
    BY <1>1, <2>1 DEF Quantities
<1> HIDE DEF t, qty
<1>5. OneRowPerSubKey'
  BY <1>2 DEF OneRowPerSubKey
<1>6. StoredResponseIsCharged'
  BY <1>2 DEF StoredResponseIsCharged
<1>7. ReportedUsageIsActual' /\ HundredAfterEighty' /\ ResponsesAreCalls'
  BY <1>2 DEF ReportedUsageIsActual, HundredAfterEighty, ResponsesAreCalls
<1>8. \A u \in Tenants, p \in Periods, metric \in Metrics :
          /\ MeteredBy(usage[u][p], metric) \in Nat
          /\ MeteredBy(usage'[u][p], metric) \in Nat
          /\ MeteredBy(usage'[u][p], metric) >= MeteredBy(usage[u][p], metric)
  BY <1>1, <1>4 DEF MeteredBy, Tokens, Types, TokenTypes
<1>9. AlertsAreEarned' /\ FiringIsDue'
  <2>1. ASSUME NEW a \in AlertRow, Earned(a) PROVE Earned(a)'
    <3>1. PICK plan \in Plans : 100 * MeteredBy(usage[a.tenant][a.period], a.metric)
                                    >= a.pct * LimitOf(plan, a.metric)
      BY <2>1 DEF Earned
    <3>2. a.pct * LimitOf(plan, a.metric) \in Nat
      BY LimitType DEF AlertRow, Thresholds
    <3>3. 100 * MeteredBy(usage'[a.tenant][a.period], a.metric)
              >= a.pct * LimitOf(plan, a.metric)
      BY <1>8, <3>1, <3>2 DEF AlertRow
    <3> QED
      BY <3>3 DEF Earned
  <2>2. AlertsAreEarned'
    BY <1>2, <2>1 DEF AlertsAreEarned, TypeOK
  <2>3. FiringIsDue'
    <3>1. \A w \in Evaluators : firing[w] \subseteq AlertRow
      BY DEF TypeOK
    <3>2. firing' = firing /\ alerts' = alerts
      BY <1>2
    <3>3. \A w \in Evaluators : \A a \in firing[w] : Earned(a)'
      BY <2>1, <3>1 DEF FiringIsDue
    <3> QED
      BY <3>2, <3>3 DEF FiringIsDue
  <2> QED
    BY <2>2, <2>3
<1>10. RequestIsCurrent'
  <2>1. /\ req.period <= clock
        /\ Stored(t, req.key) = {}
        /\ req.quantities["api_call"] = 1
        /\ req.pending \subseteq TypesOf(req.quantities)
        /\ req.recorded \subseteq TypesOf(req.quantities) \ req.pending
        /\ type \in TypesOf(req.quantities)
    BY <1>1 DEF RequestIsCurrent, t
  <2>2. Stored(req.tenant, req.key)' = {}
    BY <1>2, <1>3, <2>1 DEF Stored
  <2>3. TypesOf(req.quantities)' = TypesOf(req.quantities)
    BY <1>3 DEF TypesOf
  <2> QED
    BY <1>2, <1>3, <2>1, <2>2, <2>3 DEF RequestIsCurrent
<1>11. RecordedRowsExist'
  <2>1. ASSUME NEW y \in req'.recorded
        PROVE  \E e \in events' : e.tenant = t /\ e.key = req.key /\ e.type = y
                                   /\ e.quantity = req.quantities[y]
    <3>1. CASE y = type
      <4>1. row \in events' /\ row.tenant = t /\ row.key = req.key /\ row.type = y
            /\ row.quantity = req.quantities[y]
        BY <1>2, <3>1 DEF t
      <4> QED
        BY <4>1
    <3>2. CASE y # type
      BY <1>1, <1>2, <1>3, <2>1, <3>2 DEF RecordedRowsExist, t
    <3> QED
      BY <3>1, <3>2
  <2> QED
    BY <1>3, <2>1 DEF RecordedRowsExist
<1>12. \A y \in Types :
          Pending(y)' = Pending(y) - (IF y = type THEN qty ELSE 0)
  BY <1>1, <1>3 DEF Pending, qty, Quantities
<1>13. \A y \in Types : Pending(y) \in Nat
  BY <1>1 DEF Pending, Quantities
<1> DEFINE rest == [y \in Types |-> Pending(y)]
<1>14. rest' = [y \in Types |-> Pending(y) - (IF y = type THEN qty ELSE 0)]
  BY <1>12
<1>15. /\ rest'["api_call"] = Pending("api_call") - (IF type = "api_call" THEN qty ELSE 0)
       /\ Tokens(rest') = Tokens(rest) - (IF type = "api_call" THEN 0 ELSE qty)
       /\ Tokens(rest) \in Nat
  BY <1>1, <1>13, <1>14 DEF Tokens, Types, TokenTypes
<1>16. \A p \in Periods :
          /\ usage'[t][p]["api_call"] = usage[t][p]["api_call"]
                + (IF p = clock /\ type = "api_call" THEN qty ELSE 0)
          /\ Tokens(usage'[t][p]) = Tokens(usage[t][p])
                + (IF p = clock /\ type # "api_call" THEN qty ELSE 0)
          /\ Tokens(usage[t][p]) \in Nat /\ usage[t][p]["api_call"] \in Nat
  BY <1>1, <1>4 DEF Tokens, Types, TokenTypes
<1>17. \A p \in Periods : p >= req.period =>
          /\ usage[t][p]["api_call"] + Pending("api_call") <= ApiLimit[req.account.plan]
          /\ Tokens(usage[t][p]) + Tokens(rest) <= TokenLimit[req.account.plan]
  BY <1>1 DEF RoomForPending, t
<1>18. ApiLimit[req.account.plan] \in Nat /\ TokenLimit[req.account.plan] \in Nat
  BY <1>1, MeteringAssumption DEF Request, Account
<1>19. ASSUME NEW p \in Periods, p >= req.period
       PROVE  /\ usage'[t][p]["api_call"] + Pending("api_call")' <= ApiLimit[req.account.plan]
              /\ Tokens(usage'[t][p]) + Tokens(rest') <= TokenLimit[req.account.plan]
              /\ usage'[t][p]["api_call"] <= ApiLimit[req.account.plan] \/ p # clock
              /\ Tokens(usage'[t][p]) <= TokenLimit[req.account.plan] \/ p # clock
  <2> HIDE DEF rest
  <2>1. Pending("api_call") \in Nat /\ qty \in Nat
        /\ Pending("api_call")' = Pending("api_call") - (IF type = "api_call" THEN qty ELSE 0)
    BY <1>1, <1>12, <1>13 DEF Types
  <2>2. (type = "api_call" => Pending("api_call") = qty)
        /\ (type # "api_call" => Tokens(rest) >= qty)
    BY <1>1, <1>13 DEF Pending, qty, rest, Tokens, Types, TokenTypes, Quantities
  <2> QED
    BY <1>15, <1>16, <1>17, <1>18, <1>19, <2>1, <2>2
<1>20. RoomForPending'
  BY <1>2, <1>3, <1>19 DEF RoomForPending, t
<1>21. FutureIsUnused'
  BY <1>2, <1>4 DEF FutureIsUnused, TypeOK, Periods
<1>22. UsageIsAccounted'
  BY <1>1, <1>2, <1>3, <1>4 DEF UsageIsAccounted, RequestIsCurrent, t, qty, Quantities,
     TypeOK, Request
<1>23. EightyIsSettled'
  <2>1. \A metric \in Metrics : ~(<<metric, 100>> \in req.due /\ <<metric, 80>> \notin req.due)
    BY <1>1 DEF EightyIsSettled, Recorded
  <2> QED
    BY <1>3, <2>1 DEF EightyIsSettled
<1>24. clock >= req.period
  BY <1>1 DEF RequestIsCurrent, t, TypeOK, Request, Periods
<1> QED
  BY <1>1, <1>5, <1>6, <1>7, <1>9, <1>10, <1>11, <1>19, <1>20, <1>21, <1>22, <1>23, <1>24
  DEF t

\* A sub-key that exists is passed over, and nothing else moves.
LEMMA RecordExistingStep ==
    ASSUME AccountingInvariant, TypeOK',
           NEW type \in Types, RecordExisting(type)
    PROVE  AccountingInvariant'
<1> USE DEF AccountingInvariant
<1>1. /\ req # None /\ req \in Request /\ type \in req.pending
      /\ req.quantities \in Quantities
  BY DEF RecordExisting, RecordsNext, TypeOK, Request
<1>2. /\ UNCHANGED <<account, clock, events, usage, alerts, responses, firing>>
      /\ reply' = None
      /\ req' = [req EXCEPT !.pending = @ \ {type}]
  BY SameRowsSameUsage DEF RecordExisting
<1>3. /\ req'.tenant = req.tenant /\ req'.key = req.key /\ req'.account = req.account
      /\ req'.period = req.period /\ req'.quantities = req.quantities
      /\ req'.before = req.before
      /\ req'.pending = req.pending \ {type}
      /\ req'.recorded = req.recorded
      /\ req'.due = req.due
  BY <1>1, <1>2 DEF Request
<1>4. OneRowPerSubKey' /\ StoredResponseIsCharged' /\ AlertsAreEarned'
      /\ HundredAfterEighty' /\ ResponsesAreCalls' /\ FutureIsUnused' /\ FiringIsDue'
  BY <1>2 DEF OneRowPerSubKey, StoredResponseIsCharged, AlertsAreEarned, Earned,
              HundredAfterEighty, ResponsesAreCalls, FutureIsUnused, FiringIsDue
<1>5. ReportedUsageIsActual'
  BY <1>2 DEF ReportedUsageIsActual
<1>6. RequestIsCurrent'
  <2>1. TypesOf(req.quantities)' = TypesOf(req.quantities)
    BY <1>3 DEF TypesOf
  <2> QED
    BY <1>1, <1>2, <1>3, <2>1 DEF RequestIsCurrent, Stored
<1>7. RecordedRowsExist' /\ UsageIsAccounted'
  BY <1>1, <1>2, <1>3 DEF RecordedRowsExist, UsageIsAccounted
<1>8. \A y \in Types : Pending(y) \in Nat /\ Pending(y)' \in Nat /\ Pending(y)' <= Pending(y)
  BY <1>1, <1>3 DEF Pending, Quantities
<1>9. RoomForPending'
  <2> SUFFICES ASSUME NEW p \in Periods, p >= req.period
               PROVE  /\ usage[req.tenant][p]["api_call"] + Pending("api_call")'
                            <= ApiLimit[req.account.plan]
                      /\ Tokens(usage[req.tenant][p])
                            + Tokens([y \in Types |-> Pending(y)])' <= TokenLimit[req.account.plan]
    BY <1>2, <1>3 DEF RoomForPending, Tokens
  <2>1. /\ usage[req.tenant][p]["api_call"] + Pending("api_call") <= ApiLimit[req.account.plan]
        /\ Tokens(usage[req.tenant][p]) + Tokens([y \in Types |-> Pending(y)])
              <= TokenLimit[req.account.plan]
    BY <1>1 DEF RoomForPending
  <2>2. /\ Tokens([y \in Types |-> Pending(y)])' <= Tokens([y \in Types |-> Pending(y)])
        /\ Tokens([y \in Types |-> Pending(y)])' \in Nat
        /\ Tokens([y \in Types |-> Pending(y)]) \in Nat
    BY <1>8 DEF Tokens, Types, TokenTypes
  <2>3. usage[req.tenant][p] \in Quantities
    BY <1>1, UsageType DEF TypeOK, Request
  <2>4. /\ Tokens(usage[req.tenant][p]) \in Nat /\ usage[req.tenant][p]["api_call"] \in Nat
        /\ TokenLimit[req.account.plan] \in Nat /\ ApiLimit[req.account.plan] \in Nat
    BY <1>1, <2>3, TokensType, MeteringAssumption DEF Request, Account, Quantities, Types
  <2>5. Pending("api_call") \in Nat /\ Pending("api_call")' \in Nat
        /\ Pending("api_call")' <= Pending("api_call")
    BY <1>8 DEF Types
  <2> QED
    BY <2>1, <2>2, <2>4, <2>5
<1>10. EightyIsSettled'
  <2>1. \A metric \in Metrics : ~(<<metric, 100>> \in req.due /\ <<metric, 80>> \notin req.due)
    BY <1>1 DEF EightyIsSettled, Recorded
  <2> QED
    BY <1>3, <2>1 DEF EightyIsSettled
<1> QED
  BY <1>4, <1>5, <1>6, <1>7, <1>9, <1>10

\* A step of the alert loop: of the request only what is due, what fired and whether it
\* threw may change.
LEMMA AlertLoopStep ==
    ASSUME AccountingInvariant, TypeOK', Recorded,
           UNCHANGED <<account, clock, events, responses, firing>>, reply' = None,
           NEW due, NEW fired, NEW thrown,
           req' = [req EXCEPT !.due = due, !.fired = fired, !.thrown = thrown],
           alerts \subseteq alerts',
           AlertsAreEarned', HundredAfterEighty', EightyIsSettled'
    PROVE  AccountingInvariant'
<1> USE DEF AccountingInvariant
<1>0. UNCHANGED usage
  BY SameRowsSameUsage
<1>1. req \in Request /\ req # None
  BY DEF Recorded, TypeOK
<1>2. /\ req'.tenant = req.tenant /\ req'.key = req.key /\ req'.account = req.account
      /\ req'.period = req.period /\ req'.quantities = req.quantities
      /\ req'.before = req.before /\ req'.pending = req.pending
      /\ req'.recorded = req.recorded
  BY <1>1 DEF Request
<1>3. OneRowPerSubKey' /\ StoredResponseIsCharged' /\ ResponsesAreCalls'
      /\ FutureIsUnused' /\ ReportedUsageIsActual' /\ FiringIsDue'
  BY <1>0 DEF OneRowPerSubKey, StoredResponseIsCharged, ResponsesAreCalls,
         FutureIsUnused, ReportedUsageIsActual, FiringIsDue, Earned
<1>4. RequestIsCurrent'
  <2>1. TypesOf(req.quantities)' = TypesOf(req.quantities)
    BY <1>2 DEF TypesOf
  <2> QED
    BY <1>1, <1>2, <2>1 DEF RequestIsCurrent, Stored
<1>5. RecordedRowsExist' /\ UsageIsAccounted'
  BY <1>0, <1>1, <1>2 DEF RecordedRowsExist, UsageIsAccounted
<1>6. \A y \in Types : Pending(y)' = Pending(y)
  BY <1>2 DEF Pending
<1>7. [y \in Types |-> Pending(y)]' = [y \in Types |-> Pending(y)]
  BY <1>6
<1>8. RoomForPending'
  BY <1>0, <1>1, <1>2, <1>6, <1>7 DEF RoomForPending, Types, TokenTypes, Tokens
<1> QED
  BY <1>3, <1>4, <1>5, <1>8

\* A failed evaluation only forgets what was due.
LEMMA AlertsThrowStep ==
    ASSUME AccountingInvariant, TypeOK', AlertsThrow
    PROVE  AccountingInvariant'
<1>1. /\ Recorded /\ reply' = None
      /\ UNCHANGED <<account, clock, events, usage, alerts, responses, firing>>
      /\ req' = [req EXCEPT !.due = {}, !.fired = {}, !.thrown = TRUE]
  BY SameRowsSameUsage DEF AlertsThrow
<1>2. req'.due = {}
  BY <1>1 DEF AccountingInvariant, TypeOK, Recorded, Request
<1>3. AlertsAreEarned' /\ HundredAfterEighty'
  BY <1>1 DEF AccountingInvariant, AlertsAreEarned, Earned, HundredAfterEighty
<1>4. EightyIsSettled'
  BY <1>2 DEF EightyIsSettled
<1> QED
  BY <1>1, <1>3, <1>4, AlertLoopStep

\* The rounded-up threshold is reached exactly when the percentage is, and 100% of a
\* limit implies 80% of it.
LEMMA ThresholdMeaning ==
    ASSUME NEW plan \in Plans, NEW metric \in Metrics, NEW pct \in Thresholds,
           NEW q \in Quantities
    PROVE  /\ CrossesThreshold(q, plan, metric, pct)
                 <=> 100 * MeteredBy(q, metric) >= pct * LimitOf(plan, metric)
           /\ CrossesThreshold(q, plan, metric, 100) => CrossesThreshold(q, plan, metric, 80)
<1>1. MeteredBy(q, metric) \in Nat /\ LimitOf(plan, metric) \in Nat
  BY TokensType, LimitType
<1> QED
  BY <1>1 DEF CrossesThreshold, ThresholdQty, CeilDiv, Thresholds

\* One iteration of evaluateAlerts' loop inserts an earned row or none, 80% first.
LEMMA EvaluateAlertStep ==
    ASSUME AccountingInvariant, TypeOK',
           NEW metric \in Metrics, NEW pct \in Thresholds, EvaluateAlert(metric, pct)
    PROVE  AccountingInvariant'
<1> USE DEF AccountingInvariant
<1> DEFINE row(m, n) == [tenant |-> req.tenant, period |-> req.period, metric |-> m, pct |-> n]
           crosses(m, n) ==
               CrossesThreshold(usage[req.tenant][req.period], req.account.plan, m, n)
           inserted == IF crosses(metric, pct) /\ row(metric, pct) \notin alerts
                       THEN {row(metric, pct)} ELSE {}
<1>1. /\ Recorded /\ reply' = None
      /\ <<metric, pct>> \in req.due
      /\ \A d \in req.due : DueOrder(<<metric, pct>>) <= DueOrder(d)
      /\ UNCHANGED <<account, clock, events, usage, responses, firing>>
      /\ alerts' = alerts \cup inserted
      /\ req' = [req EXCEPT !.due = @ \ {<<metric, pct>>}, !.fired = @ \cup inserted]
  BY SameRowsSameUsage DEF EvaluateAlert
<1>2. req \in Request /\ req # None /\ usage[req.tenant][req.period] \in Quantities
  BY <1>1, UsageType DEF Recorded, TypeOK, Request
<1>3. /\ req'.tenant = req.tenant /\ req'.account = req.account /\ req'.period = req.period
      /\ req'.pending = req.pending /\ req'.recorded = req.recorded
      /\ req'.quantities = req.quantities
      /\ req'.due = req.due \ {<<metric, pct>>}
  BY <1>1, <1>2 DEF Request
<1>4. req' = [req EXCEPT !.due = req.due \ {<<metric, pct>>},
                         !.fired = req.fired \cup inserted,
                         !.thrown = req.thrown]
  BY <1>1, <1>2 DEF Request
<1>5. row(metric, pct) \in alerts' \/ ~crosses(metric, pct)
  BY <1>1
<1>6. AlertsAreEarned'
  <2> SUFFICES ASSUME NEW a \in alerts' PROVE Earned(a)
    BY <1>1 DEF AlertsAreEarned, Earned
  <2>1. CASE a \in alerts
    BY <2>1 DEF AlertsAreEarned
  <2>2. CASE a = row(metric, pct) /\ crosses(metric, pct)
    <3>1. req.account.plan \in Plans
      BY <1>2 DEF Request, Account
    <3>2. 100 * MeteredBy(usage[req.tenant][req.period], metric)
              >= pct * LimitOf(req.account.plan, metric)
      BY <1>2, <2>2, <3>1, ThresholdMeaning
    <3> QED
      BY <2>2, <3>1, <3>2 DEF Earned
  <2> QED
    BY <1>1, <2>1, <2>2
<1>7. HundredAfterEighty'
  <2> SUFFICES ASSUME NEW a \in alerts', a.pct = 100
               PROVE  [a EXCEPT !.pct = 80] \in alerts'
    BY DEF HundredAfterEighty
  <2>1. CASE a \in alerts
    BY <1>1, <2>1 DEF HundredAfterEighty
  <2>2. CASE a = row(metric, pct) /\ crosses(metric, pct)
    <3>1. pct = 100
      BY <2>2
    <3>2. <<metric, 80>> \notin req.due
      <4>1. MetricRank[metric] \in Nat
        BY DEF MetricRank
      <4>2. DueOrder(<<metric, 100>>) = MetricRank[metric] * 1000 + 100
            /\ DueOrder(<<metric, 80>>) = MetricRank[metric] * 1000 + 80
        BY DEF DueOrder
      <4> QED
        BY <1>1, <3>1, <4>1, <4>2
    <3>3. crosses(metric, 80)
      BY <1>2, <2>2, <3>1, ThresholdMeaning DEF Request, Account
    <3>4. row(metric, 80) \in alerts
      BY <1>1, <1>2, <3>1, <3>2, <3>3 DEF EightyIsSettled
    <3> QED
      BY <1>1, <2>2, <3>4
  <2> QED
    BY <1>1, <2>1, <2>2
<1>8. EightyIsSettled'
  <2> SUFFICES ASSUME req' # None, NEW m \in Metrics,
                      <<m, 100>> \in req'.due, <<m, 80>> \notin req'.due
               PROVE  Recorded' /\ (crosses(m, 80) => row(m, 80) \in alerts')
    BY <1>1, <1>3 DEF EightyIsSettled
  <2>1. Recorded'
    BY <1>1, <1>3 DEF Recorded, IsDuplicate, TypesOf
  <2>2. CASE m = metric /\ pct = 80
    BY <1>5, <2>1, <2>2
  <2>3. CASE ~(m = metric /\ pct = 80)
    <3>1. <<m, 100>> \in req.due /\ <<m, 80>> \notin req.due
      BY <1>3, <2>3
    <3> QED
      BY <1>1, <1>2, <2>1, <3>1 DEF EightyIsSettled
  <2> QED
    BY <2>2, <2>3
<1> QED
  BY <1>1, <1>4, <1>6, <1>7, <1>8, AlertLoopStep

\* What a rollup finds crossed is earned, and a metric's 80% alert is among it if its
\* 100% alert is.
LEMMA ReadTotalsStep ==
    ASSUME AccountingInvariant, TypeOK',
           NEW w \in Evaluators, NEW p \in RollupMonths, ReadTotals(w, p)
    PROVE  AccountingInvariant'
<1> USE DEF AccountingInvariant
<1> DEFINE t == loaded[w].tenant
           plan == loaded[w].plan
<1>1. /\ UNCHANGED <<clock, events, alerts, responses, req>> /\ reply' = None
      /\ firing' = [firing EXCEPT ![w] = CrossedAlerts(t, p, plan)]
  BY DEF ReadTotals
<1>2. UNCHANGED usage
  BY <1>1, SameRowsSameUsage
<1>3. t \in Tenants /\ plan \in Plans /\ usage[t][p] \in Quantities
  BY MeteringAssumption, UsageType DEF ReadTotals, TypeOK, Loaded
<1> HIDE DEF t, plan
<1>4. ASSUME NEW a \in CrossedAlerts(t, p, plan)
      PROVE  /\ Earned(a)
             /\ a.pct = 100 => [a EXCEPT !.pct = 80] \in CrossedAlerts(t, p, plan)
  <2>1. /\ a \in [tenant : {t}, period : {p}, metric : Metrics, pct : Thresholds]
        /\ CrossesThreshold(usage[t][p], plan, a.metric, a.pct)
    BY DEF CrossedAlerts
  <2>2. 100 * MeteredBy(usage[t][p], a.metric) >= a.pct * LimitOf(plan, a.metric)
    BY <1>3, <2>1, ThresholdMeaning
  <2>3. Earned(a)
    BY <1>3, <2>1, <2>2 DEF Earned
  <2>4. ASSUME a.pct = 100 PROVE [a EXCEPT !.pct = 80] \in CrossedAlerts(t, p, plan)
    <3>1. CrossesThreshold(usage[t][p], plan, a.metric, 80)
      BY <1>3, <2>1, <2>4, ThresholdMeaning
    <3> QED
      BY <2>1, <3>1 DEF CrossedAlerts, Thresholds
  <2> QED
    BY <2>3, <2>4
<1>5. FiringIsDue'
  <2> SUFFICES ASSUME NEW v \in Evaluators, NEW a \in firing'[v]
               PROVE  /\ Earned(a)
                      /\ a.pct = 100 => [a EXCEPT !.pct = 80] \in firing'[v] \cup alerts
    BY <1>1, <1>2 DEF FiringIsDue, Earned
  <2>1. CASE v = w
    BY <1>1, <1>4, <2>1 DEF TypeOK
  <2>2. CASE v # w
    BY <1>1, <2>2 DEF FiringIsDue, TypeOK
  <2> QED
    BY <2>1, <2>2
<1>6. AlertsAreEarned' /\ HundredAfterEighty'
  BY <1>1, <1>2 DEF AlertsAreEarned, Earned, HundredAfterEighty
<1> QED
  BY <1>1, <1>5, <1>6, BesideStep

\* The 80% alert of a metric is inserted before its 100% alert.
LEMMA InsertAlertStep ==
    ASSUME AccountingInvariant, TypeOK',
           NEW w \in Evaluators, NEW row \in AlertRow, InsertAlert(w, row)
    PROVE  AccountingInvariant'
<1> USE DEF AccountingInvariant
<1>1. /\ UNCHANGED <<clock, events, responses, req>> /\ reply' = None
      /\ row \in firing[w]
      /\ \A other \in firing[w] :
             DueOrder(<<row.metric, row.pct>>) <= DueOrder(<<other.metric, other.pct>>)
      /\ alerts' = alerts \cup {row}
      /\ firing' = [firing EXCEPT ![w] = @ \ {row}]
  BY DEF InsertAlert
<1>2. UNCHANGED usage
  BY <1>1, SameRowsSameUsage
<1>3. AlertsAreEarned'
  BY <1>1, <1>2 DEF AlertsAreEarned, Earned, FiringIsDue
<1>4. ASSUME row.pct = 100 PROVE [row EXCEPT !.pct = 80] \in alerts
  <2> DEFINE eighty == [row EXCEPT !.pct = 80]
  <2>1. eighty \in firing[w] \cup alerts
    BY <1>1, <1>4 DEF FiringIsDue
  <2>2. eighty.metric = row.metric /\ eighty.pct = 80 /\ row.metric \in Metrics
    BY DEF AlertRow
  <2>3. MetricRank[row.metric] \in Nat
    BY <2>2 DEF MetricRank
  <2>4. ~(DueOrder(<<row.metric, 100>>) <= DueOrder(<<row.metric, 80>>))
    BY <2>3 DEF DueOrder
  <2> QED
    BY <1>1, <1>4, <2>1, <2>2, <2>4
<1>5. HundredAfterEighty'
  BY <1>1, <1>4 DEF HundredAfterEighty
<1>6. FiringIsDue'
  <2> SUFFICES ASSUME NEW v \in Evaluators, NEW a \in firing'[v]
               PROVE  /\ Earned(a)
                      /\ a.pct = 100 => [a EXCEPT !.pct = 80] \in firing'[v] \cup alerts'
    BY <1>2 DEF FiringIsDue, Earned
  <2>1. a \in firing[v] /\ firing[v] \ {row} \subseteq firing'[v]
    BY <1>1 DEF TypeOK
  <2> QED
    BY <1>1, <2>1 DEF FiringIsDue
<1> QED
  BY <1>1, <1>3, <1>5, <1>6, BesideStep

\* A rollup that starts or ends, or another account: nothing that is due or stands moves.
LEMMA AroundStep ==
    ASSUME AccountingInvariant, TypeOK',
           \/ \E w \in Evaluators : (\E t \in Tenants : LoadTenant(w, t)) \/ EvaluationEnds(w)
           \/ \E t \in Tenants : Reseed(t)
           \/ \E t \in Tenants, acct \in Account : SetAccount(t, acct)
    PROVE  AccountingInvariant'
<1> USE DEF AccountingInvariant
<1>1. /\ UNCHANGED <<clock, events, alerts, responses, req>> /\ reply' = None
      /\ \/ UNCHANGED firing
         \/ \E w \in Evaluators : firing' = [firing EXCEPT ![w] = {}]
  BY DEF LoadTenant, EvaluationEnds, Reseed, SetAccount
<1>2. UNCHANGED usage
  BY <1>1, SameRowsSameUsage
<1>3. AlertsAreEarned' /\ HundredAfterEighty'
  BY <1>1, <1>2 DEF AlertsAreEarned, Earned, HundredAfterEighty
<1>4. \A v \in Evaluators : firing'[v] = firing[v] \/ firing'[v] = {}
  BY <1>1 DEF TypeOK
<1>5. FiringIsDue'
  <2>1. \A a : Earned(a)' <=> Earned(a)
    BY <1>2 DEF Earned
  <2> SUFFICES ASSUME NEW v \in Evaluators, NEW a \in firing'[v]
               PROVE  /\ Earned(a)
                      /\ a.pct = 100 => [a EXCEPT !.pct = 80] \in firing'[v] \cup alerts
    BY <1>1, <2>1 DEF FiringIsDue
  <2>2. firing'[v] = firing[v]
    BY <1>4
  <2> QED
    BY <2>2 DEF FiringIsDue
<1> QED
  BY <1>1, <1>3, <1>5, BesideStep

\* The stored response is that of rows that are all there.
LEMMA RespondStep ==
    ASSUME AccountingInvariant, TypeOK', Respond
    PROVE  AccountingInvariant'
<1> USE DEF AccountingInvariant
<1> DEFINE response ==
            [tenant |-> req.tenant, key |-> req.key, plan |-> req.account.plan,
             period |-> req.period, quantities |-> req.quantities,
             api_calls_used |-> req.before["api_call"] + 1,
             tokens_used |-> Tokens(req.before) + Tokens(req.quantities),
             fired |-> req.fired, thrown |-> req.thrown]
<1>1. /\ Recorded /\ req' = None
      /\ UNCHANGED <<account, clock, events, usage, alerts, firing>>
      /\ responses' = responses \cup {response}
      /\ reply' = [tenant |-> req.tenant, key |-> req.key, status |-> 201,
                   duplicate |-> FALSE, base |-> response]
  BY SameRowsSameUsage DEF Respond, Answer
<1>2. /\ req # None /\ req \in Request /\ req.tenant \in Tenants
      /\ req.recorded = TypesOf(req.quantities)
      /\ req.quantities \in Quantities /\ req.before \in Quantities
      /\ req.quantities["api_call"] = 1
  BY <1>1 DEF Recorded, IsDuplicate, TypeOK, Request, RequestIsCurrent
<1>3. OneRowPerSubKey' /\ AlertsAreEarned' /\ HundredAfterEighty' /\ FutureIsUnused'
      /\ FiringIsDue'
  BY <1>1 DEF OneRowPerSubKey, AlertsAreEarned, Earned, HundredAfterEighty,
              FutureIsUnused, FiringIsDue
<1>4. RequestIsCurrent' /\ RecordedRowsExist' /\ RoomForPending' /\ UsageIsAccounted'
      /\ EightyIsSettled'
  BY <1>1 DEF RequestIsCurrent, RecordedRowsExist, RoomForPending, UsageIsAccounted,
              EightyIsSettled
<1>5. StoredResponseIsCharged'
  <2> SUFFICES ASSUME NEW r \in responses', NEW type \in TypesOf(r.quantities)
               PROVE  \E e \in events : /\ e.tenant = r.tenant /\ e.key = r.key
                                        /\ e.type = type
                                        /\ e.quantity = r.quantities[type]
    BY <1>1 DEF StoredResponseIsCharged, TypesOf
  <2>1. CASE r \in responses
    BY <2>1 DEF StoredResponseIsCharged
  <2>2. CASE r = response
    <3>1. r.tenant = req.tenant /\ r.key = req.key /\ r.quantities = req.quantities
      BY <2>2
    <3> QED
      BY <1>2, <3>1 DEF RecordedRowsExist
  <2> QED
    BY <1>1, <2>1, <2>2
<1>6. ResponsesAreCalls'
  BY <1>1, <1>2 DEF ResponsesAreCalls
<1>7. ASSUME req.period = clock
      PROVE  /\ req.before["api_call"] + 1 = usage[req.tenant][clock]["api_call"]
             /\ Tokens(req.before) + Tokens(req.quantities) = Tokens(usage[req.tenant][clock])
  <2>1. \A type \in Types :
            usage[req.tenant][clock][type] = req.before[type] + req.quantities[type]
    <3> SUFFICES ASSUME NEW type \in Types
                 PROVE  usage[req.tenant][clock][type]
                            = req.before[type] + req.quantities[type]
      OBVIOUS
    <3>1. usage[req.tenant][clock][type]
              = req.before[type] + (IF type \in req.recorded THEN req.quantities[type] ELSE 0)
      BY <1>2, <1>7 DEF UsageIsAccounted
    <3>2. type \notin req.recorded => req.quantities[type] = 0
      BY <1>2 DEF TypesOf, Quantities
    <3> QED
      BY <3>1, <3>2
  <2>2. \A type \in Types : req.before[type] \in Nat /\ req.quantities[type] \in Nat
    BY <1>2 DEF Quantities
  <2> QED
    BY <1>2, <2>1, <2>2 DEF Tokens, Types, TokenTypes
<1>8. ReportedUsageIsActual'
  <2>1. response.period = req.period /\ response.api_calls_used = req.before["api_call"] + 1
        /\ response.tokens_used = Tokens(req.before) + Tokens(req.quantities)
    OBVIOUS
  <2> HIDE DEF response
  <2> QED
    BY <1>1, <1>7, <2>1 DEF ReportedUsageIsActual
<1> QED
  BY <1>3, <1>4, <1>5, <1>6, <1>8

\* Every step preserves the accounts.
LEMMA NextAccounting == AccountingInvariant /\ [Next]_vars => AccountingInvariant'
<1> SUFFICES ASSUME AccountingInvariant, [Next]_vars PROVE AccountingInvariant'
  OBVIOUS
<1>1. TypeOK'
  BY NextTypeOK DEF AccountingInvariant
<1>2. ASSUME NEW t \in Tenants, NEW k \in Keys,
             \/ Forbidden(t, k) \/ Mirror(t, k) \/ PaymentRequired(t, k)
             \/ \E body \in Bodies : QuotaExceeded(t, k, body)
      PROVE  AccountingInvariant'
  <2>1. /\ UNCHANGED <<clock, events, alerts, responses, firing>> /\ req' = None
    BY <1>2 DEF Forbidden, Mirror, PaymentRequired, QuotaExceeded, Arrives
  <2>2. reply'.duplicate \/ reply'.status # 201
    BY <1>2 DEF Forbidden, Mirror, PaymentRequired, QuotaExceeded, Answer
  <2> QED
    BY <1>1, <2>1, <2>2, QuietStep
<1>3. ASSUME NEW t \in Tenants, NEW k \in Keys, NEW body \in Bodies, Admit(t, k, body)
      PROVE  AccountingInvariant'
  BY <1>1, <1>3, AdmitStep
<1>4. ASSUME NEW type \in Types, RecordFresh(type)
      PROVE  AccountingInvariant'
  BY <1>1, <1>4, RecordFreshStep
<1>5. ASSUME NEW type \in Types, RecordExisting(type)
      PROVE  AccountingInvariant'
  BY <1>1, <1>5, RecordExistingStep
<1>6. CASE AnswerDuplicate
  <2>1. reply'.duplicate
    BY <1>6 DEF AnswerDuplicate, Answer
  <2>2. UNCHANGED <<clock, events, alerts, responses, firing>> /\ req' = None
    BY <1>6 DEF AnswerDuplicate
  <2> QED
    BY <1>1, <2>1, <2>2, QuietStep
<1>7. ASSUME NEW metric \in Metrics, NEW pct \in Thresholds, EvaluateAlert(metric, pct)
      PROVE  AccountingInvariant'
  BY <1>1, <1>7, EvaluateAlertStep
<1>8. CASE AlertsThrow
  BY <1>1, <1>8, AlertsThrowStep
<1>9. CASE Respond
  BY <1>1, <1>9, RespondStep
<1>10. CASE Abort
  BY <1>1, <1>10, QuietStep DEF Abort
<1>11. CASE NextMonth
  BY <1>1, <1>11, NextMonthStep
<1>12. ASSUME \/ \E w \in Evaluators :
                    (\E t \in Tenants : LoadTenant(w, t)) \/ EvaluationEnds(w)
              \/ \E t \in Tenants : Reseed(t)
              \/ \E t \in Tenants, acct \in Account : SetAccount(t, acct)
       PROVE  AccountingInvariant'
  BY <1>1, <1>12, AroundStep
<1>13. ASSUME NEW w \in Evaluators,
              \/ \E p \in RollupMonths : ReadTotals(w, p)
              \/ \E row \in AlertRow : InsertAlert(w, row)
       PROVE  AccountingInvariant'
  BY <1>1, <1>13, ReadTotalsStep, InsertAlertStep
<1>14. CASE UNCHANGED vars
  <2>1. UNCHANGED usage
    BY <1>14, SameRowsSameUsage DEF vars
  <2>2. OneRowPerSubKey' /\ StoredResponseIsCharged' /\ ReportedUsageIsActual'
        /\ AlertsAreEarned' /\ HundredAfterEighty' /\ FutureIsUnused' /\ ResponsesAreCalls'
    BY <1>14, <2>1 DEF vars, AccountingInvariant, OneRowPerSubKey, StoredResponseIsCharged,
       ReportedUsageIsActual, AlertsAreEarned, Earned, HundredAfterEighty, FutureIsUnused,
       ResponsesAreCalls
  <2>3. RequestIsCurrent' /\ RecordedRowsExist' /\ RoomForPending' /\ UsageIsAccounted'
        /\ EightyIsSettled'
    BY <1>14, <2>1 DEF vars, AccountingInvariant, RequestIsCurrent, RecordedRowsExist,
       RoomForPending, UsageIsAccounted, EightyIsSettled, Stored, Pending, Recorded,
       IsDuplicate, CrossesThreshold
  <2>4. FiringIsDue'
    BY <1>14, <2>1 DEF vars, AccountingInvariant, FiringIsDue, Earned
  <2> QED
    BY <1>1, <2>2, <2>3, <2>4 DEF AccountingInvariant
<1> QED
  BY <1>2, <1>3, <1>4, <1>5, <1>6, <1>7, <1>8, <1>9, <1>10, <1>11, <1>12, <1>13,
     <1>14 DEF Next

\* A step that takes no alert away, reports none, and reports none as stored.
LEMMA NoFiring ==
    ASSUME AlertsFireOnce, FiredAlertsStand, alerts \subseteq alerts',
           responses' = responses,
           \/ req' = None
           \/ req'.fired = {}
           \/ req # None /\ req'.fired = req.fired
    PROVE  AlertsFireOnce' /\ FiredAlertsStand'
<1>1. AlertsFireOnce'
  BY DEF AlertsFireOnce
<1>2. \A r \in responses' : r.fired \subseteq alerts'
  BY DEF FiredAlertsStand
<1>3. req' # None => req'.fired \subseteq alerts' /\ \A r \in responses' : req'.fired \cap r.fired = {}
  BY DEF FiredAlertsStand
<1> QED
  BY <1>1, <1>2, <1>3 DEF FiredAlertsStand

\* Every step preserves that alerts are reported at most once: what a request adds
\* to its report it has just inserted.
LEMMA NextFiring ==
    ASSUME AccountingInvariant, AlertsFireOnce, FiredAlertsStand, [Next]_vars
    PROVE  AlertsFireOnce' /\ FiredAlertsStand'
<1>1. ASSUME NEW t \in Tenants, NEW k \in Keys,
             \/ Forbidden(t, k) \/ Mirror(t, k) \/ PaymentRequired(t, k)
             \/ \E body \in Bodies : QuotaExceeded(t, k, body) \/ Admit(t, k, body)
      PROVE  AlertsFireOnce' /\ FiredAlertsStand'
  <2>1. alerts' = alerts /\ responses' = responses
    BY <1>1 DEF Forbidden, Mirror, PaymentRequired, QuotaExceeded, Admit
  <2>2. ASSUME NEW body \in Bodies, Admit(t, k, body)
        PROVE  req'.fired = {}
    BY <2>2 DEF Admit
  <2>3. req' = None \/ req'.fired = {}
    BY <1>1, <2>2 DEF Forbidden, Mirror, PaymentRequired, QuotaExceeded, Arrives
  <2> QED
    BY <2>1, <2>3, NoFiring
<1>2. ASSUME NEW type \in Types, RecordFresh(type) \/ RecordExisting(type)
      PROVE  AlertsFireOnce' /\ FiredAlertsStand'
  <2>1. req \in Request /\ req # None
    BY <1>2 DEF RecordFresh, RecordExisting, RecordsNext, AccountingInvariant, TypeOK
  <2>2. req'.fired = req.fired /\ UNCHANGED <<alerts, responses>>
    BY <1>2, <2>1 DEF RecordFresh, RecordExisting, Request
  <2> QED
    BY <2>1, <2>2, NoFiring
<1>3. CASE AnswerDuplicate
  BY <1>3, NoFiring DEF AnswerDuplicate
<1>4. ASSUME NEW metric \in Metrics, NEW pct \in Thresholds, EvaluateAlert(metric, pct)
      PROVE  AlertsFireOnce' /\ FiredAlertsStand'
  <2>1. req \in Request /\ req # None
    BY <1>4 DEF EvaluateAlert, Recorded, AccountingInvariant, TypeOK
  <2> DEFINE row == [tenant |-> req.tenant, period |-> req.period,
                     metric |-> metric, pct |-> pct]
             isNew == /\ CrossesThreshold(usage[req.tenant][req.period], req.account.plan,
                                          metric, pct)
                      /\ row \notin alerts
             inserted == IF isNew THEN {row} ELSE {}
  <2>2. /\ inserted \cap alerts = {}
        /\ alerts' = alerts \cup inserted
        /\ responses' = responses
        /\ req' = [req EXCEPT !.due = @ \ {<<metric, pct>>}, !.fired = @ \cup inserted]
    BY <1>4 DEF EvaluateAlert
  <2> HIDE DEF inserted
  <2>3. req'.fired = req.fired \cup inserted
    BY <2>1, <2>2 DEF Request
  <2>4. AlertsFireOnce'
    BY <2>2 DEF AlertsFireOnce
  <2>5. /\ req.fired \subseteq alerts
        /\ \A r \in responses : r.fired \subseteq alerts /\ req.fired \cap r.fired = {}
    BY <2>1 DEF FiredAlertsStand
  <2>6. \A r \in responses : r.fired \subseteq alerts' /\ req'.fired \cap r.fired = {}
    BY <2>2, <2>3, <2>5
  <2>7. req'.fired \subseteq alerts'
    BY <2>2, <2>3, <2>5
  <2> QED
    BY <2>2, <2>4, <2>6, <2>7 DEF FiredAlertsStand
<1>5. CASE AlertsThrow
  <2>1. req \in Request
    BY <1>5 DEF AlertsThrow, Recorded, AccountingInvariant, TypeOK
  <2>2. req'.fired = {} /\ UNCHANGED <<alerts, responses>>
    BY <1>5, <2>1 DEF AlertsThrow, Request
  <2> QED
    BY <2>2, NoFiring
<1>6. CASE Respond
  <2>1. PICK response :
            /\ response.fired = req.fired
            /\ responses' = responses \cup {response}
            /\ alerts' = alerts /\ req # None /\ req' = None
    BY <1>6 DEF Respond, Recorded
  <2>2. AlertsFireOnce'
    BY <2>1 DEF AlertsFireOnce, FiredAlertsStand
  <2> QED
    BY <2>1, <2>2 DEF FiredAlertsStand
<1>7. ASSUME NEW w \in Evaluators,
             \/ \E t \in Tenants : LoadTenant(w, t)
             \/ \E p \in RollupMonths : ReadTotals(w, p)
             \/ \E row \in AlertRow : InsertAlert(w, row)
             \/ EvaluationEnds(w)
      PROVE  AlertsFireOnce' /\ FiredAlertsStand'
  <2>1. alerts \subseteq alerts' /\ UNCHANGED <<responses, req>>
    BY <1>7 DEF LoadTenant, ReadTotals, InsertAlert, EvaluationEnds
  <2> QED
    BY <2>1, NoFiring
<1>8. CASE Abort
  BY <1>8, NoFiring DEF Abort
<1>9. CASE \/ NextMonth
           \/ \E t \in Tenants : Reseed(t)
           \/ \E t \in Tenants, acct \in Account : SetAccount(t, acct)
           \/ UNCHANGED vars
  BY <1>9, NoFiring DEF NextMonth, Reseed, SetAccount, vars
<1> QED
  BY <1>1, <1>2, <1>3, <1>4, <1>5, <1>6, <1>7, <1>8, <1>9 DEF Next

\* What one step preserves holds throughout every execution.
THEOREM InvariantHolds == Spec => []InductiveInvariant
<1>1. Init => InductiveInvariant
  BY InitAccounting DEF InductiveInvariant, Init, AlertsFireOnce, FiredAlertsStand
<1>2. InductiveInvariant /\ [Next]_vars => InductiveInvariant'
  BY NextAccounting, NextFiring DEF InductiveInvariant
<1> QED
  BY <1>1, <1>2, PTL DEF Spec

-----------------------------------------------------------------------------
(* What follows from it *)

\* Every response a client can be shown again has its usage rows.
THEOREM ResponsesArePaidFor == Spec => []StoredResponseIsCharged
<1>1. InductiveInvariant => StoredResponseIsCharged
  BY DEF InductiveInvariant, AccountingInvariant
<1> QED
  BY <1>1, InvariantHolds, PTL

\* The response of a recorded request is always stored: no key of another
\* tenant stands in its way, because that tenant's rows made it a duplicate.
THEOREM ResponseCanBeStored == Spec => []NoResponseKeyClash
<1>1. InductiveInvariant => NoResponseKeyClash
  <2> SUFFICES ASSUME InductiveInvariant, Recorded, NEW r \in responses, r.key = req.key
               PROVE  FALSE
    BY DEF NoResponseKeyClash
  <2> USE DEF InductiveInvariant, AccountingInvariant
  <2>1. /\ req \in Request /\ r \in Response /\ req.quantities["api_call"] = 1
        /\ req.recorded = TypesOf(req.quantities)
        /\ Stored(req.tenant, req.key) = {}
    BY DEF Recorded, IsDuplicate, TypeOK, RequestIsCurrent
  <2>2. "api_call" \in req.recorded
    BY <2>1 DEF TypesOf, Types
  <2>3. PICK e \in events : e.tenant = req.tenant /\ e.key = req.key /\ e.type = "api_call"
    BY <2>2 DEF Recorded, RecordedRowsExist
  <2>4. "api_call" \in TypesOf(r.quantities)
    BY DEF ResponsesAreCalls, TypesOf, Types
  <2>5. PICK f \in events : f.tenant = r.tenant /\ f.key = r.key /\ f.type = "api_call"
    BY <2>4 DEF StoredResponseIsCharged
  <2>6. r.tenant = req.tenant
    BY <2>3, <2>5 DEF OneRowPerSubKey
  <2> QED
    BY <2>1, <2>6 DEF Stored
<1> QED
  BY <1>1, InvariantHolds, PTL

\* The running totals a fresh response reports are the table's.
THEOREM ReportIsActual == Spec => []ReportedUsageIsActual
<1>1. InductiveInvariant => ReportedUsageIsActual
  BY DEF InductiveInvariant, AccountingInvariant
<1> QED
  BY <1>1, InvariantHolds, PTL

\* An alert stands only where the recorded usage of its month reached that share of a
\* plan's limit, whichever of the handler and the rollup inserted it.
THEOREM AlertsStandForUsage == Spec => []AlertsAreEarned
<1>1. InductiveInvariant => AlertsAreEarned
  BY DEF InductiveInvariant, AccountingInvariant
<1> QED
  BY <1>1, InvariantHolds, PTL

\* No 100% alert stands without its 80% alert, wherever evaluation was cut short.
THEOREM AlertsAreOrdered == Spec => []HundredAfterEighty
<1>1. InductiveInvariant => HundredAfterEighty
  BY DEF InductiveInvariant, AccountingInvariant
<1> QED
  BY <1>1, InvariantHolds, PTL

\* No alert is reported twice, for any number of tenants, months and requests, with
\* the rollup inserting alerts at any time.
THEOREM AlertsFireAtMostOnce == Spec => []AlertsFireOnce
<1>1. InductiveInvariant => AlertsFireOnce
  BY DEF InductiveInvariant
<1> QED
  BY <1>1, InvariantHolds, PTL

\* Usage only grows within the limits of the plan its request was admitted under, for all
\* limits and any mixture of tenants, retries, crashes, month ends and seeded plans: the
\* rows are written one by one, but room for all of them was there on admission.
THEOREM LimitsHold == Spec => AdmittedWithinLimit
<1> DEFINE Within(t, p) ==
        /\ req # None /\ req.tenant = t
        /\ usage'[t][p]["api_call"] <= ApiLimit[req.account.plan]
        /\ Tokens(usage'[t][p]) <= TokenLimit[req.account.plan]
<1>1. ASSUME InductiveInvariant, [Next]_vars
      PROVE  [events' # events =>
                 \A t \in Tenants, p \in Periods :
                     usage'[t][p] # usage[t][p] => Within(t, p)]_vars
  <2>1. ASSUME NEW type \in Types, RecordFresh(type),
               NEW t \in Tenants, NEW p \in Periods, usage'[t][p] # usage[t][p]
        PROVE  Within(t, p)
    <3>1. TypeOK /\ TypeOK'
      BY <1>1, NextTypeOK DEF InductiveInvariant, AccountingInvariant
    <3>2. usage \in [Tenants -> [Periods -> Quantities]]
      BY <3>1, UsageType DEF TypeOK
    <3>3. usage' = [usage EXCEPT ![req.tenant][clock][type] = @ + req.quantities[type]]
      BY <2>1, <3>1, RecordFreshCounts
    <3>4. t = req.tenant /\ p = clock
      BY <2>1, <3>2, <3>3
    <3>5. req # None
      BY <2>1 DEF RecordFresh, RecordsNext
    <3> QED
      BY <1>1, <2>1, <3>1, <3>4, <3>5, RecordFreshStep DEF InductiveInvariant
  <2>2. (~\E type \in Types : RecordFresh(type)) => UNCHANGED usage
    BY <1>1, OnlyRecordingCounts
  <2> QED
    BY <2>1, <2>2
<1> QED
  BY <1>1, InvariantHolds, PTL DEF Spec, AdmittedWithinLimit

=============================================================================
