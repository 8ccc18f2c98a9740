------------------------ MODULE MeteringContractProofs ------------------------
(***************************************************************************)
(* Proofs of what POST /generate promises its clients: a response leaves   *)
(* no threshold without its alert, and, when nothing is cut short, what    *)
(* they see is the atomic billing of MeterContract.                        *)
(***************************************************************************)
EXTENDS MeteringContract, MeteringProofs

-----------------------------------------------------------------------------
(* Alerts catch up with usage *)

\* Usage has reached a share of the plan's limit, and the alert that says so.
Reached(t, p, plan, metric, pct) ==
    100 * MeteredBy(usage[t][p], metric) >= pct * LimitOf(plan, metric)
Alert(t, p, metric, pct) ==
    [tenant |-> t, period |-> p, metric |-> metric, pct |-> pct]

\* A step of a rollup, which for the handler only inserts alerts.
RollupStep(w) ==
    \/ \E t \in Tenants : LoadTenant(w, t)
    \/ \E p \in RollupMonths : ReadTotals(w, p)
    \/ \E row \in AlertRow : InsertAlert(w, row)
    \/ EvaluationEnds(w)

LEMMA RollupInsertsAlerts ==
    ASSUME NEW w \in Evaluators, RollupStep(w)
    PROVE  /\ UNCHANGED <<account, clock, events, responses, req>>
           /\ reply' = None /\ alerts \subseteq alerts'
  BY DEF RollupStep, LoadTenant, ReadTotals, InsertAlert, EvaluationEnds

\* A step outside the loop: rows, once in, stay in, and no more are due or undue.
LEMMA DueStays ==
    ASSUME TypeOK, DueIsSettled, req # None,
           UNCHANGED events, alerts \subseteq alerts',
           \/ req' = req
           \/ \E type \in req.pending : req' = [req EXCEPT !.pending = @ \ {type}]
    PROVE  DueIsSettled'
<1>1. req \in Request /\ UNCHANGED usage
  BY SameRowsSameUsage DEF TypeOK
<1>2. CASE req' = req
  BY <1>1, <1>2 DEF DueIsSettled, Recorded, IsDuplicate
<1>3. ASSUME NEW type \in req.pending, req' = [req EXCEPT !.pending = @ \ {type}]
      PROVE  DueIsSettled'
  <2>1. ~req.thrown =>
            \A metric \in Metrics, pct \in Thresholds : <<metric, pct>> \in req.due
    BY <1>3 DEF DueIsSettled, Recorded
  <2>2. req'.due = req.due /\ req'.thrown = req.thrown
    BY <1>1, <1>3 DEF Request
  <2> QED
    BY <2>1, <2>2 DEF DueIsSettled
<1> QED
  BY <1>2, <1>3

\* An evaluated threshold has its alert, whoever has inserted it.
LEMMA EvaluateSettles ==
    ASSUME TypeOK, DueIsSettled,
           NEW m \in Metrics, NEW n \in Thresholds, EvaluateAlert(m, n)
    PROVE  DueIsSettled'
<1> DEFINE crosses == CrossesThreshold(usage[req.tenant][req.period], req.account.plan, m, n)
           row == Alert(req.tenant, req.period, m, n)
           inserted == IF crosses /\ row \notin alerts THEN {row} ELSE {}
<1>1. /\ Recorded
      /\ UNCHANGED usage
      /\ alerts' = alerts \cup inserted
      /\ req' = [req EXCEPT !.due = @ \ {<<m, n>>}, !.fired = @ \cup inserted]
  BY SameRowsSameUsage DEF EvaluateAlert, Alert
<1>2. req \in Request /\ req # None
  BY <1>1 DEF Recorded, TypeOK
<1>3. /\ req'.tenant = req.tenant /\ req'.period = req.period
      /\ req'.account = req.account /\ req'.thrown = req.thrown
      /\ req'.pending = req.pending /\ req'.recorded = req.recorded
      /\ req'.quantities = req.quantities
      /\ req'.due = req.due \ {<<m, n>>}
  BY <1>1, <1>2 DEF Request
<1>4. crosses => row \in alerts'
  BY <1>1
<1>5. Reached(req.tenant, req.period, req.account.plan, m, n) => crosses
  <2>1. usage[req.tenant][req.period] \in Quantities /\ req.account.plan \in Plans
    BY <1>2, UsageType DEF TypeOK, Request, Account
  <2> QED
    BY <2>1, ThresholdMeaning DEF Reached
<1> HIDE DEF crosses, inserted, row
<1>6. alerts \subseteq alerts'
  BY <1>1
<1> SUFFICES ASSUME req' # None, ~req'.thrown, NEW metric \in Metrics, NEW pct \in Thresholds,
                    <<metric, pct>> \notin req'.due
             PROVE  /\ Recorded'
                    /\ Reached(req.tenant, req.period, req.account.plan, metric, pct)
                           => Alert(req.tenant, req.period, metric, pct) \in alerts'
  BY <1>1, <1>3 DEF DueIsSettled, Reached, Alert
<1>7. Recorded'
  BY <1>1, <1>3 DEF Recorded, IsDuplicate, TypesOf
<1>8. CASE metric = m /\ pct = n
  BY <1>4, <1>5, <1>7, <1>8 DEF row
<1>9. CASE ~(metric = m /\ pct = n)
  <2>1. <<metric, pct>> \notin req.due
    BY <1>3, <1>9
  <2> QED
    BY <1>2, <1>3, <1>6, <1>7, <2>1 DEF DueIsSettled, Reached, Alert
<1> QED
  BY <1>8, <1>9

\* The alert loop leaves no threshold out, unless it throws.
LEMMA NextSettled == TypeOK /\ DueIsSettled /\ [Next]_vars => DueIsSettled'
<1> SUFFICES ASSUME TypeOK, DueIsSettled, [Next]_vars PROVE DueIsSettled'
  OBVIOUS
<1>1. CASE req' = None
  BY <1>1 DEF DueIsSettled
<1>2. ASSUME NEW t \in Tenants, NEW k \in Keys, NEW body \in Bodies, Admit(t, k, body)
      PROVE  DueIsSettled'
  BY <1>2 DEF Admit, DueIsSettled
<1>3. ASSUME NEW type \in Types, RecordFresh(type)
      PROVE  DueIsSettled'
  <2>1. req \in Request /\ req # None /\ type \in req.pending
    BY <1>3 DEF RecordFresh, RecordsNext, TypeOK
  <2>2. req'.due = req.due /\ req'.thrown = req.thrown
    BY <1>3, <2>1 DEF RecordFresh, Request
  <2> QED
    BY <2>1, <2>2 DEF DueIsSettled, Recorded
<1>4. ASSUME NEW type \in Types, RecordExisting(type)
      PROVE  DueIsSettled'
  <2>1. /\ req # None /\ type \in req.pending
        /\ UNCHANGED <<events, alerts>>
        /\ req' = [req EXCEPT !.pending = @ \ {type}]
    BY <1>4 DEF RecordExisting, RecordsNext
  <2> QED
    BY <2>1, DueStays
<1>5. ASSUME NEW m \in Metrics, NEW n \in Thresholds, EvaluateAlert(m, n)
      PROVE  DueIsSettled'
  BY <1>5, EvaluateSettles
<1>6. ASSUME req' = req, UNCHANGED events, alerts \subseteq alerts'
      PROVE  DueIsSettled'
  BY <1>1, <1>6, DueStays
<1>7. ASSUME NEW t \in Tenants, NEW k \in Keys,
             \/ Forbidden(t, k) \/ Mirror(t, k) \/ PaymentRequired(t, k)
             \/ \E body \in Bodies : QuotaExceeded(t, k, body)
      PROVE  DueIsSettled'
  BY <1>1, <1>7 DEF Forbidden, Mirror, PaymentRequired, QuotaExceeded, Arrives
<1>8. CASE AnswerDuplicate \/ Respond \/ Abort
  BY <1>1, <1>8 DEF AnswerDuplicate, Respond, Abort
<1>9. CASE AlertsThrow
  <2>1. req'.thrown
    BY <1>9 DEF AlertsThrow, Recorded, TypeOK, Request
  <2> QED
    BY <2>1 DEF DueIsSettled
<1>10. ASSUME \/ \E w \in Evaluators : RollupStep(w)
              \/ \E t \in Tenants : Reseed(t)
              \/ \E t \in Tenants, acct \in Account : SetAccount(t, acct)
              \/ NextMonth
              \/ UNCHANGED vars
       PROVE  DueIsSettled'
  BY <1>6, <1>10, RollupInsertsAlerts DEF NextMonth, Reseed, SetAccount, vars
<1> QED
  BY <1>2, <1>3, <1>4, <1>5, <1>7, <1>8, <1>9, <1>10 DEF Next, RollupStep

\* While the loop runs, each threshold it is past has its alert row if usage calls for
\* it, whichever of the handler and the rollup inserted it.
LEMMA EvaluatedIsSettled == Spec => []DueIsSettled
<1>1. Init => DueIsSettled
  BY DEF Init, DueIsSettled
<1>2. TypeOK /\ DueIsSettled /\ [Next]_vars => DueIsSettled'
  BY NextSettled
<1> QED
  BY <1>1, <1>2, TypeCorrect, PTL DEF Spec

\* Only these steps answer.
LEMMA WhoAnswers ==
    ASSUME [Next]_vars
    PROVE  \/ \E t \in Tenants, k \in Keys :
                 \/ Forbidden(t, k) \/ Mirror(t, k) \/ PaymentRequired(t, k)
                 \/ \E body \in Bodies : QuotaExceeded(t, k, body)
           \/ AnswerDuplicate
           \/ Respond
           \/ UNCHANGED vars
           \/ reply' = None
  BY DEF Next, Admit, RecordFresh, RecordExisting, EvaluateAlert, AlertsThrow, LoadTenant,
         ReadTotals, InsertAlert, EvaluationEnds, Abort, NextMonth, Reseed, SetAccount

\* Unless its evaluation threw, a fresh response leaves no threshold that usage has
\* reached under the plan it was admitted under without its alert row, with aborted
\* requests before it, rollups and the seed beside it and the month ending meanwhile.
THEOREM AlertsCatchUp == Spec => []AlertsCaughtUp
<1>1. Init => AlertsCaughtUp
  BY DEF Init, AlertsCaughtUp
<1>2. TypeOK /\ DueIsSettled /\ AlertsCaughtUp /\ [Next]_vars => AlertsCaughtUp'
  <2> SUFFICES ASSUME TypeOK, DueIsSettled, AlertsCaughtUp, [Next]_vars
               PROVE  AlertsCaughtUp'
    OBVIOUS
  <2>1. CASE Respond
    <3>1. /\ Recorded /\ req # None /\ req.due = {}
          /\ reply'.tenant = req.tenant /\ reply'.base.period = req.period
          /\ reply'.base.plan = req.account.plan /\ reply'.base.thrown = req.thrown
          /\ UNCHANGED <<usage, alerts>>
      BY <2>1, SameRowsSameUsage DEF Respond, Recorded, Answer
    <3> QED
      BY <3>1 DEF AlertsCaughtUp, DueIsSettled
  <2>2. CASE UNCHANGED vars
    <3>1. UNCHANGED usage
      BY <2>2, SameRowsSameUsage DEF vars
    <3> QED
      BY <2>2, <3>1 DEF vars, AlertsCaughtUp
  <2>3. ASSUME NEW t \in Tenants, NEW k \in Keys,
               \/ Forbidden(t, k) \/ Mirror(t, k) \/ PaymentRequired(t, k)
               \/ \E body \in Bodies : QuotaExceeded(t, k, body)
        PROVE  AlertsCaughtUp'
    BY <2>3 DEF Forbidden, Mirror, PaymentRequired, QuotaExceeded, Answer, AlertsCaughtUp
  <2>4. CASE AnswerDuplicate
    BY <2>4 DEF AnswerDuplicate, Answer, AlertsCaughtUp
  <2> QED
    BY <2>1, <2>2, <2>3, <2>4, WhoAnswers DEF AlertsCaughtUp
<1> QED
  BY <1>1, <1>2, EvaluatedIsSettled, TypeCorrect, PTL DEF Spec

-----------------------------------------------------------------------------
(* Nothing is half-recorded *)

\* A row of the request's sub-key would be of another tenant's key, of a stored
\* response's, or recorded by the request itself: no sub-key is found to exist.
LEMMA NoSubKeyExists ==
    ASSUME KeysArePrivate, AccountingInvariant, ContractInvariant,
           req # None, NEW type \in req.pending
    PROVE  ~HasSubKey(req.key, type)
<1> SUFFICES ASSUME NEW e \in events, e.key = req.key, e.type = type PROVE FALSE
  BY DEF HasSubKey
<1>1. req \in Request /\ e \in EventRow
  BY DEF AccountingInvariant, TypeOK
<1>2. e.tenant = req.tenant
  <2>1. e.key \in KeysOf[e.tenant] \cap KeysOf[req.tenant]
    BY DEF ContractInvariant, KeysAreOwn
  <2> QED
    BY <1>1, <2>1 DEF KeysArePrivate, EventRow, Request
<1>3. Stored(e.tenant, e.key) = {}
  BY <1>2 DEF AccountingInvariant, RequestIsCurrent
<1>4. type \in req.recorded
  BY <1>3 DEF ContractInvariant, NothingHalfRecorded
<1> QED
  BY <1>4 DEF ContractInvariant, NothingHalfRecorded

\* So no request is a duplicate once it is past the lookup of its response.
LEMMA NoDuplicate ==
    ASSUME KeysArePrivate, AccountingInvariant, ContractInvariant
    PROVE  ~AnswerDuplicate /\ \A type \in Types : ~RecordExisting(type)
<1>1. ~AnswerDuplicate
  BY DEF AnswerDuplicate, IsDuplicate, ContractInvariant, NothingHalfRecorded
<1>2. \A type \in Types : ~RecordExisting(type)
  BY NoSubKeyExists DEF RecordExisting, RecordsNext
<1> QED
  BY <1>1, <1>2

\* Where the request, the rows and the responses stay, so does all that was found.
LEMMA RequestStays ==
    ASSUME TypeOK, ContractInvariant, req # None,
           UNCHANGED <<events, responses>>,
           req'.tenant = req.tenant, req'.key = req.key, req'.account = req.account,
           req'.quantities = req.quantities, req'.before = req.before,
           req'.pending = req.pending, req'.recorded = req.recorded,
           req' # None
    PROVE  ContractInvariant'
<1>1. KeysAreOwn'
  BY DEF ContractInvariant, KeysAreOwn
<1>2. NothingHalfRecorded'
  BY DEF ContractInvariant, NothingHalfRecorded, Stored, TypesOf
<1>3. RequestIsGranted'
  <2>1. Settled(req.tenant)' = Settled(req.tenant) /\ Terms(req.tenant)' = Terms(req.tenant)
    BY DEF Settled, Terms
  <2>2. req.tenant \in Tenants
    BY DEF TypeOK, Request
  <2> QED
    BY <2>1, <2>2 DEF ContractInvariant, RequestIsGranted, Contract!MayUse, Contract!Fits
<1> QED
  BY <1>1, <1>2, <1>3 DEF ContractInvariant

\* Where the handler is empty, and stays so.
LEMMA HandlerIdle ==
    ASSUME ContractInvariant, req = None, req' = None, UNCHANGED <<events, responses>>
    PROVE  ContractInvariant'
  BY DEF ContractInvariant, KeysAreOwn, NothingHalfRecorded, RequestIsGranted, Stored

\* What is found on admission.
LEMMA AdmitGrants ==
    ASSUME AccountingInvariant, ContractInvariant, TypeOK',
           NEW t \in Tenants, NEW k \in Keys, NEW body \in Bodies, Admit(t, k, body)
    PROVE  ContractInvariant'
<1> DEFINE q == SimulateTokens(body)
<1>1. q \in Quantities /\ q["api_call"] = 1
  BY SimulateTokensType
<1> HIDE DEF q
<1>2. /\ req = None /\ k \in KeysOf[t]
      /\ UNCHANGED <<account, events, responses>>
      /\ req' = [tenant |-> t, key |-> k, account |-> account[t], period |-> clock,
                 quantities |-> q, before |-> usage[t][clock],
                 pending |-> TypesOf(q), recorded |-> {},
                 due |-> Metrics \X Thresholds, fired |-> {}, thrown |-> FALSE]
      /\ account[t].status # "suspended" /\ PaymentGate(account[t])
      /\ WithinQuota(account[t].plan, usage[t][clock], q)
  BY DEF Admit, Arrives, q
<1>3. req' # None
  <2>1. account[t] \in Account /\ clock \in Periods /\ usage[t][clock] \in Quantities
    BY UsageType DEF AccountingInvariant, TypeOK
  <2>2. req' \in Request
    BY <1>1, <1>2, <2>1 DEF Request, TypesOf
  <2> QED
    BY <2>2, NoneAssumption
<1>4. KeysAreOwn'
  BY <1>2 DEF ContractInvariant, KeysAreOwn
<1>5. NothingHalfRecorded'
  BY <1>2 DEF ContractInvariant, NothingHalfRecorded, Stored, TypesOf
<1>6. RequestIsGranted'
  <2>1. Settled(t)' = [calls |-> usage[t][clock]["api_call"],
                       tokens |-> Tokens(usage[t][clock])]
    BY <1>2, <1>3 DEF Settled
  <2>2. /\ req'.tenant = t /\ req'.quantities = q /\ req'.account = account[t]
        /\ Terms(t)' = account[t]
        /\ Contract!MayUse(account[t])
    BY <1>2, <1>3 DEF Contract!MayUse, PaymentGate, Terms
  <2>3. Contract!Fits(t, [calls |-> 1, tokens |-> Tokens(q)])'
    BY <1>1, <1>2, <2>1, <2>2 DEF Contract!Fits, WithinQuota
  <2>4. q = SimulateTokens(body)
    BY DEF q
  <2> QED
    BY <1>2, <2>2, <2>3, <2>4 DEF RequestIsGranted, Contract!MayUse, Contract!Fits
<1> QED
  BY <1>4, <1>5, <1>6 DEF ContractInvariant

\* Recording and evaluating alerts go on with the same request.
LEMMA RequestGoesOn ==
    ASSUME TypeOK,
           \/ \E type \in Types : RecordFresh(type)
           \/ \E metric \in Metrics, pct \in Thresholds : EvaluateAlert(metric, pct)
           \/ AlertsThrow
    PROVE  /\ req \in Request /\ req # None
           /\ req' \in Request /\ req' # None
           /\ req'.tenant = req.tenant /\ req'.key = req.key /\ req'.account = req.account
           /\ req'.quantities = req.quantities /\ req'.before = req.before
           /\ reply' = None /\ UNCHANGED <<account, clock, responses>>
<1>1. req # None /\ req \in Request /\ reply' = None
      /\ UNCHANGED <<account, clock, responses>>
  BY DEF RecordFresh, RecordsNext, EvaluateAlert, AlertsThrow, Recorded, TypeOK
<1>2. ASSUME NEW type \in Types, RecordFresh(type)
      PROVE  /\ req' \in Request
             /\ req'.tenant = req.tenant /\ req'.key = req.key /\ req'.account = req.account
             /\ req'.quantities = req.quantities /\ req'.before = req.before
  BY <1>1, <1>2 DEF RecordFresh, Request
<1>3. ASSUME NEW metric \in Metrics, NEW pct \in Thresholds, EvaluateAlert(metric, pct)
      PROVE  /\ req' \in Request
             /\ req'.tenant = req.tenant /\ req'.key = req.key /\ req'.account = req.account
             /\ req'.quantities = req.quantities /\ req'.before = req.before
  <2>1. [tenant |-> req.tenant, period |-> req.period, metric |-> metric, pct |-> pct]
            \in AlertRow
    BY <1>1 DEF Request, AlertRow
  <2>2. PICK inserted \in SUBSET AlertRow :
            req' = [req EXCEPT !.due = @ \ {<<metric, pct>>}, !.fired = @ \cup inserted]
    BY <1>3, <2>1, Zenon DEF EvaluateAlert
  <2> QED
    BY <1>1, <2>2 DEF Request
<1>4. ASSUME AlertsThrow
      PROVE  /\ req' \in Request
             /\ req'.tenant = req.tenant /\ req'.key = req.key /\ req'.account = req.account
             /\ req'.quantities = req.quantities /\ req'.before = req.before
  BY <1>1, <1>4 DEF AlertsThrow, Request
<1> QED
  BY <1>1, <1>2, <1>3, <1>4, NoneAssumption

\* An inserted row is one of the request's.
LEMMA RecordGoesOn ==
    ASSUME AccountingInvariant, ContractInvariant, TypeOK',
           NEW type \in Types, RecordFresh(type)
    PROVE  ContractInvariant'
<1> DEFINE row == [tenant |-> req.tenant, key |-> req.key, type |-> type,
                   quantity |-> req.quantities[type], period |-> clock]
<1>1. /\ req \in Request /\ req # None /\ req' # None /\ type \in req.pending
      /\ req'.tenant = req.tenant /\ req'.key = req.key /\ req'.account = req.account
      /\ req'.quantities = req.quantities /\ req'.before = req.before
      /\ UNCHANGED <<account, responses>>
  BY RequestGoesOn DEF RecordFresh, RecordsNext, AccountingInvariant
<1>2. /\ req'.pending = req.pending \ {type}
      /\ req'.recorded = req.recorded \cup {type}
  BY <1>1 DEF RecordFresh, Request
<1>3. /\ events' = events \cup {row}
      /\ row.tenant = req.tenant /\ row.key = req.key /\ row.type = type
  BY DEF RecordFresh, InsertEvent
<1> HIDE DEF row
<1>4. KeysAreOwn'
  BY <1>1, <1>2, <1>3 DEF ContractInvariant, KeysAreOwn
<1>5. NothingHalfRecorded'
  <2>1. req.pending \subseteq TypesOf(req.quantities)
    BY <1>1 DEF AccountingInvariant, RequestIsCurrent
  <2>2. req'.recorded = TypesOf(req'.quantities) \ req'.pending
    BY <1>1, <1>2, <2>1 DEF ContractInvariant, NothingHalfRecorded
  <2>3. \A e \in events' :
            \/ Stored(e.tenant, e.key) # {}
            \/ e.tenant = req.tenant /\ e.key = req.key /\ e.type \in req'.recorded
    BY <1>1, <1>2, <1>3 DEF ContractInvariant, NothingHalfRecorded
  <2> QED
    BY <1>1, <1>2, <2>2, <2>3 DEF NothingHalfRecorded, Stored, TypesOf
<1>6. RequestIsGranted'
  <2>1. Settled(req.tenant)' = Settled(req.tenant) /\ Terms(req.tenant)' = Terms(req.tenant)
    BY <1>1, <1>2 DEF Settled, Terms
  <2>2. req.tenant \in Tenants
    BY <1>1 DEF Request
  <2> QED
    BY <1>1, <1>2, <2>1, <2>2
    DEF ContractInvariant, RequestIsGranted, Contract!MayUse, Contract!Fits
<1> QED
  BY <1>4, <1>5, <1>6 DEF ContractInvariant

\* A response accounts for the rows of its request.
LEMMA RespondSettles ==
    ASSUME ContractInvariant, Respond PROVE ContractInvariant'
<1>1. PICK r : /\ r.tenant = req.tenant /\ r.key = req.key
               /\ responses' = responses \cup {r}
               /\ req' = None /\ UNCHANGED events
  BY DEF Respond
<1> QED
  BY <1>1 DEF ContractInvariant, KeysAreOwn, NothingHalfRecorded, RequestIsGranted, Stored

\* As long as requests are not cut short, no rows are left behind.
LEMMA NextContractInvariant ==
    ASSUME KeysArePrivate, "abort" \notin Faults,
           AccountingInvariant, ContractInvariant, [Next]_vars
    PROVE  ContractInvariant'
<1>0. TypeOK /\ TypeOK'
  BY NextTypeOK DEF AccountingInvariant
<1>1. ASSUME NEW t \in Tenants, NEW k \in Keys,
             \/ Forbidden(t, k) \/ Mirror(t, k) \/ PaymentRequired(t, k)
             \/ \E body \in Bodies : QuotaExceeded(t, k, body)
      PROVE  ContractInvariant'
  BY <1>1, HandlerIdle DEF Forbidden, Mirror, PaymentRequired, QuotaExceeded, Arrives
<1>2. ASSUME NEW t \in Tenants, NEW k \in Keys, NEW body \in Bodies, Admit(t, k, body)
      PROVE  ContractInvariant'
  BY <1>0, <1>2, AdmitGrants
<1>3. ASSUME NEW type \in Types, RecordFresh(type)
      PROVE  ContractInvariant'
  BY <1>0, <1>3, RecordGoesOn
<1>4. ASSUME \/ \E m \in Metrics, n \in Thresholds : EvaluateAlert(m, n)
             \/ AlertsThrow
      PROVE  ContractInvariant'
  <2>1. /\ req \in Request /\ req # None /\ req' # None
        /\ req'.tenant = req.tenant /\ req'.key = req.key /\ req'.account = req.account
        /\ req'.quantities = req.quantities /\ req'.before = req.before
        /\ UNCHANGED <<account, responses>>
    BY <1>0, <1>4, RequestGoesOn
  <2>2. UNCHANGED events
    BY <1>4 DEF EvaluateAlert, AlertsThrow
  <2>3. req'.pending = req.pending /\ req'.recorded = req.recorded
    BY <1>4, <2>1 DEF EvaluateAlert, AlertsThrow, Request
  <2> QED
    BY <1>0, <2>1, <2>2, <2>3, RequestStays
<1>5. CASE Respond
  BY <1>5, RespondSettles
<1>6. CASE UNCHANGED <<events, responses, req>>
  BY <1>0, <1>6, RequestStays, HandlerIdle
<1>7. ~Abort
  BY DEF Abort
<1>8. ASSUME \/ \E w \in Evaluators : RollupStep(w)
             \/ \E t \in Tenants : Reseed(t)
             \/ \E t \in Tenants, acct \in Account : SetAccount(t, acct)
             \/ NextMonth
             \/ UNCHANGED vars
      PROVE  UNCHANGED <<events, responses, req>>
  BY <1>8, RollupInsertsAlerts DEF NextMonth, Reseed, SetAccount, vars
<1> QED
  BY <1>1, <1>2, <1>3, <1>4, <1>5, <1>6, <1>7, <1>8, NoDuplicate DEF Next, RollupStep

\* What that rests on: the request in the handler is the only one with rows and no
\* response, and what was found on its admission still holds.
LEMMA ContractInvariantHolds ==
    ASSUME KeysArePrivate, "abort" \notin Faults
    PROVE  Spec => [](InductiveInvariant /\ ContractInvariant)
<1>1. Init => ContractInvariant
  BY DEF Init, ContractInvariant, KeysAreOwn, NothingHalfRecorded, RequestIsGranted
<1>2. InductiveInvariant /\ ContractInvariant /\ [Next]_vars => ContractInvariant'
  BY NextContractInvariant DEF InductiveInvariant
<1> QED
  BY <1>1, <1>2, InvariantHolds, PTL DEF Spec

\* As long as no request is cut short and no key is shared, every usage row belongs to a
\* stored response or to the request in the handler, which fits as on its admission.
THEOREM NothingIsLeftBehind ==
    ASSUME KeysArePrivate, "abort" \notin Faults PROVE Spec => []ContractInvariant
  BY ContractInvariantHolds, PTL

\* Under the same circumstances a duplicate is what meterService.js:55-56 and
\* generate.js:40 say, but for the status 200: it records nothing, and it is answered
\* with the original response.
THEOREM DuplicatesAreMirrored ==
    ASSUME KeysArePrivate, "abort" \notin Faults
    PROVE  Spec => [](DuplicateRecordsNothing /\ DuplicateMirrorsOriginal)
<1>1. ContractInvariant => DuplicateRecordsNothing
  BY DEF ContractInvariant, NothingHalfRecorded, DuplicateRecordsNothing, IsDuplicate
<1>2. Init => DuplicateMirrorsOriginal
  BY DEF Init, DuplicateMirrorsOriginal
<1>3. InductiveInvariant /\ ContractInvariant /\ DuplicateMirrorsOriginal /\ [Next]_vars
          => DuplicateMirrorsOriginal'
  <2> SUFFICES ASSUME InductiveInvariant, ContractInvariant, DuplicateMirrorsOriginal,
                      [Next]_vars
               PROVE  DuplicateMirrorsOriginal'
    OBVIOUS
  <2>1. ASSUME NEW t \in Tenants, NEW k \in Keys, Mirror(t, k)
        PROVE  DuplicateMirrorsOriginal'
    <3>1. PICK r \in responses : reply'.base = r
      BY <2>1 DEF Mirror, Answer, Stored
    <3>2. r # None
      BY NoneAssumption DEF InductiveInvariant, AccountingInvariant, TypeOK
    <3> QED
      BY <3>1, <3>2 DEF DuplicateMirrorsOriginal
  <2>2. ASSUME NEW t \in Tenants, NEW k \in Keys,
               \/ Forbidden(t, k) \/ PaymentRequired(t, k)
               \/ \E body \in Bodies : QuotaExceeded(t, k, body)
        PROVE  DuplicateMirrorsOriginal'
    BY <2>2 DEF Forbidden, PaymentRequired, QuotaExceeded, Answer, DuplicateMirrorsOriginal
  <2>3. ~AnswerDuplicate
    BY NoDuplicate DEF InductiveInvariant
  <2>4. CASE Respond
    BY <2>4 DEF Respond, Answer, DuplicateMirrorsOriginal
  <2>5. CASE UNCHANGED vars
    BY <2>5 DEF vars, DuplicateMirrorsOriginal
  <2> QED
    BY <2>1, <2>2, <2>3, <2>4, <2>5, WhoAnswers DEF DuplicateMirrorsOriginal
<1> QED
  BY <1>1, <1>2, <1>3, ContractInvariantHolds, PTL DEF Spec

-----------------------------------------------------------------------------
(* Refinement: what clients see is one atomic charge *)

\* The circumstances of MeterContract: keys are a tenant's own, no request is cut
\* short, the month does not end, and there is something to ask for.
OneQuietMonth ==
    /\ KeysArePrivate
    /\ "abort" \notin Faults
    /\ LastPeriod = 1
    /\ Bodies # {}

\* A refused client is shown why, and no bill.
LEMMA RefusalShown ==
    ASSUME reply' \in Reply, reply'.base = None
    PROVE  AnswerOfReply' = [outcome |-> OutcomeOf(reply'), bill |-> None]
<1>1. reply' # None
  BY NoneAssumption
<1> QED
  BY <1>1 DEF AnswerOfReply, OutcomeOf

\* A served client is shown the bill of the response.
LEMMA BillShown ==
    ASSUME NEW t \in Tenants, NEW k \in Keys, NEW r \in Response,
           NEW duplicate \in BOOLEAN, Answer(t, k, 201, duplicate, r)
    PROVE  AnswerOfReply' =
               [outcome |-> IF duplicate THEN "repeated" ELSE "billed",
                bill |-> BillOfResponse(r)]
<1>1. r # None
  BY NoneAssumption
<1>2. reply' = [tenant |-> t, key |-> k, status |-> 201, duplicate |-> duplicate, base |-> r]
  BY DEF Answer
<1>3. reply' \in Reply /\ reply' # None
  <2>1. reply' \in Reply
    BY <1>2 DEF Reply
  <2> QED
    BY <2>1, NoneAssumption
<1>4. reply'.status = 201 /\ reply'.duplicate = duplicate /\ reply'.base = r
  BY <1>2
<1>5. OutcomeOf(reply') = IF duplicate THEN "repeated" ELSE "billed"
  BY <1>4 DEF OutcomeOf
<1> QED
  BY <1>1, <1>3, <1>4, <1>5 DEF AnswerOfReply, BillOfResponse, OutcomeOf

\* A key has a bill where it has a response.
LEMMA BillsAreResponses ==
    ASSUME NEW t, NEW k
    PROVE  Contract!BillOf(t, k) = {BillOfResponse(r) : r \in Stored(t, k)}
  BY DEF Contract!BillOf, Stored, BillOfResponse

\* With no request in the handler, what is settled is what the table says.
LEMMA IdleIsSettled ==
    ASSUME req = None, NEW t \in Tenants
    PROVE  Settled(t) = [calls |-> usage[t][1]["api_call"], tokens |-> Tokens(usage[t][1])]
  BY DEF Settled

\* What a request asks for, as the contract counts it.
LEMMA UsageOfBody ==
    ASSUME NEW body \in Bodies
    PROVE  [calls |-> 1, tokens |-> Tokens(SimulateTokens(body))] \in UsagesOfBodies
  BY DEF UsagesOfBodies

\* A refusal changes nothing, and has the reason it states.
LEMMA RefusalIsRefusal ==
    ASSUME OneQuietMonth, TypeOK,
           NEW t \in Tenants, NEW k \in Keys,
           \/ Forbidden(t, k) \/ PaymentRequired(t, k)
           \/ \E body \in Bodies : QuotaExceeded(t, k, body)
    PROVE  \E use \in UsagesOfBodies : Contract!Refuse(t, k, use)
<1>1. /\ UNCHANGED [u \in Tenants |-> Terms(u)]
      /\ UNCHANGED [u \in Tenants |-> Settled(u)]
      /\ UNCHANGED {BillOfResponse(r) : r \in responses}
      /\ \A u \in Tenants : Terms(u) = account[u]
      /\ req = None /\ clock = 1
  <2>1. /\ UNCHANGED <<account, usage, responses, req>> /\ req = None
    BY SameRowsSameUsage DEF Forbidden, PaymentRequired, QuotaExceeded, Arrives
  <2>2. clock = 1
    BY DEF OneQuietMonth, TypeOK, Periods
  <2> QED
    BY <2>1, <2>2 DEF Settled, Terms, BillOfResponse
<1>2. PICK body \in Bodies : TRUE
  BY DEF OneQuietMonth
<1>3. CASE Forbidden(t, k)
  <2>1. AnswerOfReply' = [outcome |-> "forbidden", bill |-> None]
    <3>1. /\ reply' \in Reply
          /\ reply'.status = 403 /\ reply'.duplicate = FALSE /\ reply'.base = None
      BY <1>3 DEF Forbidden, Answer, Reply
    <3> QED
      BY <3>1, RefusalShown DEF OutcomeOf
  <2>2. account[t].status = "suspended"
    BY <1>3 DEF Forbidden
  <2> QED
    BY <1>1, <1>2, <2>1, <2>2, UsageOfBody DEF Contract!Refuse
<1>4. CASE PaymentRequired(t, k)
  <2>1. AnswerOfReply' = [outcome |-> "unpaid", bill |-> None]
    <3>1. /\ reply' \in Reply
          /\ reply'.status = 402 /\ reply'.duplicate = FALSE /\ reply'.base = None
      BY <1>4 DEF PaymentRequired, Answer, Reply
    <3> QED
      BY <3>1, RefusalShown DEF OutcomeOf
  <2>2. /\ account[t].status # "suspended"
        /\ Contract!BillOf(t, k) = {}
        /\ ~Contract!MayUse(account[t])
    BY <1>4, BillsAreResponses DEF PaymentRequired, PaymentGate, Contract!MayUse
  <2> QED
    BY <1>1, <1>2, <2>1, <2>2, UsageOfBody DEF Contract!Refuse
<1>5. ASSUME NEW b \in Bodies, QuotaExceeded(t, k, b)
      PROVE  \E use \in UsagesOfBodies : Contract!Refuse(t, k, use)
  <2> DEFINE use == [calls |-> 1, tokens |-> Tokens(SimulateTokens(b))]
  <2>1. AnswerOfReply' = [outcome |-> "exceeded", bill |-> None]
    <3>1. /\ reply' \in Reply
          /\ reply'.status = 429 /\ reply'.duplicate = FALSE /\ reply'.base = None
      BY <1>5 DEF QuotaExceeded, Answer, Reply
    <3> QED
      BY <3>1, RefusalShown DEF OutcomeOf
  <2>2. Contract!BillOf(t, k) = {} /\ Contract!MayUse(account[t])
    BY <1>5, BillsAreResponses DEF QuotaExceeded, PaymentGate, Contract!MayUse
  <2>3. ~Contract!Fits(t, use)
    BY <1>1, <1>5, IdleIsSettled, SimulateTokensType
    DEF QuotaExceeded, WithinQuota, Contract!Fits
  <2>4. use \in UsagesOfBodies
    BY UsageOfBody
  <2> HIDE DEF use
  <2> QED
    BY <1>1, <2>1, <2>2, <2>3, <2>4 DEF Contract!Refuse
<1> QED
  BY <1>3, <1>4, <1>5

\* A repeated key is answered with the bill of its stored response.
LEMMA MirrorIsRepeat ==
    ASSUME TypeOK, NEW t \in Tenants, NEW k \in Keys, Mirror(t, k)
    PROVE  Contract!Repeat(t, k)
<1>1. PICK r \in Stored(t, k) : Answer(t, k, 201, TRUE, r)
  BY DEF Mirror
<1>2. r \in Response /\ r # None
  BY NoneAssumption DEF Stored, TypeOK
<1>3. AnswerOfReply' = [outcome |-> "repeated", bill |-> BillOfResponse(r)]
  BY <1>1, <1>2, BillShown
<1>4. BillOfResponse(r) \in Contract!BillOf(t, k)
  BY BillsAreResponses
<1>5. /\ Terms(t).status # "suspended"
      /\ UNCHANGED [u \in Tenants |-> Terms(u)]
      /\ UNCHANGED [u \in Tenants |-> Settled(u)]
      /\ UNCHANGED {BillOfResponse(s) : s \in responses}
  BY SameRowsSameUsage DEF Mirror, Arrives, Settled, Terms
<1> QED
  BY <1>3, <1>4, <1>5 DEF Contract!Repeat

\* A request under way is not to be seen: not its rows, not its alerts.
LEMMA UnderWayIsQuiet ==
    ASSUME OneQuietMonth, TypeOK,
           \/ \E t \in Tenants, k \in Keys, body \in Bodies : Admit(t, k, body)
           \/ \E type \in Types : RecordFresh(type)
           \/ \E metric \in Metrics, pct \in Thresholds : EvaluateAlert(metric, pct)
           \/ AlertsThrow
           \/ \E w \in Evaluators : RollupStep(w)
    PROVE  Contract!Quiet
<1>1. /\ reply' = None
      /\ UNCHANGED <<account, responses>>
  BY RollupInsertsAlerts DEF Admit, RecordFresh, EvaluateAlert, AlertsThrow
<1>2. \A u \in Tenants : Settled(u)' = Settled(u) /\ Terms(u)' = Terms(u)
  <2>1. ASSUME NEW t \in Tenants, NEW k \in Keys, NEW body \in Bodies, Admit(t, k, body),
               NEW u \in Tenants
        PROVE  Settled(u)' = Settled(u) /\ Terms(u)' = Terms(u)
    <3>1. clock = 1 /\ req = None /\ UNCHANGED <<account, usage>>
      BY <2>1, SameRowsSameUsage DEF OneQuietMonth, TypeOK, Periods, Admit, Arrives
    <3>2. req'.tenant = t /\ req'.before = usage[t][1] /\ req'.account = account[t]
      BY <2>1, <3>1 DEF Admit
    <3> QED
      BY <3>1, <3>2 DEF Settled, Terms
  <2>2. ASSUME NEW type \in Types, RecordFresh(type), NEW u \in Tenants
        PROVE  Settled(u)' = Settled(u) /\ Terms(u)' = Terms(u)
    <3>1. /\ req # None /\ req' # None /\ req \in Request
          /\ req'.tenant = req.tenant /\ req'.before = req.before
          /\ req'.account = req.account
      BY <2>2, RequestGoesOn
    <3>2. u # req.tenant => usage'[u] = usage[u]
      <4>1. /\ usage \in [Tenants -> [Periods -> Quantities]]
            /\ usage' = [usage EXCEPT ![req.tenant][clock][type] = @ + req.quantities[type]]
        BY <2>2, UsageType, RecordFreshCounts DEF TypeOK
      <4> QED
        BY <4>1
    <3> QED
      BY <1>1, <3>1, <3>2 DEF Settled, Terms
  <2>3. ASSUME \/ \E metric \in Metrics, pct \in Thresholds : EvaluateAlert(metric, pct)
               \/ AlertsThrow,
               NEW u \in Tenants
        PROVE  Settled(u)' = Settled(u) /\ Terms(u)' = Terms(u)
    <3>1. /\ req # None /\ req' # None
          /\ req'.tenant = req.tenant /\ req'.before = req.before
          /\ req'.account = req.account
      BY <2>3, RequestGoesOn
    <3>2. UNCHANGED usage
      BY <2>3, SameRowsSameUsage DEF EvaluateAlert, AlertsThrow
    <3> QED
      BY <1>1, <3>1, <3>2 DEF Settled, Terms
  <2>4. ASSUME NEW w \in Evaluators, RollupStep(w), NEW u \in Tenants
        PROVE  Settled(u)' = Settled(u) /\ Terms(u)' = Terms(u)
    <3>1. UNCHANGED <<account, usage, req>>
      BY <2>4, RollupInsertsAlerts, SameRowsSameUsage
    <3> QED
      BY <3>1 DEF Settled, Terms
  <2> QED
    BY <2>1, <2>2, <2>3, <2>4
<1>3. AnswerOfReply' = None
  BY <1>1 DEF AnswerOfReply
<1> QED
  BY <1>1, <1>2, <1>3 DEF Contract!Quiet

\* Another account is other terms for one tenant at most: none, if its request is in the
\* handler.
LEMMA AccountIsTerms ==
    ASSUME TypeOK, NEW t \in Tenants,
           Reseed(t) \/ \E acct \in Account : SetAccount(t, acct)
    PROVE  Contract!ChangeTerms(t)
<1>1. /\ UNCHANGED <<usage, responses, req>> /\ reply' = None
      /\ \A u \in Tenants \ {t} : account'[u] = account[u]
  BY SameRowsSameUsage DEF Reseed, SetAccount, TypeOK
<1>2. \A u \in Tenants : Settled(u)' = Settled(u) /\ (u # t => Terms(u)' = Terms(u))
  BY <1>1 DEF Settled, Terms
<1>3. AnswerOfReply' = None
  BY <1>1 DEF AnswerOfReply
<1> QED
  BY <1>1, <1>2, <1>3 DEF Contract!ChangeTerms, Contract!ChangesTermsOf

\* The response is what charges: by then the rows of the request are all in.
LEMMA RespondIsCharge ==
    ASSUME OneQuietMonth, AccountingInvariant, ContractInvariant, Respond
    PROVE  \E t \in Tenants, k \in Keys, use \in UsagesOfBodies : Contract!Charge(t, k, use)
<1>0. req # None /\ req \in Request
  BY DEF Respond, Recorded, AccountingInvariant, TypeOK
<1> PICK t \in Tenants, k \in Keys, q \in Quantities :
        t = req.tenant /\ k = req.key /\ q = req.quantities
  BY <1>0 DEF Request
<1> DEFINE use == [calls |-> 1, tokens |-> Tokens(q)]
           response ==
               [tenant |-> req.tenant, key |-> req.key, plan |-> req.account.plan,
                period |-> req.period, quantities |-> req.quantities,
                api_calls_used |-> req.before["api_call"] + 1,
                tokens_used |-> Tokens(req.before) + Tokens(req.quantities),
                fired |-> req.fired, thrown |-> req.thrown]
<1>1. /\ Recorded
      /\ UNCHANGED <<account, usage>> /\ req' = None
      /\ responses' = responses \cup {response}
      /\ Answer(t, k, 201, FALSE, response)
  BY SameRowsSameUsage DEF Respond
<1>2. /\ req.before \in Quantities
      /\ q["api_call"] = 1 /\ Stored(t, k) = {}
      /\ req.period = 1 /\ clock = 1
      /\ req.recorded = TypesOf(q)
  BY <1>0, <1>1 DEF AccountingInvariant, RequestIsCurrent, TypeOK, Request, Periods,
              OneQuietMonth, Recorded, IsDuplicate
<1>3. response \in Response /\ response # None
  <2>1. req.before["api_call"] \in Nat /\ Tokens(req.before) \in Nat /\ Tokens(q) \in Nat
    BY <1>2, TokensType DEF Quantities, Types
  <2>2. response \in Response
    BY <1>0, <1>2, <2>1 DEF Request, Response, Account
  <2> QED
    BY <2>2, NoneAssumption
<1>4. BillOfResponse(response) =
          [tenant |-> t, key |-> k, calls |-> 1, tokens |-> Tokens(q)]
  BY <1>2 DEF BillOfResponse
<1> HIDE DEF response
<1>5. AnswerOfReply' =
          [outcome |-> "billed", bill |-> BillOfResponse(response)]
  BY <1>1, <1>2, <1>3, BillShown
<1>6. {BillOfResponse(r) : r \in responses}' =
          {BillOfResponse(r) : r \in responses} \cup {BillOfResponse(response)}
  BY <1>1 DEF BillOfResponse
<1>7. /\ use \in UsagesOfBodies
      /\ Contract!MayUse(Terms(t)) /\ Contract!Fits(t, use)
      /\ Contract!BillOf(t, k) = {}
  <2>1. PICK body \in Bodies : q = SimulateTokens(body)
    BY <1>0 DEF ContractInvariant, RequestIsGranted
  <2>2. use \in UsagesOfBodies
    BY <2>1, UsageOfBody
  <2> QED
    BY <1>0, <1>2, <2>2, BillsAreResponses DEF ContractInvariant, RequestIsGranted, Terms
<1>8. /\ Settled(t) = [calls |-> req.before["api_call"], tokens |-> Tokens(req.before)]
      /\ Settled(t)' = [calls |-> req.before["api_call"] + 1,
                        tokens |-> Tokens(req.before) + Tokens(q)]
  <2>1. \A type \in Types : /\ req.before[type] \in Nat /\ q[type] \in Nat
                            /\ usage[t][1][type] = req.before[type] + q[type]
    BY <1>0, <1>2 DEF AccountingInvariant, UsageIsAccounted, TypesOf, Quantities
  <2>2. /\ usage[t][1]["api_call"] = req.before["api_call"] + 1
        /\ Tokens(usage[t][1]) = Tokens(req.before) + Tokens(q)
    BY <1>2, <2>1 DEF Tokens, Types, TokenTypes
  <2>3. Settled(t) = [calls |-> req.before["api_call"], tokens |-> Tokens(req.before)]
    BY <1>0 DEF Settled
  <2>4. Settled(t)' = [calls |-> usage[t][1]["api_call"], tokens |-> Tokens(usage[t][1])]
    BY <1>1 DEF Settled, Tokens
  <2> QED
    BY <2>2, <2>3, <2>4
<1>9. \A u \in Tenants \ {t} : Settled(u)' = Settled(u) /\ Terms(u)' = Terms(u)
  BY <1>0, <1>1 DEF Settled, Terms
<1>10. [u \in Tenants |-> Settled(u)]' =
           [[u \in Tenants |-> Settled(u)] EXCEPT
               ![t] = [calls |-> @.calls + use.calls, tokens |-> @.tokens + use.tokens]]
  <2> DEFINE spent == [u \in Tenants |-> Settled(u)]
  <2>1. /\ spent[t].calls + use.calls = req.before["api_call"] + 1
        /\ spent[t].tokens + use.tokens = Tokens(req.before) + Tokens(q)
    BY <1>2, <1>8
  <2>2. spent' = [spent EXCEPT ![t] = Settled(t)']
    BY <1>2, <1>9
  <2> HIDE DEF spent, use
  <2>3. spent' = [spent EXCEPT ![t] = [calls |-> spent[t].calls + use.calls,
                                       tokens |-> spent[t].tokens + use.tokens]]
    BY <1>8, <2>1, <2>2
  <2> QED
    BY <2>3 DEF spent
<1> QED
  BY <1>1, <1>4, <1>5, <1>6, <1>7, <1>9, <1>10 DEF Contract!Charge, Contract!ChangesTermsOf

\* Every step of the handler is a step of the contract.
LEMMA StepIsContractStep ==
    ASSUME OneQuietMonth, InductiveInvariant, ContractInvariant, [Next]_vars
    PROVE  [Contract!Next]_Contract!vars
<1> USE DEF InductiveInvariant
<1>1. TypeOK
  BY DEF AccountingInvariant
<1>2. ASSUME NEW t \in Tenants, NEW k \in Keys,
             \/ Forbidden(t, k) \/ PaymentRequired(t, k)
             \/ \E body \in Bodies : QuotaExceeded(t, k, body)
      PROVE  Contract!Next
  BY <1>1, <1>2, RefusalIsRefusal DEF Contract!Next
<1>3. ASSUME NEW t \in Tenants, NEW k \in Keys, Mirror(t, k)
      PROVE  Contract!Next
  BY <1>1, <1>3, MirrorIsRepeat DEF Contract!Next
<1>4. ASSUME \/ \E t \in Tenants, k \in Keys, body \in Bodies : Admit(t, k, body)
             \/ \E type \in Types : RecordFresh(type)
             \/ \E metric \in Metrics, pct \in Thresholds : EvaluateAlert(metric, pct)
             \/ AlertsThrow
             \/ \E w \in Evaluators : RollupStep(w)
      PROVE  Contract!Next
  BY <1>1, <1>4, UnderWayIsQuiet DEF Contract!Next
<1>5. CASE Respond
  BY <1>5, RespondIsCharge DEF Contract!Next
<1>6. ASSUME NEW t \in Tenants, Reseed(t) \/ \E acct \in Account : SetAccount(t, acct)
      PROVE  Contract!Next
  BY <1>1, <1>6, AccountIsTerms DEF Contract!Next
<1>7. ~Abort /\ ~NextMonth
  BY <1>1 DEF OneQuietMonth, Abort, NextMonth, TypeOK, Periods
<1>8. ~AnswerDuplicate /\ \A type \in Types : ~RecordExisting(type)
  BY NoDuplicate DEF OneQuietMonth
<1>9. CASE UNCHANGED vars
  <2>1. UNCHANGED <<account, usage, responses, req, reply>>
    BY <1>9, SameRowsSameUsage DEF vars
  <2> QED
    BY <2>1 DEF Contract!vars, Settled, Terms, AnswerOfReply, OutcomeOf
<1> QED
  BY <1>2, <1>3, <1>4, <1>5, <1>6, <1>7, <1>8, <1>9 DEF Next, RollupStep

\* The row-by-row handler, with the alert loop, the stored responses, webhooks and the seed
\* changing accounts and the rollup beside it, implements the atomic billing of MeterContract for
\* any number of tenants, keys and requests and all limits.
THEOREM MeteringImplementsContract ==
    ASSUME OneQuietMonth PROVE Spec => ImplementsContract
<1>1. Init => Contract!Init
  <2> SUFFICES ASSUME Init PROVE Contract!Init
    OBVIOUS
  <2>1. ASSUME NEW t \in Tenants PROVE Settled(t) = [calls |-> 0, tokens |-> 0]
    <3>1. \A type \in Types : usage[t][1][type] = 0
      BY NoRowsNoUsage DEF Init, Periods, OneQuietMonth
    <3> QED
      BY <3>1, IdleIsSettled DEF Init, Tokens, Types, TokenTypes
  <2> QED
    BY <2>1 DEF Init, Contract!Init, AnswerOfReply
<1>2. InductiveInvariant /\ ContractInvariant /\ [Next]_vars
          => [Contract!Next]_Contract!vars
  BY StepIsContractStep
<1>3. Spec => [](InductiveInvariant /\ ContractInvariant)
  BY ContractInvariantHolds DEF OneQuietMonth
<1> QED
  BY <1>1, <1>2, <1>3, PTL DEF Spec, ImplementsContract, Contract!Spec

-----------------------------------------------------------------------------
(* What the contract's own theorem says of the handler *)

Billed == INSTANCE MeterContractProofs WITH
    terms <- [t \in Tenants |-> Terms(t)],
    spent <- [t \in Tenants |-> Settled(t)],
    bills <- {BillOfResponse(r) : r \in responses},
    answer <- AnswerOfReply,
    Usages <- UsagesOfBodies

\* What is settled is what the responses a client was or can be shown add up to, for any
\* number of tenants, keys and requests: it holds of the contract, and the handler
\* implements the contract.
THEOREM UsageIsBilled ==
    ASSUME OneQuietMonth PROVE Spec => []SettledIsBilled
<1>1. Billed!UsagesAreNumbers
  <2>1. ASSUME NEW body \in Bodies
        PROVE  Tokens(SimulateTokens(body)) \in Nat
    BY SimulateTokensType, TokensType
  <2> QED
    BY <2>1 DEF Billed!UsagesAreNumbers, UsagesOfBodies
<1>2. Billed!Spec => []Billed!SpentIsBilled
  BY <1>1, Billed!SpendingIsBilled
<1>3. Spec => Contract!Spec
  BY MeteringImplementsContract DEF ImplementsContract
<1>4. Contract!Init => Billed!Init
  BY DEF Contract!Init, Billed!Init
<1>5. [Contract!Next]_Contract!vars => [Billed!Next]_Billed!vars
  BY DEF Contract!Next, Contract!Charge, Contract!Refuse, Contract!Repeat,
         Contract!ChangeTerms, Contract!Quiet, Contract!BillOf, Contract!MayUse,
         Contract!Fits, Contract!ChangesTermsOf, Contract!vars,
         Billed!Next, Billed!Charge, Billed!Refuse, Billed!Repeat,
         Billed!ChangeTerms, Billed!Quiet, Billed!BillOf, Billed!MayUse,
         Billed!Fits, Billed!ChangesTermsOf, Billed!vars
<1>6. Billed!SpentIsBilled => SettledIsBilled
  BY DEF SettledIsBilled, Contract!SpentIsBilled, Contract!UnitsBilled, Billed!SpentIsBilled,
         Billed!UnitsBilled, Contract!Cardinality, Billed!Cardinality, Zenon
<1> QED
  BY <1>2, <1>3, <1>4, <1>5, <1>6, PTL DEF Contract!Spec, Billed!Spec

=============================================================================
