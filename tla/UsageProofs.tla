----------------------------- MODULE UsageProofs -----------------------------
(***************************************************************************)
(* What the sums over usage_events are and how they move: lemmas for the   *)
(* proofs about Metering, for all tenants, quantities and months.          *)
(***************************************************************************)
EXTENDS Metering, FiniteSetTheorems, TLAPS

-----------------------------------------------------------------------------
(* Sums over sets of rows *)

\* A sum over no rows is zero.
LEMMA SumOfNone == IsFiniteSet(UnitsOf({})) /\ SumOfQuantities({}) = 0
<1>1. UnitsOf({}) = {}
  BY DEF UnitsOf
<1> QED
  BY <1>1, FS_EmptySet DEF SumOfQuantities

\* One more row adds its quantity: its units are units of no other row.
LEMMA SumOfOneMore ==
    ASSUME NEW rows, NEW row, row \notin rows, row.quantity \in Nat,
           IsFiniteSet(UnitsOf(rows))
    PROVE  /\ IsFiniteSet(UnitsOf(rows \cup {row}))
           /\ SumOfQuantities(rows \cup {row}) = SumOfQuantities(rows) + row.quantity
<1> DEFINE units == {row} \X (1..row.quantity)
<1>1. IsFiniteSet({row}) /\ Cardinality({row}) = 1
  BY FS_Singleton
<1>2. IsFiniteSet(1..row.quantity) /\ Cardinality(1..row.quantity) = row.quantity
  BY FS_Interval
<1>3. IsFiniteSet(units) /\ Cardinality(units) = 1 * row.quantity
  BY <1>1, <1>2, FS_Product
<1>4. UnitsOf(rows \cup {row}) = UnitsOf(rows) \cup units
  BY DEF UnitsOf
<1>5. UnitsOf(rows) \cap units = {}
  <2> SUFFICES ASSUME NEW unit \in UnitsOf(rows), unit \in units PROVE FALSE
    OBVIOUS
  <2>1. PICK other \in rows : unit \in {other} \X (1..other.quantity)
    BY DEF UnitsOf
  <2>2. unit[1] = other /\ unit[1] = row
    BY <2>1
  <2> QED
    BY <2>2
<1> HIDE DEF units
<1>6. Cardinality(UnitsOf(rows) \cap units) = 0 /\ Cardinality(UnitsOf(rows)) \in Nat
  BY <1>5, FS_EmptySet, FS_CardinalityType
<1>7. /\ IsFiniteSet(UnitsOf(rows) \cup units)
      /\ Cardinality(UnitsOf(rows) \cup units) =
             Cardinality(UnitsOf(rows)) + Cardinality(units)
                 - Cardinality(UnitsOf(rows) \cap units)
  BY <1>3, FS_Union
<1>8. Cardinality(UnitsOf(rows) \cup units) = Cardinality(UnitsOf(rows)) + row.quantity
  BY <1>3, <1>6, <1>7
<1> QED
  BY <1>4, <1>7, <1>8, Zenon DEF SumOfQuantities

\* Some of the rows have some of the units.
LEMMA SumOfSome ==
    ASSUME NEW all, NEW rows \in SUBSET all, IsFiniteSet(UnitsOf(all))
    PROVE  IsFiniteSet(UnitsOf(rows)) /\ SumOfQuantities(rows) \in Nat
<1>1. UnitsOf(rows) \in SUBSET UnitsOf(all)
  BY DEF UnitsOf
<1> QED
  BY <1>1, FS_Subset, FS_CardinalityType DEF SumOfQuantities

-----------------------------------------------------------------------------
(* Usage *)

\* A sum of quantities for every tenant, month and type.
LEMMA UsageType ==
    ASSUME IsFiniteSet(UnitsOf(events))
    PROVE  usage \in [Tenants -> [Periods -> Quantities]]
<1> SUFFICES ASSUME NEW t \in Tenants, NEW p \in Periods, NEW type \in Types
             PROVE  SumOfQuantities(RowsOf(t, p, type)) \in Nat
  BY DEF usage, Quantities
<1>1. RowsOf(t, p, type) \in SUBSET events
  BY DEF RowsOf
<1> QED
  BY <1>1, SumOfSome

LEMMA UsageTypeNext ==
    ASSUME IsFiniteSet(UnitsOf(events'))
    PROVE  usage' \in [Tenants -> [Periods -> Quantities]]
<1> SUFFICES ASSUME NEW t \in Tenants, NEW p \in Periods, NEW type \in Types
             PROVE  SumOfQuantities(RowsOf(t, p, type)') \in Nat
  BY DEF usage, Quantities, SumOfQuantities, UnitsOf
<1>1. RowsOf(t, p, type)' \in SUBSET events'
  BY DEF RowsOf
<1> QED
  BY <1>1, SumOfSome

\* Usage is what the rows say.
LEMMA SameRowsSameUsage ==
    ASSUME UNCHANGED events PROVE UNCHANGED usage
  BY DEF usage, RowsOf

\* An empty table counts nothing.
LEMMA NoRowsNoUsage ==
    ASSUME events = {}, NEW t \in Tenants, NEW p \in Periods, NEW type \in Types
    PROVE  usage[t][p][type] = 0
<1>1. RowsOf(t, p, type) = {}
  BY DEF RowsOf
<1> QED
  BY <1>1, SumOfNone DEF usage

\* A new row of a tenant, month and type adds its quantity there and nowhere else.
LEMMA NewRowCounts ==
    ASSUME IsFiniteSet(UnitsOf(events)),
           NEW row \in EventRow, row \notin events, events' = events \cup {row}
    PROVE  /\ IsFiniteSet(UnitsOf(events'))
           /\ usage' = [usage EXCEPT ![row.tenant][row.period][row.type] = @ + row.quantity]
<1> DEFINE isOf(u, p, y) == row.tenant = u /\ row.period = p /\ row.type = y
<1>1. /\ row.quantity \in Nat /\ row.tenant \in Tenants
      /\ row.period \in Periods /\ row.type \in Types
  BY DEF EventRow
<1>2. IsFiniteSet(UnitsOf(events'))
  BY <1>1, SumOfOneMore
<1>3. ASSUME NEW u \in Tenants, NEW p \in Periods, NEW y \in Types
      PROVE  usage'[u][p][y] = usage[u][p][y] + (IF isOf(u, p, y) THEN row.quantity ELSE 0)
  <2>1. RowsOf(u, p, y) \in SUBSET events /\ row \notin RowsOf(u, p, y)
    BY DEF RowsOf
  <2>2. RowsOf(u, p, y)' =
            IF isOf(u, p, y) THEN RowsOf(u, p, y) \cup {row} ELSE RowsOf(u, p, y)
    BY DEF RowsOf
  <2>3. IsFiniteSet(UnitsOf(RowsOf(u, p, y))) /\ SumOfQuantities(RowsOf(u, p, y)) \in Nat
    BY <2>1, SumOfSome
  <2>4. isOf(u, p, y) => SumOfQuantities(RowsOf(u, p, y) \cup {row})
                             = SumOfQuantities(RowsOf(u, p, y)) + row.quantity
    BY <1>1, <2>1, <2>3, SumOfOneMore
  <2>5. /\ usage[u][p][y] = SumOfQuantities(RowsOf(u, p, y))
        /\ usage'[u][p][y] = SumOfQuantities(RowsOf(u, p, y)')
    BY DEF usage, SumOfQuantities, UnitsOf
  <2> QED
    BY <2>2, <2>3, <2>4, <2>5
<1>4. /\ usage \in [Tenants -> [Periods -> Quantities]]
      /\ usage' \in [Tenants -> [Periods -> Quantities]]
  BY <1>2, UsageType, UsageTypeNext
<1> DEFINE counted ==
        [usage EXCEPT ![row.tenant][row.period][row.type] = @ + row.quantity]
<1>5. counted \in [Tenants -> [Periods -> [Types -> Int]]]
  BY <1>1, <1>4 DEF Quantities
<1>6. \A u \in Tenants, p \in Periods, y \in Types :
          counted[u][p][y] = usage[u][p][y] + (IF isOf(u, p, y) THEN row.quantity ELSE 0)
  BY <1>1, <1>4 DEF Quantities
<1>7. \A u \in Tenants, p \in Periods : usage'[u][p] = counted[u][p]
  <2> HIDE DEF counted, isOf
  <2> SUFFICES ASSUME NEW u \in Tenants, NEW p \in Periods
               PROVE  usage'[u][p] = counted[u][p]
    OBVIOUS
  <2>1. usage'[u][p] \in [Types -> Nat] /\ counted[u][p] \in [Types -> Int]
    BY <1>4, <1>5 DEF Quantities
  <2>2. \A y \in Types : usage'[u][p][y] = counted[u][p][y]
    BY <1>3, <1>6
  <2> QED
    BY <2>1, <2>2
<1>8. \A u \in Tenants : usage'[u] = counted[u]
  <2> HIDE DEF counted
  <2> QED
    BY <1>4, <1>5, <1>7
<1>9. usage' = counted
  <2> HIDE DEF counted
  <2> QED
    BY <1>4, <1>5, <1>8
<1> QED
  BY <1>2, <1>9

\* That is what recording a fresh sub-key does.
LEMMA RecordFreshCounts ==
    ASSUME TypeOK, NEW type \in Types, RecordFresh(type)
    PROVE  /\ IsFiniteSet(UnitsOf(events'))
           /\ usage' = [usage EXCEPT
                  ![req.tenant][clock][type] = @ + req.quantities[type]]
<1> DEFINE row == [tenant |-> req.tenant, key |-> req.key, type |-> type,
                   quantity |-> req.quantities[type], period |-> clock]
<1>1. row \in EventRow
  BY DEF RecordFresh, RecordsNext, TypeOK, Request, Quantities, EventRow
<1>2. row \notin events /\ events' = events \cup {row}
  BY DEF RecordFresh, InsertEvent
<1>3. /\ row.tenant = req.tenant /\ row.period = clock
      /\ row.type = type /\ row.quantity = req.quantities[type]
  OBVIOUS
<1> HIDE DEF row
<1> QED
  BY <1>1, <1>2, <1>3, NewRowCounts DEF TypeOK

\* No other step touches the rows.
LEMMA OnlyRecordingCounts ==
    ASSUME [Next]_vars, \A type \in Types : ~RecordFresh(type)
    PROVE  UNCHANGED <<events, usage>>
<1>1. ASSUME NEW t \in Tenants, NEW k \in Keys,
             \/ Forbidden(t, k) \/ Mirror(t, k) \/ PaymentRequired(t, k)
             \/ \E body \in Bodies : QuotaExceeded(t, k, body) \/ Admit(t, k, body)
      PROVE  UNCHANGED events
  BY <1>1 DEF Forbidden, Mirror, PaymentRequired, QuotaExceeded, Admit
<1>2. ASSUME \/ \E type \in Types : RecordExisting(type)
             \/ AnswerDuplicate
             \/ \E metric \in Metrics, pct \in Thresholds : EvaluateAlert(metric, pct)
             \/ AlertsThrow
             \/ Respond
      PROVE  UNCHANGED events
  BY <1>2 DEF RecordExisting, AnswerDuplicate, EvaluateAlert, AlertsThrow, Respond
<1>3. ASSUME NEW w \in Evaluators,
             \/ \E t \in Tenants : LoadTenant(w, t)
             \/ \E p \in RollupMonths : ReadTotals(w, p)
             \/ \E row \in AlertRow : InsertAlert(w, row)
             \/ EvaluationEnds(w)
      PROVE  UNCHANGED events
  BY <1>3 DEF LoadTenant, ReadTotals, InsertAlert, EvaluationEnds
<1>4. ASSUME \/ Abort \/ NextMonth
             \/ \E t \in Tenants : Reseed(t)
             \/ \E t \in Tenants, acct \in Account : SetAccount(t, acct)
             \/ UNCHANGED vars
      PROVE  UNCHANGED events
  BY <1>4 DEF Abort, NextMonth, Reseed, SetAccount, vars
<1>5. UNCHANGED events
  BY <1>1, <1>2, <1>3, <1>4 DEF Next
<1> QED
  BY <1>5, SameRowsSameUsage

=============================================================================
