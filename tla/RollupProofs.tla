---------------------------- MODULE RollupProofs ----------------------------
(* The rollup's invariants, for any prices, quantities, tenants and months. *)
EXTENDS Rollup, TLAPS

-----------------------------------------------------------------------------
(* Prices *)

\* Every type has a price, in whole micro-dollars.
LEMMA PriceType == \A type \in Types : MicrosPer1K(type) \in Nat
  BY RollupAssumption DEF MicrosPer1K, Types, TokenTypes

\* What rounding down a sum may add to the sum of the rounded: at most one.
LEMMA Rounding ==
    ASSUME NEW m \in Nat, NEW n \in Nat
    PROVE  /\ m \div 1000 \in Nat /\ n \div 1000 \in Nat /\ (m + n) \div 1000 \in Nat
           /\ (m + n) \div 1000 - (m \div 1000 + n \div 1000) \in {0, 1}
           /\ m = 0 => (m + n) \div 1000 = n \div 1000
  OBVIOUS

\* Multiplication by a natural number keeps the order.
LEMMA ProductOrder ==
    ASSUME NEW m \in Nat, NEW n \in Nat, NEW r \in Nat, m <= n
    PROVE  m * r \in Nat /\ n * r \in Nat /\ m * r <= n * r
<1>1. PICK d \in Nat : n = m + d
  <2>1. n - m \in Nat /\ n = m + (n - m)
    OBVIOUS
  <2> QED
    BY <2>1
<1>2. n * r = m * r + d * r /\ d * r \in Nat /\ m * r \in Nat
  BY <1>1
<1> QED
  BY <1>2

\* More tokens never cost less.
LEMMA CostOrder ==
    ASSUME NEW type \in Types, NEW m \in Nat, NEW n \in Nat, m <= n
    PROVE  /\ CostMicrosFor(type, m) \in Nat
           /\ CostMicrosFor(type, n) \in Nat
           /\ CostMicrosFor(type, m) <= CostMicrosFor(type, n)
<1>1. /\ m * MicrosPer1K(type) \in Nat /\ n * MicrosPer1K(type) \in Nat
      /\ m * MicrosPer1K(type) <= n * MicrosPer1K(type)
  BY PriceType, ProductOrder
<1> QED
  BY <1>1 DEF CostMicrosFor

\* Neither do they over all types.
LEMMA TotalCostOrder ==
    ASSUME NEW sums \in Totals, NEW more \in Totals,
           \A type \in Types : sums[type] <= more[type]
    PROVE  /\ CostMicrosForTotals(sums) \in Nat
           /\ CostMicrosForTotals(more) \in Nat
           /\ CostMicrosForTotals(sums) <= CostMicrosForTotals(more)
<1>1. \A type \in Types : /\ CostMicrosFor(type, sums[type]) \in Nat
                          /\ CostMicrosFor(type, more[type]) \in Nat
                          /\ CostMicrosFor(type, sums[type]) <= CostMicrosFor(type, more[type])
  BY CostOrder DEF Totals
<1> QED
  BY <1>1 DEF CostMicrosForTotals, Types, TokenTypes

\* A row adds to its type's cost what it costs by itself, or one micro-dollar more.
LEMMA CostOfRow ==
    ASSUME NEW type \in Types, NEW m \in Nat, NEW n \in Nat
    PROVE  /\ CostMicrosFor(type, m) \in Nat
           /\ CostMicrosFor(type, n) \in Nat
           /\ CostMicrosFor(type, m + n) \in Nat
           /\ CostMicrosFor(type, m + n) - (CostMicrosFor(type, m) + CostMicrosFor(type, n))
                  \in {0, 1}
           /\ m = 0 => CostMicrosFor(type, m + n) = CostMicrosFor(type, n)
<1> DEFINE rate == MicrosPer1K(type)
<1>1. rate \in Nat
  BY PriceType
<1>2. /\ m * rate \in Nat /\ n * rate \in Nat
      /\ (m + n) * rate = m * rate + n * rate
      /\ m = 0 => m * rate = 0
  BY <1>1
<1> QED
  BY <1>2, Rounding DEF CostMicrosFor

\* Likewise to the cost of all types, and exactly that when there was no usage.
LEMMA CostOfRowInTotals ==
    ASSUME NEW sums \in Totals, NEW type \in Types, NEW n \in Nat,
           NEW more, more = [sums EXCEPT ![type] = @ + n]
    PROVE  /\ CostMicrosForTotals(more) - CostMicrosForTotals(sums) - CostMicrosFor(type, n)
                  \in {0, 1}
           /\ sums = ZeroOfEach => CostMicrosForTotals(more) = CostMicrosFor(type, n)
<1>1. \A y \in Types : sums[y] \in Nat /\ CostMicrosFor(y, sums[y]) \in Nat
  BY CostOrder DEF Totals
<1>2. \A y \in Types : more[y] = sums[y] + (IF y = type THEN n ELSE 0)
  BY <1>1 DEF Totals
<1>3. \A y \in Types \ {type} : CostMicrosFor(y, more[y]) = CostMicrosFor(y, sums[y])
  <2>1. \A y \in Types \ {type} : more[y] = sums[y]
    BY <1>1, <1>2
  <2> QED
    BY <2>1
<1>4. more[type] = sums[type] + n
  BY <1>2
<1>5. /\ CostMicrosFor(type, n) \in Nat /\ CostMicrosFor(type, more[type]) \in Nat
      /\ CostMicrosFor(type, more[type])
             - (CostMicrosFor(type, sums[type]) + CostMicrosFor(type, n)) \in {0, 1}
      /\ sums[type] = 0 => CostMicrosFor(type, more[type]) = CostMicrosFor(type, n)
  <2>1. sums[type] \in Nat
    BY <1>1
  <2> HIDE DEF CostMicrosFor
  <2> QED
    BY <2>1, <1>4, CostOfRow
<1>6. type = "api_call" => CostMicrosFor(type, n) = 0
  BY DEF CostMicrosFor, MicrosPer1K
<1>7. CostMicrosForTotals(more) - CostMicrosForTotals(sums) - CostMicrosFor(type, n) \in {0, 1}
  BY <1>1, <1>3, <1>5, <1>6 DEF CostMicrosForTotals, Types, TokenTypes
<1>8. ASSUME sums = ZeroOfEach PROVE CostMicrosForTotals(more) = CostMicrosFor(type, n)
  <2>1. \A y \in Types : sums[y] = 0 /\ CostMicrosFor(y, 0) = 0
    BY <1>8, PriceType DEF ZeroOfEach, CostMicrosFor
  <2> QED
    BY <1>3, <1>5, <1>6, <2>1 DEF CostMicrosForTotals, Types, TokenTypes
<1> QED
  BY <1>7, <1>8

\* No usage costs nothing.
LEMMA CostOfNothing == CostMicrosForTotals(ZeroOfEach) = 0
<1>1. \A type \in Types : CostMicrosFor(type, 0) = 0
  BY PriceType DEF CostMicrosFor
<1> QED
  BY <1>1 DEF CostMicrosForTotals, ZeroOfEach, Types, TokenTypes

-----------------------------------------------------------------------------
(* The inductive invariant *)

\* Nothing has been recorded, read or written yet.
LEMMA InitInductive == Init => InductiveInvariant
<1> SUFFICES ASSUME Init PROVE InductiveInvariant
  OBVIOUS
<1> USE RollupAssumption DEF Init
<1>1. TypeOK
  BY DEF TypeOK, Periods, Totals, ZeroOfEach
<1>2. RollupIsPast /\ ReadIsPast /\ ServerReadIsCurrent
  BY DEF RollupIsPast, UsageCost, ReadIsPast, ServerReadIsCurrent, Workers
<1>3. CostBounds /\ EmptyMonthIsUnused
  <2>1. \A t \in Tenants, p \in Periods :
            totals[t][p] = ZeroOfEach /\ counted[t][p] = 0 /\ priced[t][p] = 0
    OBVIOUS
  <2> QED
    BY <2>1, CostOfNothing DEF CostBounds, EmptyMonthIsUnused, UsageCost
<1> QED
  BY <1>1, <1>2, <1>3 DEF InductiveInvariant

\* A recorded row only adds to what rollups and runs have seen, and adds what it
\* costs by itself, but for less than a micro-dollar.
LEMMA RecordStep ==
    ASSUME InductiveInvariant, NEW row \in UsageRows, Record(row)
    PROVE  InductiveInvariant'
<1> USE DEF InductiveInvariant
<1> DEFINE t == row.tenant
           type == row.type
           cost == CostMicrosFor(type, row.quantity)
<1>1. t \in Tenants /\ type \in Types /\ row.quantity \in Nat /\ clock \in Periods
  BY RollupAssumption DEF TypeOK
<1>2. cost \in Nat
  BY <1>1, CostOrder
<1> HIDE DEF cost
<1>3. /\ totals' = [totals EXCEPT ![t][clock][type] = @ + row.quantity]
      /\ counted' = [counted EXCEPT ![t][clock] = @ + 1]
      /\ priced' = [priced EXCEPT ![t][clock] = @ + cost]
      /\ UNCHANGED <<clock, rollups, run, manual, stops>>
      /\ counted[t][clock] < MaxEvents
  BY DEF Record, cost
<1>4. /\ totals[t] \in [Periods -> Totals] /\ totals[t][clock] \in Totals
      /\ priced[t] \in [Periods -> Nat] /\ priced[t][clock] \in Nat
      /\ counted[t] \in [Periods -> 0..MaxEvents] /\ counted[t][clock] \in 0..MaxEvents
  BY <1>1 DEF TypeOK
<1>5. TypeOK'
  <2>1. [totals[t][clock] EXCEPT ![type] = @ + row.quantity] \in Totals
    BY <1>1, <1>4 DEF Totals
  <2>2. totals' \in [Tenants -> [Periods -> Totals]]
    BY <1>1, <1>3, <1>4, <2>1 DEF TypeOK
  <2>3. priced' \in [Tenants -> [Periods -> Nat]]
    BY <1>1, <1>2, <1>3, <1>4 DEF TypeOK
  <2>4. counted' \in [Tenants -> [Periods -> 0..MaxEvents]]
    BY <1>1, <1>3, <1>4, RollupAssumption DEF TypeOK
  <2> QED
    BY <1>3, <2>2, <2>3, <2>4 DEF TypeOK
<1>6. ASSUME NEW u \in Tenants, NEW p \in Periods, NEW y \in Types
      PROVE  /\ totals[u][p][y] \in Nat
             /\ totals'[u][p][y] = totals[u][p][y]
                    + (IF u = t /\ p = clock /\ y = type THEN row.quantity ELSE 0)
  <2>1. totals[u][p] \in Totals
    BY DEF TypeOK
  <2> QED
    BY <1>1, <1>2, <1>3, <1>4, <2>1 DEF TypeOK, Totals
<1>7. \A u \in Tenants, p \in Periods, y \in Types : totals[u][p][y] <= totals'[u][p][y]
  BY <1>1, <1>6
<1>8. ASSUME NEW sums \in Totals, NEW u \in Tenants, NEW p \in Periods, IsPast(sums, u, p)
      PROVE  \A y \in Types : sums[y] <= totals'[u][p][y]
  <2>1. ASSUME NEW y \in Types PROVE sums[y] <= totals'[u][p][y]
    <3>1. sums[y] \in Nat /\ totals[u][p][y] \in Nat /\ totals'[u][p][y] \in Nat
      BY <1>1, <1>6 DEF Totals
    <3> QED
      BY <1>7, <1>8, <3>1 DEF IsPast
  <2> QED
    BY <2>1
<1>9. ReadIsPast'
  <2> SUFFICES ASSUME NEW w \in Workers, run[w] # None, NEW r \in run[w].rows
               PROVE  \A y \in Types : r.totals[y] <= totals'[r.tenant][run[w].period][y]
    BY <1>3 DEF ReadIsPast, IsPast
  <2>1. r.totals \in Totals /\ r.tenant \in Tenants /\ run[w].period \in Periods
    BY DEF TypeOK, Run
  <2> QED
    BY <1>3, <1>8, <2>1 DEF ReadIsPast
<1>10. RollupIsPast'
  <2> SUFFICES ASSUME NEW u \in Tenants, NEW p \in Periods, rollups[u][p] # None
               PROVE  /\ \A y \in Types : rollups[u][p].totals[y] <= totals'[u][p][y]
                      /\ rollups[u][p].cost_micros <= CostMicrosForTotals(totals'[u][p])
    BY <1>3 DEF RollupIsPast, UsageCost, IsPast
  <2>1. rollups[u][p] \in RollupRow
    BY DEF TypeOK
  <2>2. rollups[u][p].totals \in Totals /\ rollups[u][p].cost_micros \in Nat
    BY <2>1 DEF RollupRow
  <2>3. totals[u][p] \in Totals /\ totals'[u][p] \in Totals
    BY <1>5 DEF TypeOK
  <2>4. /\ CostMicrosForTotals(totals[u][p]) \in Nat
        /\ CostMicrosForTotals(totals'[u][p]) \in Nat
        /\ CostMicrosForTotals(totals[u][p]) <= CostMicrosForTotals(totals'[u][p])
    BY <1>7, <2>3, TotalCostOrder
  <2>5. IsPast(rollups[u][p].totals, u, p) /\ rollups[u][p].cost_micros
            <= CostMicrosForTotals(totals[u][p])
    BY DEF RollupIsPast, UsageCost
  <2> QED
    BY <1>3, <1>8, <2>2, <2>4, <2>5
<1>11. CostBounds' /\ EmptyMonthIsUnused'
  <2> SUFFICES ASSUME NEW u \in Tenants, NEW p \in Periods
               PROVE  /\ LET gap == CostMicrosForTotals(totals'[u][p]) - priced'[u][p]
                         IN  gap >= 0 /\ (gap = 0 \/ gap < counted'[u][p])
                      /\ counted'[u][p] = 0 => totals'[u][p] = ZeroOfEach
    BY DEF CostBounds, UsageCost, EmptyMonthIsUnused
  <2>1. /\ totals[u][p] \in Totals /\ priced[u][p] \in Nat /\ counted[u][p] \in Nat
        /\ counted[u][p] = 0 => totals[u][p] = ZeroOfEach
    BY RollupAssumption DEF TypeOK, EmptyMonthIsUnused
  <2> DEFINE spent == CostMicrosForTotals(totals[u][p])
             spentNext == CostMicrosForTotals(totals'[u][p])
  <2>2. spent - priced[u][p] >= 0
        /\ (spent - priced[u][p] = 0 \/ spent - priced[u][p] < counted[u][p])
    BY DEF CostBounds, UsageCost
  <2>3. spent \in Nat /\ spentNext \in Nat
    <3>1. totals'[u][p] \in Totals
      BY <1>5 DEF TypeOK
    <3> QED
      BY <2>1, <3>1, TotalCostOrder DEF Totals
  <2>4. CASE u = t /\ p = clock
    <3>1. /\ totals'[u][p] = [totals[u][p] EXCEPT ![type] = @ + row.quantity]
          /\ priced'[u][p] = priced[u][p] + cost
          /\ counted'[u][p] = counted[u][p] + 1
      BY <1>1, <1>3, <1>4, <2>4 DEF TypeOK
    <3>2. spentNext - spent - cost \in {0, 1}
          /\ (totals[u][p] = ZeroOfEach => spentNext = cost)
      <4> DEFINE sums == totals[u][p]
                 more == totals'[u][p]
      <4>1. sums \in Totals /\ more = [sums EXCEPT ![type] = @ + row.quantity]
        BY <2>1, <3>1
      <4> HIDE DEF sums, more
      <4>2. CostMicrosForTotals(more) - CostMicrosForTotals(sums) - cost \in {0, 1}
            /\ (sums = ZeroOfEach => CostMicrosForTotals(more) = cost)
        BY <1>1, <4>1, CostOfRowInTotals DEF cost
      <4> QED
        BY <4>2 DEF sums, more
    <3>3. spent = 0 \/ totals[u][p] # ZeroOfEach
      BY CostOfNothing
    <3> HIDE DEF spent, spentNext
    <3>4. spentNext - priced'[u][p] >= 0
          /\ (spentNext - priced'[u][p] = 0 \/ spentNext - priced'[u][p] < counted'[u][p])
      BY <1>2, <2>1, <2>2, <2>3, <3>1, <3>2, <3>3
    <3>5. counted'[u][p] # 0
      BY <2>1, <3>1
    <3> QED
      BY <3>4, <3>5 DEF spentNext
  <2>5. CASE ~(u = t /\ p = clock)
    <3>1. /\ totals'[u][p] = totals[u][p]
          /\ priced'[u][p] = priced[u][p]
          /\ counted'[u][p] = counted[u][p]
      BY <1>1, <1>3, <1>4, <2>5 DEF TypeOK
    <3> QED
      BY <2>1, <2>2, <3>1
  <2> QED
    BY <2>4, <2>5
<1>12. ServerReadIsCurrent'
  BY DEF Record, ServerReadIsCurrent
<1> QED
  BY <1>5, <1>9, <1>10, <1>11, <1>12

\* The rows a run reads are the current totals.
LEMMA ReadStep ==
    ASSUME InductiveInvariant, NEW w \in Workers, NEW p \in Periods, Read(w, p),
           manual' \in 0..MaxManual
    PROVE  InductiveInvariant'
<1> USE DEF InductiveInvariant
<1> DEFINE rows == {[tenant |-> t, totals |-> totals[t][p]] :
                        t \in {u \in Tenants : counted[u][p] > 0}}
<1>1. /\ run' = [run EXCEPT ![w] = [period |-> p, rows |-> rows]]
      /\ UNCHANGED <<clock, totals, counted, priced, rollups, stops>>
  BY DEF Read, usageVars
<1>2. rows \in SUBSET [tenant : Tenants, totals : Totals]
      /\ \A r \in rows : r.totals = totals[r.tenant][p] /\ r.tenant \in Tenants
  BY DEF TypeOK
<1> HIDE DEF rows
<1>3. [period |-> p, rows |-> rows] \in Run
  BY <1>2 DEF Run
<1>4. TypeOK'
  BY <1>1, <1>3 DEF TypeOK
<1>5. ReadIsPast'
  <2> SUFFICES ASSUME NEW v \in Workers, run'[v] # None, NEW r \in run'[v].rows
               PROVE  \A type \in Types :
                          r.totals[type] <= totals'[r.tenant][run'[v].period][type]
    BY DEF ReadIsPast, IsPast
  <2>1. CASE v = w
    <3>1. run'[v] = [period |-> p, rows |-> rows]
      BY <1>1, <2>1 DEF TypeOK
    <3>2. r.totals = totals[r.tenant][p] /\ r.tenant \in Tenants /\ run'[v].period = p
      BY <1>2, <3>1
    <3>3. totals[r.tenant][p] \in Totals
      BY <3>2 DEF TypeOK
    <3> QED
      BY <1>1, <3>2, <3>3 DEF IsPast, Totals
  <2>2. CASE v # w
    <3>1. run'[v] = run[v]
      BY <1>1, <2>2 DEF TypeOK
    <3> QED
      BY <1>1, <3>1 DEF ReadIsPast, IsPast
  <2> QED
    BY <2>1, <2>2
<1>6. RollupIsPast' /\ CostBounds' /\ EmptyMonthIsUnused'
  BY <1>1 DEF RollupIsPast, UsageCost, IsPast, CostBounds, EmptyMonthIsUnused
<1>7. ServerReadIsCurrent'
  <2>1. CASE w = "server"
    <3>1. run'["server"] = [period |-> p, rows |-> rows]
      BY <1>1, <2>1 DEF TypeOK
    <3> QED
      BY <1>1, <1>2, <3>1 DEF ServerReadIsCurrent
  <2>2. CASE w # "server"
    <3>1. run'["server"] = run["server"]
      BY <1>1, <2>2 DEF TypeOK, Workers
    <3> QED
      BY <1>1, <3>1 DEF ServerReadIsCurrent
  <2> QED
    BY <2>1, <2>2
<1> QED
  BY <1>4, <1>5, <1>6, <1>7

\* A row that is written has been read.
LEMMA WriteStep ==
    ASSUME InductiveInvariant, NEW w \in Workers, Write(w)
    PROVE  InductiveInvariant'
<1> USE DEF InductiveInvariant
<1>1. run[w] # None /\ run[w] \in Run
  BY DEF Write, TypeOK
<1> DEFINE p == run[w].period
<1>2. PICK row \in run[w].rows :
          /\ rollups' = [rollups EXCEPT ![row.tenant][p] =
                 [totals |-> row.totals, cost_micros |-> CostMicrosForTotals(row.totals)]]
          /\ run' = [run EXCEPT ![w].rows = @ \ {row}]
          /\ UNCHANGED <<clock, totals, counted, priced, manual, stops>>
  BY DEF Write, usageVars
<1>3. row.tenant \in Tenants /\ row.totals \in Totals /\ p \in Periods
  BY <1>1 DEF Run
<1>4. totals[row.tenant][p] \in Totals /\ IsPast(row.totals, row.tenant, p)
  BY <1>1, <1>3 DEF TypeOK, ReadIsPast
<1>5. /\ CostMicrosForTotals(row.totals) \in Nat
      /\ CostMicrosForTotals(row.totals) <= CostMicrosForTotals(totals[row.tenant][p])
  BY <1>3, <1>4, TotalCostOrder DEF IsPast
<1> DEFINE new == [totals |-> row.totals, cost_micros |-> CostMicrosForTotals(row.totals)]
<1>6. new \in RollupRow
  BY <1>3, <1>5 DEF RollupRow
<1>7. run'[w] \in Run /\ run'[w].period = p /\ run'[w].rows \subseteq run[w].rows
      /\ \A v \in Workers \ {w} : run'[v] = run[v]
  BY <1>1, <1>2 DEF TypeOK, Run
<1>8. TypeOK'
  <2>1. run' \in [Workers -> Run \cup {None}]
    BY <1>2, <1>7 DEF TypeOK
  <2>2. rollups[row.tenant] \in [Periods -> RollupRow \cup {None}]
    BY <1>3 DEF TypeOK
  <2> HIDE DEF new
  <2>3. rollups' \in [Tenants -> [Periods -> RollupRow \cup {None}]]
    BY <1>2, <1>3, <1>6, <2>2 DEF TypeOK, new
  <2> QED
    BY <1>2, <2>1, <2>3 DEF TypeOK
<1>9. ReadIsPast'
  <2> SUFFICES ASSUME NEW v \in Workers, run'[v] # None, NEW r \in run'[v].rows
               PROVE  \A type \in Types :
                          r.totals[type] <= totals'[r.tenant][run'[v].period][type]
    BY DEF ReadIsPast, IsPast
  <2>1. run[v] # None /\ r \in run[v].rows /\ run'[v].period = run[v].period
    BY <1>1, <1>7
  <2> QED
    BY <1>2, <2>1 DEF ReadIsPast, IsPast
<1>10. RollupIsPast'
  <2> SUFFICES ASSUME NEW u \in Tenants, NEW m \in Periods, rollups'[u][m] # None
               PROVE  /\ IsPast(rollups'[u][m].totals, u, m)
                      /\ rollups'[u][m].cost_micros <= CostMicrosForTotals(totals[u][m])
    BY <1>2 DEF RollupIsPast, UsageCost, IsPast
  <2>1. CASE u = row.tenant /\ m = p
    <3>1. rollups'[u][m] = new
      BY <1>2, <1>3, <2>1 DEF TypeOK
    <3>2. rollups'[u][m].totals = row.totals
          /\ rollups'[u][m].cost_micros = CostMicrosForTotals(row.totals)
      BY <3>1
    <3> QED
      BY <1>4, <1>5, <2>1, <3>2
  <2>2. CASE ~(u = row.tenant /\ m = p)
    <3>1. rollups'[u][m] = rollups[u][m]
      BY <1>2, <1>3, <2>2 DEF TypeOK
    <3> QED
      BY <3>1 DEF RollupIsPast, UsageCost
  <2> QED
    BY <2>1, <2>2
<1>11. CostBounds' /\ EmptyMonthIsUnused'
  BY <1>2 DEF CostBounds, UsageCost, EmptyMonthIsUnused
<1>12. ServerReadIsCurrent'
  <2>1. run'["server"] # None =>
            /\ run["server"] # None
            /\ run'["server"].period = run["server"].period
            /\ run'["server"].rows \subseteq run["server"].rows
    BY <1>1, <1>7 DEF Workers
  <2> QED
    BY <1>2, <2>1 DEF ServerReadIsCurrent
<1> QED
  BY <1>8, <1>9, <1>10, <1>11, <1>12

\* A run that ends, early or not, leaves nothing to write.
LEMMA EndStep ==
    ASSUME InductiveInvariant, NEW w \in Workers, Finish(w) \/ Stop(w)
    PROVE  InductiveInvariant'
<1> USE DEF InductiveInvariant
<1>1. /\ run' = [run EXCEPT ![w] = None]
      /\ UNCHANGED <<clock, totals, counted, priced, rollups, manual>>
      /\ stops' \in 0..MaxStops
  BY RollupAssumption DEF Finish, Stop, usageVars, TypeOK
<1>2. TypeOK'
  BY <1>1 DEF TypeOK
<1>3. RollupIsPast' /\ CostBounds' /\ EmptyMonthIsUnused'
  BY <1>1 DEF RollupIsPast, UsageCost, IsPast, CostBounds, EmptyMonthIsUnused
<1>4. \A v \in Workers : run'[v] # None => run'[v] = run[v]
  BY <1>1 DEF TypeOK
<1>5. ReadIsPast'
  BY <1>1, <1>4 DEF ReadIsPast, IsPast
<1>6. ServerReadIsCurrent'
  BY <1>1, <1>4 DEF ServerReadIsCurrent, Workers
<1> QED
  BY <1>2, <1>3, <1>5, <1>6

\* Every step preserves the inductive invariant.
LEMMA NextInductive == InductiveInvariant /\ [Next]_vars => InductiveInvariant'
<1> SUFFICES ASSUME InductiveInvariant, [Next]_vars PROVE InductiveInvariant'
  OBVIOUS
<1>1. ASSUME NEW row \in UsageRows, Record(row) PROVE InductiveInvariant'
  BY <1>1, RecordStep
<1>2. CASE ServerRead
  <2>1. "server" \in Workers /\ clock \in Periods /\ manual' \in 0..MaxManual
    BY <1>2 DEF Workers, ServerRead, InductiveInvariant, TypeOK
  <2> QED
    BY <1>2, <2>1, ReadStep DEF ServerRead
<1>3. ASSUME NEW p \in Periods, ManualRead(p) PROVE InductiveInvariant'
  <2>1. "manual" \in Workers /\ manual' \in 0..MaxManual
    BY <1>3, RollupAssumption DEF Workers, ManualRead, InductiveInvariant, TypeOK
  <2> QED
    BY <1>3, <2>1, ReadStep DEF ManualRead
<1>4. ASSUME NEW w \in Workers, Write(w) \/ Finish(w) \/ Stop(w) PROVE InductiveInvariant'
  BY <1>4, WriteStep, EndStep
<1>5. CASE NextMonth
  BY <1>5, RollupAssumption DEF NextMonth, usageVars, InductiveInvariant, TypeOK, Periods,
     RollupIsPast, UsageCost, ReadIsPast, IsPast, ServerReadIsCurrent, CostBounds, EmptyMonthIsUnused
<1>6. CASE UNCHANGED vars
  BY <1>6 DEF vars, usageVars, InductiveInvariant, TypeOK, RollupIsPast, UsageCost,
     ReadIsPast, IsPast, ServerReadIsCurrent, CostBounds, EmptyMonthIsUnused
<1> QED
  BY <1>1, <1>2, <1>3, <1>4, <1>5, <1>6 DEF Next

\* What one step preserves holds throughout every execution.
THEOREM InvariantHolds == Spec => []InductiveInvariant
  BY InitInductive, NextInductive, PTL DEF Spec

-----------------------------------------------------------------------------
(* What follows from it *)

\* No order of reads and writes of the two rollups, for any number of tenants,
\* leaves a row that claims more than the usage rows add up to.
THEOREM RollupsArePast == Spec => []RollupIsPast
<1>1. InductiveInvariant => RollupIsPast
  BY DEF InductiveInvariant
<1> QED
  BY <1>1, InvariantHolds, PTL

\* For any prices and quantities, the cost of a month is at least the sum of what its
\* rows cost one by one, and above it by fewer micro-dollars than the month has rows.
THEOREM RoundingIsFair == Spec => []CostBounds
<1>1. InductiveInvariant => CostBounds
  BY DEF InductiveInvariant
<1> QED
  BY <1>1, InvariantHolds, PTL

\* A row the server writes is what the rows of usage_events add up to at that moment.
LEMMA ServerWriteIsCurrent ==
    ASSUME InductiveInvariant, Write("server"), NEW t \in Tenants, NEW p \in Periods
    PROVE  \/ rollups'[t][p] = rollups[t][p]
           \/ /\ rollups'[t][p].totals = totals[t][p]
              /\ rollups'[t][p].cost_micros = UsageCost(t, p)
              /\ rollups'[t][p] \in RollupRow
<1> USE DEF InductiveInvariant
<1>1. run["server"] # None /\ run["server"] \in Run
  BY DEF Write, TypeOK, Workers
<1> DEFINE month == run["server"].period
<1>2. PICK row \in run["server"].rows :
          rollups' = [rollups EXCEPT ![row.tenant][month] =
              [totals |-> row.totals, cost_micros |-> CostMicrosForTotals(row.totals)]]
  BY DEF Write
<1>3. row.tenant \in Tenants /\ month \in Periods /\ row.totals = totals[row.tenant][month]
  BY <1>1 DEF Run, ServerReadIsCurrent
<1> HIDE DEF month
<1>4. /\ totals[row.tenant][month] \in Totals
      /\ CostMicrosForTotals(totals[row.tenant][month]) \in Nat
  <2>1. totals[row.tenant][month] \in Totals
    BY <1>3 DEF TypeOK
  <2> QED
    BY <2>1, TotalCostOrder DEF Totals
<1> DEFINE new == [totals |-> totals[row.tenant][month],
                   cost_micros |-> CostMicrosForTotals(totals[row.tenant][month])]
<1>5. /\ new \in RollupRow
      /\ new.totals = totals[row.tenant][month]
      /\ new.cost_micros = UsageCost(row.tenant, month)
  BY <1>4 DEF RollupRow, UsageCost
<1>6. rollups' = [rollups EXCEPT ![row.tenant][month] = new]
  BY <1>2, <1>3
<1> HIDE DEF new
<1>7. CASE t = row.tenant /\ p = month
  BY <1>3, <1>5, <1>6, <1>7 DEF TypeOK
<1>8. CASE ~(t = row.tenant /\ p = month)
  BY <1>3, <1>6, <1>8 DEF TypeOK
<1> QED
  BY <1>7, <1>8

\* With no npm run rollup under way, no step of the server, of any month, takes back
\* what a rollup says.
THEOREM RollupsGrow == Spec => RollupsOnlyGrow
<1>1. ASSUME InductiveInvariant, [Next]_vars
      PROVE  [\A t \in Tenants, p \in Periods :
                 rollups[t][p] # None /\ run["manual"] = None =>
                     /\ rollups'[t][p] # None
                     /\ \A type \in Types :
                           rollups[t][p].totals[type] <= rollups'[t][p].totals[type]
                     /\ rollups[t][p].cost_micros <= rollups'[t][p].cost_micros]_vars
  <2> SUFFICES ASSUME NEW t \in Tenants, NEW p \in Periods,
                      rollups[t][p] # None, run["manual"] = None
               PROVE  /\ rollups'[t][p] # None
                      /\ \A type \in Types :
                            rollups[t][p].totals[type] <= rollups'[t][p].totals[type]
                      /\ rollups[t][p].cost_micros <= rollups'[t][p].cost_micros
    OBVIOUS
  <2> USE DEF InductiveInvariant
  <2>1. rollups[t][p] \in RollupRow /\ TypeOK
    BY <1>1 DEF TypeOK
  <2>2. CASE rollups'[t][p] = rollups[t][p]
    BY <2>1, <2>2 DEF RollupRow, Totals
  <2>3. CASE Write("server")
    <3>1. CASE /\ rollups'[t][p].totals = totals[t][p]
               /\ rollups'[t][p].cost_micros = UsageCost(t, p)
               /\ rollups'[t][p] \in RollupRow
      BY <1>1, <3>1, RollupAssumption DEF RollupIsPast, IsPast
    <3> QED
      BY <1>1, <2>2, <2>3, <3>1, ServerWriteIsCurrent
  <2>4. ~Write("server") => UNCHANGED rollups
    <3>1. ~Write("manual")
      BY DEF Write
    <3> QED
      BY <1>1, <3>1 DEF Next, vars, Workers, Record, ServerRead, ManualRead, Read, Finish,
         Stop, NextMonth
  <2> QED
    BY <2>2, <2>3, <2>4
<1> QED
  BY <1>1, InvariantHolds, PTL DEF Spec, RollupsOnlyGrow

=============================================================================
