------------------------- MODULE MeterContractProofs -------------------------
(***************************************************************************)
(* Proofs about the abstract billing of MeterContract, for all tenants,    *)
(* keys and limits.                                                        *)
(***************************************************************************)
EXTENDS MeterContract, FiniteSetTheorems, TLAPS

\* What a request may use is a number of calls and of tokens.
UsagesAreNumbers == Usages \subseteq [calls : Nat, tokens : Nat]

Counted == {"calls", "tokens"}

\* What one step preserves: a tenant's bills have finitely many units, as many as
\* it spent.
BillsAddUp ==
    /\ spent \in [Tenants -> [calls : Nat, tokens : Nat]]
    /\ \A t \in Tenants : \A what \in Counted :
          /\ IsFiniteSet(UnitsBilled(t, what))
          /\ spent[t][what] = Cardinality(UnitsBilled(t, what))

\* No bills add up to nothing.
LEMMA InitAddsUp == Init => BillsAddUp
<1> SUFFICES ASSUME Init PROVE BillsAddUp
  OBVIOUS
<1>1. ASSUME NEW t \in Tenants, NEW what \in Counted
      PROVE  UnitsBilled(t, what) = {}
  BY DEF Init, UnitsBilled
<1>2. spent \in [Tenants -> [calls : Nat, tokens : Nat]]
      /\ \A t \in Tenants : spent[t].calls = 0 /\ spent[t].tokens = 0
  BY DEF Init
<1> QED
  BY <1>1, <1>2, FS_EmptySet DEF BillsAddUp, Counted

\* A new bill adds what it bills: its key had no bill, so its units are new.
LEMMA ChargeAddsUp ==
    ASSUME UsagesAreNumbers, BillsAddUp,
           NEW t \in Tenants, NEW k \in Keys, NEW use \in Usages, Charge(t, k, use)
    PROVE  BillsAddUp'
<1> DEFINE bill == [tenant |-> t, key |-> k, calls |-> use.calls, tokens |-> use.tokens]
           spending == [calls |-> spent[t].calls + use.calls,
                        tokens |-> spent[t].tokens + use.tokens]
<1>1. use.calls \in Nat /\ use.tokens \in Nat
  BY DEF UsagesAreNumbers
<1>2. /\ bill \notin bills
      /\ bills' = bills \cup {bill}
      /\ spent' = [spent EXCEPT ![t] = spending]
  BY DEF Charge, BillOf
<1>3. spending \in [calls : Nat, tokens : Nat]
  BY <1>1 DEF BillsAddUp
<1>4. /\ bill.tenant = t
      /\ \A what \in Counted : bill[what] = use[what] /\ use[what] \in Nat
                                /\ spending[what] = spent[t][what] + use[what]
  BY <1>1 DEF Counted
<1> HIDE DEF bill, spending
<1>5. spent' \in [Tenants -> [calls : Nat, tokens : Nat]]
  BY <1>2, <1>3 DEF BillsAddUp
<1>6. ASSUME NEW u \in Tenants, NEW what \in Counted
      PROVE  /\ IsFiniteSet(UnitsBilled(u, what)')
             /\ spent'[u][what] = Cardinality(UnitsBilled(u, what)')
  <2>1. IsFiniteSet(UnitsBilled(u, what)) /\ spent[u][what] = Cardinality(UnitsBilled(u, what))
    BY DEF BillsAddUp
  <2>2. CASE u # t
    <3>1. UnitsBilled(u, what)' = UnitsBilled(u, what)
      BY <1>2, <1>4, <2>2 DEF UnitsBilled
    <3>2. spent'[u] = spent[u]
      BY <1>2, <2>2 DEF BillsAddUp
    <3> QED
      BY <2>1, <3>1, <3>2
  <2>3. CASE u = t
    <3> DEFINE units == {bill} \X (1..bill[what])
    <3>1. IsFiniteSet({bill}) /\ Cardinality({bill}) = 1
      BY FS_Singleton
    <3>2. IsFiniteSet(1..bill[what]) /\ Cardinality(1..bill[what]) = use[what]
      BY <1>4, FS_Interval
    <3>3. IsFiniteSet(units) /\ Cardinality(units) = 1 * use[what]
      BY <3>1, <3>2, FS_Product
    <3>4. UnitsBilled(t, what)' = UnitsBilled(t, what) \cup units
      BY <1>2, <1>4 DEF UnitsBilled
    <3>5. UnitsBilled(t, what) \cap units = {}
      <4> SUFFICES ASSUME NEW unit \in UnitsBilled(t, what), unit \in units PROVE FALSE
        OBVIOUS
      <4>1. PICK other \in bills : unit \in {other} \X (1..other[what])
        BY DEF UnitsBilled
      <4>2. unit[1] = other /\ unit[1] = bill
        BY <4>1
      <4> QED
        BY <1>2, <4>2
    <3> HIDE DEF units
    <3>6. /\ Cardinality(UnitsBilled(t, what) \cap units) = 0
          /\ Cardinality(UnitsBilled(t, what)) \in Nat
      BY <2>1, <2>3, <3>5, FS_EmptySet, FS_CardinalityType
    <3>7. /\ IsFiniteSet(UnitsBilled(t, what) \cup units)
          /\ Cardinality(UnitsBilled(t, what) \cup units) =
                 Cardinality(UnitsBilled(t, what)) + Cardinality(units)
                     - Cardinality(UnitsBilled(t, what) \cap units)
      BY <2>1, <2>3, <3>3, FS_Union
    <3>8. Cardinality(UnitsBilled(t, what) \cup units) = spent[t][what] + use[what]
      BY <1>4, <2>1, <2>3, <3>3, <3>6, <3>7
    <3>9. spent'[t][what] = spent[t][what] + use[what]
      BY <1>2, <1>4 DEF BillsAddUp
    <3> QED
      BY <2>3, <3>4, <3>7, <3>8, <3>9
  <2> QED
    BY <2>2, <2>3
<1> QED
  BY <1>5, <1>6 DEF BillsAddUp

\* Nothing but a charge spends or bills.
LEMMA NextAddsUp ==
    ASSUME UsagesAreNumbers, BillsAddUp, [Next]_vars
    PROVE  BillsAddUp'
<1>1. ASSUME NEW t \in Tenants, NEW k \in Keys, NEW use \in Usages, Charge(t, k, use)
      PROVE  BillsAddUp'
  BY <1>1, ChargeAddsUp
<1>2. CASE UNCHANGED <<spent, bills>>
  BY <1>2 DEF BillsAddUp, UnitsBilled
<1>3. \/ \E t \in Tenants, k \in Keys, use \in Usages : Charge(t, k, use)
      \/ UNCHANGED <<spent, bills>>
  BY DEF Next, vars, Refuse, Repeat, ChangeTerms, Quiet
<1> QED
  BY <1>1, <1>2, <1>3

\* Under the contract, a tenant's spending is what its bills add up to.
THEOREM SpendingIsBilled ==
    ASSUME UsagesAreNumbers PROVE Spec => []SpentIsBilled
<1>1. BillsAddUp /\ [Next]_vars => BillsAddUp'
  BY NextAddsUp
<1>2. BillsAddUp => SpentIsBilled
  BY DEF BillsAddUp, SpentIsBilled, Counted
<1> QED
  BY <1>1, <1>2, InitAddsUp, PTL DEF Spec

=============================================================================
