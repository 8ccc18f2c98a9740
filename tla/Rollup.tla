------------------------------- MODULE Rollup -------------------------------
(***************************************************************************)
(* The monthly rollup: totals read by one SELECT, then priced in integer   *)
(* micro-dollars and written to usage_rollups tenant by tenant. The server *)
(* runs it on a timer, and npm run rollup in a process beside it.          *)
(*                                                                         *)
(* In the server nothing else happens between the two; the other process   *)
(* interleaves with everything. Either may end before all is written.      *)
(***************************************************************************)
EXTENDS Integers

CONSTANTS
    Tenants,
    TokenPricing,   \* TokenPricing[type]: micro-dollars per 1,000 tokens
    UsageRows,      \* the rows a request may insert into usage_events
    MaxEvents,      \* bound: the rows of one tenant and month
    LastPeriod,     \* bound: the months are 1..LastPeriod
    MaxManual,      \* bound: how often npm run rollup is started
    MaxStops,       \* bound: how many runs end early
    None            \* no row, no run

VARIABLES
    clock,      \* the current month
    totals,     \* totals[t][p][type]: SELECT SUM(quantity) over usage_events
    counted,    \* counted[t][p]: the number of those rows, of all types
    priced,     \* priced[t][p]: costMicrosForEvents of those rows, each rounded down
    rollups,    \* rollups[t][p]: the row of usage_rollups, or None
    run,        \* run[w]: the month and the rows a run has still to write, or None
    manual, stops   \* how often either has happened

usageVars == <<totals, counted, priced>>
vars == <<clock, usageVars, rollups, run, manual, stops>>

TokenTypes == {"input", "cached_input", "output", "reasoning"}
Types == {"api_call"} \cup TokenTypes
Periods == 1..LastPeriod
Workers == {"server", "manual"}
Totals == [Types -> Nat]
RollupRow == [totals : Totals, cost_micros : Nat]
Run == [period : Periods, rows : SUBSET [tenant : Tenants, totals : Totals]]

ASSUME RollupAssumption ==
    /\ TokenPricing \in [TokenTypes -> Nat]
    /\ UsageRows \subseteq [tenant : Tenants, type : Types, quantity : Nat]
    /\ LastPeriod \in Nat \ {0}
    /\ {MaxEvents, MaxManual, MaxStops} \subseteq Nat
    /\ None \notin RollupRow
    /\ None \notin Run

-----------------------------------------------------------------------------
(* Prices *)

\* Rule B: reasoning tokens have the rate of output tokens; a call has no price.
MicrosPer1K(type) ==
    CASE type = "api_call"  -> 0
      [] type = "reasoning" -> TokenPricing["output"]
      [] OTHER              -> TokenPricing[type]

CostMicrosFor_RoundUp(type, n) == (n * MicrosPer1K(type) + 999) \div 1000

\* BigInt division: the cost is rounded down to whole micro-dollars.
CostMicrosFor(type, n) == (n * MicrosPer1K(type)) \div 1000

\* Rule C: each type's total is priced by itself, here and in GET /usage.
CostMicrosForTotals(sums) ==
    CostMicrosFor("input", sums["input"])
        + CostMicrosFor("cached_input", sums["cached_input"])
        + CostMicrosFor("output", sums["output"])
        + CostMicrosFor("reasoning", sums["reasoning"])

\* GET /usage reads the rows of usage_events, never a rollup.
UsageCost(t, p) == CostMicrosForTotals(totals[t][p])

-----------------------------------------------------------------------------
(* Actions *)

Record_DuringRollup(row) ==
    /\ counted[row.tenant][clock] < MaxEvents
    /\ totals' = [totals EXCEPT ![row.tenant][clock][row.type] = @ + row.quantity]
    /\ counted' = [counted EXCEPT ![row.tenant][clock] = @ + 1]
    /\ priced' = [priced EXCEPT ![row.tenant][clock] =
                      @ + CostMicrosFor(row.type, row.quantity)]
    /\ UNCHANGED <<clock, rollups, run, manual, stops>>

\* POST /generate inserts a row; the server is then not inside a rollup.
Record(row) ==
    /\ run["server"] = None
    /\ counted[row.tenant][clock] < MaxEvents
    /\ totals' = [totals EXCEPT ![row.tenant][clock][row.type] = @ + row.quantity]
    /\ counted' = [counted EXCEPT ![row.tenant][clock] = @ + 1]
    /\ priced' = [priced EXCEPT ![row.tenant][clock] =
                      @ + CostMicrosFor(row.type, row.quantity)]
    /\ UNCHANGED <<clock, rollups, run, manual, stops>>

\* The SELECT: one row for every tenant that has usage in the month.
Read(w, p) ==
    /\ run[w] = None
    /\ run' = [run EXCEPT ![w] =
           [period |-> p,
            rows |-> {[tenant |-> t, totals |-> totals[t][p]] :
                          t \in {u \in Tenants : counted[u][p] > 0}}]]
    /\ UNCHANGED <<clock, usageVars, rollups, stops>>

\* The job rollup.run, which server.js enqueues with no month: the current one.
ServerRead == Read("server", clock) /\ UNCHANGED manual

\* npm run rollup, for any month.
ManualRead(p) ==
    /\ manual < MaxManual
    /\ Read("manual", p)
    /\ manual' = manual + 1

Write_WithoutCost(w) ==
    /\ run[w] # None
    /\ \E row \in run[w].rows :
          /\ rollups' = [rollups EXCEPT ![row.tenant][run[w].period] =
                             [totals |-> row.totals, cost_micros |-> None]]
          /\ run' = [run EXCEPT ![w].rows = @ \ {row}]
    /\ UNCHANGED <<clock, usageVars, manual, stops>>

Write_Adds(w) ==
    /\ run[w] # None
    /\ \E row \in run[w].rows :
          LET old == rollups[row.tenant][run[w].period]
              sums == [type \in Types |->
                  row.totals[type] + (IF old = None THEN 0 ELSE old.totals[type])]
          IN  /\ rollups' = [rollups EXCEPT ![row.tenant][run[w].period] =
                     [totals |-> sums, cost_micros |-> CostMicrosForTotals(sums)]]
              /\ run' = [run EXCEPT ![w].rows = @ \ {row}]
    /\ UNCHANGED <<clock, usageVars, manual, stops>>

Write_DoNothing(w) ==
    /\ run[w] # None
    /\ \E row \in run[w].rows :
          /\ rollups' = [rollups EXCEPT ![row.tenant][run[w].period] =
                 IF @ # None THEN @
                 ELSE [totals |-> row.totals,
                       cost_micros |-> CostMicrosForTotals(row.totals)]]
          /\ run' = [run EXCEPT ![w].rows = @ \ {row}]
    /\ UNCHANGED <<clock, usageVars, manual, stops>>

\* The upsert: INSERT ... ON CONFLICT (tenant_id, period) DO UPDATE.
Write(w) ==
    /\ run[w] # None
    /\ \E row \in run[w].rows :
          /\ rollups' = [rollups EXCEPT ![row.tenant][run[w].period] =
                 [totals |-> row.totals, cost_micros |-> CostMicrosForTotals(row.totals)]]
          /\ run' = [run EXCEPT ![w].rows = @ \ {row}]
    /\ UNCHANGED <<clock, usageVars, manual, stops>>

Finish(w) ==
    /\ run[w] # None
    /\ run[w].rows = {}
    /\ run' = [run EXCEPT ![w] = None]
    /\ UNCHANGED <<clock, usageVars, rollups, manual, stops>>

\* A statement throws, or the process ends: what was written stays.
Stop(w) ==
    /\ run[w] # None
    /\ stops < MaxStops
    /\ run' = [run EXCEPT ![w] = None]
    /\ stops' = stops + 1
    /\ UNCHANGED <<clock, usageVars, rollups, manual>>

\* The calendar month ends, whatever is running.
NextMonth ==
    /\ clock < LastPeriod
    /\ clock' = clock + 1
    /\ UNCHANGED <<usageVars, rollups, run, manual, stops>>

ZeroOfEach == [type \in Types |-> 0]

Init ==
    /\ clock = 1
    /\ totals = [t \in Tenants |-> [p \in Periods |-> ZeroOfEach]]
    /\ counted = [t \in Tenants |-> [p \in Periods |-> 0]]
    /\ priced = counted
    /\ rollups = [t \in Tenants |-> [p \in Periods |-> None]]
    /\ run = [w \in Workers |-> None]
    /\ manual = 0
    /\ stops = 0

Next ==
    \/ \E row \in UsageRows : Record(row)
    \/ ServerRead
    \/ \E p \in Periods : ManualRead(p)
    \/ \E w \in Workers : Write(w) \/ Finish(w) \/ Stop(w)
    \/ NextMonth

Spec == Init /\ [][Next]_vars

\* The timer keeps enqueueing the job, and a job that runs goes on.
Fairness ==
    /\ WF_vars(ServerRead)
    /\ WF_vars(Write("server"))
    /\ WF_vars(Finish("server"))

FairSpec == Spec /\ Fairness

-----------------------------------------------------------------------------
(* Properties *)

\* Every variable holds what its table or its place in a run allows.
TypeOK ==
    /\ clock \in Periods
    /\ totals \in [Tenants -> [Periods -> Totals]]
    /\ counted \in [Tenants -> [Periods -> 0..MaxEvents]]
    /\ priced \in [Tenants -> [Periods -> Nat]]
    /\ rollups \in [Tenants -> [Periods -> RollupRow \cup {None}]]
    /\ run \in [Workers -> Run \cup {None}]
    /\ manual \in 0..MaxManual
    /\ stops \in 0..MaxStops

\* Nothing of sums is beyond what has been recorded for the tenant and month.
IsPast(sums, t, p) == \A type \in Types : sums[type] <= totals[t][p][type]

\* A rollup, whichever of two runs wrote it and however late, never claims more
\* usage or more money than GET /usage computes from the rows themselves.
RollupIsPast ==
    \A t \in Tenants, p \in Periods : rollups[t][p] # None =>
        /\ IsPast(rollups[t][p].totals, t, p)
        /\ rollups[t][p].cost_micros <= UsageCost(t, p)

\* What makes it so: neither do the rows a run has read and not yet written.
ReadIsPast ==
    \A w \in Workers : run[w] # None =>
        \A row \in run[w].rows : IsPast(row.totals, row.tenant, run[w].period)

\* In the server nothing is recorded between the SELECT and the last upsert.
ServerReadIsCurrent ==
    run["server"] # None =>
        \A row \in run["server"].rows : row.totals = totals[row.tenant][run["server"].period]

\* So only an npm run rollup under way can take a rollup back: no other step, the
\* server's late upserts over a row the script wrote meanwhile included, lowers what a
\* tenant's month is said to have used or to cost.
RollupsOnlyGrow ==
    [][\A t \in Tenants, p \in Periods : rollups[t][p] # None /\ run["manual"] = None =>
          /\ rollups'[t][p] # None
          /\ \A type \in Types : rollups[t][p].totals[type] <= rollups'[t][p].totals[type]
          /\ rollups[t][p].cost_micros <= rollups'[t][p].cost_micros]_vars

\* Rounding: the cost of a whole month, as GET /usage and the rollups make it of its
\* totals, is never below the sum of its events' own costs, which is how the repository's
\* README says rollups round, and above that sum by fewer micro-dollars than it has rows.
CostBounds ==
    \A t \in Tenants, p \in Periods :
        LET gap == UsageCost(t, p) - priced[t][p]
        IN  gap >= 0 /\ (gap = 0 \/ gap < counted[t][p])

\* With it: a month without rows has no usage, so its first row costs what it adds.
EmptyMonthIsUnused ==
    \A t \in Tenants, p \in Periods : counted[t][p] = 0 => totals[t][p] = ZeroOfEach

InductiveInvariant ==
    /\ TypeOK
    /\ RollupIsPast /\ ReadIsPast /\ ServerReadIsCurrent
    /\ CostBounds /\ EmptyMonthIsUnused

\* Once usage comes to rest, the current month's rollups come to show it, though
\* a run beside the server's may have put older totals over newer ones.
RollupCatchesUp ==
    <>[](\A t \in Tenants : counted[t][clock] > 0 =>
            /\ rollups[t][clock] # None
            /\ rollups[t][clock].totals = totals[t][clock])

=============================================================================
