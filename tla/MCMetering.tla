----------------------------- MODULE MCMetering -----------------------------
(* Constants for model-checking Metering. *)
EXTENDS MeteringContract, FiniteSetsExt, TLC

CONSTANTS t1, t2, k1, k2, k3

\* Every tenant may choose any key, as nothing keeps it from one another tenant uses.
SharedKeys == [t \in Tenants |-> Keys]

\* No two tenants use the same key: t1 has two of them, t2 the other one.
PrivateKeys == [t \in Tenants |-> IF t = t1 THEN {k1, k2} ELSE {k3}]

\* A plain request of 2 tokens, and one of 3 with a cached prompt and reasoning:
\* the two differ in the sub-keys they use.
MCBodies ==
    {[bytes |-> 1, max_output_tokens |-> 1, reasoning_tokens |-> None,
      cache_input |-> FALSE],
     [bytes |-> 4, max_output_tokens |-> 1, reasoning_tokens |-> 5,
      cache_input |-> TRUE]}

\* Two that have three rows each, where rollups and months multiply the states: one of
\* 2 tokens, and one of 3 with a cached prompt.
ShortBodies ==
    {[bytes |-> 1, max_output_tokens |-> 1, reasoning_tokens |-> None,
      cache_input |-> FALSE],
     [bytes |-> 4, max_output_tokens |-> 2, reasoning_tokens |-> None,
      cache_input |-> TRUE]}

Free == [status |-> "active", plan |-> "free", subscription |-> None]
FreeSubscribed == [status |-> "active", plan |-> "free", subscription |-> "active"]
Pro == [status |-> "active", plan |-> "pro", subscription |-> "active"]
ProPastDue == [status |-> "active", plan |-> "pro", subscription |-> "past_due"]
Suspended == [status |-> "suspended", plan |-> "free", subscription |-> None]

\* t1 moves between the plans, t2 in and out of the accounts that are turned away.
MixedAccounts == [t \in Tenants |->
    IF t = t1 THEN {Free, Pro} ELSE {Pro, ProPastDue, Suspended}]

\* A subscriber whose plan npm run seed can put back on free.
GoodAccounts == [t \in Tenants |-> {FreeSubscribed, Pro}]

\* t1 is the demo tenant that is seeded on the free plan.
SeedFree == [t \in Tenants |-> IF t = t1 THEN "free" ELSE None]
NoSeed == [t \in Tenants |-> None]

\* Small limits, so that a second request of a month is at or over the free plan's.
MCApiLimit == [plan \in Plans |-> IF plan = "free" THEN 1 ELSE 2]
MCTokenLimit == [plan \in Plans |-> IF plan = "free" THEN 4 ELSE 5]

\* SumOfQuantities is the sum of the quantities.
SampleRows == [key : {k1, k2}, quantity : 0..4]
ASSUME SumAssumption ==
    \A rows \in SUBSET SampleRows :
        SumOfQuantities(rows) = MapThenSumSet(LAMBDA row : row.quantity, rows)

\* Keys are interchangeable where every tenant may use every key.
KeySymmetry == Permutations(Keys)

=============================================================================
