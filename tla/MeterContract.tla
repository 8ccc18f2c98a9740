---------------------------- MODULE MeterContract ----------------------------
(***************************************************************************)
(* What POST /generate promises its clients within one month: a key is     *)
(* billed once, in full and in one step, never beyond the plan's limits;   *)
(* the same key again is answered with the original bill; a refusal leaves *)
(* everything as it was.                                                   *)
(***************************************************************************)
EXTENDS Integers, FiniteSets

CONSTANTS
    Tenants, Keys, Plans,
    ApiLimit, TokenLimit,   \* the plans' monthly limits
    Usages,                 \* what one request may use: [calls, tokens]
    None

VARIABLES
    terms,      \* terms[t]: the status, plan and subscription status t is served under
    spent,      \* spent[t]: the calls and tokens billed to t this month
    bills,      \* the bills issued: [tenant, key, calls, tokens]
    answer      \* the answer just sent, or None

vars == <<terms, spent, bills, answer>>

BillOf(t, k) == {b \in bills : b.tenant = t /\ b.key = k}

MayUse(acct) ==
    /\ acct.status # "suspended"
    /\ acct.plan = "free" \/ acct.subscription \in {"active", "trialing"}

Fits(t, use) ==
    /\ spent[t].calls + use.calls <= ApiLimit[terms[t].plan]
    /\ spent[t].tokens + use.tokens <= TokenLimit[terms[t].plan]

\* Whose terms may be other ones after a step.
ChangesTermsOf(t) == \A u \in Tenants \ {t} : terms'[u] = terms[u]

\* A new key is billed: the only step that spends. It is billed on the terms on which
\* it was accepted; the terms of what follows may have changed meanwhile.
Charge(t, k, use) ==
    LET bill == [tenant |-> t, key |-> k, calls |-> use.calls, tokens |-> use.tokens]
    IN  /\ BillOf(t, k) = {}
        /\ MayUse(terms[t])
        /\ Fits(t, use)
        /\ bills' = bills \cup {bill}
        /\ spent' = [spent EXCEPT ![t] = [calls |-> @.calls + use.calls,
                                          tokens |-> @.tokens + use.tokens]]
        /\ answer' = [outcome |-> "billed", bill |-> bill]
        /\ ChangesTermsOf(t)

\* A key that was billed is answered with its bill, whatever the quota says now.
Repeat(t, k) ==
    /\ terms[t].status # "suspended"
    /\ \E bill \in BillOf(t, k) : answer' = [outcome |-> "repeated", bill |-> bill]
    /\ UNCHANGED <<terms, spent, bills>>

\* A refusal has its reason and changes nothing.
Refuse(t, k, use) ==
    /\ \/ /\ terms[t].status = "suspended"
          /\ answer' = [outcome |-> "forbidden", bill |-> None]
       \/ /\ terms[t].status # "suspended"
          /\ BillOf(t, k) = {}
          /\ ~MayUse(terms[t])
          /\ answer' = [outcome |-> "unpaid", bill |-> None]
       \/ /\ BillOf(t, k) = {}
          /\ MayUse(terms[t])
          /\ ~Fits(t, use)
          /\ answer' = [outcome |-> "exceeded", bill |-> None]
    /\ UNCHANGED <<terms, spent, bills>>

ChangeTerms(t) ==
    /\ ChangesTermsOf(t)
    /\ answer' = None
    /\ UNCHANGED <<spent, bills>>

\* Nothing is being answered: a request is under way.
Quiet ==
    /\ answer' = None
    /\ UNCHANGED <<terms, spent, bills>>

Init ==
    /\ spent = [t \in Tenants |-> [calls |-> 0, tokens |-> 0]]
    /\ bills = {}
    /\ answer = None

Next ==
    \/ \E t \in Tenants, k \in Keys :
          \/ \E use \in Usages : Charge(t, k, use) \/ Refuse(t, k, use)
          \/ Repeat(t, k)
    \/ \E t \in Tenants : ChangeTerms(t)
    \/ Quiet

Spec == Init /\ [][Next]_vars

-----------------------------------------------------------------------------
(* Properties *)

\* The calls or the tokens of t's bills, one by one: as many as they add up to.
UnitsBilled(t, what) == UNION {{b} \X (1..b[what]) : b \in {c \in bills : c.tenant = t}}

\* What counts against a tenant's limits is what its bills add up to: nothing is
\* spent that no client was told of, and nothing is billed that does not count.
SpentIsBilled ==
    \A t \in Tenants : \A what \in {"calls", "tokens"} :
        spent[t][what] = Cardinality(UnitsBilled(t, what))

=============================================================================
