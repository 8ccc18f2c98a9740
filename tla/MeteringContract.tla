-------------------------- MODULE MeteringContract --------------------------
(***************************************************************************)
(* The row-by-row handler of Metering implements the atomic billing of     *)
(* MeterContract, when nothing fails, no key is shared between tenants and *)
(* the month does not end.                                                 *)
(***************************************************************************)
EXTENDS Metering

\* A request is spent when its response is stored: until then the rows it has
\* written do not count, which is usage as the handler read it on admission.
Settled(t) ==
    LET q == IF req # None /\ req.tenant = t THEN req.before ELSE usage[t][1]
    IN  [calls |-> q["api_call"], tokens |-> Tokens(q)]

\* A request is served under the account it was loaded with, whatever is written to the
\* tenant's row while it is in the handler.
Terms(t) == IF req # None /\ req.tenant = t THEN req.account ELSE account[t]

BillOfResponse(r) ==
    [tenant |-> r.tenant, key |-> r.key, calls |-> r.quantities["api_call"],
     tokens |-> Tokens(r.quantities)]

\* An answer by what it says, not by its status: the contract does not tell a repeated
\* key's status from a new one's.
OutcomeOf(answered) ==
    CASE answered.duplicate                                 -> "repeated"
      [] ~answered.duplicate /\ answered.status = 201       -> "billed"
      [] ~answered.duplicate /\ answered.status = 402       -> "unpaid"
      [] ~answered.duplicate /\ answered.status = 403       -> "forbidden"
      [] ~answered.duplicate /\ answered.status = 429       -> "exceeded"

\* The answer with the bill its response stands for.
AnswerOfReply ==
    IF reply = None THEN None
    ELSE [outcome |-> OutcomeOf(reply),
          bill |-> IF reply.base = None THEN None ELSE BillOfResponse(reply.base)]

UsagesOfBodies ==
    {[calls |-> 1, tokens |-> Tokens(SimulateTokens(body))] : body \in Bodies}

Contract == INSTANCE MeterContract WITH
    terms <- [t \in Tenants |-> Terms(t)],
    spent <- [t \in Tenants |-> Settled(t)],
    bills <- {BillOfResponse(r) : r \in responses},
    answer <- AnswerOfReply,
    Usages <- UsagesOfBodies

\* Recording a request in several committed writes, with duplicate detection in
\* the middle, alerts between and the seed changing plans meanwhile, looks to every
\* client like one atomic charge: once per key, in full, within the limits it was
\* accepted under, and repeated verbatim.
ImplementsContract == Contract!Spec

\* What counts against a tenant's limits is what the responses it was given, or can be
\* shown again, add up to: the rows of a request are all its response says it used.
SettledIsBilled == Contract!SpentIsBilled

-----------------------------------------------------------------------------
(* What the implementation rests on, under those circumstances *)

\* No key is used by two tenants.
KeysArePrivate ==
    \A t, u \in Tenants : KeysOf[t] \cap KeysOf[u] # {} => t = u

\* Every row and every request is of a key of its tenant's.
KeysAreOwn ==
    /\ \A e \in events : e.key \in KeysOf[e.tenant]
    /\ req # None => req.key \in KeysOf[req.tenant]

\* No rows are left behind: each has its response or is of the request in the handler,
\* which therefore finds no sub-key of its own in the table and is no duplicate.
NothingHalfRecorded ==
    /\ \A e \in events :
          \/ Stored(e.tenant, e.key) # {}
          \/ /\ req # None
             /\ e.tenant = req.tenant /\ e.key = req.key
             /\ e.type \in req.recorded
    /\ req # None => req.recorded = TypesOf(req.quantities) \ req.pending

\* What was found on admission still holds of the account loaded then: it may use the
\* service, and the whole request fits on top of what was settled.
RequestIsGranted ==
    req # None =>
        /\ \E body \in Bodies : req.quantities = SimulateTokens(body)
        /\ Contract!MayUse(req.account)
        /\ Contract!Fits(req.tenant, [calls |-> 1, tokens |-> Tokens(req.quantities)])

ContractInvariant == KeysAreOwn /\ NothingHalfRecorded /\ RequestIsGranted

=============================================================================
