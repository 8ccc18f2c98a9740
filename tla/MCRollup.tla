------------------------------ MODULE MCRollup ------------------------------
(* Constants for model-checking Rollup. *)
EXTENDS Rollup

CONSTANTS t1, t2

\* config.TOKEN_PRICING
MCTokenPricing == [type \in TokenTypes |->
    CASE type = "input" -> 3000 [] type = "cached_input" -> 300 [] OTHER -> 15000]

\* Two rows of t1's two cached tokens cost 0.6 micro-dollars each and 1.2 together,
\* two rows of t2's one token 0.3 and 0.6; t1's rows are of two types.
MCUsageRows ==
    {[tenant |-> t1, type |-> "cached_input", quantity |-> 2],
     [tenant |-> t1, type |-> "output", quantity |-> 1],
     [tenant |-> t2, type |-> "cached_input", quantity |-> 1]}

=============================================================================
