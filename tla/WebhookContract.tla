--------------------------- MODULE WebhookContract ---------------------------
(* The webhook shown to implement Entitlement. *)
EXTENDS WebhookSync

\* The plan and the customer are columns of the tenants table; an event has had its
\* effect when a job of it has come to its end.
Contract == INSTANCE Entitlement WITH
    plan <- [t \in Tenants |-> tenant[t].plan],
    customer <- [t \in Tenants |-> tenant[t].customer],
    applied <- {e \in Events : handled[e] > 0}

\* Through redelivery, retries of half-done handlers, restarts and markers that
\* are cleared or stay, the tenants table moves by whole events, each at most once.
ImplementsContract == Contract!Spec

=============================================================================
