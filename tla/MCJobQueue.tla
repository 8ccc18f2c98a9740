----------------------------- MODULE MCJobQueue -----------------------------
(* Constants for model-checking JobQueue. *)
EXTENDS JobQueue

CONSTANTS j1, j2, j3

\* jobs/index.js registers handlers by name; nothing checks a name when it is enqueued.
MCRegistered == {"webhook.process"}
MCNames == MCRegistered \cup {"unknown"}

=============================================================================
