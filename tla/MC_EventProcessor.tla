--------------------------- MODULE MC_EventProcessor ---------------------------
(* EventProcessor with two api events and one audit event.               *)
EXTENDS EventProcessor

CONSTANTS e1, e2, e3

MC_Events == {e1, e2, e3}

\* e3 is an audit log: Kafka sends it to the audit topic, which the
\* consumer does not read.
MC_Kind == (e1 :> "api_request" @@ e2 :> "api_request" @@ e3 :> "audit_log")

=============================================================================
