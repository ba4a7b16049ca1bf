------------------------ MODULE MC_OutboundWebhooks ------------------------
(* Small instances of OutboundWebhooks. *)
EXTENDS OutboundWebhooks

\* Every subscription wants every message.
MCWants == Delivery
=============================================================================
