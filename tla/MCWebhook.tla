----------------------------- MODULE MCWebhook ------------------------------
(* Two callers with two calls each against a breaker that opens at the       *)
(* second failure: enough for a caller to be mid-retry when another trips it *)
(* and for calls to be rejected before and admitted after the timeout.       *)
EXTENDS Webhook

CONSTANTS c1, c2

MCCallers == {c1, c2}
=============================================================================
