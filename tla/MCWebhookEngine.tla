---------------------------- MODULE MCWebhookEngine ----------------------------
(* A small instance of WebhookEngine for TLC. *)
EXTENDS WebhookEngine, TLC

==============================================================================
