-------------------------- MODULE MCWebhookIntake --------------------------
(* Small instances of WebhookIntake for TLC; see the cfg files that use it. *)
EXTENDS WebhookIntake

CONSTANTS d1, d2, d3, h1, h2
=============================================================================
