-------------------------- MODULE MCWebhookIngest --------------------------
(***************************************************************************)
(* A delivery and its redelivery, or two deliveries under keys of their    *)
(* own with equal or different bodies; two faults, so that an event can    *)
(* use up its retries, and a restart of the gateway.                       *)
(***************************************************************************)
EXTENDS WebhookIngest, TLC

Symmetry == Permutations(Requests) \cup Permutations(Keys)
=============================================================================
