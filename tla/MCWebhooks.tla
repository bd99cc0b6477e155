---------------------------- MODULE MCWebhooks ----------------------------
(* Webhooks on a small instance, for TLC. *)
EXTENDS Webhooks, TLC

Symmetric == Permutations(Deliveries) \cup Permutations(Workers)
============================================================================
