------------------------- MODULE MCProviderPayouts -------------------------
(* ProviderPayouts on a small instance, for TLC. *)
EXTENDS ProviderPayouts, TLC

Symmetric == Permutations(Payouts) \cup Permutations(People)
============================================================================
