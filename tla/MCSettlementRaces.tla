------------------------- MODULE MCSettlementRaces -------------------------
(* SettlementRaces on a small instance, for TLC. *)
EXTENDS SettlementRaces, TLC

Symmetric == Permutations(Sessions) \cup Permutations(Payouts) \cup Permutations(Disputes)
============================================================================
