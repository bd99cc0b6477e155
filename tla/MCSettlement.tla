--------------------------- MODULE MCSettlement ---------------------------
(* Settlement on a small workspace, for TLC. *)
EXTENDS Settlement, Rates, TLC

MCAdjustments == {-1}

\* The terms of the sales: an affiliate's own percentage, before the program's amount.
Program == [model |-> "fixed", bps |-> {}, fixed |-> {1}, leads |-> FALSE, lead |-> 0]
Own == [bps |-> {10000}, fixed |-> {}]

MCEarnings ==
  {ComputeCommission(amount, rate) :
     amount \in SaleAmounts, rate \in ResolveRate({}, {Own}, {}, {}, Program)}

\* What SettlementProofs proves for all numbers, on small ones.
ASSUME RatesOnSmallAmounts ==
  \A amount \in 0..20, bps \in {0, 50, 1250, 3333, 5000, 10000} :
    LET earned == ComputeCommission(amount, Percentage(bps))
    IN  /\ earned \in 0..amount
        /\ earned <= ComputeCommission(amount + 1, Percentage(bps))
        /\ \A refunded \in 0..amount - 1 :
             Proportion(earned, amount - refunded - 1, amount)
               <= Proportion(earned, amount - refunded, amount)

\* Three sales, the last of them refunded; a tier from two sales on, a better one from revenue 50.
SaleOf(n, refunded) ==
  [id |-> n, kind |-> "sale", test |-> FALSE, at |-> n, amount |-> 20, refunded |-> refunded,
   status |-> IF refunded = 20 THEN "reversed" ELSE "approved"]

Tier(metric, threshold, days) ==
  [kind |-> "performance", group |-> Null, metric |-> metric, threshold |-> threshold,
   days |-> days, priority |-> 0, model |-> "percentage", bps |-> {2000}, fixed |-> {}]

ASSUME TiersOnThreeSales ==
  \A days \in {{}, {1}}, refunded \in {0, 10, 20} :
    LET tiers == {Tier("conversions", 2, days), Tier("revenue", 50, days)}
        sales == {SaleOf(1, 0), SaleOf(2, 0), SaleOf(3, refunded)}
        figure == [t \in tiers |-> Performance(t, sales, 4, 4)]
        top == ResolveTier(tiers, {}, figure)
    IN  top = IF days = {1} THEN {}
              ELSE IF refunded = 20 THEN {Tier("conversions", 2, days)}
              ELSE {Tier("revenue", 50, days)}

Symmetric == Permutations(Orders) \cup Permutations(Affiliates)

============================================================================
