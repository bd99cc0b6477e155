------------------------------ MODULE MCIntake ------------------------------
(* Intake on a small instance, for TLC. *)
EXTENDS Intake, TLC

CONSTANTS
  shoe, hat,  \* orders
  page, shop, returned, withdrawn, session, intent, firstBack, allBack  \* events

Tells(from, about, order, part, claimed) ==
  [from |-> from, about |-> about, order |-> order, part |-> part, claimed |-> claimed]

\* The merchant's page and the shop tell of shoe.  The payment provider tells of hat twice, once
\* without the click token, and of what its charge has returned so far.
Reported ==
  (page      :> Tells("pixel", "order", shoe, 0, TRUE)) @@
  (shop      :> Tells("shopify", "order", shoe, 0, TRUE)) @@
  (returned  :> Tells("shopify", "refund", shoe, 2, FALSE)) @@
  (withdrawn :> Tells("shopify", "cancel", shoe, 0, FALSE)) @@
  (session   :> Tells("stripe", "order", hat, 0, TRUE)) @@
  (intent    :> Tells("stripe", "order", hat, 0, FALSE)) @@
  (firstBack :> Tells("stripe", "refund", hat, 1, FALSE)) @@
  (allBack   :> Tells("stripe", "refund", hat, 3, FALSE))

\* The amounts above are such.
ASSUME Sensible == RefundsAddUp

Symmetric == Permutations(Requests)
============================================================================
