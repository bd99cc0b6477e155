\* One sale and one batch: a refund after the batch is drawn.
CONSTANTS
  Orders = {o1}
  Affiliates = {a1}
  Null = Null
  SaleAmounts = {2}
  Earnings <- MCEarnings
  Adjustments <- MCAdjustments
  TestModes = {FALSE}
  Threshold = 2
  MaxCommissions = 1
  MaxEntries = 1
  MaxPayouts = 1
SPECIFICATION Spec
INVARIANT PayoutReconciles
\* Every sale may be closed and every batch paid.
CHECK_DEADLOCK FALSE
