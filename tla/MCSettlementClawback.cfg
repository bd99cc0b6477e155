\* One sale and one batch: two corrections of a commission already paid.
CONSTANTS
  Orders = {o1}
  Affiliates = {a1}
  Null = Null
  SaleAmounts = {2}
  Earnings <- MCEarnings
  Adjustments <- MCAdjustments
  TestModes = {FALSE}
  Threshold = 2
  MaxCommissions = 1
  MaxEntries = 2
  MaxPayouts = 1
SPECIFICATION Spec
INVARIANT ClawbackWithinPaid
\* Every sale may be closed and every batch paid.
CHECK_DEADLOCK FALSE
