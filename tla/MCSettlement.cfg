\* Two sales, or one reattributed; one adjustment or clawback; two batches.
CONSTANTS
  Orders = {o1, o2}
  Affiliates = {a1}
  Null = Null
  SaleAmounts = {2}
  Earnings <- MCEarnings
  Adjustments <- MCAdjustments
  TestModes = {FALSE}
  Threshold = 2
  MaxCommissions = 2
  MaxEntries = 1
  MaxPayouts = 2
SYMMETRY Symmetric
SPECIFICATION Spec
INVARIANTS
  TypeOK
  LedgerMatchesRows
  OnlyLatestIsOpen
  NoDoublePay
  NothingStranded
  NeverShort
PROPERTY PaidIsFinal
\* Every sale may be closed, every batch paid and every row of the bounded tables used.
CHECK_DEADLOCK FALSE
