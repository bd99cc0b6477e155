\* Two connections, four calls in all on a sale of two units that may be refunded one by one.
CONSTANTS
  Sessions = {s1, s2}
  Payouts = {p1, p2}
  Disputes = {d1, d2}
  Amount = 2
  MaxCalls = 4
  MaxMeetings = 2
  Null = Null
SPECIFICATION Spec
SYMMETRY Symmetric
INVARIANTS
  RefundsWithin
  NoRefundLost
  LedgerFollowsRow
  PaidOnce
  CycleOnlyAgainstOrder
PROPERTIES
  HeldWhileOpen
  EndedStaysEnded
\* All calls are made.
CHECK_DEADLOCK FALSE
