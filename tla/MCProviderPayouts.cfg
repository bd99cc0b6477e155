\* Two requests that may overlap, one worker, one commission that may be drawn three times, one crash
\* and one retry of each job by an admin, and three requests besides the draws.
CONSTANTS
  Payouts = {p1, p2, p3}
  Rows = {k1}
  People = {h1, h2}
  Workers = {w1}
  Null = Null
  MaxAttempts = 2
  MaxRetries = 1
  MaxSlips = 0
  MaxCrashes = 1
  MaxAsks = 3
SYMMETRY Symmetric
SPECIFICATION Spec
INVARIANTS
  OnePaymentPerBatch
  PaidTwiceOnlyInDoubt
  QueuedHasJob
\* Nothing is left to do when every batch is settled.
CHECK_DEADLOCK FALSE
