\* Two processes, two jobs, one of each fault; the second attempt of a job is its last.
CONSTANTS
  JobIds = {j1, j2}
  Workers = {w1, w2}
  Null = Null
  MaxAttempts = 2
  MaxRetries = 1
  MaxSlips = 1
  MaxCrashes = 1
SPECIFICATION Spec
INVARIANTS
  ClaimedOnce
  CommitBudget
  AttemptsSpent
  DoneMeansDone
  StuckOnlyByCrash
PROPERTY Settles
\* The queue rests when every job is settled.
CHECK_DEADLOCK FALSE
