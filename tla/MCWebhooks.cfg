\* Two processes during a deployment; two deliveries of one endpoint that is disabled after one
\* exhausted delivery; the second attempt of a job is its last.
CONSTANTS
  Deliveries = {d1, d2}
  Subs = {s1}
  Workers = {w1, w2}
  Null = Null
  MaxAttempts = 2
  MaxRetries = 1
  MaxSlips = 1
  MaxCrashes = 0
  DisableAfter = 1
  MaxEdits = 0
SPECIFICATION Spec
INVARIANTS
  AcceptedOnce
  PendingHasJob
PROPERTIES
  SettledIsFinal
  ImplementsQueue
SYMMETRY Symmetric
\* Nothing is left to do when every delivery is settled.
CHECK_DEADLOCK FALSE
