\* One process, as deployed; an endpoint disabled after two exhausted deliveries of three.
CONSTANTS
  Deliveries = {d1, d2, d3}
  Subs = {s1}
  Workers = {w1}
  Null = Null
  MaxAttempts = 2
  MaxRetries = 0
  MaxSlips = 0
  MaxCrashes = 1
  DisableAfter = 2
  MaxEdits = 2
SPECIFICATION Spec
INVARIANT AutoPause
PROPERTY DeliverySettles
\* Nothing is left to do when every delivery is settled.
CHECK_DEADLOCK FALSE
