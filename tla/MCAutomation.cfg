\* Two workers and three events, with two edits by people or interrupted jobs.
CONSTANTS
  Workers = {w1, w2}
  Events = {e1, e2, e3}
  Entities = {sale, other}
  EntityOf <- Told
  Rules <- Shop
  Tags = {vip}
  MaxCalls = 2
  Null = Null
  e1 = e1
  e2 = e2
  e3 = e3
  sale = sale
  other = other
  vip = vip
SPECIFICATION Spec
SYMMETRY Symmetric
INVARIANTS
  ActsOnce
  FactsCurrent
\* All events are processed.
CHECK_DEADLOCK FALSE
