\* Two affiliates, two programs, two leads of one person and three calls on two connections.
CONSTANTS
  Requests = {r1, r2}
  Partners = {anna, ben}
  Programs = {open, screened}
  Mode <- Modes
  Limits = {1, 2}
  MaxCalls = 3
  Null = Null
  Leads = {early, later}
  Terms <- MCTerms
  Offers = {}
  Sells = {}
  Claim <- Claims
  anna = anna
  ben = ben
  open = open
  screened = screened
  early = early
  later = later
  r1 = r1
  r2 = r2
SYMMETRY Symmetric
SPECIFICATION Spec
INVARIANTS
  WithinLimit
  ShutOut
  OnePayPerPerson
  VerdictHolds
PROPERTIES
  NeverDemoted
\* All calls are made.
CHECK_DEADLOCK FALSE
