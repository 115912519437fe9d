\* Three goroutines in the gateway at once, outages and resets.
CONSTANTS
  c1 = c1  c2 = c2  c3 = c3
  Callers = {c1, c2, c3}
  MaxFailures = 2
  MayReset = TRUE
SPECIFICATION FairSpec
INVARIANTS
  NeverOpensEarly
  SettledState
PROPERTIES
  Recovers
