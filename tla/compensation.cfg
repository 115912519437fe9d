\* Two compensations, and a queue of one for two events.
CONSTANTS
  p1 = p1  p2 = p2  e1 = e1  e2 = e2
  Events = {e1, e2}
  MaxSize = 1
  Payments = {p1, p2}
  Completed <- MCCompleted
  MaxRetries = 1
  MaxFailures = 2
SPECIFICATION Spec
INVARIANTS
  LettersAreKept
  RefundsAreExplained
