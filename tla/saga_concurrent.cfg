\* Two runs of one saga: recovery races with the request, also after a restart.
CONSTANTS
  MaxRetries <- MCNoRetry
  Executors = {"wallet", "gateway", "payment"}
  Faults = {}
  MaxFaults = 0
  MaxStarts = 2
SPECIFICATION FairSpec
INVARIANTS
  RowIsTrue
PROPERTY BegunSagasEnd
\* One saga, that ends.
CHECK_DEADLOCK FALSE
