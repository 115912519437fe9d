\* A restart and no fault.
CONSTANTS
  MaxRetries <- MCNoRetry
  Executors = {"wallet", "gateway", "payment"}
  Faults = {}
  MaxFaults = 0
  MaxStarts = 2
SPECIFICATION Spec
INVARIANTS
  CompensatedMeansRefunded
\* One saga, that ends.
CHECK_DEADLOCK FALSE
