\* A fault of either kind, a restart and a retry; recovery may meet the request.
CONSTANTS
  MaxRetries <- MCOneRetry
  Executors = {"wallet", "gateway", "payment"}
  Faults = {"err", "lost"}
  MaxFaults = 1
  MaxStarts = 2
SPECIFICATION Spec
INVARIANTS
  StepsInOrder
  EffectsAreAccountedFor
  NeverUndoneTwice
  PaymentTellsTruth
PROPERTIES
  StateMovesForward
\* One saga, that ends.
CHECK_DEADLOCK FALSE
