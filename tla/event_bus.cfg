\* Two payment events and others, two loops, a restart and a rebalance; two
\* rules for one metric.
CONSTANTS
  Kinds = {"initiated"}
  MaxMessages = 2
  MaxStarts = 2
  MaxRebalances = 1
  MaxFaults = 1
  Metrics = {"payment_failed"}
  Values = {1, 2}
  Rules = {"high", "low"}
  NoRule = "none"
  MetricName <- MCMetricName
  Condition <- MCCondition
  Threshold <- MCThreshold
  Duration <- MCDuration
  Broken = {"low"}
  MaxFailures = 1
  Old = 2
SPECIFICATION MCSpec
INVARIANTS
  LossesAreKnown
  RepeatsAreKnown
  AlertsAreSpaced
PROPERTIES
  LoopsServeUntilStop
  BreachesAreReported
CHECK_DEADLOCK FALSE
