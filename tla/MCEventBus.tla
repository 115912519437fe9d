----------------------------- MODULE MCEventBus -----------------------------
(* Instances of EventBus and MetricsService for TLC.  What a handler of the  *)
(* metrics records is any value, at any time, so that the two need not be  *)
(* interleaved: the first state says which of them moves.                  *)
EXTENDS EventBus, MetricsService

\* One rule wants a high value, the other, whose calls may always fail, a low.
MCMetricName == [r \in Rules |-> "payment_failed"]
MCCondition == [r \in Rules |-> IF r = "high" THEN "gt" ELSE "lte"]
MCThreshold == [r \in Rules |-> 1]
MCDuration == [r \in Rules |-> 1]

VARIABLE moving

MCInit == moving \in {"bus", "metrics"} /\ Init /\ InitMetrics

MCNext ==
  \/ moving = "bus" /\ Next /\ UNCHANGED <<moving, metricsVars>>
  \/ moving = "metrics" /\ NextMetrics /\ UNCHANGED <<moving, vars>>

MCSpec ==
  /\ MCInit /\ [][MCNext]_<<moving, vars, metricsVars>>
  /\ \A l \in Loops : WF_vars(moving = "bus" /\ Step(l))
  /\ WF_vars(moving = "bus" /\ StartMain)
  /\ WF_vars(moving = "bus" /\ Join /\ ~joined)
  /\ WF_metricsVars(moving = "metrics" /\ CheckerStep)
  /\ WF_metricsVars(moving = "metrics" /\ TimePasses)
=============================================================================
