--------------------------- MODULE MetricsService ---------------------------
(***************************************************************************)
(* Metrics and alerts (internal/services/metrics/service.go, its tables in *)
(* pkg/database/repositories.go, the ticker of cmd/main.go): points of     *)
(* metrics are stored as events are handled, rules are added by requests,  *)
(* and one goroutine checks the rules whenever its ticker says so, all of  *)
(* them under one context of 30 seconds.                                   *)
(*                                                                         *)
(* Time is kept as ages, in units of the durations; an age that no rule    *)
(* tells from a greater one is Old.                                        *)
(***************************************************************************)
EXTENDS Integers, FiniteSets

CONSTANTS
  Metrics,     \* names of metrics
  Values,      \* values of their points
  Rules,       \* rules that requests may add
  NoRule,      \* none of them
  MetricName, Condition, Threshold, Duration,  \* fields of the rules
  Broken,      \* rules whose calls of the repository may fail for ever
  MaxFailures,   \* bound on the calls that fail otherwise
  Old          \* an age greater than every duration

ASSUME MetricsAssumption ==
  /\ Values \subseteq Int
  /\ NoRule \notin Rules
  /\ MetricName \in [Rules -> Metrics]
  /\ Condition \in [Rules -> {"gt", "lt", "eq", "gte", "lte"}]
  /\ Threshold \in [Rules -> Int]
  /\ Duration \in [Rules -> Nat \ {0}]
  /\ Broken \subseteq Rules
  /\ MaxFailures \in Nat
  /\ Old \in Nat /\ \A r \in Rules : Duration[r] < Old

VARIABLES
  alertRules,   \* the rules in the map
  latest,       \* latest[m]: value of the last point of metric m, 0 if none
  youngest,     \* youngest[m][v]: age of the last point of m with value v
  checker,      \* what the checker does
  rules,        \* the rules it has still to evaluate
  rule,         \* the rule it evaluates
  latestValue,  \* the value it has read
  expired,      \* the context of this check is over
  lastFired,    \* lastFired[r]: age of LastFired, Old if never set
  stored,       \* stored[r]: age of the last row of r in alerts
  published,    \* published[r]: age of the last event of r
  unsure,       \* rules with a row whose SaveAlert gave an error (aux.)
  failures      \* failed calls so far

pointVars == <<latest, youngest>>
checkVars == <<checker, rules, rule, latestValue, expired>>
alertVars == <<lastFired, stored, published, unsure>>
metricsVars == <<alertRules, pointVars, checkVars, alertVars, failures>>

Ages == 0..Old

AlertsTypeOK ==
  /\ alertRules \subseteq Rules
  /\ latest \in [Metrics -> Values \cup {0}]
  /\ youngest \in [Metrics -> [Values -> Ages]]
  /\ checker \in {"waiting", "next", "read", "test", "save", "publish", "fire"}
  /\ rules \subseteq alertRules
  /\ rule \in IF checker \in {"waiting", "next"} THEN {NoRule} ELSE alertRules
  /\ latestValue \in Values \cup {0}
  /\ expired \in BOOLEAN
  /\ lastFired \in [Rules -> Ages]
  /\ stored \in [Rules -> Ages]
  /\ published \in [Rules -> Ages]
  /\ unsure \subseteq Rules
  /\ failures \in 0..MaxFailures

InitMetrics ==
  /\ alertRules = {}
  /\ latest = [m \in Metrics |-> 0]
  /\ youngest = [m \in Metrics |-> [v \in Values |-> Old]]
  /\ checker = "waiting" /\ rules = {} /\ rule = NoRule /\ latestValue = 0
  /\ expired = FALSE
  /\ lastFired = [r \in Rules |-> Old]
  /\ stored = [r \in Rules |-> Old]
  /\ published = [r \in Rules |-> Old]
  /\ unsure = {} /\ failures = 0

Older(age) == IF age < Old THEN age + 1 ELSE Old

TimePasses ==
  /\ youngest' = [m \in Metrics |-> [v \in Values |-> Older(youngest[m][v])]]
  /\ lastFired' = [r \in Rules |-> Older(lastFired[r])]
  /\ stored' = [r \in Rules |-> Older(stored[r])]
  /\ published' = [r \in Rules |-> Older(published[r])]
  /\ UNCHANGED <<alertRules, latest, checkVars, unsure, failures>>

\* A handler of events records a value.  The event is refused by the publisher
\* (EventBus), the error of SaveMetric is dropped, and then nothing changes.
Record(m, v) ==
  /\ latest' = [latest EXCEPT ![m] = v]
  /\ youngest' = [youngest EXCEPT ![m][v] = 0]
  /\ UNCHANGED <<alertRules, checkVars, alertVars, failures>>

\* CreateAlertRuleHandler and AddAlertRule.
AddAlertRule(r) ==
  /\ r \notin alertRules
  /\ alertRules' = alertRules \cup {r}
  /\ UNCHANGED <<pointVars, checkVars, alertVars, failures>>

-----------------------------------------------------------------------------
(* CheckAlerts and evaluateAlertRule, in the goroutine of the ticker.      *)

\* The context is made, and the rules are copied under the lock.
CheckAlerts ==
  /\ checker = "waiting"
  /\ checker' = "next"
  /\ rules' = alertRules
  /\ UNCHANGED <<alertRules, pointVars, rule, latestValue, expired, alertVars,
                 failures>>

\* The 30 seconds of the context are over, or were used up by calls of the
\* rules evaluated so far.
TimeIsUp ==
  /\ checker # "waiting" /\ ~expired
  /\ expired' = TRUE
  /\ UNCHANGED <<alertRules, pointVars, checker, rules, rule, latestValue,
                 alertVars, failures>>

\* After the last rule the context is cancelled.
NextRule ==
  /\ checker = "next"
  /\ \/ /\ rules = {}
        /\ checker' = "waiting"
        /\ expired' = FALSE
        /\ UNCHANGED <<rules, rule>>
     \/ \E r \in rules :
          /\ checker' = "read" /\ rule' = r
          /\ rules' = rules \ {r}
          /\ UNCHANGED expired
  /\ UNCHANGED <<alertRules, pointVars, latestValue, alertVars, failures>>

\* evaluateAlertRule returns.
Return == checker' = "next" /\ rule' = NoRule /\ latestValue' = 0

\* Mutant of Fail: the error of a rule ends the check.
FailForAll ==
  /\ checker' = "waiting" /\ rule' = NoRule /\ latestValue' = 0
  /\ rules' = {}

\* The error of a rule is logged, and the next rule is evaluated.
Fail == Return /\ UNCHANGED rules

\* A call goes wrong: of itself, or because it hangs until the context ends.
Fault ==
  \/ rule \in Broken /\ UNCHANGED <<expired, failures>>
  \/ rule \notin Broken /\ failures < MaxFailures /\ failures' = failures + 1
     /\ UNCHANGED expired
  \/ ~expired /\ expired' = TRUE /\ UNCHANGED failures

\* Every call under a context that is over fails.
AtOnce == expired /\ UNCHANGED <<expired, failures>>

\* Values of the points in the range that a rule reads.
Recent(m, r) == {v \in Values : youngest[m][v] <= Duration[r]}

\* GetMetrics: the points that are no older than the duration, in order.  The
\* error of the rows is not looked at: a read that was cut short ends with any
\* of them, or with none.
GetMetrics ==
  /\ checker = "read"
  /\ LET m == MetricName[rule] IN
       \/ /\ ~expired /\ latest[m] \in Recent(m, rule)
          /\ checker' = "test" /\ latestValue' = latest[m]
          /\ UNCHANGED <<rule, rules, expired, failures>>
       \/ /\ ~expired /\ latest[m] \notin Recent(m, rule)
          /\ Return
          /\ UNCHANGED <<rules, expired, failures>>
       \/ /\ ~expired /\ Fault
          /\ checker' = "test" /\ latestValue' \in Recent(m, rule)
          /\ UNCHANGED <<rule, rules>>
       \/ (Fault \/ AtOnce) /\ Fail
  /\ UNCHANGED <<alertRules, pointVars, alertVars>>

Breaches(r, value) ==
  \/ Condition[r] = "gt" /\ value > Threshold[r]
  \/ Condition[r] = "lt" /\ value < Threshold[r]
  \/ Condition[r] = "eq" /\ value = Threshold[r]
  \/ Condition[r] = "gte" /\ value >= Threshold[r]
  \/ Condition[r] = "lte" /\ value <= Threshold[r]

ShouldAlert == Breaches(rule, latestValue) /\ lastFired[rule] > Duration[rule]

Test ==
  /\ checker = "test"
  /\ \/ ShouldAlert /\ checker' = "save" /\ UNCHANGED <<rule, latestValue>>
     \/ ~ShouldAlert /\ Return
  /\ UNCHANGED <<alertRules, pointVars, rules, expired, alertVars, failures>>

\* SaveAlert inserts a row.  If it gives an error the row may be there all the
\* same, unless the context was over before, and LastFired stays as it is.
SaveAlert ==
  /\ checker = "save"
  /\ \/ /\ ~expired
        /\ checker' = "publish"
        /\ stored' = [stored EXCEPT ![rule] = 0]
        /\ unsure' = unsure \ {rule}
        /\ UNCHANGED <<rule, rules, latestValue, expired, failures>>
     \/ /\ ~expired /\ Fault /\ Fail
        /\ stored' = [stored EXCEPT ![rule] = 0]
        /\ unsure' = unsure \cup {rule}
     \/ /\ Fault \/ AtOnce
        /\ Fail
        /\ UNCHANGED <<stored, unsure>>
  /\ UNCHANGED <<alertRules, pointVars, lastFired, published>>

\* publishAlertEvent.  Its error is logged, and the rest goes on as if it were
\* published; it may be even then.
PublishAlertEvent ==
  /\ checker = "publish"
  /\ checker' = "fire"
  /\ \/ /\ published' = [published EXCEPT ![rule] = 0]
        /\ UNCHANGED <<expired, failures>>
     \/ /\ Fault \/ AtOnce
        /\ UNCHANGED published
  /\ UNCHANGED <<alertRules, pointVars, rule, rules, latestValue, lastFired,
                 stored, unsure>>

\* Mutant of SetLastFired: the time at which the alert was stored is taken.
SetLastFiredAsStored ==
  /\ checker = "fire"
  /\ lastFired' = [lastFired EXCEPT ![rule] = stored[rule]]
  /\ Return
  /\ UNCHANGED <<alertRules, pointVars, rules, expired, stored, published,
                 unsure, failures>>

SetLastFired ==
  /\ checker = "fire"
  /\ lastFired' = [lastFired EXCEPT ![rule] = 0]
  /\ Return
  /\ UNCHANGED <<alertRules, pointVars, rules, expired, stored, published,
                 unsure, failures>>

CheckerStep ==
  \/ CheckAlerts \/ NextRule \/ GetMetrics \/ Test \/ SaveAlert
  \/ PublishAlertEvent \/ SetLastFired

NextMetrics ==
  \/ CheckerStep
  \/ TimeIsUp
  \/ TimePasses
  \/ \E m \in Metrics, v \in Values : Record(m, v)
  \/ \E r \in Rules : AddAlertRule(r)

SpecMetrics == InitMetrics /\ [][NextMetrics]_metricsVars

\* The ticker ticks, the goroutine runs, and time passes.
FairMetrics == WF_metricsVars(CheckerStep) /\ WF_metricsVars(TimePasses)

-----------------------------------------------------------------------------
(* Properties.                                                             *)

\* Two events of a rule, and two rows that were stored without an error, are
\* more than the duration of the rule apart, though LastFired is tested before
\* three calls that take their time and set after them: an alert is repeated
\* at once only if SaveAlert gave an error for a row that is there.
AlertsAreSpaced ==
  /\ checker = "save" => stored[rule] > Duration[rule] \/ rule \in unsure
  /\ checker = "publish" => published[rule] > Duration[rule]

InBreach(r) ==
  LET m == MetricName[r] IN
    /\ r \in alertRules
    /\ latest[m] \in Recent(m, r)
    /\ Breaches(r, latest[m])

\* A rule whose metric stays in breach, with points that come often enough,
\* gets its alerts for as long as it does, if from some time on the checks do
\* not use up their 30 seconds: neither an alert that could not be saved, nor
\* an event that could not be published and sets LastFired all the same, nor
\* another rule, not even one whose calls fail always, prevents it.  A rule
\* whose calls hang does, for all the rules that come after it.
BreachesAreReported ==
  <>[]~expired =>
    \A r \in Rules \ Broken : (<>[]InBreach(r)) => []<>(published[r] = 0)
=============================================================================
