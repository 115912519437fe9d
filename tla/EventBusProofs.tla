--------------------------- MODULE EventBusProofs ---------------------------
(***************************************************************************)
(* Proofs about EventBus and MetricsService: types, what a message may be  *)
(* lost or repeated for, and how far the alerts of a rule are apart, for   *)
(* any number of messages, starts, rebalances and rules.                   *)
(***************************************************************************)
EXTENDS EventBus, MetricsService, SequenceTheorems, FiniteSetTheorems, TLAPS

-----------------------------------------------------------------------------
(* Alerts: types.                                                          *)

LEMMA OlderIsAge ==
  ASSUME NEW age \in Ages
  PROVE  Older(age) \in Ages /\ age <= Older(age)
  BY MetricsAssumption DEF Older, Ages

LEMMA ReturnType ==
  ASSUME AlertsTypeOK, Return, alertRules' = alertRules, UNCHANGED pointVars,
         expired' \in BOOLEAN, rules' \subseteq alertRules, failures' \in 0..MaxFailures,
         lastFired' \in [Rules -> Ages], stored' \in [Rules -> Ages],
         published' \in [Rules -> Ages], unsure' \subseteq Rules
  PROVE  AlertsTypeOK'
  BY DEF AlertsTypeOK, Return, pointVars

LEMMA AlertsTypeStep ==
  ASSUME AlertsTypeOK, [NextMetrics]_metricsVars
  PROVE  AlertsTypeOK'
  <1>0. /\ 0 \in Ages
        /\ checker \notin {"waiting", "next"} => rule \in alertRules /\ rule \in Rules
    BY MetricsAssumption DEF AlertsTypeOK, Ages
  <1>1. CASE CheckAlerts
    BY <1>1 DEF AlertsTypeOK, CheckAlerts, pointVars, alertVars
  <1>2. CASE NextRule
    BY <1>2 DEF AlertsTypeOK, NextRule, pointVars, alertVars
  <1>3. ASSUME Fault \/ AtOnce
        PROVE  failures' \in 0..MaxFailures /\ expired' \in BOOLEAN
    <2>1. failures \in 0..MaxFailures /\ expired \in BOOLEAN /\ MaxFailures \in Nat
      BY MetricsAssumption DEF AlertsTypeOK
    <2>2. failures' = failures \/ (failures < MaxFailures /\ failures' = failures + 1)
      BY <1>3 DEF Fault, AtOnce
    <2>3. expired' = TRUE \/ expired' = expired
      BY <1>3 DEF Fault, AtOnce
    <2>4. failures' \in 0..MaxFailures
      BY <2>1, <2>2
    <2>5. expired' \in BOOLEAN
      BY <2>1, <2>3
    <2>6. QED
      BY <2>4, <2>5
  <1>4. CASE GetMetrics
    <2>1. failures' \in 0..MaxFailures /\ expired' \in BOOLEAN
      BY <1>3, <1>4 DEF GetMetrics, AlertsTypeOK
    <2>2. CASE Return /\ UNCHANGED rules
      BY <1>4, <2>1, <2>2, ReturnType DEF GetMetrics, AlertsTypeOK, alertVars
    <2>3. CASE /\ checker' = "test"
               /\ latestValue' \in Recent(MetricName[rule], rule)
               /\ UNCHANGED <<rule, rules>>
      <3>1. latestValue' \in Values \cup {0}
        BY <2>3 DEF Recent
      <3>2. QED
        BY <1>0, <1>4, <2>1, <2>3, <3>1
           DEF AlertsTypeOK, GetMetrics, pointVars, alertVars
    <2>4. QED
      BY <1>4, <2>2, <2>3 DEF GetMetrics, Fail
  <1>5. CASE Test
    <2>1. CASE Return
      BY <1>5, <2>1, ReturnType DEF Test, AlertsTypeOK, alertVars
    <2>2. CASE checker' = "save" /\ UNCHANGED <<rule, latestValue>>
      BY <1>0, <1>5, <2>2 DEF AlertsTypeOK, Test, pointVars, alertVars
    <2>3. QED
      BY <1>5, <2>1, <2>2 DEF Test
  <1>6. CASE SaveAlert
    <2>1. /\ stored' \in [Rules -> Ages] /\ unsure' \subseteq Rules
          /\ UNCHANGED <<alertRules, pointVars, lastFired, published>>
      BY <1>0, <1>6 DEF AlertsTypeOK, SaveAlert
    <2>2. CASE (Fault \/ AtOnce) /\ Fail
      BY <1>3, <2>1, <2>2, ReturnType DEF AlertsTypeOK, Fail
    <2>3. CASE /\ checker' = "publish"
               /\ UNCHANGED <<rule, rules, latestValue, expired, failures>>
      BY <1>0, <1>6, <2>1, <2>3 DEF AlertsTypeOK, SaveAlert, pointVars
    <2>4. QED
      BY <1>6, <2>2, <2>3 DEF SaveAlert
  <1>7. CASE PublishAlertEvent
    <2>1. /\ failures' \in 0..MaxFailures /\ expired' \in BOOLEAN
          /\ published' \in [Rules -> Ages]
      BY <1>0, <1>3, <1>7 DEF AlertsTypeOK, PublishAlertEvent
    <2>2. QED
      BY <1>0, <1>7, <2>1 DEF AlertsTypeOK, PublishAlertEvent, pointVars
  <1>8. CASE SetLastFired
    <2>1. lastFired' \in [Rules -> Ages]
      BY <1>0, <1>8 DEF AlertsTypeOK, SetLastFired
    <2>2. QED
      BY <1>8, <2>1, ReturnType DEF AlertsTypeOK, SetLastFired
  <1>9. CASE TimePasses
    <2>1. youngest' \in [Metrics -> [Values -> Ages]]
      BY <1>9, OlderIsAge DEF AlertsTypeOK, TimePasses
    <2>2. /\ lastFired' \in [Rules -> Ages] /\ stored' \in [Rules -> Ages]
          /\ published' \in [Rules -> Ages]
      BY <1>9, OlderIsAge DEF AlertsTypeOK, TimePasses
    <2>3. QED
      BY <1>9, <2>1, <2>2 DEF AlertsTypeOK, TimePasses, checkVars
  <1>10. ASSUME NEW m \in Metrics, NEW v \in Values, Record(m, v)
         PROVE  AlertsTypeOK'
    <2>1. youngest' \in [Metrics -> [Values -> Ages]]
      BY <1>0, <1>10 DEF AlertsTypeOK, Record
    <2>2. QED
      BY <1>0, <1>10, <2>1 DEF AlertsTypeOK, Record, checkVars, alertVars
  <1>11. ASSUME NEW r \in Rules, AddAlertRule(r) PROVE AlertsTypeOK'
    BY <1>11 DEF AlertsTypeOK, AddAlertRule, pointVars, checkVars, alertVars
  <1>12. CASE UNCHANGED metricsVars
    BY <1>12 DEF AlertsTypeOK, metricsVars, pointVars, checkVars, alertVars
  <1>13. CASE TimeIsUp
    BY <1>13 DEF AlertsTypeOK, TimeIsUp, pointVars, alertVars
  <1>14. QED
    BY <1>1, <1>2, <1>4, <1>5, <1>6, <1>7, <1>8, <1>9, <1>10, <1>11, <1>12, <1>13
       DEF NextMetrics, CheckerStep

\* The checker only evaluates rules that were added.
THEOREM AlertsTypeCorrect == SpecMetrics => []AlertsTypeOK
  <1>1. InitMetrics => AlertsTypeOK
    <2>1. ASSUME InitMetrics
          PROVE  /\ latest \in [Metrics -> Values \cup {0}]
                 /\ youngest \in [Metrics -> [Values -> Ages]]
                 /\ lastFired \in [Rules -> Ages] /\ stored \in [Rules -> Ages]
                 /\ published \in [Rules -> Ages]
      BY <2>1, MetricsAssumption DEF InitMetrics, Ages
    <2>2. ASSUME InitMetrics
          PROVE  /\ alertRules \subseteq Rules /\ rules \subseteq alertRules
                 /\ latestValue \in Values \cup {0}
                 /\ unsure \subseteq Rules /\ failures \in 0..MaxFailures
      BY <2>2, MetricsAssumption DEF InitMetrics
    <2>3. ASSUME InitMetrics
          PROVE  /\ checker = "waiting" /\ rule \in {NoRule}
                 /\ expired \in BOOLEAN
      BY <2>3 DEF InitMetrics
    <2>4. QED
      BY <2>1, <2>2, <2>3 DEF AlertsTypeOK
  <1>2. QED
    BY <1>1, AlertsTypeStep, PTL DEF SpecMetrics

-----------------------------------------------------------------------------
(* Alerts: how far apart they are.                                         *)

\* LastFired is set after the event of a rule and after its row, so that
\* neither is younger than LastFired, unless the checker is about to set it,
\* or has written a row without knowing.
Ordered(r) ==
  /\ \/ lastFired[r] <= published[r]
     \/ rule = r /\ checker = "fire"
  /\ \/ lastFired[r] <= stored[r]
     \/ r \in unsure
     \/ rule = r /\ checker \in {"publish", "fire"}
  /\ rule = r /\ checker \in {"save", "publish"} => lastFired[r] > Duration[r]

LEMMA OrderedStep ==
  ASSUME AlertsTypeOK, \A r \in Rules : Ordered(r), [NextMetrics]_metricsVars,
         NEW r \in Rules
  PROVE  Ordered(r)'
  <1>0. /\ Ordered(r)
        /\ lastFired[r] \in Ages /\ stored[r] \in Ages /\ published[r] \in Ages
        /\ lastFired[r] \in Nat /\ stored[r] \in Nat /\ published[r] \in Nat
        /\ Duration[r] \in Nat /\ Duration[r] < Old
        /\ checker \notin {"waiting", "next"} => rule \in Rules
    BY MetricsAssumption DEF AlertsTypeOK, Ages
  <1>1. ASSUME UNCHANGED alertVars, checker' \notin {"save", "publish", "fire"},
               checker \notin {"publish", "fire"}
        PROVE  Ordered(r)'
    BY <1>0, <1>1 DEF Ordered, alertVars
  <1>2. CASE CheckAlerts \/ NextRule \/ GetMetrics
    BY <1>1, <1>2 DEF CheckAlerts, NextRule, GetMetrics, Return, Fail
  <1>3. CASE Test
    <2>1. CASE ~ShouldAlert
      BY <1>1, <1>3, <2>1 DEF Test, Return
    <2>2. CASE ShouldAlert
      BY <1>0, <1>3, <2>2 DEF Test, ShouldAlert, Ordered, alertVars
    <2>3. QED
      BY <2>1, <2>2
  <1>4. CASE SaveAlert
    <2>1. /\ checker = "save" /\ UNCHANGED <<lastFired, published>>
          /\ checker' \in {"publish", "next"}
          /\ checker' = "publish" => rule' = rule
      BY <1>4 DEF SaveAlert, Fail, Return
    <2>2. CASE r # rule
      <3>1. stored'[r] = stored[r] /\ (r \in unsure => r \in unsure')
        BY <1>4, <2>2 DEF AlertsTypeOK, SaveAlert
      <3>2. QED
        BY <1>0, <2>1, <2>2, <3>1 DEF Ordered
    <2>3. CASE r = rule
      <3>1. \/ checker' = "publish"
            \/ UNCHANGED <<stored, unsure>>
            \/ r \in unsure'
        BY <1>4, <2>3 DEF SaveAlert
      <3>2. QED
        BY <1>0, <2>1, <2>3, <3>1 DEF Ordered
    <2>4. QED
      BY <2>2, <2>3
  <1>5. CASE PublishAlertEvent
    BY <1>0, <1>5 DEF PublishAlertEvent, Ordered, AlertsTypeOK
  <1>6. CASE SetLastFired
    <2>1. /\ checker = "fire" /\ checker' = "next" /\ UNCHANGED <<stored, published, unsure>>
          /\ lastFired'[r] = IF r = rule THEN 0 ELSE lastFired[r]
      BY <1>6 DEF SetLastFired, Return, AlertsTypeOK
    <2>2. lastFired'[r] <= published'[r] /\ (lastFired'[r] <= stored'[r] \/ r \in unsure')
      BY <1>0, <2>1 DEF Ordered
    <2>3. QED
      BY <2>1, <2>2 DEF Ordered
  <1>7. CASE TimePasses
    <2>1. /\ UNCHANGED <<checker, rule, unsure>>
          /\ lastFired'[r] = Older(lastFired[r])
          /\ stored'[r] = Older(stored[r])
          /\ published'[r] = Older(published[r])
      BY <1>7 DEF TimePasses, checkVars
    <2>2. \A a, b \in Ages : /\ a <= b => Older(a) <= Older(b)
                            /\ a <= Older(a)
                            /\ Older(a) \in Ages
      BY MetricsAssumption DEF Older, Ages
    <2>3. /\ lastFired[r] <= published[r] => lastFired'[r] <= published'[r]
          /\ lastFired[r] <= stored[r] => lastFired'[r] <= stored'[r]
          /\ lastFired[r] <= lastFired'[r] /\ lastFired'[r] \in Nat
      BY <1>0, <2>1, <2>2 DEF Ages
    <2>4. QED
      BY <1>0, <2>1, <2>3 DEF Ordered
  <1>8. ASSUME NEW m \in Metrics, NEW v \in Values, Record(m, v)
        PROVE  Ordered(r)'
    BY <1>0, <1>8 DEF Record, Ordered, checkVars, alertVars
  <1>9. ASSUME NEW q \in Rules, AddAlertRule(q) PROVE Ordered(r)'
    BY <1>0, <1>9 DEF AddAlertRule, Ordered, checkVars, alertVars
  <1>10. CASE UNCHANGED metricsVars
    BY <1>0, <1>10 DEF Ordered, metricsVars, checkVars, alertVars
  <1>11. CASE TimeIsUp
    BY <1>0, <1>11 DEF Ordered, TimeIsUp, alertVars
  <1>12. QED
    BY <1>2, <1>3, <1>4, <1>5, <1>6, <1>7, <1>8, <1>9, <1>10, <1>11
       DEF NextMetrics, CheckerStep

\* The alerts of every rule are more than its duration apart, whatever the
\* rules, the values and the calls that fail.
THEOREM AlertsKeepDistance == SpecMetrics => []AlertsAreSpaced
  <1>1. InitMetrics => \A r \in Rules : Ordered(r)
    BY MetricsAssumption DEF InitMetrics, Ordered
  <1>2. AlertsTypeOK /\ (\A r \in Rules : Ordered(r)) => AlertsAreSpaced
    <2> SUFFICES ASSUME AlertsTypeOK, \A r \in Rules : Ordered(r),
                        checker \in {"save", "publish"}
                 PROVE  AlertsAreSpaced
      BY DEF AlertsAreSpaced
    <2>1. /\ rule \in Rules /\ Duration[rule] \in Nat
          /\ lastFired[rule] \in Nat /\ stored[rule] \in Nat
          /\ published[rule] \in Nat
      BY MetricsAssumption DEF AlertsTypeOK, Ages
    <2>2. QED
      BY <2>1 DEF AlertsAreSpaced, Ordered
  <1>3. AlertsTypeOK /\ (\A r \in Rules : Ordered(r)) /\ [NextMetrics]_metricsVars
          => (\A r \in Rules : Ordered(r))'
    BY OrderedStep
  <1>4. QED
    BY <1>1, <1>2, <1>3, AlertsTypeCorrect, PTL DEF SpecMetrics

-----------------------------------------------------------------------------
(* The bus: types and what a loop has in hand.                             *)

\* Loop l has still to call handler h.
Awaits(l, h) == todo[l] \in {<<h>>, <<"metrics", "saga">>}

LEMMA Tuples ==
  ASSUME NEW S, NEW a \in S, NEW b \in S
  PROVE  <<a>> \in Seq(S) /\ <<a, b>> \in Seq(S)
  OBVIOUS

LEMMA TodoFacts ==
  ASSUME NEW t \in Todos
  PROVE  /\ t = <<>> <=> Len(t) = 0
         /\ t # <<>> => Len(t) \in {1, 2} /\ Head(t) \in Handlers
         /\ Len(t) = 1 => t = <<Head(t)>>
         /\ Len(t) > 1 => /\ t = <<"metrics", "saga">> /\ Head(t) = "metrics"
                          /\ Tail(t) = <<"saga">>
  <1>1. CASE t = <<>>
    BY <1>1
  <1>2. CASE t = <<"metrics">>
    BY <1>2 DEF Handlers
  <1>3. CASE t = <<"saga">>
    BY <1>3 DEF Handlers
  <1>4. CASE t = <<"metrics", "saga">>
    BY <1>4 DEF Handlers
  <1>5. QED
    BY <1>1, <1>2, <1>3, <1>4 DEF Todos

LEMMA HandlersForFacts ==
  ASSUME NEW kind
  PROVE  /\ HandlersFor(kind) \in Todos
         /\ kind \in MetricsKinds => HandlersFor(kind) \in {<<"metrics">>, <<"metrics", "saga">>}
         /\ kind \in known => HandlersFor(kind) \in {<<"saga">>, <<"metrics", "saga">>}
         /\ kind \notin MetricsKinds => HandlersFor(kind) \in {<<"saga">>, <<>>}
  <1>1. /\ <<"metrics">> \o <<"saga">> = <<"metrics", "saga">>
        /\ <<"metrics">> \o <<>> = <<"metrics">>
        /\ <<>> \o <<"saga">> = <<"saga">>
        /\ <<>> \o <<>> = <<>>
    <2>1. <<"metrics">> \o <<"saga">> = <<"metrics", "saga">>
      <3>0. "metrics" \in Handlers /\ "saga" \in Handlers
        BY DEF Handlers
      <3>1. /\ <<"metrics">> \in Seq(Handlers) /\ <<"saga">> \in Seq(Handlers)
            /\ <<"metrics", "saga">> \in Seq(Handlers)
        BY <3>0, Tuples
      <3>2. /\ <<"metrics">> \o <<"saga">> \in Seq(Handlers)
            /\ Len(<<"metrics">> \o <<"saga">>) = 2
            /\ (<<"metrics">> \o <<"saga">>)[1] = "metrics"
            /\ (<<"metrics">> \o <<"saga">>)[2] = "saga"
        BY <3>1
      <3>3. /\ Len(<<"metrics", "saga">>) = 2 /\ <<"metrics", "saga">>[1] = "metrics"
            /\ <<"metrics", "saga">>[2] = "saga"
        OBVIOUS
      <3>4. \A i \in 1..2 : i = 1 \/ i = 2
        OBVIOUS
      <3>5. QED
        BY <3>1, <3>2, <3>3, <3>4, SeqEqual
    <2>2. QED
      BY <2>1, ConcatEmptySeq
  <1>2. HandlersFor(kind) =
          IF kind \in MetricsKinds
            THEN IF kind \in known THEN <<"metrics", "saga">> ELSE <<"metrics">>
            ELSE IF kind \in known THEN <<"saga">> ELSE <<>>
    BY <1>1 DEF HandlersFor
  <1>3. QED
    BY <1>2 DEF Todos

\* A loop has a message in hand from Fetch to PutDown, handlers to call only
\* while it calls them, and nothing if the reader never had a session.
Hands ==
  /\ \A l \in Loops : /\ held[l] # 0 <=> pc[l] \in {"commit", "lookup", "handle"}
                      /\ todo[l] # <<>> <=> pc[l] = "handle"
  /\ ~joined => \A l \in Loops : held[l] = 0

\* The second loop is not started before the recovery.
SagaIsOff == setup # "done" => pc["saga"] = "off"

Base == TypeOK /\ Hands

BusInv == Base /\ SagaIsOff

LoopType ==
  /\ Hands
  /\ pc \in [Loops -> Labels]
  /\ held \in [Loops -> 0..Len(topic)]
  /\ todo \in [Loops -> Todos]

LEMMA PublishKeepsType ==
  ASSUME TypeOK, NEW batch \in Seq(AllKinds), topic' = topic \o batch,
         Len(topic) + Len(batch) <= MaxMessages,
         UNCHANGED <<committed, position, joined, rebalances, closed, loopVars,
                     setupVars, starts, faults, handled, auxVars>>
  PROVE  /\ TypeOK' /\ Len(topic) <= Len(topic')
         /\ \A m \in 1..Len(topic) : topic'[m] = topic[m]
  <1>1. topic \in Seq(AllKinds) /\ Len(topic) \in Nat /\ Len(batch) \in Nat
    BY DEF TypeOK
  <1>2. /\ topic' \in Seq(AllKinds)
        /\ Len(topic') = Len(topic) + Len(batch)
        /\ \A m \in 1..Len(topic) : topic'[m] = topic[m]
    BY <1>1
  <1>3. /\ \A n \in 0..Len(topic) : n \in 0..Len(topic')
        /\ committed \in 0..Len(topic') /\ position \in 0..Len(topic')
        /\ held \in [Loops -> 0..Len(topic')]
    BY <1>1, <1>2 DEF TypeOK
  <1>4. QED
    BY <1>1, <1>2, <1>3 DEF TypeOK, loopVars, setupVars, auxVars

LEMMA TopicGrows ==
  ASSUME TypeOK,
         \/ \E batch \in Batches : Publish(batch)
         \/ \E kind \in Kinds : ForeignMessage(kind)
  PROVE  /\ TypeOK' /\ Len(topic) <= Len(topic')
         /\ \A m \in 1..Len(topic) : topic'[m] = topic[m]
         /\ UNCHANGED <<committed, position, joined, rebalances, closed, loopVars,
                        setupVars, starts, faults, handled, auxVars>>
  <1>1. ASSUME NEW batch \in Batches, Publish(batch)
        PROVE  Marshalled(batch) \in Seq(AllKinds)
    <2>1. PICK n \in 1..2 : batch \in [1..n -> Forms]
      BY DEF Batches
    <2> DEFINE written == {j \in DOMAIN batch : batch[j] = "plain"}
    <2>2. IsFiniteSet(1..n) /\ written \subseteq 1..n
      BY <2>1, FS_Interval
    <2>3. Cardinality(written) \in Nat
      BY <2>2, FS_Subset, FS_CardinalityType
    <2>4. "plain" \in AllKinds
      BY DEF AllKinds
    <2>5. QED
      BY <2>3, <2>4 DEF Marshalled
  <1>2. ASSUME NEW kind \in Kinds, ForeignMessage(kind)
        PROVE  /\ <<kind>> \in Seq(AllKinds) /\ topic' = topic \o <<kind>>
               /\ Len(topic) + Len(<<kind>>) <= MaxMessages
    <2>1. topic \in Seq(AllKinds) /\ kind \in AllKinds /\ Len(topic) \in Nat
      BY BusAssumption DEF TypeOK
    <2>2. /\ <<kind>> \in Seq(AllKinds) /\ Len(<<kind>>) = 1
          /\ Append(topic, kind) = topic \o <<kind>>
      BY <2>1
    <2>3. QED
      BY <1>2, <2>1, <2>2, BusAssumption DEF ForeignMessage
  <1>3. CASE \E batch \in Batches : Publish(batch)
    BY <1>1, <1>3, PublishKeepsType DEF Publish
  <1>4. CASE \E kind \in Kinds : ForeignMessage(kind)
    BY <1>2, <1>4, PublishKeepsType DEF ForeignMessage
  <1>5. QED
    BY <1>3, <1>4

\* What a loop does to its own program counter, message and handlers.
Moves(l, p, m, t) ==
  /\ pc' = [pc EXCEPT ![l] = p]
  /\ held' = [held EXCEPT ![l] = m]
  /\ todo' = [todo EXCEPT ![l] = t]
  /\ UNCHANGED <<joined, topic>>

LEMMA LoopGoesOn ==
  ASSUME BusInv, NEW l \in Loops, NEW m \in 0..Len(topic), NEW t \in Todos,
         NEW p \in Labels, Moves(l, p, m, t),
         \/ p \in {"commit", "lookup"} /\ m # 0 /\ t = <<>> /\ joined
         \/ p = "handle" /\ m # 0 /\ t # <<>> /\ joined
         \/ p \in {"off", "select", "fetch", "ended"} /\ m = 0 /\ t = <<>>
  PROVE  LoopType'
  <1>1. /\ pc \in [Loops -> Labels]
        /\ held \in [Loops -> 0..Len(topic)]
        /\ todo \in [Loops -> Todos]
    BY DEF BusInv, Base, TypeOK
  <1>2. /\ pc'[l] = p /\ held'[l] = m /\ todo'[l] = t
        /\ \A k \in Loops \ {l} : /\ pc'[k] = pc[k] /\ held'[k] = held[k]
                                 /\ todo'[k] = todo[k]
    BY <1>1 DEF Moves
  <1>3. Hands'
    BY <1>2 DEF BusInv, Base, Hands, Moves
  <1>4. QED
    BY <1>1, <1>3 DEF LoopType, Moves

LEMMA BaseStep ==
  ASSUME BusInv, [Next]_vars
  PROVE  Base'
  <1>0. /\ TypeOK /\ Hands /\ <<>> \in Todos /\ Len(topic) \in Nat
        /\ Len(topic) <= MaxMessages /\ MaxMessages \in Nat
        /\ pc \in [Loops -> Labels]
        /\ held \in [Loops -> 0..Len(topic)]
        /\ todo \in [Loops -> Todos]
        /\ \A l \in Loops : held[l] # 0 => held[l] \in Messages
    BY BusAssumption DEF BusInv, Base, TypeOK, Todos, Messages
  <1>1. CASE \/ \E batch \in Batches : Publish(batch)
             \/ \E kind \in Kinds : ForeignMessage(kind)
    BY <1>0, <1>1, TopicGrows DEF Base, Hands, loopVars
  <1>2. CASE Join
    <2>1. FirstPosition \in 0..Len(topic) /\ position \in 0..Len(topic)
      BY <1>0 DEF FirstPosition, TypeOK
    <2>2. /\ (position + 1)..FirstPosition \subseteq Messages
          /\ (FirstPosition + 1)..position \subseteq Messages
      BY <1>0, <2>1 DEF Messages
    <2>3. skipped' \subseteq Messages /\ repeatable' \subseteq Messages
      BY <1>0, <1>2, <2>2 DEF Join, TypeOK
    <2>4. rebalances' \in 0..MaxRebalances
      BY <1>0, <1>2, BusAssumption DEF Join, TypeOK
    <2>5. TypeOK'
      BY <1>0, <1>2, <2>1, <2>3, <2>4 DEF Join, TypeOK, loopVars, setupVars
    <2>6. QED
      BY <1>0, <1>2, <2>5 DEF Join, Base, Hands, loopVars
  <1>3. ASSUME NEW l \in Loops, Fetch(l) PROVE Base'
    <2>0. position \in Nat /\ position < Len(topic)
      BY <1>0, <1>3 DEF Fetch, TypeOK
    <2>1. /\ position + 1 \in 1..Len(topic) /\ position + 1 # 0
          /\ pc[l] = "fetch" /\ todo[l] = <<>>
      BY <1>0, <1>3, <2>0 DEF Fetch, Hands
    <2>2. todo' = [todo EXCEPT ![l] = <<>>]
      BY <1>0, <1>3, <2>1 DEF Fetch
    <2>3. Moves(l, "commit", position + 1, <<>>) /\ "commit" \in Labels /\ joined
          /\ position + 1 # 0
      BY <1>3, <2>1, <2>2 DEF Fetch, Goto, Moves, Labels
    <2>4. LoopType'
      BY <1>0, <2>1, <2>3, LoopGoesOn
    <2>5. QED
      BY <1>0, <1>3, <2>1, <2>4
         DEF Fetch, Base, TypeOK, LoopType, setupVars, auxVars
  <1>4. ASSUME NEW l \in Loops, PutDown(l), UNCHANGED <<joined, topic>>
        PROVE  LoopType'
    <2>1. Moves(l, "select", 0, <<>>) /\ "select" \in Labels
      BY <1>4 DEF PutDown, Goto, Moves, Labels
    <2>2. QED
      BY <1>0, <2>1, LoopGoesOn
  <1>5. ASSUME NEW l \in Loops, NEW p \in {"off", "select", "fetch", "ended"},
               pc[l] \in {"off", "select", "fetch", "ended"}, Goto(l, p),
               UNCHANGED <<held, todo, joined, topic>>
        PROVE  LoopType'
    <2>1. held[l] = 0 /\ todo[l] = <<>>
      BY <1>0, <1>5 DEF Hands
    <2>2. held' = [held EXCEPT ![l] = 0] /\ todo' = [todo EXCEPT ![l] = <<>>]
      BY <1>0, <1>5, <2>1
    <2>3. Moves(l, p, 0, <<>>) /\ p \in Labels
      BY <1>5, <2>2 DEF Goto, Moves, Labels
    <2>4. QED
      BY <1>0, <1>5, <2>3, LoopGoesOn
  <1>6. ASSUME NEW l \in Loops, FetchFails(l) \/ Select(l) PROVE Base'
    <2>1. /\ pc[l] \in {"select", "fetch"}
          /\ \E p \in {"select", "fetch", "ended"} : Goto(l, p)
          /\ UNCHANGED <<brokerVars, closed, held, todo, setupVars, starts, faults,
                         handled, auxVars>>
      BY <1>6 DEF FetchFails, Select
    <2>2. LoopType'
      BY <1>5, <2>1 DEF brokerVars
    <2>3. QED
      BY <1>0, <2>1, <2>2 DEF Base, TypeOK, LoopType, brokerVars, setupVars, auxVars
  <1>7. ASSUME NEW l \in Loops, Commit(l) PROVE Base'
    <2>1. held[l] \in 1..Len(topic) /\ todo[l] = <<>> /\ pc[l] = "commit" /\ joined
      BY <1>0, <1>7 DEF Commit, Hands
    <2>2. (held[l] + 1)..committed \subseteq Messages /\ held[l] \in Messages
      BY <1>0, <2>1 DEF TypeOK, Messages
    <2>3. /\ committed' \in 0..Len(topic) /\ repeatable' \subseteq Messages
          /\ faults' \in 0..MaxFaults /\ dropped' \subseteq Messages
          /\ UNCHANGED <<topic, position, joined, rebalances, closed, setupVars,
                         starts, handled, skipped, cut, early>>
      <3>1. /\ committed' \in 0..Len(topic) /\ repeatable' \subseteq Messages
        BY <1>0, <1>7, <2>1, <2>2 DEF Commit, Store, TypeOK
      <3>2. faults' \in 0..MaxFaults
        BY <1>0, <1>7, BusAssumption DEF Commit, TypeOK
      <3>3. dropped' \subseteq Messages
        BY <1>0, <1>7, <2>2 DEF Commit, TypeOK
      <3>4. QED
        BY <1>7, <3>1, <3>2, <3>3 DEF Commit
    <2>4. LoopType'
      <3>1. CASE PutDown(l)
        BY <1>4, <2>3, <3>1
      <3>2. CASE Goto(l, "lookup") /\ UNCHANGED <<held, todo>>
        <4>1. /\ held' = [held EXCEPT ![l] = held[l]]
              /\ todo' = [todo EXCEPT ![l] = <<>>]
          BY <1>0, <2>1, <3>2
        <4>2. Moves(l, "lookup", held[l], <<>>) /\ "lookup" \in Labels
          BY <2>3, <3>2, <4>1 DEF Goto, Moves, Labels
        <4>3. held[l] \in 0..Len(topic) /\ held[l] # 0
          BY <1>0, <2>1
        <4>4. QED
          BY <1>0, <2>1, <4>2, <4>3, LoopGoesOn
      <3>3. QED
        BY <1>7, <3>1, <3>2 DEF Commit
    <2>5. QED
      BY <1>0, <2>3, <2>4 DEF Base, TypeOK, LoopType, setupVars
  <1>8. ASSUME NEW l \in Loops, Lookup(l) PROVE Base'
    <2>1. held[l] \in 1..Len(topic) /\ pc[l] = "lookup" /\ joined
      BY <1>0, <1>8 DEF Lookup, Hands
    <2>2. /\ early' \subseteq Messages
          /\ UNCHANGED <<brokerVars, closed, setupVars, starts, faults, handled,
                         skipped, dropped, cut, repeatable>>
      BY <1>0, <1>8, <2>1 DEF Lookup, TypeOK
    <2>3. LoopType'
      <3>1. CASE PutDown(l)
        BY <1>4, <2>2, <3>1 DEF brokerVars
      <3>2. ASSUME HandlersFor(topic[held[l]]) # <<>>, Goto(l, "handle"),
                   todo' = [todo EXCEPT ![l] = HandlersFor(topic[held[l]])],
                   UNCHANGED held
            PROVE  LoopType'
        <4>1. held' = [held EXCEPT ![l] = held[l]]
          BY <1>0, <3>2
        <4>2. HandlersFor(topic[held[l]]) \in Todos
          BY HandlersForFacts
        <4>3. UNCHANGED <<joined, topic>>
          BY <2>2 DEF brokerVars
        <4>4. /\ Moves(l, "handle", held[l], HandlersFor(topic[held[l]]))
              /\ "handle" \in Labels
          BY <3>2, <4>1, <4>3 DEF Goto, Moves, Labels
        <4>5. held[l] \in 0..Len(topic) /\ held[l] # 0
          BY <1>0, <2>1
        <4>6. QED
          BY <2>1, <3>2, <4>2, <4>4, <4>5, LoopGoesOn
      <3>3. QED
        BY <1>8, <3>1, <3>2 DEF Lookup
    <2>4. QED
      BY <1>0, <2>2, <2>3 DEF Base, TypeOK, LoopType, brokerVars, setupVars
  <1>9. ASSUME NEW l \in Loops, Handle(l) PROVE Base'
    <2>1. /\ pc[l] = "handle" /\ held[l] \in Messages /\ held[l] \in 1..Len(topic)
          /\ joined /\ todo[l] \in Todos /\ todo[l] # <<>>
      BY <1>0, <1>9 DEF Handle, Hands
    <2>2. /\ Head(todo[l]) \in Handlers
          /\ Len(todo[l]) > 1 => Tail(todo[l]) = <<"saga">>
      BY <2>1, TodoFacts
    <2>3. handled' \in [Handlers -> [Messages -> Nat]]
      <3>1. handled \in [Handlers -> [Messages -> Nat]]
        BY <1>0 DEF TypeOK
      <3>2. QED
        BY <1>9, <2>1, <2>2, <3>1 DEF Handle
    <2>4. LoopType'
      <3>0. UNCHANGED <<joined, topic>>
        BY <1>9 DEF Handle, brokerVars
      <3>1. CASE PutDown(l)
        BY <1>4, <3>0, <3>1
      <3>2. CASE Len(todo[l]) > 1 /\ todo' = [todo EXCEPT ![l] = Tail(@)]
                 /\ UNCHANGED <<pc, held>>
        <4>1. /\ todo' = [todo EXCEPT ![l] = <<"saga">>]
              /\ pc' = [pc EXCEPT ![l] = "handle"]
              /\ held' = [held EXCEPT ![l] = held[l]]
          BY <1>0, <2>1, <2>2, <3>2
        <4>2. <<"saga">> \in Todos /\ <<"saga">> # <<>>
          BY DEF Todos
        <4>3. Moves(l, "handle", held[l], <<"saga">>) /\ "handle" \in Labels
          BY <3>0, <4>1 DEF Moves, Labels
        <4>4. held[l] \in 0..Len(topic) /\ held[l] # 0
          BY <1>0, <2>1
        <4>5. QED
          BY <2>1, <4>2, <4>3, <4>4, LoopGoesOn
      <3>3. QED
        BY <1>9, <3>1, <3>2 DEF Handle
    <2>5. QED
      BY <1>0, <1>9, <2>3, <2>4
         DEF Handle, Base, TypeOK, LoopType, brokerVars, setupVars, auxVars
  <1>10. CASE StartMain
    <2>1. LoopType'
      BY <1>5, <1>10 DEF StartMain, brokerVars, Loops
    <2>2. QED
      BY <1>0, <1>10, <2>1
         DEF StartMain, Base, TypeOK, LoopType, brokerVars, setupVars, auxVars
  <1>11. CASE StartSaga
    <2>1. /\ setup' \in {"adding_initiated", "adding_failed", "recovering",
                         "failed", "done"}
          /\ known' \subseteq AllKinds
          /\ UNCHANGED <<brokerVars, closed, held, todo, starts, faults, handled,
                         auxVars>>
      BY <1>0, <1>11 DEF StartSaga, TypeOK, AllKinds
    <2>2. LoopType'
      <3>1. CASE UNCHANGED pc
        BY <1>0, <2>1, <3>1 DEF LoopType, Hands, brokerVars
      <3>2. CASE setup = "recovering" /\ Goto("saga", "select")
        <4>1. "saga" \in Loops /\ pc["saga"] \in {"off", "select", "fetch", "ended"}
          BY <3>2 DEF Loops, BusInv, SagaIsOff
        <4>2. QED
          BY <1>5, <2>1, <3>2, <4>1 DEF brokerVars
      <3>3. QED
        BY <1>11, <3>1, <3>2 DEF StartSaga
    <2>3. setup' \in {"new", "adding_initiated", "adding_failed", "recovering",
                     "failed", "done", "down"}
      BY <2>1
    <2>4. QED
      BY <1>0, <2>1, <2>2, <2>3
         DEF Base, TypeOK, LoopType, brokerVars, auxVars
  <1>12. CASE Stop
    BY <1>0, <1>12 DEF Stop, Base, TypeOK, Hands, brokerVars, loopVars, setupVars,
                       auxVars
  <1>13. CASE Gone
    <2>1. {held[l] : l \in Loops} \ {0} \subseteq Messages
      BY <1>0
    <2>2. /\ cut' \subseteq Messages /\ known' \subseteq AllKinds /\ joined' = FALSE
          /\ setup' \in {"new", "adding_initiated", "adding_failed", "recovering",
                         "failed", "done", "down"}
          /\ pc' = [l \in Loops |-> "off"] /\ held' = [l \in Loops |-> 0]
          /\ todo' = [l \in Loops |-> <<>>]
          /\ UNCHANGED <<topic, committed, position, rebalances, closed, starts,
                         faults, handled, skipped, dropped, early, repeatable>>
      BY <1>0, <1>13, <2>1 DEF Gone, TypeOK, Idle, Empty
    <2>3. LoopType'
      <3>1. "off" \in Labels /\ 0 \in 0..Len(topic)
        BY <1>0 DEF Labels
      <3>2. \A l \in Loops : pc'[l] = "off" /\ held'[l] = 0 /\ todo'[l] = <<>>
        BY <2>2
      <3>3. QED
        BY <1>0, <2>2, <3>1, <3>2 DEF LoopType, Hands
    <2>4. joined' \in BOOLEAN /\ skipped' \cup dropped' \cup cut' \cup early'
            \cup repeatable' \subseteq Messages
      BY <1>0, <2>2 DEF TypeOK
    <2>5. QED
      BY <1>0, <2>2, <2>3, <2>4 DEF Base, TypeOK, LoopType
  <1>14. CASE Restart
    <2>1. starts' \in 1..MaxStarts
      BY <1>0, <1>14, BusAssumption DEF Restart, TypeOK
    <2>2. /\ setup' \in {"new", "adding_initiated", "adding_failed", "recovering",
                         "failed", "done", "down"}
          /\ closed' \in BOOLEAN
      BY <1>14 DEF Restart
    <2>3. QED
      BY <1>0, <1>14, <2>1, <2>2
         DEF Restart, Base, TypeOK, Hands, brokerVars, loopVars, auxVars
  <1>15. CASE UNCHANGED vars
    BY <1>0, <1>15 DEF Base, TypeOK, Hands, vars, brokerVars, loopVars,
                       setupVars, auxVars
  <1>16. QED
    BY <1>1, <1>2, <1>3, <1>6, <1>7, <1>8, <1>9, <1>10, <1>11, <1>12, <1>13, <1>14,
       <1>15 DEF Next, Step, Exit, MapRace

LEMMA SagaIsOffStep ==
  ASSUME BusInv, [Next]_vars
  PROVE  SagaIsOff'
  <1>1. SagaIsOff /\ "saga" \in Loops /\ pc \in [Loops -> Labels]
    BY DEF BusInv, Base, TypeOK, Loops
  <1>2. CASE UNCHANGED <<pc, setup>>
    BY <1>1, <1>2 DEF SagaIsOff
  <1>3. ASSUME NEW l \in Loops, Step(l) PROVE SagaIsOff'
    <2>1. pc[l] # "off" /\ setup' = setup
      BY <1>3 DEF Step, Fetch, FetchFails, Commit, Lookup, Handle, Select, setupVars
    <2>2. pc'["saga"] = pc["saga"] \/ l = "saga"
      BY <1>1, <1>3 DEF Step, Fetch, FetchFails, Commit, Lookup, Handle, Select,
                        Goto, PutDown
    <2>3. QED
      BY <1>1, <2>1, <2>2 DEF SagaIsOff
  <1>4. CASE StartMain
    BY <1>1, <1>4 DEF StartMain, SagaIsOff, Goto, setupVars
  <1>5. CASE StartSaga
    BY <1>1, <1>5 DEF StartSaga, SagaIsOff
  <1>6. CASE Gone
    BY <1>1, <1>6 DEF Gone, SagaIsOff, Idle
  <1>7. CASE Restart
    <2>1. pc' = pc /\ pc["saga"] = "off"
      BY <1>1, <1>7 DEF Restart, SagaIsOff, loopVars
    <2>2. QED
      BY <2>1 DEF SagaIsOff
  <1>8. QED
    BY <1>1, <1>2, <1>3, <1>4, <1>5, <1>6, <1>7
       DEF Next, Publish, ForeignMessage, Join, Stop, Exit, MapRace, loopVars,
           setupVars, vars

LEMMA BusInvariant == Spec => []BusInv
  <1>1. Init => BusInv
    <2> SUFFICES ASSUME Init PROVE BusInv
      OBVIOUS
    <2>1. /\ topic \in Seq(AllKinds) /\ Len(topic) = 0
          /\ <<>> \in Todos /\ "off" \in Labels
      BY DEF Init, Todos, Labels
    <2>2. \A l \in Loops : pc[l] = "off" /\ held[l] = 0 /\ todo[l] = <<>>
      BY DEF Init, Idle, Empty
    <2>3. /\ pc \in [Loops -> Labels] /\ held \in [Loops -> 0..Len(topic)]
          /\ todo \in [Loops -> Todos]
      BY <2>1 DEF Init, Idle, Empty
    <2>4. /\ committed \in 0..Len(topic) /\ position \in 0..Len(topic)
          /\ Len(topic) <= MaxMessages
          /\ starts \in 1..MaxStarts /\ rebalances \in 0..MaxRebalances
          /\ faults \in 0..MaxFaults
      BY <2>1, BusAssumption DEF Init
    <2>5. QED
      BY <2>1, <2>2, <2>3, <2>4 DEF Init, BusInv, Base, TypeOK, Hands, SagaIsOff, Loops
  <1>2. BusInv /\ [Next]_vars => BusInv'
    BY BaseStep, SagaIsOffStep DEF BusInv
  <1>3. QED
    BY <1>1, <1>2, PTL DEF Spec

\* Every variable of the bus keeps its type; no offset is beyond the topic.
THEOREM BusTypeCorrect == Spec => []TypeOK
  <1>1. BusInv => TypeOK
    BY DEF BusInv, Base
  <1>2. QED
    BY <1>1, BusInvariant, PTL

-----------------------------------------------------------------------------
(* The bus: what a message may be lost for.                                *)

\* Loop l has message m in hand and handler h still before it.
Brings(l, h, m) ==
  held[l] = m /\ (pc[l] \in {"commit", "lookup"} \/ Awaits(l, h))

Covered(h, m) ==
  \/ handled[h][m] > 0
  \/ m \in skipped \cup dropped \cup cut
  \/ h = "saga" /\ m \in early
  \/ \E l \in Loops : Brings(l, h, m)

LossInv ==
  \A m \in 1..position : \A h \in Due(topic[m]) : Covered(h, m)

LEMMA BusFacts ==
  ASSUME BusInv
  PROVE  /\ TypeOK /\ Hands
         /\ Len(topic) \in Nat /\ Len(topic) <= MaxMessages /\ MaxMessages \in Nat
         /\ pc \in [Loops -> Labels] /\ held \in [Loops -> 0..Len(topic)]
         /\ todo \in [Loops -> Todos]
         /\ handled \in [Handlers -> [Messages -> Nat]]
         /\ position \in 0..Len(topic) /\ committed \in 0..Len(topic)
  BY BusAssumption DEF BusInv, Base, TypeOK

\* What was handled or lost stays so, and the topic only grows.
LEMMA HistoryGrows ==
  ASSUME BusInv, [Next]_vars
  PROVE  /\ \A h \in Handlers, m \in Messages : handled[h][m] <= handled'[h][m]
         /\ skipped \cup dropped \cup cut \subseteq skipped' \cup dropped' \cup cut'
         /\ early \subseteq early' /\ repeatable \subseteq repeatable'
         /\ \A m \in 1..Len(topic) : topic'[m] = topic[m]
  <1>0. handled \in [Handlers -> [Messages -> Nat]] /\ TypeOK
    BY BusFacts
  <1>1. CASE \/ \E batch \in Batches : Publish(batch)
             \/ \E kind \in Kinds : ForeignMessage(kind)
    BY <1>0, <1>1, TopicGrows DEF auxVars
  <1>2. ASSUME UNCHANGED <<topic, handled>>,
               skipped \subseteq skipped', dropped \subseteq dropped', cut \subseteq cut',
               early \subseteq early', repeatable \subseteq repeatable'
        PROVE  /\ \A h \in Handlers, m \in Messages : handled[h][m] <= handled'[h][m]
               /\ skipped \cup dropped \cup cut \subseteq skipped' \cup dropped' \cup cut'
               /\ early \subseteq early' /\ repeatable \subseteq repeatable'
               /\ \A m \in 1..Len(topic) : topic'[m] = topic[m]
    BY <1>0, <1>2
  <1>3. CASE Join \/ StartMain \/ StartSaga \/ Stop \/ Restart \/ Gone \/ UNCHANGED vars
    BY <1>2, <1>3
       DEF Join, StartMain, StartSaga, Stop, Restart, Gone, vars, brokerVars, auxVars
  <1>4. ASSUME NEW l \in Loops, Step(l), ~Handle(l)
        PROVE  /\ UNCHANGED <<topic, handled>>
               /\ skipped \subseteq skipped' /\ dropped \subseteq dropped' /\ cut \subseteq cut'
               /\ early \subseteq early' /\ repeatable \subseteq repeatable'
    BY <1>4 DEF Step, Fetch, FetchFails, Commit, Store, Lookup, Select, brokerVars,
                auxVars
  <1>5. ASSUME NEW l \in Loops, Handle(l)
        PROVE  /\ \A h \in Handlers, m \in Messages : handled[h][m] <= handled'[h][m]
               /\ UNCHANGED <<topic, auxVars>>
    <2>1. /\ handled' = [handled EXCEPT ![Head(todo[l])][held[l]] = @ + 1]
          /\ UNCHANGED <<topic, auxVars>>
      BY <1>5 DEF Handle, brokerVars
    <2>2. \A h \in Handlers, m \in Messages :
            handled[h][m] \in Nat /\ handled'[h][m] \in {handled[h][m], handled[h][m] + 1}
      BY <1>0, <2>1
    <2>3. QED
      BY <2>1, <2>2
  <1>6. QED
    BY <1>1, <1>2, <1>3, <1>4, <1>5 DEF Next, Exit, MapRace, auxVars

\* A loop that brings a message to a handler does so, or loses it in one of the
\* ways that are known.
LEMMA LoopBrings ==
  ASSUME BusInv, NEW l \in Loops, Step(l), NEW m \in Messages,
         NEW h \in Due(topic[m]), Brings(l, h, m)
  PROVE  Covered(h, m)'
  <1>0. /\ pc \in [Loops -> Labels] /\ held \in [Loops -> 0..Len(topic)]
        /\ todo \in [Loops -> Todos] /\ h \in Handlers /\ held[l] = m /\ m # 0
        /\ handled \in [Handlers -> [Messages -> Nat]]
    BY BusFacts DEF Due, Handlers, Brings, Messages
  <1>1. \/ pc[l] \in {"commit", "lookup"}
        \/ pc[l] = "handle" /\ Awaits(l, h)
    <2>1. <<h>> # <<>> /\ <<"metrics", "saga">> # <<>>
      OBVIOUS
    <2>2. QED
      BY <2>1, BusFacts DEF Brings, Awaits, Hands
  <1>2. CASE Commit(l)
    <2>1. CASE dropped' = dropped \cup {held[l]}
      BY <1>0, <2>1 DEF Covered
    <2>2. CASE Goto(l, "lookup") /\ UNCHANGED held
      BY <1>0, <2>2 DEF Goto, Covered, Brings
    <2>3. QED
      BY <1>2, <2>1, <2>2 DEF Commit
  <1>3. CASE Lookup(l)
    <2>1. topic[m] \in MetricsKinds /\ topic[m] \notin {"headless", "garbled"}
      BY DEF Due, MetricsKinds
    <2>2. HandlersFor(topic[m]) \in {<<"metrics">>, <<"metrics", "saga">>}
      BY <2>1, HandlersForFacts
    <2>0. HandlersFor(topic[m]) # <<>>
      <3>1. <<"metrics">> # <<>> /\ <<"metrics", "saga">> # <<>>
        OBVIOUS
      <3>2. QED
        BY <2>2, <3>1
    <2>3. /\ todo' = [todo EXCEPT ![l] = HandlersFor(topic[m])] /\ UNCHANGED held
          /\ early' = IF "saga" \in Due(topic[m]) /\ topic[m] \notin known
                        THEN early \cup {m} ELSE early
      BY <1>0, <1>3, <2>0, <2>1 DEF Lookup
    <2>4. CASE h = "saga" /\ topic[m] \notin known
      <3>1. "saga" \in Due(topic[m])
        BY <2>4
      <3>2. m \in early'
        BY <2>3, <2>4, <3>1
      <3>3. QED
        BY <2>4, <3>2 DEF Covered
    <2>5. CASE h = "metrics" \/ topic[m] \in known
      <3>1. HandlersFor(topic[m]) \in {<<h>>, <<"metrics", "saga">>}
        BY <1>0, <2>2, <2>5, HandlersForFacts DEF Handlers
      <3>2. Brings(l, h, m)'
        BY <1>0, <2>3, <3>1 DEF Brings, Awaits
      <3>3. QED
        BY <3>2 DEF Covered
    <2>6. QED
      BY <1>0, <2>4, <2>5 DEF Handlers
  <1>4. CASE Handle(l)
    <2>1. Awaits(l, h) /\ todo[l] \in Todos
      BY <1>0, <1>1, <1>4 DEF Handle
    <2>2. CASE Head(todo[l]) = h
      <3>1. handled'[h][m] = handled[h][m] + 1
        BY <1>0, <1>4, <2>2 DEF Handle
      <3>2. QED
        BY <1>0, <3>1 DEF Covered
    <2>3. CASE Head(todo[l]) # h
      <3>1. todo[l] = <<"metrics", "saga">> /\ h = "saga"
        BY <1>0, <2>1, <2>3 DEF Awaits, Handlers
      <3>2. Len(todo[l]) = 2 /\ Tail(todo[l]) = <<"saga">>
        BY <3>1
      <3>3. todo'[l] = <<"saga">> /\ UNCHANGED held
        <4>1. todo' = [todo EXCEPT ![l] = Tail(todo[l])] /\ UNCHANGED held
          BY <1>4, <3>2 DEF Handle
        <4>2. QED
          BY <1>0, <3>2, <4>1
      <3>4. Brings(l, h, m)'
        BY <1>0, <3>1, <3>3 DEF Brings, Awaits
      <3>5. QED
        BY <3>4 DEF Covered
    <2>4. QED
      BY <2>2, <2>3
  <1>5. QED
    BY <1>1, <1>2, <1>3, <1>4 DEF Step, Fetch, FetchFails, Select

\* A step of one loop leaves the other alone.
LEMMA OtherLoop ==
  ASSUME BusInv, NEW k \in Loops, NEW l \in Loops \ {k}, Step(k)
  PROVE  pc'[l] = pc[l] /\ held'[l] = held[l] /\ todo'[l] = todo[l]
  <1>1. /\ pc \in [Loops -> Labels] /\ held \in [Loops -> 0..Len(topic)]
        /\ todo \in [Loops -> Todos]
    BY BusFacts
  <1>2. QED
    BY <1>1 DEF Step, Fetch, FetchFails, Commit, Lookup, Handle, Select, PutDown, Goto

\* A loop that has a message in hand is not one that is started.
LEMMA StartsLeaveHands ==
  ASSUME BusInv, NEW l \in Loops, held[l] # 0, StartMain \/ StartSaga
  PROVE  pc'[l] = pc[l] /\ held'[l] = held[l] /\ todo'[l] = todo[l]
  <1>1. /\ pc \in [Loops -> Labels] /\ pc[l] # "off"
        /\ setup = "recovering" => pc["saga"] = "off"
    BY BusFacts DEF Hands, BusInv, SagaIsOff
  <1>2. CASE StartMain
    BY <1>1, <1>2 DEF StartMain, Goto
  <1>3. CASE StartSaga
    BY <1>1, <1>3 DEF StartSaga, Goto
  <1>4. QED
    BY <1>2, <1>3

LEMMA CoveredStays ==
  ASSUME BusInv, [Next]_vars, NEW m \in Messages, NEW h \in Due(topic[m]),
         Covered(h, m)
  PROVE  Covered(h, m)'
  <1>0. h \in Handlers /\ handled \in [Handlers -> [Messages -> Nat]]
    BY BusFacts DEF Due, Handlers
  <1>1. CASE handled[h][m] > 0
    <2>1. handled[h][m] <= handled'[h][m] /\ handled[h][m] \in Nat
      BY <1>0, HistoryGrows
    <2>2. handled'[h][m] \in Nat
      <3>1. BusInv'
        BY BaseStep, SagaIsOffStep DEF BusInv
      <3>2. handled' \in [Handlers -> [Messages -> Nat]]
        BY <3>1 DEF BusInv, Base, TypeOK
      <3>3. QED
        BY <1>0, <3>2
    <2>3. QED
      BY <1>1, <2>1, <2>2 DEF Covered
  <1>2. CASE m \in skipped \cup dropped \cup cut \/ (h = "saga" /\ m \in early)
    BY <1>2, HistoryGrows DEF Covered
  <1>3. ASSUME NEW l \in Loops, Brings(l, h, m) PROVE Covered(h, m)'
    <2>0. held[l] = m /\ m # 0
      BY <1>3 DEF Brings, Messages
    <2>1. ASSUME pc'[l] = pc[l], held'[l] = held[l], todo'[l] = todo[l]
          PROVE  Covered(h, m)'
      <3>1. Brings(l, h, m)'
        BY <1>3, <2>1 DEF Brings, Awaits
      <3>2. QED
        BY <3>1 DEF Covered
    <2>2. ASSUME NEW k \in Loops, Step(k) PROVE Covered(h, m)'
      <3>1. CASE k = l
        BY <1>3, <2>2, <3>1, LoopBrings
      <3>2. CASE k # l
        BY <2>1, <2>2, <3>2, OtherLoop
      <3>3. QED
        BY <3>1, <3>2
    <2>3. CASE Gone
      BY <2>0, <2>3 DEF Gone, Covered
    <2>4. CASE StartMain \/ StartSaga
      BY <2>0, <2>1, <2>4, StartsLeaveHands
    <2>5. CASE UNCHANGED loopVars
      BY <2>1, <2>5 DEF loopVars
    <2>6. QED
      BY <2>2, <2>3, <2>4, <2>5
         DEF Next, Publish, ForeignMessage, Join, Stop, Restart, Exit, MapRace, vars
  <1>4. QED
    BY <1>1, <1>2, <1>3 DEF Covered

LEMMA LossStep ==
  ASSUME BusInv, LossInv, [Next]_vars
  PROVE  LossInv'
  <1>0. /\ position \in 0..Len(topic) /\ Len(topic) \in Nat
        /\ Len(topic) <= MaxMessages /\ MaxMessages \in Nat
        /\ committed \in 0..Len(topic)
        /\ pc \in [Loops -> Labels] /\ held \in [Loops -> 0..Len(topic)]
    BY BusFacts
  <1>1. ASSUME NEW m \in 1..position, NEW h \in Due(topic'[m]) PROVE Covered(h, m)'
    <2>1. topic'[m] = topic[m] /\ m \in Messages
      BY <1>0, HistoryGrows DEF Messages
    <2>2. Covered(h, m)
      BY <1>1, <2>1 DEF LossInv
    <2>3. QED
      BY <1>1, <2>1, <2>2, CoveredStays
  <1>2. CASE position' <= position
    <2>1. position' \in Int
      <3>1. BusInv'
        BY BaseStep, SagaIsOffStep DEF BusInv
      <3>2. position' \in 0..Len(topic') /\ Len(topic') \in Nat
        BY <3>1 DEF BusInv, Base, TypeOK
      <3>3. QED
        BY <3>2
    <2>2. QED
      BY <1>0, <1>1, <1>2, <2>1 DEF LossInv
  <1>3. ASSUME NEW l \in Loops, Fetch(l) PROVE LossInv'
    <2>1. ASSUME NEW h, NEW m, m = position + 1 PROVE Covered(h, m)'
      <3>1. Brings(l, h, m)'
        BY <1>0, <1>3, <2>1 DEF Fetch, Goto, Brings
      <3>2. QED
        BY <3>1 DEF Covered
    <2>2. /\ position' = position + 1
          /\ \A m \in 1..position' : m \in 1..position \/ m = position + 1
      BY <1>0, <1>3 DEF Fetch
    <2>3. QED
      BY <1>1, <2>1, <2>2 DEF LossInv
  <1>4. CASE Join
    <2>1. position' = FirstPosition /\ FirstPosition \in 0..Len(topic)
      BY <1>0, <1>4 DEF Join, FirstPosition
    <2>2. \A m \in 1..position' : m \in 1..position \/ m \in (position + 1)..FirstPosition
      BY <1>0, <2>1
    <2>3. \A m \in (position + 1)..FirstPosition : m \in skipped'
      BY <1>4 DEF Join
    <2>4. \A m \in (position + 1)..FirstPosition : \A h : Covered(h, m)'
      BY <2>3 DEF Covered
    <2>5. QED
      BY <1>1, <2>2, <2>4 DEF LossInv
  <1>5. CASE UNCHANGED position
    BY <1>0, <1>2, <1>5
  <1>6. ASSUME NEW l \in Loops, Step(l), ~Fetch(l) PROVE UNCHANGED position
    BY <1>6 DEF Step, FetchFails, Commit, Lookup, Handle, Select, brokerVars
  <1>7. QED
    BY <1>3, <1>4, <1>5, <1>6
       DEF Next, Publish, ForeignMessage, StartMain, StartSaga, Stop, Restart, Gone,
           Exit, MapRace, brokerVars, vars

\* Every message that the reader has passed is handled by every handler that
\* wants it, or is lost in one of four known ways: whatever the number of
\* messages, starts, rebalances and failed commits.
THEOREM BusLossesAreKnown == Spec => []LossesAreKnown
  <1>1. Init => LossInv
    BY DEF Init, LossInv
  <1>2. BusInv /\ LossInv => LossesAreKnown
    <2> SUFFICES ASSUME BusInv, LossInv, NEW m \in 1..position,
                        NEW h \in Due(topic[m]), handled[h][m] = 0
                 PROVE  \/ InHand(m)
                        \/ m \in skipped \cup dropped \cup cut
                        \/ h = "saga" /\ m \in early
      BY DEF LossesAreKnown
    <2>1. Covered(h, m)
      BY DEF LossInv
    <2>2. QED
      BY <2>1 DEF Covered, Brings, InHand
  <1>3. BusInv /\ LossInv /\ [Next]_vars => LossInv'
    BY LossStep
  <1>4. QED
    BY <1>1, <1>2, <1>3, BusInvariant, PTL DEF Spec

-----------------------------------------------------------------------------
(* The bus: what a message may be repeated for.                            *)

\* What holds of a message for as long as no commit went back before it and no
\* session was replaced with it uncommitted: it is behind the position of the
\* reader once it is in a hand, behind the committed offset once a handler may
\* be called, in one hand at a time, and called for once.
Fresh(m) ==
  /\ \A h \in Handlers : /\ handled[h][m] <= 1
                         /\ handled[h][m] > 0 => m <= committed /\ m <= position
  /\ \A l \in Loops : held[l] = m => m <= position /\ (pc[l] # "commit" => m <= committed)
  /\ \A k, l \in Loops : held[k] = m /\ held[l] = m => k = l
  /\ \A l \in Loops, h \in Handlers : Brings(l, h, m) => handled[h][m] = 0

RepeatInv == \A m \in Messages \ repeatable : Fresh(m)

\* Where neither offsets nor calls change, a loop has at most what it had.
LEMMA FreshKept ==
  ASSUME NEW m \in Messages, Fresh(m), UNCHANGED <<committed, position, handled>>,
         \A l \in Loops : held'[l] = m =>
           /\ held[l] = m
           /\ pc'[l] # "commit" => pc[l] # "commit" \/ m <= committed
           /\ \A h \in Handlers : Brings(l, h, m)' => Brings(l, h, m)
  PROVE  Fresh(m)'
  <1>1. \A h \in Handlers, l \in Loops : Brings(l, h, m)' => Brings(l, h, m)
    BY DEF Brings
  <1>2. QED
    BY <1>1 DEF Fresh

LEMMA RepeatStep ==
  ASSUME BusInv, RepeatInv, [Next]_vars, NEW m \in Messages \ repeatable'
  PROVE  Fresh(m)'
  <1>0. /\ Fresh(m) /\ m \in Messages /\ m \in Nat /\ m # 0
        /\ position \in Nat /\ committed \in Nat /\ Len(topic) \in Nat
        /\ position <= Len(topic) /\ committed <= Len(topic)
        /\ pc \in [Loops -> Labels] /\ held \in [Loops -> 0..Len(topic)]
        /\ todo \in [Loops -> Todos]
        /\ handled \in [Handlers -> [Messages -> Nat]]
        /\ \A h \in Handlers : handled[h][m] \in Nat
    BY BusFacts, HistoryGrows DEF RepeatInv, Messages
  <1>1. ASSUME UNCHANGED <<committed, position, handled, loopVars>> PROVE Fresh(m)'
    BY <1>0, <1>1, FreshKept DEF Brings, Awaits, loopVars
  <1>2. CASE StartMain \/ StartSaga
    <2>1. UNCHANGED <<committed, position, handled, held, todo>>
      BY <1>2 DEF StartMain, StartSaga, brokerVars
    <2>2. \A l \in Loops : held[l] # 0 => pc'[l] = pc[l]
      BY <1>2, StartsLeaveHands
    <2>3. QED
      BY <1>0, <2>1, <2>2, FreshKept DEF Brings, Awaits
  <1>3. CASE Gone
    <2>1. /\ UNCHANGED <<committed, position, handled>>
          /\ \A l \in Loops : held'[l] = 0
      BY <1>3 DEF Gone, Empty
    <2>2. QED
      BY <1>0, <2>1, FreshKept
  <1>4. CASE Join
    <2>1. /\ UNCHANGED <<committed, handled, held, pc, todo>> /\ position' = FirstPosition
          /\ joined => m \notin (FirstPosition + 1)..position
      BY <1>4 DEF Join, loopVars
    <2>2. FirstPosition \in Nat /\ (m <= committed => m <= FirstPosition)
      BY <1>0 DEF FirstPosition
    <2>3. \A l \in Loops : held[l] = m => m <= FirstPosition
      <3>1. ASSUME NEW l \in Loops, held[l] = m PROVE m <= FirstPosition
        <4>1. joined /\ m <= position
          BY <1>0, <3>1, BusFacts DEF Hands, Fresh
        <4>2. QED
          BY <1>0, <2>1, <2>2, <4>1
      <3>2. QED
        BY <3>1
    <2>4. QED
      BY <1>0, <2>1, <2>2, <2>3 DEF Fresh, Brings, Awaits
  <1>5. ASSUME NEW l \in Loops, Fetch(l) PROVE Fresh(m)'
    <2>1. /\ held' = [held EXCEPT ![l] = position + 1] /\ pc' = [pc EXCEPT ![l] = "commit"]
          /\ UNCHANGED <<committed, handled, todo>> /\ position' = position + 1
      BY <1>5 DEF Fetch, Goto
    <2>2. /\ held'[l] = position + 1 /\ pc'[l] = "commit"
          /\ \A k \in Loops \ {l} : held'[k] = held[k] /\ pc'[k] = pc[k]
      BY <1>0, <2>1
    <2>3. CASE m = position + 1
      <3>1. /\ \A k \in Loops : held[k] # m
            /\ \A h \in Handlers : handled[h][m] = 0
        BY <1>0, <2>3 DEF Fresh
      <3>2. QED
        BY <1>0, <2>1, <2>2, <2>3, <3>1 DEF Fresh
    <2>4. CASE m # position + 1
      <3>1. \A k \in Loops : held'[k] = m => k # l
        BY <2>2, <2>4
      <3>2. \A k \in Loops, h \in Handlers : Brings(k, h, m)' => Brings(k, h, m)
        BY <2>1, <2>2, <3>1 DEF Brings, Awaits
      <3>3. QED
        BY <1>0, <2>1, <2>2, <3>1, <3>2 DEF Fresh
    <2>5. QED
      BY <2>3, <2>4
  <1>6. ASSUME NEW l \in Loops, FetchFails(l) \/ Select(l) PROVE Fresh(m)'
    <2>1. /\ UNCHANGED <<committed, position, handled, held, todo>> /\ held[l] = 0
          /\ \A k \in Loops \ {l} : pc'[k] = pc[k]
      BY <1>0, <1>6, BusFacts DEF FetchFails, Select, Goto, Hands, brokerVars
    <2>2. QED
      BY <1>0, <2>1, FreshKept DEF Brings, Awaits
  <1>7. ASSUME NEW l \in Loops, Commit(l) PROVE Fresh(m)'
    <2>1. /\ UNCHANGED <<position, handled>> /\ pc[l] = "commit"
          /\ \A k \in Loops \ {l} : /\ held'[k] = held[k] /\ pc'[k] = pc[k]
                                   /\ todo'[k] = todo[k]
      BY <1>7, OtherLoop DEF Commit, Step
    <2>2. \/ UNCHANGED committed
          \/ committed' = held[l] /\ m \notin (held[l] + 1)..committed
      BY <1>7 DEF Commit, Store
    <2>3. m <= committed => m <= committed'
      <3>1. held[l] \in Nat
        BY <1>0
      <3>2. QED
        BY <1>0, <2>2, <3>1
    <2>4. CASE PutDown(l)
      <3>1. held'[l] = 0
        BY <1>0, <2>4 DEF PutDown
      <3>2. \A k \in Loops, h \in Handlers : Brings(k, h, m)' => Brings(k, h, m)
        BY <1>0, <2>1, <3>1 DEF Brings, Awaits
      <3>3. QED
        BY <1>0, <2>1, <2>3, <3>1, <3>2 DEF Fresh
    <2>5. CASE Store(l) /\ Goto(l, "lookup") /\ UNCHANGED <<held, todo>>
      <3>1. pc'[l] = "lookup" /\ committed' = held[l]
        BY <1>0, <2>5 DEF Goto, Store
      <3>2. \A k \in Loops, h \in Handlers : Brings(k, h, m)' => Brings(k, h, m)
        BY <2>1, <2>5 DEF Brings, Awaits
      <3>3. QED
        BY <1>0, <2>1, <2>3, <2>5, <3>1, <3>2 DEF Fresh
    <2>6. QED
      BY <1>7, <2>4, <2>5 DEF Commit
  <1>8. ASSUME NEW l \in Loops, Lookup(l) PROVE Fresh(m)'
    <2>1. /\ UNCHANGED <<committed, position, handled>> /\ pc[l] = "lookup"
          /\ \A k \in Loops \ {l} : /\ held'[k] = held[k] /\ pc'[k] = pc[k]
                                   /\ todo'[k] = todo[k]
          /\ held'[l] \in {0, held[l]}
      BY <1>0, <1>8, OtherLoop DEF Lookup, Step, PutDown, brokerVars
    <2>2. QED
      BY <1>0, <2>1, FreshKept DEF Brings, Awaits
  <1>9. ASSUME NEW l \in Loops, Handle(l) PROVE Fresh(m)'
    <2>1. /\ UNCHANGED <<committed, position>> /\ pc[l] = "handle"
          /\ handled' = [handled EXCEPT ![Head(todo[l])][held[l]] = @ + 1]
          /\ \A k \in Loops \ {l} : /\ held'[k] = held[k] /\ pc'[k] = pc[k]
                                   /\ todo'[k] = todo[k]
      BY <1>9, OtherLoop DEF Handle, Step, brokerVars
    <2>2. CASE held[l] # m
      <3>1. \A h \in Handlers : handled'[h][m] = handled[h][m]
        BY <1>0, <2>1, <2>2
      <3>2. held'[l] # m
        BY <1>0, <1>9, <2>2 DEF Handle, PutDown
      <3>3. \A k \in Loops, h \in Handlers : Brings(k, h, m)' => Brings(k, h, m)
        BY <2>1, <3>2 DEF Brings, Awaits
      <3>4. QED
        BY <1>0, <2>1, <3>1, <3>2, <3>3 DEF Fresh
    <2>3. CASE held[l] = m
      <3>1. /\ m <= committed /\ m <= position
            /\ \A k \in Loops \ {l} : held[k] # m
        BY <1>0, <2>1, <2>3 DEF Fresh
      <3>2. PICK g \in Handlers : g = Head(todo[l]) /\ Awaits(l, g)
        <4>1. todo[l] \in Todos /\ todo[l] # <<>>
          BY <1>0, <2>1, BusFacts DEF Hands
        <4>2. Head(todo[l]) \in Handlers /\ Awaits(l, Head(todo[l]))
          BY <4>1, TodoFacts DEF Todos, Awaits
        <4>3. QED
          BY <4>2
      <3>3. handled[g][m] = 0
        BY <1>0, <2>3, <3>2 DEF Fresh, Brings
      <3>4. /\ handled'[g][m] = 1
            /\ \A h \in Handlers \ {g} : handled'[h][m] = handled[h][m]
        BY <1>0, <2>1, <2>3, <3>2, <3>3
      <3>5. \A h \in Handlers : Brings(l, h, m)' => h # g /\ Brings(l, h, m)
        <4>1. CASE PutDown(l)
          <5>1. held'[l] = 0
            BY <1>0, <4>1 DEF PutDown
          <5>2. QED
            BY <1>0, <5>1 DEF Brings
        <4>2. CASE Len(todo[l]) > 1 /\ todo' = [todo EXCEPT ![l] = Tail(@)]
                   /\ UNCHANGED <<pc, held>>
          <5>1. todo[l] = <<"metrics", "saga">> /\ g = "metrics" /\ Tail(todo[l]) = <<"saga">>
            BY <1>0, <3>2, <4>2, TodoFacts
          <5>2. todo'[l] = <<"saga">> /\ pc'[l] = "handle"
            BY <1>0, <2>1, <4>2, <5>1
          <5>3. ASSUME NEW h \in Handlers, Brings(l, h, m)' PROVE h = "saga"
            <6>1. <<"saga">> \in {<<h>>, <<"metrics", "saga">>}
              BY <5>2, <5>3 DEF Brings, Awaits
            <6>2. <<"saga">> # <<"metrics", "saga">> /\ (<<"saga">> = <<h>> => h = "saga")
              OBVIOUS
            <6>3. QED
              BY <6>1, <6>2
          <5>4. QED
            BY <2>1, <2>3, <5>1, <5>3 DEF Brings, Awaits
        <4>3. QED
          BY <1>9, <4>1, <4>2 DEF Handle
      <3>6. \A k \in Loops \ {l} : held'[k] # m
        BY <2>1, <3>1
      <3>7. \A k \in Loops, h \in Handlers : Brings(k, h, m)' => handled'[h][m] = 0
        BY <1>0, <3>4, <3>5, <3>6 DEF Fresh, Brings
      <3>8. \A h \in Handlers : handled'[h][m] <= 1
        <4>1. \A h \in Handlers : handled[h][m] <= 1
          BY <1>0, Zenon DEF Fresh
        <4>2. SUFFICES ASSUME NEW h \in Handlers PROVE handled'[h][m] <= 1
          BY Zenon
        <4>3. CASE h = g
          <5>1. handled'[h][m] = 1
            BY <3>4, <4>3, Zenon
          <5>2. QED
            BY <5>1
        <4>4. CASE h # g
          <5>1. handled'[h][m] = handled[h][m]
            BY <3>4, <4>4, Zenon
          <5>2. QED
            BY <4>1, <5>1, Zenon
        <4>5. QED
          BY <4>3, <4>4
      <3>9. QED
        BY <1>0, <2>1, <3>1, <3>6, <3>7, <3>8 DEF Fresh
    <2>4. QED
      BY <2>2, <2>3
  <1>10. QED
    BY <1>1, <1>2, <1>3, <1>4, <1>5, <1>6, <1>7, <1>8, <1>9
       DEF Next, Step, Publish, ForeignMessage, Stop, Restart, Exit, MapRace,
           brokerVars, vars

\* No message is handled twice but for a commit of one loop that takes back that
\* of the other, or a rebalance between a fetch and its commit.
THEOREM BusRepeatsAreKnown == Spec => []RepeatsAreKnown
  <1>1. Init => RepeatInv
    <2> SUFFICES ASSUME Init, NEW m \in Messages PROVE Fresh(m)
      BY DEF RepeatInv
    <2>1. /\ \A h \in Handlers : handled[h][m] = 0
          /\ \A l \in Loops : held[l] = 0 /\ m # 0
      BY DEF Init, Empty, Messages
    <2>2. QED
      BY <2>1 DEF Fresh
  <1>2. BusInv /\ RepeatInv => RepeatsAreKnown
    <2> SUFFICES ASSUME BusInv, RepeatInv, NEW h \in Handlers,
                        NEW m \in Messages \ repeatable
                 PROVE  ~(handled[h][m] > 1)
      BY DEF RepeatsAreKnown
    <2>1. handled[h][m] \in Nat /\ handled[h][m] <= 1
      BY BusFacts DEF RepeatInv, Fresh
    <2>2. QED
      BY <2>1
  <1>3. BusInv /\ RepeatInv /\ [Next]_vars => RepeatInv'
    <2> SUFFICES ASSUME BusInv, RepeatInv, [Next]_vars PROVE RepeatInv'
      OBVIOUS
    <2>1. \A m \in Messages \ repeatable' : Fresh(m)'
      BY RepeatStep
    <2>2. QED
      BY <2>1 DEF RepeatInv, Messages
  <1>4. QED
    BY <1>1, <1>2, <1>3, BusInvariant, PTL DEF Spec
=============================================================================
