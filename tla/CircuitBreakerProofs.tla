------------------------ MODULE CircuitBreakerProofs ------------------------
(***************************************************************************)
(* Proofs about CircuitBreaker, for any number of goroutines and any       *)
(* threshold.                                                              *)
(***************************************************************************)
EXTENDS CircuitBreaker, TLAPS

(***************************************************************************)
(* The inductive invariant.  An increment that is about to be stored was   *)
(* loaded before its own failure was counted, so that what it stores is no *)
(* more than the failures so far, however old the value it has loaded.     *)
(***************************************************************************)
CountsFollowErrors ==
  /\ failures <= errors
  /\ streak <= errors
  /\ \A c \in Callers :
       /\ pc[c] = "store_failures" => Bump(loaded[c]) <= errors
       /\ pc[c] \in {"elapsed", "half_open", "open"} => errors = MaxFailures

IInv ==
  /\ TypeOK
  /\ CountsFollowErrors
  /\ NeverOpensEarly

\* What the lemmas below need to know of the saturating increment.
LEMMA BumpFacts ==
  ASSUME NEW n \in Counter, NEW m \in Counter, n <= m
  PROVE  /\ Bump(n) \in Counter
         /\ Bump(n) <= Bump(m)
         /\ n <= Bump(n)
  BY BreakerAssumption DEF Bump, Counter

LEMMA InitIInv == Init => IInv
  BY BreakerAssumption
     DEF Init, IInv, TypeOK, CountsFollowErrors, NeverOpensEarly, Counter

\* The loads and stores of CanExecute and of OnSuccess, and a call answered.
LEMMA QuietStepIInv ==
  ASSUME IInv, NEW c \in Callers
  PROVE  /\ Invoke(c) => IInv'
         /\ LoadState(c) => IInv'
         /\ LoadLastFailure(c) => IInv'
         /\ StoreHalfOpen(c) => IInv'
         /\ Answered(c) => IInv'
         /\ ZeroFailures(c) => IInv'
         /\ StoreClosed(c) => IInv'
  <1> USE BreakerAssumption
      DEF IInv, TypeOK, CountsFollowErrors, NeverOpensEarly, Counter, At, Goto,
          ghostVars
  <1>1. ASSUME Invoke(c) PROVE IInv'
    BY <1>1 DEF Invoke
  <1>2. ASSUME LoadState(c) PROVE IInv'
    BY <1>2 DEF LoadState
  <1>3. ASSUME LoadLastFailure(c) PROVE IInv'
    BY <1>3 DEF LoadLastFailure
  <1>4. ASSUME StoreHalfOpen(c) PROVE IInv'
    BY <1>4 DEF StoreHalfOpen
  <1>5. ASSUME Answered(c) PROVE IInv'
    BY <1>5 DEF Answered
  <1>6. ASSUME ZeroFailures(c) PROVE IInv'
    BY <1>6 DEF ZeroFailures
  <1>7. ASSUME StoreClosed(c) PROVE IInv'
    BY <1>7 DEF StoreClosed
  <1>8. QED
    BY <1>1, <1>2, <1>3, <1>4, <1>5, <1>6, <1>7

\* A call fails: the failure is counted and the counter is loaded.
LEMMA FailedIInv ==
  ASSUME IInv, NEW c \in Callers, Failed(c)
  PROVE  IInv'
  <1> USE BreakerAssumption DEF Failed, At, Goto
  <1>1. TypeOK /\ CountsFollowErrors /\ NeverOpensEarly
    BY DEF IInv
  <1>2. /\ failures \in Counter /\ errors \in Counter /\ streak \in Counter
        /\ failures <= errors /\ streak <= errors
    BY <1>1 DEF TypeOK, CountsFollowErrors
  <1>3. /\ Bump(failures) <= errors' /\ Bump(streak) <= errors'
        /\ errors <= errors' /\ errors' \in Counter /\ streak' \in Counter
        /\ errors = MaxFailures => errors' = MaxFailures
    BY <1>2, BumpFacts DEF Counter, Bump
  <1>4. TypeOK'
    BY <1>1, <1>3 DEF TypeOK
  <1>5. CountsFollowErrors'
    <2>1. failures' <= errors' /\ streak' <= errors'
      BY <1>2, <1>3 DEF Counter
    <2>2. ASSUME NEW d \in Callers
          PROVE  /\ pc'[d] = "store_failures" => Bump(loaded'[d]) <= errors'
                 /\ pc'[d] \in {"elapsed", "half_open", "open"} =>
                      errors' = MaxFailures
      <3>1. CASE d = c
        BY <1>1, <1>3, <3>1 DEF TypeOK
      <3>2. CASE d # c
        <4>1. pc'[d] = pc[d] /\ loaded'[d] = loaded[d]
          BY <1>1, <3>2 DEF TypeOK
        <4>2. Bump(loaded[d]) \in Counter
          BY <1>1, BumpFacts DEF TypeOK, Counter
        <4>3. QED
          BY <1>1, <1>2, <1>3, <4>1, <4>2 DEF CountsFollowErrors, Counter
      <3>3. QED
        BY <3>1, <3>2
    <2>3. QED
      BY <2>1, <2>2 DEF CountsFollowErrors
  <1>6. NeverOpensEarly'
    BY <1>1, <1>2, <1>3 DEF NeverOpensEarly, Counter
  <1>7. QED
    BY <1>4, <1>5, <1>6 DEF IInv

\* The stores of OnFailure.
LEMMA OnFailureIInv ==
  ASSUME IInv, NEW c \in Callers
  PROVE  /\ StoreFailures(c) => IInv'
         /\ StoreLastFailure(c) => IInv'
         /\ Compare(c) => IInv'
         /\ StoreOpen(c) => IInv'
  <1> USE BreakerAssumption
      DEF IInv, TypeOK, CountsFollowErrors, NeverOpensEarly, Counter, At, Goto,
          ghostVars
  <1>1. ASSUME StoreFailures(c) PROVE IInv'
    <2>1. Bump(loaded[c]) \in 0..MaxFailures
      BY BumpFacts
    <2>2. QED
      BY <1>1, <2>1 DEF StoreFailures, Bump
  <1>2. ASSUME StoreLastFailure(c) PROVE IInv'
    BY <1>2 DEF StoreLastFailure
  <1>3. ASSUME Compare(c) PROVE IInv'
    BY <1>3 DEF Compare
  <1>4. ASSUME StoreOpen(c) PROVE IInv'
    BY <1>4 DEF StoreOpen
  <1>5. QED
    BY <1>1, <1>2, <1>3, <1>4

\* Resets, time, outages and steps that change nothing.
LEMMA OtherStepIInv ==
  ASSUME IInv
  PROVE  /\ ResetState => IInv'
         /\ ResetFailures => IInv'
         /\ TimePasses => IInv'
         /\ Outage => IInv'
         /\ UNCHANGED vars => IInv'
  <1> USE BreakerAssumption
      DEF IInv, TypeOK, CountsFollowErrors, NeverOpensEarly, Counter, ghostVars
  <1>1. ASSUME ResetState PROVE IInv'
    BY <1>1 DEF ResetState
  <1>2. ASSUME ResetFailures PROVE IInv'
    BY <1>2 DEF ResetFailures
  <1>3. ASSUME TimePasses PROVE IInv'
    BY <1>3 DEF TimePasses
  <1>4. ASSUME Outage PROVE IInv'
    BY <1>4 DEF Outage
  <1>5. ASSUME UNCHANGED vars PROVE IInv'
    BY <1>5 DEF vars
  <1>6. QED
    BY <1>1, <1>2, <1>3, <1>4, <1>5

\* The counters agree with the failures of the gateway in every reachable state.
THEOREM BreakerInvariant == Spec => []IInv
  <1>1. IInv /\ [Next]_vars => IInv'
    BY QuietStepIInv, FailedIInv, OnFailureIInv, OtherStepIInv DEF Next, Step
  <1>2. QED
    BY InitIInv, <1>1, PTL DEF Spec

\* The type invariant of the breaker.
THEOREM TypeCorrect == Spec => []TypeOK
  BY BreakerInvariant, PTL DEF IInv

\* No race makes the breaker turn a payment away before the gateway has failed
\* MaxFailures times.
THEOREM NoEarlyOpening == Spec => []NeverOpensEarly
  BY BreakerInvariant, PTL DEF IInv

-----------------------------------------------------------------------------
(***************************************************************************)
(* One payment at a time.  What the fields hold then depends on how far    *)
(* the one payment is, and on the calls that have failed in a row.         *)
(***************************************************************************)
Tripped == streak = MaxFailures

Agrees == state = IF Tripped THEN "Open" ELSE "Closed"

\* The fields while the payment of c is at "label" and no other is under way.
Fits(c, label) ==
  /\ label \in {"idle", "can_execute"} => failures = streak /\ Agrees
  /\ label \in {"elapsed", "half_open"} =>
       failures = streak /\ state = "Open" /\ Tripped
  /\ label = "call" =>
       failures = streak /\ state = IF Tripped THEN "HalfOpen" ELSE "Closed"
  /\ label = "close" => failures = 0 /\ streak = 0
  /\ label = "store_failures" => Bump(loaded[c]) = streak
  /\ label \in {"last_failure", "compare", "open"} => failures = streak
  /\ label \in {"store_failures", "last_failure", "compare"} =>
       Tripped \/ state = "Closed"
  /\ label = "open" => Tripped

Others(c) == Callers \ {c}

OneAtATime ==
  alone =>
    /\ reset = "idle"
    /\ \A c \in Callers : At(c, "idle") \/ \A d \in Others(c) : At(d, "idle")
    /\ \A c \in Callers : (\A d \in Others(c) : At(d, "idle")) => Fits(c, pc[c])
    /\ (\A c \in Callers : At(c, "idle")) => failures = streak /\ Agrees

LEMMA InitOneAtATime == Init => OneAtATime
  BY BreakerAssumption DEF Init, OneAtATime, Fits, Agrees, Tripped, At, Others

\* A step of the one payment has to leave the fields as its next label says.
LEMMA FitsIsEnough ==
  ASSUME OneAtATime, alone, UNCHANGED <<alone, reset>>, NEW c \in Callers,
         Fits(c, pc[c])', \A d \in Others(c) : At(d, "idle")'
  PROVE  OneAtATime'
  <1>1. \A d \in Others(c) : pc'[d] = "idle"
    BY DEF At
  <1>2. ASSUME NEW d \in Callers, \A e \in Others(d) : At(e, "idle")'
        PROVE  Fits(d, pc[d])'
    <2>1. CASE d = c
      BY <1>1, <2>1
    <2>2. CASE d # c
      <3>1. pc'[c] = "idle" /\ pc'[d] = "idle"
        BY <1>1, <1>2, <2>2 DEF At, Others
      <3>2. QED
        BY <3>1 DEF Fits
    <2>3. QED
      BY <2>1, <2>2
  <1>3. ASSUME \A d \in Callers : At(d, "idle")' PROVE failures' = streak' /\ Agrees'
    BY <1>1, <1>3 DEF Fits, At
  <1>4. \A d \in Callers : At(d, "idle")' \/ \A e \in Others(d) : At(e, "idle")'
    BY <1>1 DEF At, Others
  <1>5. QED
    BY <1>2, <1>3, <1>4 DEF OneAtATime

\* While no other payment is under way, each load and store leads from the
\* fields of one label to those of the next.
LEMMA StepFits ==
  ASSUME TypeOK, NEW c \in Callers, Fits(c, pc[c]), Step(c)
  PROVE  Fits(c, pc[c])' /\ \A d \in Others(c) : pc'[d] = pc[d]
  <1> USE BreakerAssumption DEF At, Goto, ghostVars, Fits, Agrees, Tripped, Others
  <1>0. /\ failures \in Counter /\ streak \in Counter /\ loaded[c] \in Counter
        /\ DOMAIN pc = Callers /\ loaded \in [Callers -> Counter]
    BY DEF TypeOK
  <1>1. CASE LoadState(c)
    BY <1>0, <1>1 DEF LoadState, Counter
  <1>2. CASE LoadLastFailure(c)
    BY <1>0, <1>2 DEF LoadLastFailure
  <1>3. CASE StoreHalfOpen(c)
    BY <1>0, <1>3 DEF StoreHalfOpen
  <1>4. CASE Answered(c)
    BY <1>0, <1>4 DEF Answered
  <1>5. CASE Failed(c)
    <2>1. /\ pc' = [pc EXCEPT ![c] = "store_failures"] /\ pc[c] = "call"
          /\ loaded'[c] = failures /\ streak' = Bump(streak)
          /\ UNCHANGED <<state, failures>>
      BY <1>0, <1>5 DEF Failed
    <2>2. failures = streak /\ state = IF Tripped THEN "HalfOpen" ELSE "Closed"
      BY <2>1
    <2>3. Tripped => streak' = MaxFailures
      BY <2>1 DEF Bump
    <2>4. pc'[c] = "store_failures" /\ \A d \in Others(c) : pc'[d] = pc[d]
      BY <1>0, <2>1
    <2>5. QED
      BY <2>1, <2>2, <2>3, <2>4
  <1>6. CASE ZeroFailures(c)
    BY <1>0, <1>6 DEF ZeroFailures
  <1>7. CASE StoreClosed(c)
    BY <1>0, <1>7 DEF StoreClosed
  <1>8. CASE StoreFailures(c)
    BY <1>0, <1>8 DEF StoreFailures
  <1>9. CASE StoreLastFailure(c)
    BY <1>0, <1>9 DEF StoreLastFailure
  <1>10. CASE Compare(c)
    BY <1>0, <1>10 DEF Compare, Counter
  <1>11. CASE StoreOpen(c)
    BY <1>0, <1>11 DEF StoreOpen
  <1>12. QED
    BY <1>1, <1>2, <1>3, <1>4, <1>5, <1>6, <1>7, <1>8, <1>9, <1>10, <1>11 DEF Step

LEMMA NextOneAtATime ==
  ASSUME TypeOK, OneAtATime, [Next]_vars
  PROVE  OneAtATime'
  <1> SUFFICES ASSUME alone' PROVE OneAtATime'
    BY DEF OneAtATime
  <1>1. ASSUME NEW c \in Callers, Invoke(c) PROVE OneAtATime'
    <2>1. /\ alone /\ \A d \in Callers : At(d, "idle")
          /\ pc' = [pc EXCEPT ![c] = "can_execute"]
          /\ UNCHANGED <<state, failures, reset, streak>>
      BY <1>1 DEF Invoke, Goto
    <2>2. pc'[c] = "can_execute" /\ \A d \in Others(c) : At(d, "idle")'
      BY <2>1 DEF TypeOK, Others, At
    <2>3. Fits(c, pc[c])' /\ UNCHANGED alone
      BY <2>1, <2>2 DEF OneAtATime, Fits, Agrees, Tripped
    <2>4. QED
      BY <2>1, <2>2, <2>3, FitsIsEnough
  <1>2. ASSUME NEW c \in Callers, Step(c) PROVE OneAtATime'
    <2>1. /\ UNCHANGED <<alone, reset>> /\ ~At(c, "idle")
      BY <1>2 DEF Step, At, ghostVars, LoadState, LoadLastFailure, StoreHalfOpen,
                  Answered, Failed, ZeroFailures, StoreClosed, StoreFailures,
                  StoreLastFailure, Compare, StoreOpen
    <2>2. \A d \in Others(c) : At(d, "idle")
      BY <2>1 DEF OneAtATime
    <2>3. Fits(c, pc[c])
      BY <2>1, <2>2 DEF OneAtATime
    <2>4. QED
      <3>1. Fits(c, pc[c])' /\ \A d \in Others(c) : At(d, "idle")'
        BY <1>2, <2>2, <2>3, StepFits DEF At
      <3>2. QED
        BY <2>1, <3>1, FitsIsEnough
  <1>3. ASSUME ResetState \/ ResetFailures PROVE OneAtATime'
    BY <1>3 DEF ResetState, ResetFailures, OneAtATime
  <1>4. ASSUME TimePasses \/ Outage \/ UNCHANGED vars PROVE OneAtATime'
    BY <1>4 DEF TimePasses, Outage, vars, ghostVars, OneAtATime, At, Fits, Agrees,
                Tripped
  <1>5. QED
    BY <1>1, <1>2, <1>3, <1>4 DEF Next

\* As long as payments come one at a time and nobody resets the breaker, it is
\* the breaker of the textbook, whatever its threshold.
THEOREM TextbookWhenAlone == Spec => []SettledState
  <1>1. OneAtATime /\ TypeOK => SettledState
    BY BreakerAssumption DEF OneAtATime, SettledState, Agrees, Tripped, TypeOK, Counter
  <1>2. QED
    BY InitOneAtATime, NextOneAtATime, TypeCorrect, <1>1, PTL DEF Spec
=============================================================================
