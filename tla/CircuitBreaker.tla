--------------------------- MODULE CircuitBreaker ---------------------------
(***************************************************************************)
(* The circuit breaker of the gateway service (internal/services/gateway/  *)
(* service.go), and ProcessPayment around it.                              *)
(*                                                                         *)
(* One breaker serves every payment.  Its fields are read and written by   *)
(* the goroutines of all payments without a lock, so that each load and    *)
(* each store is a step of its own.  A caller is such a goroutine; when    *)
(* its payment is over it stands for the goroutine of a later one.         *)
(***************************************************************************)
EXTENDS Naturals

CONSTANTS
  Callers,      \* goroutines that are in ProcessPayment at the same time
  MaxFailures,  \* cb.maxFailures; main uses 5
  MayReset      \* whether an operator may call ResetCircuitBreaker

ASSUME BreakerAssumption ==
  /\ MaxFailures \in Nat \ {0}
  /\ MayReset \in BOOLEAN

VARIABLES
  state,     \* cb.state
  failures,  \* cb.currentFailures, not told apart above MaxFailures
  rested,    \* whether resetTimeout has passed since cb.lastFailureTime
  pc,        \* pc[c]: the next load or store of caller c
  loaded,    \* loaded[c]: the value that "currentFailures++" has loaded
  reset,     \* what ResetCircuitBreaker does next
  up,        \* whether the gateway is available
  errors,    \* failed calls so far, up to MaxFailures (auxiliary)
  streak,    \* the same since the last success or reset (auxiliary)
  alone      \* payments came one at a time, and no reset did (auxiliary)

ghostVars == <<errors, streak, alone>>
vars == <<state, failures, rested, pc, loaded, reset, up, ghostVars>>

Counter == 0..MaxFailures

\* The counter is compared with MaxFailures and with nothing else.
Bump(n) == IF n < MaxFailures THEN n + 1 ELSE n

TypeOK ==
  /\ state \in {"Closed", "Open", "HalfOpen"}
  /\ failures \in Counter
  /\ rested \in BOOLEAN
  /\ pc \in [Callers -> {"idle", "can_execute", "elapsed", "half_open", "call",
                         "zero_failures", "close", "store_failures",
                         "last_failure", "compare", "open"}]
  /\ loaded \in [Callers -> Counter]
  /\ reset \in {"idle", "failures"}
  /\ up \in BOOLEAN
  /\ errors \in Counter
  /\ streak \in Counter
  /\ alone \in BOOLEAN

\* lastFailureTime is the zero time, long ago.
Init ==
  /\ state = "Closed"
  /\ failures = 0
  /\ rested = TRUE
  /\ pc = [c \in Callers |-> "idle"]
  /\ loaded = [c \in Callers |-> 0]
  /\ reset = "idle"
  /\ up = TRUE
  /\ errors = 0
  /\ streak = 0
  /\ alone = TRUE

Goto(c, label) == pc' = [pc EXCEPT ![c] = label]

At(c, label) == pc[c] = label

-----------------------------------------------------------------------------
(* CanExecute.                                                             *)

\* A payment reaches the gateway.
Invoke(c) ==
  /\ At(c, "idle")
  /\ Goto(c, "can_execute")
  /\ alone' = (alone /\ \A d \in Callers : At(d, "idle"))
  /\ UNCHANGED <<state, failures, rested, loaded, reset, up, errors, streak>>

\* The switch on cb.state.
LoadState(c) ==
  /\ At(c, "can_execute")
  /\ \/ state = "Closed" /\ Goto(c, "call")
     \/ state = "Open" /\ Goto(c, "elapsed")
     \/ state = "HalfOpen" /\ Goto(c, "call")
  /\ UNCHANGED <<state, failures, rested, loaded, reset, up, ghostVars>>

\* time.Since(cb.lastFailureTime) > cb.resetTimeout, or "circuit breaker is
\* open", an error.
LoadLastFailure(c) ==
  /\ At(c, "elapsed")
  /\ \/ rested /\ Goto(c, "half_open")
     \/ ~rested /\ Goto(c, "idle")
  /\ UNCHANGED <<state, failures, rested, loaded, reset, up, ghostVars>>

StoreHalfOpen(c) ==
  /\ At(c, "half_open")
  /\ state' = "HalfOpen"
  /\ Goto(c, "call")
  /\ UNCHANGED <<failures, rested, loaded, reset, up, ghostVars>>

-----------------------------------------------------------------------------
(* callGatewayAPI.                                                         *)

\* The gateway answers, be it that it declines the payment.
Answered(c) ==
  /\ At(c, "call")
  /\ Goto(c, "zero_failures")
  /\ UNCHANGED <<state, failures, rested, loaded, reset, up, ghostVars>>

\* The gateway does not answer: OnFailure, with the load of
\* "currentFailures++".
Failed(c) ==
  /\ At(c, "call")
  /\ ~up
  /\ loaded' = [loaded EXCEPT ![c] = failures]
  /\ Goto(c, "store_failures")
  /\ errors' = Bump(errors)
  /\ streak' = Bump(streak)
  /\ UNCHANGED <<state, failures, rested, reset, up, alone>>

-----------------------------------------------------------------------------
(* OnSuccess.                                                              *)

\* Mutant of ZeroFailures: a success leaves the counter alone.
ZeroFailuresForgotten(c) ==
  /\ At(c, "zero_failures")
  /\ streak' = 0
  /\ Goto(c, "close")
  /\ UNCHANGED <<state, failures, rested, loaded, reset, up, errors, alone>>

ZeroFailures(c) ==
  /\ At(c, "zero_failures")
  /\ failures' = 0
  /\ streak' = 0
  /\ Goto(c, "close")
  /\ UNCHANGED <<state, rested, loaded, reset, up, errors, alone>>

\* Mutant of StoreClosed: a success does not close the breaker.
StoreClosedForgotten(c) ==
  /\ At(c, "close")
  /\ Goto(c, "idle")
  /\ UNCHANGED <<state, failures, rested, loaded, reset, up, ghostVars>>

StoreClosed(c) ==
  /\ At(c, "close")
  /\ state' = "Closed"
  /\ Goto(c, "idle")
  /\ UNCHANGED <<failures, rested, loaded, reset, up, ghostVars>>

-----------------------------------------------------------------------------
(* OnFailure, after the load.                                              *)

StoreFailures(c) ==
  /\ At(c, "store_failures")
  /\ failures' = Bump(loaded[c])
  /\ loaded' = [loaded EXCEPT ![c] = 0]
  /\ Goto(c, "last_failure")
  /\ UNCHANGED <<state, rested, reset, up, ghostVars>>

StoreLastFailure(c) ==
  /\ At(c, "last_failure")
  /\ rested' = FALSE
  /\ Goto(c, "compare")
  /\ UNCHANGED <<state, failures, loaded, reset, up, ghostVars>>

\* Mutant of Compare: one failure too early.
CompareEarly(c) ==
  /\ At(c, "compare")
  /\ \/ failures >= MaxFailures - 1 /\ Goto(c, "open")
     \/ failures < MaxFailures - 1 /\ Goto(c, "idle")
  /\ UNCHANGED <<state, failures, rested, loaded, reset, up, ghostVars>>

\* cb.currentFailures >= cb.maxFailures, from a new load.
Compare(c) ==
  /\ At(c, "compare")
  /\ \/ failures >= MaxFailures /\ Goto(c, "open")
     \/ failures < MaxFailures /\ Goto(c, "idle")
  /\ UNCHANGED <<state, failures, rested, loaded, reset, up, ghostVars>>

StoreOpen(c) ==
  /\ At(c, "open")
  /\ state' = "Open"
  /\ Goto(c, "idle")
  /\ UNCHANGED <<failures, rested, loaded, reset, up, ghostVars>>

-----------------------------------------------------------------------------
(* ResetCircuitBreaker.                                                    *)

ResetState ==
  /\ MayReset
  /\ reset = "idle"
  /\ state' = "Closed"
  /\ reset' = "failures"
  /\ alone' = FALSE
  /\ UNCHANGED <<failures, rested, pc, loaded, up, errors, streak>>

ResetFailures ==
  /\ reset = "failures"
  /\ failures' = 0
  /\ streak' = 0
  /\ reset' = "idle"
  /\ UNCHANGED <<state, rested, pc, loaded, up, errors, alone>>

-----------------------------------------------------------------------------
(* Time, and the gateway.                                                  *)

TimePasses ==
  /\ ~rested
  /\ rested' = TRUE
  /\ UNCHANGED <<state, failures, pc, loaded, reset, up, ghostVars>>

Outage ==
  /\ up' = ~up
  /\ UNCHANGED <<state, failures, rested, pc, loaded, reset, ghostVars>>

\* The steps of a payment that has reached the gateway.
Step(c) ==
  \/ LoadState(c) \/ LoadLastFailure(c) \/ StoreHalfOpen(c)
  \/ Answered(c) \/ Failed(c)
  \/ ZeroFailures(c) \/ StoreClosed(c)
  \/ StoreFailures(c) \/ StoreLastFailure(c) \/ Compare(c) \/ StoreOpen(c)

Next ==
  \/ \E c \in Callers : Invoke(c) \/ Step(c)
  \/ ResetState \/ ResetFailures
  \/ TimePasses \/ Outage

Spec == Init /\ [][Next]_vars

\* Goroutines run, calls of the gateway end (callGatewayAPI waits half a second
\* at most) and time passes.  Payments come and the gateway fails as they like.
FairSpec ==
  /\ Spec
  /\ \A c \in Callers : WF_vars(Step(c))
  /\ WF_vars(ResetFailures)
  /\ WF_vars(TimePasses)

-----------------------------------------------------------------------------
(* Properties.                                                             *)

\* No payment is turned away before the gateway has failed MaxFailures times,
\* whatever the races between "currentFailures++", OnSuccess and a reset make
\* of the counter.
NeverOpensEarly == state # "Closed" => errors >= MaxFailures

\* As long as payments come one at a time the breaker is the one of the textbook:
\* between two payments it is closed until MaxFailures calls in a row have
\* failed, open from then on until one succeeds, and never left half open: one
\* failed probe is enough to open it again.
SettledState ==
  alone /\ (\A c \in Callers : At(c, "idle")) =>
    state = IF streak < MaxFailures THEN "Closed" ELSE "Open"

\* README.md:101, "Enables automatic recovery when services become available":
\* if the gateway stays up and payments keep coming, the breaker ends up
\* closed for good, whatever stale stores are still on their way.
Recovers ==
  <>[]up /\ []<>(\E c \in Callers : At(c, "can_execute"))
    => <>[](state = "Closed")
=============================================================================
