----------------------------- MODULE Compensation -----------------------------
(***************************************************************************)
(* CompensationManager and the retrier it uses (pkg/eventstore/            *)
(* error_handling.go), next to the dead letter queue.                      *)
(*                                                                         *)
(* CompensatePaymentFailure undoes the completed steps of one payment in   *)
(* reverse order.  A refund is three calls, of the wallet, the event store *)
(* and the event bus; an error of any of them starts it over from the      *)
(* first.  Wallet, store and bus are external: each may refuse a call, or  *)
(* do it and lose its answer.                                              *)
(***************************************************************************)
EXTENDS DeadLetterQueue

CONSTANTS
  Payments,    \* payments that are compensated, once each
  Completed,   \* Completed[p]: saga.CompletedSteps
  MaxRetries,  \* config.MaxRetries; the default is 5
  MaxFailures  \* bound on the calls that fail

SagaSteps == {"funds_deducted", "external_processing", "other"}

ASSUME CompensationAssumption ==
  /\ Completed \in [Payments -> Seq(SagaSteps)]
  /\ MaxRetries \in Nat
  /\ MaxFailures \in Nat

VARIABLES
  pc,         \* pc[p]: what CompensatePaymentFailure does next
  todo,       \* todo[p]: steps of the saga not looked at yet, from the first
  attempt,    \* attempt[p]: the attempt at the step in hand
  record,     \* record[p]: Status of its CompensationRecord, "none" without one
  refunds,    \* refunds[p]: how often the wallet has paid p back
  stored,     \* stored[p]: FundsReverted events in the store
  published,  \* published[p]: FundsReverted events on the bus
  failures    \* failures[p]: calls that gave an error (auxiliary)

managerVars == <<pc, todo, attempt, record>>
worldVars   == <<refunds, stored, published, failures>>
vars        == <<queueVars, managerVars, worldVars>>

Running == {"next", "cancel", "refund", "store", "publish", "failed"}

TypeOK ==
  /\ QueueTypeOK
  /\ pc \in [Payments -> {"idle", "done", "panic", "dead"} \cup Running]
  /\ todo \in [Payments -> Seq(SagaSteps)]
  /\ attempt \in [Payments -> 0..MaxRetries]
  /\ record \in [Payments -> {"none", "in_progress", "completed"}]
  /\ refunds \in [Payments -> Nat]
  /\ stored \in [Payments -> Nat]
  /\ published \in [Payments -> Nat]
  /\ failures \in [Payments -> Nat]

None == [p \in Payments |-> 0]

Init ==
  /\ InitQueue
  /\ pc = [p \in Payments |-> "idle"]
  /\ todo = Completed
  /\ attempt = None
  /\ record = [p \in Payments |-> "none"]
  /\ refunds = None
  /\ stored = None
  /\ published = None
  /\ failures = None

Goto(p, label) == pc' = [pc EXCEPT ![p] = label]

SetRecord(p, status) == record' = [record EXCEPT ![p] = status]

Count(f, p) == [f EXCEPT ![p] = @ + 1]

-----------------------------------------------------------------------------
(* CompensatePaymentFailure.                                               *)

Start(p) ==
  /\ pc[p] = "idle"
  /\ SetRecord(p, "in_progress")
  /\ Goto(p, "next")
  /\ UNCHANGED <<queueVars, todo, attempt, worldVars>>

\* What undoes a step; nothing for a step that the switch does not know.
Action == [funds_deducted |-> "refund", external_processing |-> "cancel", other |-> "next"]

\* The loop over buildCompensationSteps, from the last step of the saga.
NextStep(p) ==
  /\ pc[p] = "next"
  /\ \/ /\ todo[p] # <<>>
        /\ todo' = [todo EXCEPT ![p] = Front(@)]
        /\ Goto(p, Action[Last(todo[p])])
        /\ UNCHANGED record
     \/ /\ todo[p] = <<>>
        /\ SetRecord(p, "completed")
        /\ Goto(p, "done")
        /\ UNCHANGED todo
  /\ attempt' = [attempt EXCEPT ![p] = 0]
  /\ UNCHANGED <<queueVars, worldVars>>

\* The cancellation at the gateway, which is only simulated.
CancelGatewayPayment(p) ==
  /\ pc[p] = "cancel"
  /\ Goto(p, "next")
  /\ UNCHANGED <<queueVars, todo, attempt, record, worldVars>>

-----------------------------------------------------------------------------
(* ExecuteWithRetry.                                                       *)

\* An error that names itself retryable is followed by another attempt, from
\* the refund on; any other, the last one, and the end of the context while
\* it waits, by an error to its caller.
AttemptFails(p) ==
  /\ failures[p] < MaxFailures
  /\ failures' = Count(failures, p)
  /\ \/ /\ attempt[p] < MaxRetries
        /\ attempt' = Count(attempt, p)
        /\ Goto(p, "refund")
     \/ Goto(p, "failed") /\ UNCHANGED attempt

-----------------------------------------------------------------------------
(* executeRefundFunds.                                                     *)

RefundFunds(p) ==
  /\ pc[p] = "refund"
  /\ \/ refunds' = Count(refunds, p) /\ Goto(p, "store") /\ UNCHANGED <<attempt, failures>>
     \/ refunds' \in {refunds, Count(refunds, p)} /\ AttemptFails(p)
  /\ UNCHANGED <<queueVars, todo, record, stored, published>>

\* Mutant of AppendEvent: its error is only logged.
AppendEventUnchecked(p) ==
  /\ pc[p] = "store"
  /\ stored' \in {stored, Count(stored, p)}
  /\ Goto(p, "publish")
  /\ UNCHANGED <<queueVars, todo, attempt, record, refunds, published, failures>>

AppendEvent(p) ==
  /\ pc[p] = "store"
  /\ \/ stored' = Count(stored, p) /\ Goto(p, "publish") /\ UNCHANGED <<attempt, failures>>
     \/ stored' \in {stored, Count(stored, p)} /\ AttemptFails(p)
  /\ UNCHANGED <<queueVars, todo, record, refunds, published>>

Publish(p) ==
  /\ pc[p] = "publish"
  /\ \/ published' = Count(published, p) /\ Goto(p, "next") /\ UNCHANGED <<attempt, failures>>
     \/ published' \in {published, Count(published, p)} /\ AttemptFails(p)
  /\ UNCHANGED <<queueVars, todo, record, refunds, stored>>

-----------------------------------------------------------------------------
\* The step has failed.  Its error is hidden by the err of json.Marshal, so
\* that SendToDLQ, once it has the mutex, calls the Error method of nil.
SendNil(p) ==
  /\ pc[p] = "failed"
  /\ Unlocked
  /\ Goto(p, "panic")
  /\ UNCHANGED <<queueVars, todo, attempt, record, worldVars>>

\* The process stops, be it for that panic, and is started again: the records
\* are gone.
Restart ==
  /\ \E p \in Payments : pc[p] \in Running \cup {"panic"}
  /\ ForgetQueue
  /\ pc' = [p \in Payments |-> IF pc[p] \in Running THEN "dead" ELSE pc[p]]
  /\ record' = [p \in Payments |-> "none"]
  /\ UNCHANGED <<todo, attempt, worldVars>>

Compensate(p) ==
  \/ Start(p) \/ NextStep(p) \/ CancelGatewayPayment(p)
  \/ RefundFunds(p) \/ AppendEvent(p) \/ Publish(p) \/ SendNil(p)

Next ==
  \/ \E p \in Payments : Compensate(p)
  \/ \E e \in Events :
       /\ SendToDLQ(e) \/ StartRetry(e) \/ EndRetry(e)
       /\ UNCHANGED <<managerVars, worldVars>>
  \/ Restart

Spec == Init /\ [][Next]_vars

-----------------------------------------------------------------------------
(* Properties.                                                             *)

MustRefund(p) == \E i \in DOMAIN Completed[p] : Completed[p][i] = "funds_deducted"

\* The wallet, the event store and the bus agree on what was paid back but for
\* calls that have failed: no event without its refund, no refund without its
\* event unless a call failed or the process stopped in between, though every
\* retry begins with another refund; and a compensation that claims to be
\* completed has paid and told.
Interrupted(p) == IF pc[p] \in {"store", "publish", "dead"} THEN 1 ELSE 0
RefundsAreExplained ==
  \A p \in Payments :
    /\ published[p] <= stored[p] /\ stored[p] <= refunds[p]
    /\ refunds[p] <= published[p] + failures[p] + Interrupted(p)
    /\ record[p] = "completed" /\ MustRefund(p) => published[p] > 0
=============================================================================
