--------------------------- MODULE PaymentService ---------------------------
(***************************************************************************)
(* ProcessPayment of the payment service (internal/services/payment/       *)
(* service.go) as cmd/main.go runs it, without a saga orchestrator, over   *)
(* the payments table and the wallet service.                              *)
(*                                                                         *)
(* A payment is one HTTP request.  Its handler saves the row, validates    *)
(* and debits the wallet, marks the payment as processing, answers, and    *)
(* leaves a goroutine behind that calls the gateway and completes the      *)
(* payment or refunds the wallet.  The wallet operations are calls of      *)
(* WalletService, whose statements interleave with those of every other    *)
(* payment.  The gateway answers as it likes: module CircuitBreaker models *)
(* what goes on inside it.  Events are left out, their errors are ignored. *)
(***************************************************************************)
EXTENDS Integers, Sequences, FiniteSets, FiniteSetsExt

CONSTANTS
  Payments,        \* payment requests
  Wallets,         \* rows of the wallets table
  Owner,           \* Owner[p]: the wallet that pays p
  Price,           \* Price[p]: the amount of p, in cents
  InitialBalance,  \* balance of each wallet when the system starts
  Faults,          \* what may go wrong with a statement, see WalletService
  MayCrash         \* whether the process may stop and be started again

Operations == {"validate", "debit", "credit"}

\* Each payment makes at most one call of each operation.
WalletCalls == Payments \X Operations

ASSUME PaymentAssumption ==
  /\ Owner \in [Payments -> Wallets]
  /\ Price \in [Payments -> Nat \ {0}]
  /\ InitialBalance \in [Wallets -> Nat]
  /\ Faults \subseteq {"err", "lost"}
  /\ MayCrash \in BOOLEAN

VARIABLES
  balance, version, txns, call, seen, history,  \* of WalletService
  status,   \* payments.status, "none" while there is no row
  flow,     \* flow[p]: what the handler or the goroutine of p does next
  reply,    \* reply[p]: what the client was answered
  charged   \* payments that the gateway has charged

walletVars  == <<balance, version, txns, call, seen, history>>
paymentVars == <<status, flow, reply, charged>>
vars        == <<walletVars, paymentVars>>

Wallet == INSTANCE WalletService WITH
            Calls    <- WalletCalls,
            Kind     <- [c \in WalletCalls |-> c[2]],
            WalletOf <- [c \in WalletCalls |-> Owner[c[1]]],
            Amount   <- [c \in WalletCalls |-> Price[c[1]]]

Statuses == {"none", "pending", "processing", "completed", "failed"}

\* In the handler, then in the goroutine.
Running == {"save", "validating", "deducting", "reject", "accept",
            "gateway", "refunding", "fail", "complete"}

TypeOK ==
  /\ Wallet!TypeOK
  /\ status \in [Payments -> Statuses]
  /\ flow \in [Payments -> {"new", "done", "dead"} \cup Running]
  /\ reply \in [Payments -> {"none", "accepted", "error"}]
  /\ charged \in SUBSET Payments

Init ==
  /\ Wallet!Init
  /\ status = [p \in Payments |-> "none"]
  /\ flow = [p \in Payments |-> "new"]
  /\ reply = [p \in Payments |-> "none"]
  /\ charged = {}

-----------------------------------------------------------------------------
(* Helpers.                                                                *)

Goto(p, label) == flow' = [flow EXCEPT ![p] = label]

Reply(p, r) == reply' = [reply EXCEPT ![p] = r]

\* UpdateStatus writes the row whatever it holds.  Its error, at most logged,
\* changes nothing, so that a lost answer is no different from an answer.
UpdateStatus(p, s) ==
  \/ status' = [status EXCEPT ![p] = s]
  \/ Faults # {} /\ UNCHANGED status

\* The wallet service has answered the call "op" of p.
Returned(p, op, answer) == call[<<p, op>>] = answer

-----------------------------------------------------------------------------
(* The handler.                                                            *)

Request(p) ==
  /\ flow[p] = "new"
  /\ Goto(p, "save")
  /\ UNCHANGED <<walletVars, status, reply, charged>>

\* repo.Save; a handler that gets an error stops there.
Save(p) ==
  /\ flow[p] = "save"
  /\ \/ /\ status' = [status EXCEPT ![p] = "pending"]
        /\ Goto(p, "validating")
        /\ Wallet!Invoke(<<p, "validate">>)
        /\ UNCHANGED reply
     \/ /\ \/ "err" \in Faults /\ UNCHANGED status
           \/ "lost" \in Faults /\ status' = [status EXCEPT ![p] = "pending"]
        /\ Goto(p, "done")
        /\ Reply(p, "error")
        /\ UNCHANGED walletVars
  /\ UNCHANGED charged

\* ValidateBalance has returned.
AfterValidate(p) ==
  /\ flow[p] = "validating"
  /\ \/ /\ Returned(p, "validate", "ok")
        /\ Goto(p, "deducting")
        /\ Wallet!Invoke(<<p, "debit">>)
     \/ /\ Returned(p, "validate", "error")
        /\ Goto(p, "reject")
        /\ UNCHANGED walletVars
  /\ UNCHANGED <<status, reply, charged>>

\* DeductBalance has returned.
AfterDeduct(p) ==
  /\ flow[p] = "deducting"
  /\ \/ Returned(p, "debit", "ok") /\ Goto(p, "accept")
     \/ Returned(p, "debit", "error") /\ Goto(p, "reject")
  /\ UNCHANGED <<walletVars, status, reply, charged>>

\* The payment failed in the handler: the client gets the error.
Reject(p) ==
  /\ flow[p] = "reject"
  /\ UpdateStatus(p, "failed")
  /\ Goto(p, "done")
  /\ Reply(p, "error")
  /\ UNCHANGED <<walletVars, charged>>

\* The goroutine starts and the client is answered at once.
Accept(p) ==
  /\ flow[p] = "accept"
  /\ UpdateStatus(p, "processing")
  /\ Goto(p, "gateway")
  /\ Reply(p, "accepted")
  /\ UNCHANGED <<walletVars, charged>>

-----------------------------------------------------------------------------
(* The goroutine.                                                          *)

\* Mutant of Gateway: it may give an error for a payment it has charged.
GatewayChargingOnError(p) ==
  /\ flow[p] = "gateway"
  /\ charged' = charged \cup {p}
  /\ \/ Goto(p, "complete") /\ UNCHANGED walletVars
     \/ Goto(p, "refunding") /\ Wallet!Invoke(<<p, "credit">>)
  /\ UNCHANGED <<status, reply>>

\* Mutant of Gateway: no refund after an error.
GatewayWithoutRefund(p) ==
  /\ flow[p] = "gateway"
  /\ \/ charged' = charged \cup {p} /\ Goto(p, "complete")
     \/ Goto(p, "fail") /\ UNCHANGED charged
  /\ UNCHANGED <<walletVars, status, reply>>

\* gatewayService.ProcessPayment: the payment is charged, or it is declined,
\* fails, or is stopped by the circuit breaker, all of them errors.
Gateway(p) ==
  /\ flow[p] = "gateway"
  /\ \/ /\ charged' = charged \cup {p}
        /\ Goto(p, "complete")
        /\ UNCHANGED walletVars
     \/ /\ Goto(p, "refunding")
        /\ Wallet!Invoke(<<p, "credit">>)
        /\ UNCHANGED charged
  /\ UNCHANGED <<status, reply>>

\* Mutant of AfterRefund: the goroutine returns on an error of RefundBalance.
AfterRefundChecked(p) ==
  /\ flow[p] = "refunding"
  /\ \/ Returned(p, "credit", "ok") /\ Goto(p, "fail")
     \/ Returned(p, "credit", "error") /\ Goto(p, "done")
  /\ UNCHANGED <<walletVars, status, reply, charged>>

\* RefundBalance has returned; the goroutine does not look at its error.
AfterRefund(p) ==
  /\ flow[p] = "refunding"
  /\ Returned(p, "credit", "ok") \/ Returned(p, "credit", "error")
  /\ Goto(p, "fail")
  /\ UNCHANGED <<walletVars, status, reply, charged>>

\* Mutant of Fail: the return of the error path is missing.
FailWithoutReturn(p) ==
  /\ flow[p] = "fail"
  /\ UpdateStatus(p, "failed")
  /\ Goto(p, "complete")
  /\ UNCHANGED <<walletVars, reply, charged>>

Fail(p) ==
  /\ flow[p] = "fail"
  /\ UpdateStatus(p, "failed")
  /\ Goto(p, "done")
  /\ UNCHANGED <<walletVars, reply, charged>>

Complete(p) ==
  /\ flow[p] = "complete"
  /\ UpdateStatus(p, "completed")
  /\ Goto(p, "done")
  /\ UNCHANGED <<walletVars, reply, charged>>

-----------------------------------------------------------------------------
\* The process stops and starts again: handlers, goroutines and wallet calls
\* are gone.  Nothing takes them up: main does not look at the payments table.
Crash ==
  /\ MayCrash
  /\ \E p \in Payments : flow[p] \in Running
  /\ flow' = [p \in Payments |-> IF flow[p] \in Running THEN "dead" ELSE flow[p]]
  /\ Wallet!Stop
  /\ UNCHANGED <<status, reply, charged>>

WalletStep(p) ==
  /\ \E op \in Operations : Wallet!Step(<<p, op>>)
  /\ UNCHANGED paymentVars

\* The steps of p that the runtime and the database keep taking.
Proceed(p) ==
  \/ Save(p) \/ AfterValidate(p) \/ AfterDeduct(p) \/ Reject(p) \/ Accept(p)
  \/ Gateway(p) \/ AfterRefund(p) \/ Fail(p) \/ Complete(p)
  \/ WalletStep(p)

Next ==
  \/ \E p \in Payments : Request(p) \/ Proceed(p)
  \/ Crash

Spec == Init /\ [][Next]_vars

\* Every goroutine that can run runs in the end, and every statement is
\* answered; clients send requests, and the process stops, as they please.
FairSpec == Spec /\ \A p \in Payments : WF_vars(Proceed(p))

-----------------------------------------------------------------------------
(* Properties.                                                             *)

Debited(p)  == Wallet!Applied(<<p, "debit">>)
Refunded(p) == Wallet!Applied(<<p, "credit">>)

\* The customer has paid for every charge, and keeps no refund of it: the
\* debit is four steps and one goroutine before the charge, the refund is
\* decided on the gateway's answer alone.
ChargedMeansPaid ==
  \A p \in charged : Debited(p) /\ ~Refunded(p)

\* The status never tells a customer the opposite of what the gateway did,
\* even when some of the unchecked UpdateStatus calls have failed.
StatusTellsOutcome ==
  \A p \in Payments :
    /\ status[p] = "completed" => p \in charged
    /\ status[p] = "failed" => p \notin charged

\* The payments of w that were debited and not refunded, and what payments
\* come to.
OpenPayments(w) == {p \in Payments : Owner[p] = w /\ Debited(p) /\ ~Refunded(p)}
Total(S) == MapThenSumSet(LAMBDA p : Price[p], S)

\* Every cent of a wallet is accounted for by the payments: what is missing
\* was debited for a payment that was not refunded.
BalanceAccountsForPayments ==
  \A w \in Wallets : balance[w] = InitialBalance[w] - Total(OpenPayments(w))

\* An error answered by ProcessPayment means that the customer keeps the
\* money: the request may be sent again.
ErrorMeansNotDebited ==
  \A p \in Payments : reply[p] = "error" => ~Debited(p)

\* UpdateStatus writes without a look at the row, and yet a finished payment
\* stays as it is and no payment goes back.
Before(s, t) == \/ s = "none"
                \/ s = "pending" /\ t # "none"
                \/ s = "processing" /\ t \in {"completed", "failed"}
StatusMovesForward ==
  [][\A p \in Payments :
       status'[p] # status[p] => Before(status[p], status'[p])]_status

\* With a database that answers, a failed payment that keeps the money does so
\* for one reason: another update of the wallet came between the read and the
\* write of RefundBalance, which does not try again.
LostRefundHasCompetitor ==
  \A p \in Payments :
    flow[p] = "done" /\ status[p] = "failed" /\ Debited(p) /\ ~Refunded(p) =>
      \E i \in 1..Len(history[Owner[p]]) :
        /\ i > seen[<<p, "credit">>].version
        /\ history[Owner[p]][i].call[1] # p

\* With a process that keeps running and a database that answers, every
\* request ends as completed or as failed.
EveryPaymentSettles ==
  \A p \in Payments :
    flow[p] = "save" ~> status[p] \in {"completed", "failed"}
=============================================================================
