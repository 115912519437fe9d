------------------------ MODULE PaymentServiceProofs ------------------------
(***************************************************************************)
(* Proofs about PaymentService, for every set of payments and wallets,     *)
(* every price, every fault of the database and any number of crashes.     *)
(*                                                                         *)
(* The wallet is proved once, in WalletServiceProofs: the payment service  *)
(* only makes calls of it, so that whatever holds of the wallet under any  *)
(* caller holds here (PaymentsUseTheWallet).                               *)
(***************************************************************************)
EXTENDS PaymentService, FiniteSetTheorems, TLAPS

WalletFacts == INSTANCE WalletServiceProofs WITH
                 Calls    <- WalletCalls,
                 Kind     <- [c \in WalletCalls |-> c[2]],
                 WalletOf <- [c \in WalletCalls |-> Owner[c[1]]],
                 Amount   <- [c \in WalletCalls |-> Price[c[1]]]

\* The constants of the wallet service are what it assumes of them.
LEMMA WalletConstants == WalletFacts!WalletAssumption
  BY PaymentAssumption
     DEF WalletFacts!WalletAssumption, WalletFacts!CallKinds,
         WalletFacts!FaultKinds, WalletCalls, Operations

\* The instance the proofs are taken from has the definitions of the instance
\* the payment service calls.
LEMMA SameWallet ==
  /\ Wallet!Init => WalletFacts!Init
  /\ \A c \in WalletCalls :
       /\ Wallet!Invoke(c) => WalletFacts!Invoke(c)
       /\ Wallet!Step(c) => WalletFacts!Step(c)
  /\ Wallet!Stop => WalletFacts!Stop
  <1>1. Wallet!Init => WalletFacts!Init
    BY DEF Wallet!Init, WalletFacts!Init
  <1>2. ASSUME NEW c \in WalletCalls
        PROVE  Wallet!Invoke(c) => WalletFacts!Invoke(c)
    BY DEF Wallet!Invoke, WalletFacts!Invoke, Wallet!Goto, WalletFacts!Goto
  <1>3. ASSUME NEW c \in WalletCalls
        PROVE  Wallet!Step(c) => WalletFacts!Step(c)
    <2> USE DEF Wallet!Goto, WalletFacts!Goto
    <2>1. Wallet!GetWallet(c) => WalletFacts!GetWallet(c)
      BY DEF Wallet!GetWallet, WalletFacts!GetWallet,
             Wallet!AfterRead, WalletFacts!AfterRead
    <2>2. Wallet!CreateTransaction(c) => WalletFacts!CreateTransaction(c)
      BY DEF Wallet!CreateTransaction, WalletFacts!CreateTransaction
    <2>3. Wallet!UpdateBalance(c) => WalletFacts!UpdateBalance(c)
      BY DEF Wallet!UpdateBalance, WalletFacts!UpdateBalance,
             Wallet!VersionMatches, WalletFacts!VersionMatches,
             Wallet!Write, WalletFacts!Write,
             Wallet!NewBalance, WalletFacts!NewBalance
    <2>4. QED
      BY <2>1, <2>2, <2>3 DEF Wallet!Step, WalletFacts!Step
  <1>4. Wallet!Stop => WalletFacts!Stop
    BY DEF Wallet!Stop, WalletFacts!Stop, Wallet!InFlight, WalletFacts!InFlight
  <1>5. QED
    BY <1>1, <1>2, <1>3, <1>4

\* Every step of the payment service is, for the wallet, one of its steps or
\* none at all.
LEMMA PaymentsUseTheWallet == Spec => WalletFacts!Spec
  <1>1. Init => WalletFacts!Init
    BY SameWallet DEF Init
  <1>2. [Next]_vars => [WalletFacts!Next]_(WalletFacts!walletVars)
    <2> SUFFICES ASSUME [Next]_vars
                 PROVE  [WalletFacts!Next]_(WalletFacts!walletVars)
      OBVIOUS
    <2>1. ASSUME NEW p \in Payments, NEW op \in Operations,
                 Wallet!Invoke(<<p, op>>) \/ Wallet!Step(<<p, op>>)
          PROVE  WalletFacts!Next
      <3>1. <<p, op>> \in WalletCalls
        BY DEF WalletCalls
      <3>2. QED
        BY <2>1, <3>1, SameWallet DEF WalletFacts!Next
    <2>2. ASSUME Wallet!Stop
          PROVE  WalletFacts!Next
      BY <2>2, SameWallet DEF WalletFacts!Next
    <2>3. ASSUME UNCHANGED walletVars
          PROVE  UNCHANGED WalletFacts!walletVars
      BY <2>3 DEF walletVars, WalletFacts!walletVars
    <2>4. ASSUME NEW p \in Payments, Request(p) \/ Proceed(p)
          PROVE  \/ UNCHANGED walletVars
                 \/ \E op \in Operations :
                      Wallet!Invoke(<<p, op>>) \/ Wallet!Step(<<p, op>>)
      BY <2>4 DEF Request, Proceed, Save, AfterValidate, AfterDeduct, Reject,
                  Accept, Gateway, AfterRefund, Fail, Complete, WalletStep,
                  Operations
    <2>5. CASE UNCHANGED vars
      BY <2>3, <2>5 DEF vars
    <2>6. CASE Crash
      BY <2>2, <2>6 DEF Crash
    <2>7. QED
      BY <2>1, <2>3, <2>4, <2>5, <2>6 DEF Next
  <1>3. QED
    BY <1>1, <1>2, PTL DEF Spec, WalletFacts!Spec

\* The invariant of the wallet service holds among the payments.
LEMMA WalletHolds == Spec => []WalletFacts!IInv
  BY PaymentsUseTheWallet, WalletConstants, WalletFacts!WalletInvariant, PTL

-----------------------------------------------------------------------------
(***************************************************************************)
(* The inductive invariant of the payments: which of its two wallet calls  *)
(* a payment has made where its flow stands, and what the payments table   *)
(* may say of it.                                                          *)
(***************************************************************************)
PaymentTypeOK ==
  /\ status \in [Payments -> Statuses]
  /\ flow \in [Payments -> {"new", "done", "dead"} \cup Running]
  /\ reply \in [Payments -> {"none", "accepted", "error"}]
  /\ charged \in SUBSET Payments

\* The debit is made in the handler, and the goroutine runs only after it was
\* answered "ok"; the credit is made only by a goroutine that did not charge.
CallsFollowFlow(p) ==
  /\ flow[p] \in {"new", "save", "validating"} => call[<<p, "debit">>] = "idle"
  /\ flow[p] = "reject" => call[<<p, "debit">>] \in {"idle", "error"}
  /\ flow[p] \in {"accept", "gateway", "refunding", "fail", "complete"} =>
       call[<<p, "debit">>] = "ok"
  /\ flow[p] \in {"new", "save", "validating", "deducting", "reject", "accept",
                   "gateway", "complete"} => call[<<p, "credit">>] = "idle"
  /\ call[<<p, "credit">>] # "idle" =>
       call[<<p, "debit">>] = "ok" /\ p \notin charged

ChargeFollowsFlow(p) ==
  /\ p \in charged => /\ call[<<p, "debit">>] = "ok"
                      /\ call[<<p, "credit">>] = "idle"
                      /\ flow[p] \in {"complete", "done", "dead"}
  /\ flow[p] = "complete" => p \in charged

TableFollowsFlow(p) ==
  /\ flow[p] \in {"new", "save"} => status[p] = "none"
  /\ flow[p] \in {"validating", "deducting", "reject", "accept"} =>
       status[p] = "pending"
  /\ flow[p] \in {"gateway", "refunding", "fail", "complete"} =>
       status[p] \in {"pending", "processing"}
  /\ status[p] = "completed" => p \in charged
  /\ status[p] = "failed" => p \notin charged
  /\ reply[p] = "error" =>
       flow[p] = "done" /\ call[<<p, "debit">>] \in {"idle", "error"}

PInv ==
  /\ PaymentTypeOK
  /\ \A p \in Payments :
       CallsFollowFlow(p) /\ ChargeFollowsFlow(p) /\ TableFollowsFlow(p)

\* What the invariants ask of the steps of the wallet: an answer, or a call
\* that was not made, stays as it is.
AnswersStay ==
  \A c \in WalletCalls :
    /\ call[c] \in {"idle", "ok", "error"} => call'[c] = call[c]
    /\ call[c] # "idle" => call'[c] # "idle"

LEMMA WalletStepsKeepAnswers ==
  ASSUME WalletFacts!TypeOK, NEW c \in WalletCalls, Wallet!Step(c)
  PROVE  AnswersStay
  <1>1. call[c] \in {"get_wallet", "create_transaction", "update_balance"}
    BY DEF Wallet!Step, Wallet!GetWallet, Wallet!CreateTransaction,
           Wallet!UpdateBalance
  <1>2. PICK l \in {"ok", "error", "create_transaction", "update_balance"} :
          call' = [call EXCEPT ![c] = l]
    BY DEF Wallet!Step, Wallet!GetWallet, Wallet!CreateTransaction,
           Wallet!UpdateBalance, Wallet!Goto, Wallet!AfterRead
  <1>3. call'[c] = l /\ \A d \in WalletCalls : d # c => call'[d] = call[d]
    BY <1>2 DEF WalletFacts!TypeOK
  <1>4. QED
    BY <1>1, <1>3 DEF AnswersStay

LEMMA StopKeepsAnswers ==
  ASSUME Wallet!Stop
  PROVE  AnswersStay
  BY DEF Wallet!Stop, Wallet!InFlight, AnswersStay

\* A call that is made is no longer idle; the others are as they were.
LEMMA InvokeMakesOneCall ==
  ASSUME WalletFacts!TypeOK, NEW c \in WalletCalls, Wallet!Invoke(c)
  PROVE  /\ call[c] = "idle" /\ call'[c] = "get_wallet"
         /\ \A d \in WalletCalls : d # c => call'[d] = call[d]
  BY DEF Wallet!Invoke, Wallet!Goto, WalletFacts!TypeOK

-----------------------------------------------------------------------------
LEMMA InitPInv == Init => PInv
  BY DEF Init, Wallet!Init, PInv, PaymentTypeOK, Statuses, WalletCalls,
         Operations, CallsFollowFlow, ChargeFollowsFlow, TableFollowsFlow

\* The payments other than p, and their calls, are as they were.
OthersStay(p) ==
  \A q \in Payments : q # p =>
    /\ status'[q] = status[q] /\ flow'[q] = flow[q] /\ reply'[q] = reply[q]
    /\ q \in charged' <=> q \in charged
    /\ call'[<<q, "debit">>] = call[<<q, "debit">>]
    /\ call'[<<q, "credit">>] = call[<<q, "credit">>]

\* It is enough to look at the payment that takes the step.
LEMMA LocalStepPInv ==
  ASSUME PInv, PaymentTypeOK', NEW p \in Payments, OthersStay(p),
         CallsFollowFlow(p)', ChargeFollowsFlow(p)', TableFollowsFlow(p)'
  PROVE  PInv'
  <1>1. ASSUME NEW q \in Payments, q # p
        PROVE  CallsFollowFlow(q)' /\ ChargeFollowsFlow(q)' /\ TableFollowsFlow(q)'
    <2>1. CallsFollowFlow(q) /\ ChargeFollowsFlow(q) /\ TableFollowsFlow(q)
      BY DEF PInv
    <2>2. /\ status'[q] = status[q] /\ flow'[q] = flow[q] /\ reply'[q] = reply[q]
          /\ q \in charged' <=> q \in charged
          /\ call'[<<q, "debit">>] = call[<<q, "debit">>]
          /\ call'[<<q, "credit">>] = call[<<q, "credit">>]
      BY <1>1 DEF OthersStay
    <2>3. QED
      BY <2>1, <2>2 DEF CallsFollowFlow, ChargeFollowsFlow, TableFollowsFlow
  <1>2. QED
    BY <1>1 DEF PInv

\* The steps of p that make no wallet call.
LEMMA StepWithoutCallPInv ==
  ASSUME PInv, NEW p \in Payments, UNCHANGED walletVars,
         NEW l \in {"done", "dead"} \cup Running, Goto(p, l),
         status' = [status EXCEPT ![p] = status'[p]],
         status'[p] \in Statuses,
         reply' = [reply EXCEPT ![p] = reply'[p]],
         reply'[p] \in {"none", "accepted", "error"},
         charged' \in {charged, charged \cup {p}},
         CallsFollowFlow(p)', ChargeFollowsFlow(p)', TableFollowsFlow(p)'
  PROVE  PInv'
  <1>1. PaymentTypeOK'
    BY DEF PInv, PaymentTypeOK, Goto
  <1>2. \A q \in Payments : q # p =>
          /\ status'[q] = status[q] /\ flow'[q] = flow[q] /\ reply'[q] = reply[q]
          /\ q \in charged' <=> q \in charged
    BY DEF PInv, PaymentTypeOK, Goto
  <1>3. OthersStay(p)
    BY <1>2 DEF OthersStay, walletVars
  <1>4. QED
    BY <1>1, <1>3, LocalStepPInv

\* The steps of p that make the call <<p, op>>.
LEMMA StepWithCallPInv ==
  ASSUME PInv, WalletFacts!TypeOK, NEW p \in Payments,
         NEW op \in Operations, Wallet!Invoke(<<p, op>>),
         NEW l \in Running, Goto(p, l),
         status' = [status EXCEPT ![p] = status'[p]],
         status'[p] \in Statuses,
         UNCHANGED <<reply, charged>>,
         CallsFollowFlow(p)', ChargeFollowsFlow(p)', TableFollowsFlow(p)'
  PROVE  PInv'
  <1>1. PaymentTypeOK'
    BY DEF PInv, PaymentTypeOK, Goto
  <1>2. \A q \in Payments : q # p => status'[q] = status[q] /\ flow'[q] = flow[q]
    BY DEF PInv, PaymentTypeOK, Goto
  <1>3. \A q \in Payments : q # p =>
          /\ call'[<<q, "debit">>] = call[<<q, "debit">>]
          /\ call'[<<q, "credit">>] = call[<<q, "credit">>]
    BY InvokeMakesOneCall DEF WalletCalls, Operations
  <1>4. OthersStay(p)
    BY <1>2, <1>3 DEF OthersStay
  <1>5. QED
    BY <1>1, <1>4, LocalStepPInv

-----------------------------------------------------------------------------
(* One lemma per action.                                                   *)

LEMMA HandlerPInv ==
  ASSUME PInv, WalletFacts!TypeOK, NEW p \in Payments
  PROVE  /\ Request(p) => PInv'
         /\ Save(p) => PInv'
         /\ AfterValidate(p) => PInv'
         /\ AfterDeduct(p) => PInv'
         /\ Reject(p) => PInv'
         /\ Accept(p) => PInv'
  <1>1. /\ PaymentTypeOK
        /\ CallsFollowFlow(p) /\ ChargeFollowsFlow(p) /\ TableFollowsFlow(p)
    BY DEF PInv
  <1>2. status = [status EXCEPT ![p] = status[p]] /\ reply = [reply EXCEPT ![p] = reply[p]]
    BY <1>1 DEF PaymentTypeOK
  <1>3. \A l : Goto(p, l) => flow'[p] = l
    BY <1>1 DEF PaymentTypeOK, Goto
  <1>4. ASSUME Request(p) PROVE PInv'
    BY <1>1, <1>2, <1>3, <1>4, StepWithoutCallPInv
       DEF Request, walletVars, PaymentTypeOK, Running, CallsFollowFlow,
           ChargeFollowsFlow, TableFollowsFlow
  <1>5. ASSUME Save(p) PROVE PInv'
    <2>1. CASE Wallet!Invoke(<<p, "validate">>)
      <3>1. /\ flow[p] = "save" /\ Goto(p, "validating")
            /\ status' = [status EXCEPT ![p] = "pending"]
            /\ UNCHANGED <<reply, charged>>
        BY <1>5, <2>1, InvokeMakesOneCall DEF Save, Operations, WalletCalls, walletVars
      <3>2. /\ call'[<<p, "debit">>] = call[<<p, "debit">>]
            /\ call'[<<p, "credit">>] = call[<<p, "credit">>]
        BY <2>1, InvokeMakesOneCall DEF WalletCalls, Operations
      <3>3. status'[p] = "pending"
        BY <3>1, <1>1 DEF PaymentTypeOK
      <3>4. CallsFollowFlow(p)' /\ ChargeFollowsFlow(p)' /\ TableFollowsFlow(p)'
        BY <1>1, <1>3, <3>1, <3>2, <3>3
           DEF CallsFollowFlow, ChargeFollowsFlow, TableFollowsFlow
      <3>5. QED
        BY <2>1, <3>1, <3>3, <3>4, StepWithCallPInv
           DEF Operations, Running, Statuses
    <2>2. CASE ~Wallet!Invoke(<<p, "validate">>)
      <3>1. /\ flow[p] = "save" /\ Goto(p, "done") /\ Reply(p, "error")
            /\ UNCHANGED <<walletVars, charged>>
        BY <1>5, <2>2 DEF Save
      <3>2. PICK s \in {"none", "pending"} : status' = [status EXCEPT ![p] = s]
        BY <1>1, <1>2, <1>5, <2>2, <3>1 DEF Save, TableFollowsFlow
      <3>3. status'[p] = s /\ reply'[p] = "error"
        BY <1>1, <3>1, <3>2 DEF PaymentTypeOK, Reply
      <3>4. CallsFollowFlow(p)' /\ ChargeFollowsFlow(p)' /\ TableFollowsFlow(p)'
        BY <1>1, <1>3, <3>1, <3>3
           DEF walletVars, CallsFollowFlow, ChargeFollowsFlow, TableFollowsFlow
      <3>5. QED
        BY <3>1, <3>2, <3>3, <3>4, StepWithoutCallPInv DEF Statuses, Reply
    <2>3. QED
      BY <2>1, <2>2
  <1>6. ASSUME AfterValidate(p) PROVE PInv'
    <2>0. flow[p] = "validating" /\ UNCHANGED <<status, reply, charged>>
      BY <1>6 DEF AfterValidate
    <2>1. CASE Goto(p, "deducting") /\ Wallet!Invoke(<<p, "debit">>)
      <3>1. call'[<<p, "credit">>] = call[<<p, "credit">>]
        BY <2>1, InvokeMakesOneCall DEF WalletCalls, Operations
      <3>2. CallsFollowFlow(p)' /\ ChargeFollowsFlow(p)' /\ TableFollowsFlow(p)'
        BY <1>1, <1>3, <2>0, <2>1, <3>1
           DEF CallsFollowFlow, ChargeFollowsFlow, TableFollowsFlow
      <3>3. QED
        BY <1>1, <1>2, <2>0, <2>1, <3>2, StepWithCallPInv
           DEF Operations, Running, PaymentTypeOK
    <2>2. CASE Goto(p, "reject") /\ UNCHANGED walletVars
      <3>1. CallsFollowFlow(p)' /\ ChargeFollowsFlow(p)' /\ TableFollowsFlow(p)'
        BY <1>1, <1>3, <2>0, <2>2
           DEF walletVars, CallsFollowFlow, ChargeFollowsFlow, TableFollowsFlow
      <3>2. QED
        BY <1>1, <1>2, <2>0, <2>2, <3>1, StepWithoutCallPInv
           DEF Running, PaymentTypeOK
    <2>3. QED
      BY <1>6, <2>1, <2>2 DEF AfterValidate
  <1>7. ASSUME AfterDeduct(p) PROVE PInv'
    BY <1>1, <1>2, <1>3, <1>7, StepWithoutCallPInv
       DEF AfterDeduct, Returned, walletVars, PaymentTypeOK, Running,
           CallsFollowFlow, ChargeFollowsFlow, TableFollowsFlow
  <1>8. ASSUME Reject(p) PROVE PInv'
    <2>1. PICK s \in {status[p], "failed"} : status' = [status EXCEPT ![p] = s]
      BY <1>2, <1>8 DEF Reject, UpdateStatus
    <2>2. status'[p] = s /\ reply'[p] = "error"
      BY <1>1, <1>8, <2>1 DEF Reject, Reply, PaymentTypeOK
    <2>3. CallsFollowFlow(p)' /\ ChargeFollowsFlow(p)' /\ TableFollowsFlow(p)'
      BY <1>1, <1>3, <1>8, <2>2
         DEF Reject, walletVars, CallsFollowFlow, ChargeFollowsFlow,
             TableFollowsFlow
    <2>4. QED
      BY <1>1, <1>8, <2>1, <2>2, <2>3, StepWithoutCallPInv
         DEF Reject, Reply, Statuses, PaymentTypeOK
  <1>9. ASSUME Accept(p) PROVE PInv'
    <2>1. PICK s \in {status[p], "processing"} : status' = [status EXCEPT ![p] = s]
      BY <1>2, <1>9 DEF Accept, UpdateStatus
    <2>2. status'[p] = s /\ reply'[p] = "accepted"
      BY <1>1, <1>9, <2>1 DEF Accept, Reply, PaymentTypeOK
    <2>3. CallsFollowFlow(p)' /\ ChargeFollowsFlow(p)' /\ TableFollowsFlow(p)'
      BY <1>1, <1>3, <1>9, <2>2
         DEF Accept, walletVars, CallsFollowFlow, ChargeFollowsFlow,
             TableFollowsFlow
    <2>4. QED
      BY <1>1, <1>9, <2>1, <2>2, <2>3, StepWithoutCallPInv
         DEF Accept, Reply, Running, Statuses, PaymentTypeOK
  <1>10. QED
    BY <1>4, <1>5, <1>6, <1>7, <1>8, <1>9

LEMMA GoroutinePInv ==
  ASSUME PInv, WalletFacts!TypeOK, NEW p \in Payments
  PROVE  /\ Gateway(p) => PInv'
         /\ AfterRefund(p) => PInv'
         /\ Fail(p) => PInv'
         /\ Complete(p) => PInv'
  <1>1. /\ PaymentTypeOK
        /\ CallsFollowFlow(p) /\ ChargeFollowsFlow(p) /\ TableFollowsFlow(p)
    BY DEF PInv
  <1>2. status = [status EXCEPT ![p] = status[p]] /\ reply = [reply EXCEPT ![p] = reply[p]]
    BY <1>1 DEF PaymentTypeOK
  <1>3. \A l : Goto(p, l) => flow'[p] = l
    BY <1>1 DEF PaymentTypeOK, Goto
  <1>4. ASSUME Gateway(p) PROVE PInv'
    <2>0. flow[p] = "gateway" /\ UNCHANGED <<status, reply>>
      BY <1>4 DEF Gateway
    <2>1. CASE /\ charged' = charged \cup {p} /\ Goto(p, "complete")
               /\ UNCHANGED walletVars
      <3>1. CallsFollowFlow(p)' /\ ChargeFollowsFlow(p)' /\ TableFollowsFlow(p)'
        BY <1>1, <1>3, <2>0, <2>1
           DEF walletVars, CallsFollowFlow, ChargeFollowsFlow, TableFollowsFlow
      <3>2. QED
        BY <1>1, <1>2, <2>0, <2>1, <3>1, StepWithoutCallPInv
           DEF Running, PaymentTypeOK
    <2>2. CASE /\ Goto(p, "refunding") /\ Wallet!Invoke(<<p, "credit">>)
               /\ UNCHANGED charged
      <3>1. call'[<<p, "debit">>] = call[<<p, "debit">>]
        BY <2>2, InvokeMakesOneCall DEF WalletCalls, Operations
      <3>2. CallsFollowFlow(p)' /\ ChargeFollowsFlow(p)' /\ TableFollowsFlow(p)'
        BY <1>1, <1>3, <2>0, <2>2, <3>1
           DEF CallsFollowFlow, ChargeFollowsFlow, TableFollowsFlow
      <3>3. QED
        BY <1>1, <1>2, <2>0, <2>2, <3>2, StepWithCallPInv
           DEF Operations, Running, PaymentTypeOK
    <2>3. QED
      BY <1>4, <2>1, <2>2 DEF Gateway
  <1>5. ASSUME AfterRefund(p) PROVE PInv'
    BY <1>1, <1>2, <1>3, <1>5, StepWithoutCallPInv
       DEF AfterRefund, Returned, walletVars, PaymentTypeOK, Running,
           CallsFollowFlow, ChargeFollowsFlow, TableFollowsFlow
  <1>6. ASSUME Fail(p) PROVE PInv'
    <2>1. PICK s \in {status[p], "failed"} : status' = [status EXCEPT ![p] = s]
      BY <1>2, <1>6 DEF Fail, UpdateStatus
    <2>2. status'[p] = s
      BY <1>1, <2>1 DEF PaymentTypeOK
    <2>3. CallsFollowFlow(p)' /\ ChargeFollowsFlow(p)' /\ TableFollowsFlow(p)'
      BY <1>1, <1>3, <1>6, <2>2
         DEF Fail, walletVars, CallsFollowFlow, ChargeFollowsFlow,
             TableFollowsFlow
    <2>4. QED
      BY <1>1, <1>2, <1>6, <2>1, <2>2, <2>3, StepWithoutCallPInv
         DEF Fail, Statuses, PaymentTypeOK
  <1>7. ASSUME Complete(p) PROVE PInv'
    <2>1. PICK s \in {status[p], "completed"} : status' = [status EXCEPT ![p] = s]
      BY <1>2, <1>7 DEF Complete, UpdateStatus
    <2>2. status'[p] = s
      BY <1>1, <2>1 DEF PaymentTypeOK
    <2>3. CallsFollowFlow(p)' /\ ChargeFollowsFlow(p)' /\ TableFollowsFlow(p)'
      BY <1>1, <1>3, <1>7, <2>2
         DEF Complete, walletVars, CallsFollowFlow, ChargeFollowsFlow,
             TableFollowsFlow
    <2>4. QED
      BY <1>1, <1>2, <1>7, <2>1, <2>2, <2>3, StepWithoutCallPInv
         DEF Complete, Statuses, PaymentTypeOK
  <1>8. QED
    BY <1>4, <1>5, <1>6, <1>7

\* A step inside a wallet call: the payment waits, and the answers that it
\* has stay as they are.
LEMMA WalletStepPInv ==
  ASSUME PInv, WalletFacts!TypeOK, NEW p \in Payments, WalletStep(p)
  PROVE  PInv'
  <1>1. AnswersStay
    BY WalletStepsKeepAnswers DEF WalletStep, WalletCalls
  <1>2. PaymentTypeOK'
    BY DEF PInv, PaymentTypeOK, WalletStep, paymentVars
  <1>3. ASSUME NEW q \in Payments
        PROVE  CallsFollowFlow(q)' /\ ChargeFollowsFlow(q)' /\ TableFollowsFlow(q)'
    <2>1. CallsFollowFlow(q) /\ ChargeFollowsFlow(q) /\ TableFollowsFlow(q)
      BY DEF PInv
    <2>2. UNCHANGED paymentVars
      BY DEF WalletStep
    <2>3. \A op \in {"debit", "credit"} :
            /\ call[<<q, op>>] \in {"idle", "ok", "error"} =>
                 call'[<<q, op>>] = call[<<q, op>>]
            /\ call[<<q, op>>] # "idle" => call'[<<q, op>>] # "idle"
      BY <1>1 DEF AnswersStay, WalletCalls, Operations
    <2>4. QED
      BY <2>1, <2>2, <2>3
         DEF paymentVars, CallsFollowFlow, ChargeFollowsFlow, TableFollowsFlow
  <1>4. QED
    BY <1>2, <1>3 DEF PInv

LEMMA CrashPInv ==
  ASSUME PInv, WalletFacts!TypeOK, Crash
  PROVE  PInv'
  <1>1. AnswersStay
    BY StopKeepsAnswers DEF Crash
  <1>2. PaymentTypeOK'
    BY DEF PInv, PaymentTypeOK, Crash, Running
  <1>3. ASSUME NEW q \in Payments
        PROVE  CallsFollowFlow(q)' /\ ChargeFollowsFlow(q)' /\ TableFollowsFlow(q)'
    <2>1. CallsFollowFlow(q) /\ ChargeFollowsFlow(q) /\ TableFollowsFlow(q)
      BY DEF PInv
    <2>2. /\ UNCHANGED <<status, reply, charged>>
          /\ flow'[q] = IF flow[q] \in Running THEN "dead" ELSE flow[q]
      BY DEF Crash
    <2>3. \A op \in {"debit", "credit"} :
            /\ call[<<q, op>>] \in {"idle", "ok", "error"} =>
                 call'[<<q, op>>] = call[<<q, op>>]
            /\ call[<<q, op>>] # "idle" => call'[<<q, op>>] # "idle"
      BY <1>1 DEF AnswersStay, WalletCalls, Operations
    <2>4. QED
      BY <2>1, <2>2, <2>3
         DEF Running, CallsFollowFlow, ChargeFollowsFlow, TableFollowsFlow
  <1>4. QED
    BY <1>2, <1>3 DEF PInv

LEMMA NextPInv ==
  ASSUME PInv, WalletFacts!TypeOK, [Next]_vars
  PROVE  PInv'
  <1>1. ASSUME NEW p \in Payments, Request(p) \/ Proceed(p)
        PROVE  PInv'
    BY <1>1, HandlerPInv, GoroutinePInv, WalletStepPInv DEF Proceed
  <1>2. CASE UNCHANGED vars
    BY <1>2 DEF vars, walletVars, paymentVars, PInv, PaymentTypeOK,
                CallsFollowFlow, ChargeFollowsFlow, TableFollowsFlow
  <1>3. QED
    BY <1>1, <1>2, CrashPInv DEF Next

\* Where a payment stands, which wallet calls it has made and what its row
\* says agree in every reachable state.
THEOREM PaymentInvariant == Spec => [](PInv /\ WalletFacts!IInv)
  <1>1. WalletFacts!IInv => WalletFacts!TypeOK
    BY DEF WalletFacts!IInv
  <1>2. PInv /\ WalletFacts!IInv /\ [Next]_vars => PInv'
    BY <1>1, NextPInv
  <1>3. QED
    BY InitPInv, WalletHolds, <1>2, PTL DEF Spec

-----------------------------------------------------------------------------
(***************************************************************************)
(* What follows.                                                           *)
(***************************************************************************)

\* A call the wallet has answered with "ok" has changed the balance, and one
\* it has not been asked for has not.
LEMMA WhatAnswersMean ==
  ASSUME WalletFacts!IInv, NEW p \in Payments, NEW op \in {"debit", "credit"}
  PROVE  /\ call[<<p, op>>] = "ok" => Wallet!Applied(<<p, op>>)
         /\ call[<<p, op>>] = "idle" => ~Wallet!Applied(<<p, op>>)
         /\ call[<<p, op>>] = "error" /\ Wallet!Applied(<<p, op>>) =>
              "lost" \in Faults
  <1>1. <<p, op>> \in WalletCalls
    BY DEF WalletCalls, Operations
  <1>2. Wallet!Applied(<<p, op>>) <=> WalletFacts!Applied(<<p, op>>)
    BY DEF Wallet!Applied, WalletFacts!Applied
  <1>3. WalletFacts!AnswersAreTrue /\ WalletFacts!NotYetApplied
    BY DEF WalletFacts!IInv
  <1>4. QED
    BY <1>1, <1>2, <1>3
       DEF WalletFacts!AnswersAreTrue, WalletFacts!NotYetApplied,
           WalletFacts!InFlight

\* The type invariant of the payment service, and of the wallet under it.
THEOREM PaymentTypeCorrect == Spec => []TypeOK
  <1>1. WalletFacts!TypeOK => Wallet!TypeOK
    BY DEF WalletFacts!TypeOK, Wallet!TypeOK, WalletFacts!Update, Wallet!Update,
           WalletFacts!InFlight, Wallet!InFlight, WalletFacts!Ended, Wallet!Ended
  <1>2. PInv /\ WalletFacts!IInv => TypeOK
    BY <1>1 DEF PInv, PaymentTypeOK, WalletFacts!IInv, TypeOK
  <1>3. QED
    BY PaymentInvariant, <1>2, PTL

\* Whoever the gateway charges has paid, and is not paid back.
THEOREM ChargesArePaid == Spec => []ChargedMeansPaid
  <1>1. PInv /\ WalletFacts!IInv => ChargedMeansPaid
    <2> SUFFICES ASSUME PInv, WalletFacts!IInv, NEW p \in charged
                 PROVE  Debited(p) /\ ~Refunded(p)
      BY DEF ChargedMeansPaid
    <2>1. p \in Payments
      BY DEF PInv, PaymentTypeOK
    <2>2. call[<<p, "debit">>] = "ok" /\ call[<<p, "credit">>] = "idle"
      BY <2>1 DEF PInv, ChargeFollowsFlow
    <2>3. QED
      BY <2>1, <2>2, WhatAnswersMean DEF Debited, Refunded
  <1>2. QED
    BY PaymentInvariant, <1>1, PTL

\* "completed" is never said of a payment that was not charged, nor "failed" of
\* one that was, whichever of the unchecked UpdateStatus calls fail.
THEOREM StatusIsTrue == Spec => []StatusTellsOutcome
  <1>1. PInv => StatusTellsOutcome
    BY DEF PInv, TableFollowsFlow, StatusTellsOutcome
  <1>2. QED
    BY PaymentInvariant, <1>1, PTL

\* Unless an answer of the database can be lost, a client that gets an error
\* has not paid.
THEOREM ErrorsCostNothing ==
  ASSUME "lost" \notin Faults
  PROVE  Spec => []ErrorMeansNotDebited
  <1>1. PInv /\ WalletFacts!IInv => ErrorMeansNotDebited
    <2> SUFFICES ASSUME PInv, WalletFacts!IInv, NEW p \in Payments,
                        reply[p] = "error"
                 PROVE  ~Debited(p)
      BY DEF ErrorMeansNotDebited
    <2>1. call[<<p, "debit">>] \in {"idle", "error"}
      BY DEF PInv, TableFollowsFlow
    <2>2. QED
      BY <2>1, WhatAnswersMean DEF Debited
  <1>2. QED
    BY PaymentInvariant, <1>1, PTL

\* A finished payment stays as it is and no payment goes back, though no
\* UpdateStatus looks at the row it writes.
THEOREM StatusOnlyMovesForward == Spec => StatusMovesForward
  <1> DEFINE Forward == \A p \in Payments :
                          status'[p] # status[p] =>
                            Before(status[p], status'[p])
  <1>1. ASSUME PInv, NEW p \in Payments, Request(p) \/ Proceed(p)
        PROVE  Forward
    <2>1. PaymentTypeOK /\ TableFollowsFlow(p)
      BY <1>1 DEF PInv
    <2>2. CASE UNCHANGED status
      BY <2>2
    <2>3. ASSUME NEW s \in Statuses, status' = [status EXCEPT ![p] = s],
                 Before(status[p], s)
          PROVE  Forward
      BY <2>1, <2>3 DEF PaymentTypeOK
    <2>4. CASE Save(p)
      BY <2>1, <2>2, <2>3, <2>4 DEF Save, TableFollowsFlow, Statuses, Before
    <2>5. CASE Reject(p)
      BY <2>1, <2>2, <2>3, <2>5
         DEF Reject, UpdateStatus, TableFollowsFlow, Statuses, Before
    <2>6. CASE Accept(p)
      BY <2>1, <2>2, <2>3, <2>6
         DEF Accept, UpdateStatus, TableFollowsFlow, Statuses, Before
    <2>7. CASE Fail(p)
      BY <2>1, <2>2, <2>3, <2>7
         DEF Fail, UpdateStatus, TableFollowsFlow, Statuses, Before
    <2>8. CASE Complete(p)
      BY <2>1, <2>2, <2>3, <2>8
         DEF Complete, UpdateStatus, TableFollowsFlow, Statuses, Before
    <2>9. QED
      BY <1>1, <2>2, <2>4, <2>5, <2>6, <2>7, <2>8
         DEF Proceed, Request, AfterValidate, AfterDeduct, Gateway, AfterRefund,
             WalletStep, paymentVars
  <1>2. PInv /\ [Next]_vars => [Forward]_status
    BY <1>1 DEF Next, Crash, vars, paymentVars
  <1>3. Spec => [][Forward]_status
    BY PaymentInvariant, <1>2, PTL DEF Spec
  <1>4. QED
    BY <1>3 DEF StatusMovesForward

-----------------------------------------------------------------------------
(***************************************************************************)
(* The refund that is lost.  RefundBalance reads the row after the debit   *)
(* of its own payment was written, so that what replaced the row it read   *)
(* was done for another payment.                                           *)
(***************************************************************************)
DebitIsSeen ==
  \A p \in Payments :
    call[<<p, "credit">>] \in {"create_transaction", "update_balance", "error"} =>
      \A i \in 1..Len(history[Owner[p]]) :
        history[Owner[p]][i].call = <<p, "debit">> =>
          i <= seen[<<p, "credit">>].version

\* A step that writes nothing and begins no such call.
LEMMA NothingNewToSee ==
  ASSUME DebitIsSeen, UNCHANGED history,
         \A p \in Payments :
           call'[<<p, "credit">>] \in
               {"create_transaction", "update_balance", "error"} =>
             /\ call[<<p, "credit">>] \in
                  {"create_transaction", "update_balance", "error"}
             /\ seen'[<<p, "credit">>] = seen[<<p, "credit">>]
  PROVE  DebitIsSeen'
  BY DEF DebitIsSeen

LEMMA WalletStepDebitIsSeen ==
  ASSUME Faults = {}, PInv, WalletFacts!IInv, DebitIsSeen,
         NEW c \in WalletCalls, Wallet!Step(c)
  PROVE  DebitIsSeen'
  <1>1. WalletFacts!TypeOK /\ WalletFacts!NoLostUpdate
    BY DEF WalletFacts!IInv
  <1>2. \A p \in Payments : Owner[p] \in Wallets /\ <<p, "credit">> \in WalletCalls
    BY PaymentAssumption DEF WalletCalls, Operations
  <1>3. CASE Wallet!GetWallet(c)
    <2>1. /\ call[c] = "get_wallet" /\ UNCHANGED <<version, history>>
          /\ seen' = [seen EXCEPT ![c] = [balance |-> balance[Owner[c[1]]],
                                          version |-> version[Owner[c[1]]]]]
          /\ \A d \in WalletCalls : d # c => call'[d] = call[d]
      BY <1>1, <1>3 DEF Wallet!GetWallet, Wallet!Goto, WalletFacts!TypeOK
    <2>2. /\ seen'[c].version = version[Owner[c[1]]]
          /\ \A d \in WalletCalls : d # c => seen'[d] = seen[d]
      BY <1>1, <2>1 DEF WalletFacts!TypeOK
    <2> SUFFICES ASSUME NEW p \in Payments,
                        call'[<<p, "credit">>] \in
                          {"create_transaction", "update_balance", "error"},
                        NEW i \in 1..Len(history[Owner[p]]),
                        history[Owner[p]][i].call = <<p, "debit">>
                 PROVE  i <= seen'[<<p, "credit">>].version
      BY <2>1 DEF DebitIsSeen
    <2>3. CASE c = <<p, "credit">>
      <3>1. seen'[c].version = version[Owner[p]]
        BY <2>2, <2>3
      <3>2. version[Owner[p]] = Len(history[Owner[p]])
        BY <1>1, <1>2 DEF WalletFacts!NoLostUpdate
      <3>3. QED
        BY <2>3, <3>1, <3>2
    <2>4. CASE c # <<p, "credit">>
      BY <1>2, <2>1, <2>2, <2>4 DEF DebitIsSeen
    <2>5. QED
      BY <2>3, <2>4
  <1>4. CASE Wallet!CreateTransaction(c)
    <2>1. /\ UNCHANGED <<history, seen>> /\ call[c] = "create_transaction"
          /\ \A d \in WalletCalls : d # c => call'[d] = call[d]
      BY <1>1, <1>4 DEF Wallet!CreateTransaction, Wallet!Goto, WalletFacts!TypeOK
    <2>2. QED
      BY <1>2, <2>1, NothingNewToSee
  <1>5. CASE Wallet!UpdateBalance(c)
    <2>1. /\ UNCHANGED seen /\ call[c] = "update_balance"
          /\ \A d \in WalletCalls : d # c => call'[d] = call[d]
      BY <1>1, <1>5 DEF Wallet!UpdateBalance, Wallet!Goto, WalletFacts!TypeOK
    <2>2. CASE UNCHANGED history
      BY <1>2, <2>1, <2>2, NothingNewToSee
    <2>3. CASE Wallet!Write(c)
      <3>1. WalletFacts!Write(c)
        BY <2>3 DEF Wallet!Write, WalletFacts!Write, Wallet!NewBalance,
                    WalletFacts!NewBalance
      <3>2. /\ \A w \in Wallets \ {Owner[c[1]]} : history'[w] = history[w]
            /\ Len(history'[Owner[c[1]]]) = Len(history[Owner[c[1]]]) + 1
            /\ \A i \in 1..Len(history[Owner[c[1]]]) :
                 history'[Owner[c[1]]][i] = history[Owner[c[1]]][i]
            /\ history'[Owner[c[1]]][Len(history[Owner[c[1]]]) + 1].call = c
        <4>1. WalletFacts!WalletAssumption
          BY WalletConstants
        <4>2. /\ \A w \in Wallets \ {Owner[c[1]]} : history'[w] = history[w]
              /\ Len(history'[Owner[c[1]]]) = Len(history[Owner[c[1]]]) + 1
              /\ \A i \in 1..Len(history[Owner[c[1]]]) :
                   history'[Owner[c[1]]][i] = history[Owner[c[1]]][i]
          BY <1>1, <3>1, <4>1, WalletFacts!WriteAppends
        <4>3. history'[Owner[c[1]]][Len(history[Owner[c[1]]]) + 1] =
                [call |-> c, base |-> seen[c].balance,
                 result |-> WalletFacts!NewBalance(c)]
          BY <1>1, <3>1, <4>1, WalletFacts!WriteAppends
        <4>4. QED
          BY <4>2, <4>3
      <3> SUFFICES ASSUME NEW p \in Payments,
                          call'[<<p, "credit">>] \in
                            {"create_transaction", "update_balance", "error"},
                          NEW i \in 1..Len(history'[Owner[p]]),
                          history'[Owner[p]][i].call = <<p, "debit">>
                   PROVE  i <= seen[<<p, "credit">>].version
        BY <2>1 DEF DebitIsSeen
      <3>3. call[<<p, "credit">>] \in {"create_transaction", "update_balance", "error"}
        BY <1>2, <2>1
      <3>4. c # <<p, "debit">>
        BY <2>1, <3>3 DEF PInv, CallsFollowFlow
      <3>5. /\ i \in 1..Len(history[Owner[p]])
            /\ history[Owner[p]][i].call = <<p, "debit">>
        <4>1. Len(history[Owner[p]]) \in Nat
          BY <1>1, <1>2 DEF WalletFacts!TypeOK
        <4>2. CASE Owner[p] # Owner[c[1]]
          BY <1>2, <3>2, <4>2
        <4>3. CASE Owner[p] = Owner[c[1]]
          <5>1. i # Len(history[Owner[p]]) + 1
            BY <3>2, <3>4, <4>3
          <5>2. i \in 1..Len(history[Owner[p]])
            <6>1. Len(history'[Owner[p]]) = Len(history[Owner[p]]) + 1
              BY <3>2, <4>3
            <6>2. QED
              BY <4>1, <5>1, <6>1
          <5>3. QED
            BY <3>2, <4>3, <5>2
        <4>4. QED
          BY <4>2, <4>3
      <3>6. QED
        BY <3>3, <3>5 DEF DebitIsSeen
    <2>4. QED
      BY <1>5, <2>2, <2>3 DEF Wallet!UpdateBalance
  <1>6. QED
    BY <1>3, <1>4, <1>5 DEF Wallet!Step

LEMMA NextDebitIsSeen ==
  ASSUME Faults = {}, PInv, WalletFacts!IInv, DebitIsSeen, [Next]_vars
  PROVE  DebitIsSeen'
  <1>1. ASSUME UNCHANGED walletVars PROVE DebitIsSeen'
    BY <1>1 DEF walletVars, DebitIsSeen
  <1>2. ASSUME NEW c \in WalletCalls, Wallet!Invoke(c) PROVE DebitIsSeen'
    <2>1. /\ UNCHANGED <<history, seen>> /\ call'[c] = "get_wallet"
          /\ \A d \in WalletCalls : d # c => call'[d] = call[d]
      BY <1>2, InvokeMakesOneCall DEF Wallet!Invoke, WalletFacts!IInv
    <2>2. \A p \in Payments : <<p, "credit">> \in WalletCalls
      BY DEF WalletCalls, Operations
    <2>3. QED
      BY <2>1, <2>2, NothingNewToSee
  <1>3. ASSUME Crash PROVE DebitIsSeen'
    <2>1. /\ UNCHANGED <<history, seen>>
          /\ \A c \in WalletCalls : call'[c] \in {"dead", call[c]}
      BY <1>3 DEF Crash, Wallet!Stop
    <2>2. \A p \in Payments : <<p, "credit">> \in WalletCalls
      BY DEF WalletCalls, Operations
    <2>3. QED
      BY <2>1, <2>2, NothingNewToSee
  <1>4. ASSUME NEW p \in Payments, Request(p) \/ Proceed(p)
        PROVE  \/ UNCHANGED walletVars
               \/ \E op \in Operations :
                    Wallet!Invoke(<<p, op>>) \/ Wallet!Step(<<p, op>>)
    BY <1>4 DEF Request, Proceed, Save, AfterValidate, AfterDeduct, Reject,
                Accept, Gateway, AfterRefund, Fail, Complete, WalletStep,
                Operations
  <1>5. \A p \in Payments, op \in Operations : <<p, op>> \in WalletCalls
    BY DEF WalletCalls
  <1>6. QED
    BY <1>1, <1>2, <1>3, <1>4, <1>5, WalletStepDebitIsSeen DEF Next, vars

\* A payment that failed without an error of its debit has had the answer to
\* its credit.
HasFailed(p) == \/ flow[p] = "fail"
                \/ flow[p] = "done" /\ status[p] = "failed"

FailureAsked ==
  \A p \in Payments : HasFailed(p) =>
    \/ call[<<p, "debit">>] \in {"idle", "error"}
    \/ call[<<p, "credit">>] \in {"ok", "error"}

LEMMA NextFailureAsked ==
  ASSUME Faults = {}, PInv, WalletFacts!IInv, FailureAsked, [Next]_vars
  PROVE  FailureAsked'
  <1>0. /\ PaymentTypeOK /\ WalletFacts!TypeOK
        /\ \A p \in Payments : <<p, "debit">> \in WalletCalls /\ <<p, "credit">> \in WalletCalls
    BY DEF PInv, WalletFacts!IInv, WalletCalls, Operations
  <1>1. ASSUME NEW p \in Payments, Request(p) \/ Proceed(p), ~WalletStep(p)
        PROVE  FailureAsked'
    <2>1. \A q \in Payments : q # p => status'[q] = status[q] /\ flow'[q] = flow[q]
      BY <1>0, <1>1 DEF Request, Proceed, Save, AfterValidate, AfterDeduct, Reject,
                Accept, Gateway, AfterRefund, Fail, Complete, Goto, UpdateStatus,
                PaymentTypeOK
    <2>2. \A q \in Payments : q # p => /\ call'[<<q, "debit">>] = call[<<q, "debit">>]
                                       /\ call'[<<q, "credit">>] = call[<<q, "credit">>]
      <3>1. ASSUME NEW op \in Operations, Wallet!Invoke(<<p, op>>),
                   NEW q \in Payments, q # p, NEW o \in Operations
            PROVE  call'[<<q, o>>] = call[<<q, o>>]
        BY <1>0, <3>1, InvokeMakesOneCall DEF WalletCalls
      <3>2. UNCHANGED walletVars \/ \E op \in Operations : Wallet!Invoke(<<p, op>>)
        BY <1>1 DEF Request, Proceed, Save, AfterValidate, AfterDeduct, Reject, Accept,
                    Gateway, AfterRefund, Fail, Complete, Operations
      <3>3. QED
        BY <3>1, <3>2 DEF walletVars, Operations
    <2>3. ASSUME HasFailed(p)'
          PROVE  \/ call'[<<p, "debit">>] \in {"idle", "error"}
                 \/ call'[<<p, "credit">>] \in {"ok", "error"}
      <3> USE <1>0, <2>3 DEF PaymentTypeOK, Goto, UpdateStatus, HasFailed, walletVars
      <3>1. CASE Request(p) \/ AfterValidate(p) \/ AfterDeduct(p) \/ Accept(p) \/ Gateway(p)
        BY <3>1 DEF Request, AfterValidate, AfterDeduct, Accept, Gateway
      <3>2. CASE Save(p)
        BY <3>2 DEF Save
      <3>3. CASE Reject(p)
        BY <3>3 DEF Reject, PInv, CallsFollowFlow
      <3>4. CASE AfterRefund(p)
        BY <3>4 DEF AfterRefund, Returned
      <3>5. CASE Fail(p)
        BY <3>5 DEF Fail, FailureAsked
      <3>6. CASE Complete(p)
        BY <3>6 DEF Complete
      <3>7. QED
        BY <1>1, <3>1, <3>2, <3>3, <3>4, <3>5, <3>6 DEF Proceed
    <2>4. QED
      BY <2>1, <2>2, <2>3 DEF FailureAsked, HasFailed
  <1>2. ASSUME AnswersStay, UNCHANGED status,
               \A p \in Payments : flow'[p] \in {flow[p], "dead"}
        PROVE  FailureAsked'
    BY <1>0, <1>2 DEF FailureAsked, HasFailed, AnswersStay
  <1>3. ASSUME NEW p \in Payments, WalletStep(p) PROVE FailureAsked'
    <2>1. AnswersStay
      BY <1>0, <1>3, WalletStepsKeepAnswers DEF WalletStep, WalletCalls
    <2>2. QED
      BY <1>2, <1>3, <2>1 DEF WalletStep, paymentVars
  <1>4. ASSUME Crash PROVE FailureAsked'
    BY <1>2, <1>4, StopKeepsAnswers DEF Crash
  <1>5. ASSUME UNCHANGED vars PROVE FailureAsked'
    BY <1>5 DEF vars, walletVars, paymentVars, FailureAsked, HasFailed
  <1>6. QED
    BY <1>1, <1>3, <1>4, <1>5 DEF Next

\* With a database that answers, a customer loses a refund to another payment
\* of the same wallet and to nothing else.
THEOREM LostRefundsLostARace ==
  ASSUME Faults = {}
  PROVE  Spec => []LostRefundHasCompetitor
  <1>1. Init => DebitIsSeen /\ FailureAsked
    BY DEF Init, Wallet!Init, DebitIsSeen, FailureAsked, HasFailed, WalletCalls, Operations
  <1>2. Spec => [](DebitIsSeen /\ FailureAsked)
    <2>1. /\ PInv /\ WalletFacts!IInv /\ DebitIsSeen /\ FailureAsked /\ [Next]_vars
          => (DebitIsSeen /\ FailureAsked)'
      BY NextDebitIsSeen, NextFailureAsked
    <2>2. QED
      BY <1>1, <2>1, PaymentInvariant, PTL DEF Spec
  <1>3. Spec => []WalletFacts!RefusedCredits
    <2>1. WalletFacts!Spec => []WalletFacts!RefusedCredits
      BY WalletConstants, WalletFacts!RefusedCreditsLostARace
    <2>2. QED
      BY <2>1, PaymentsUseTheWallet, PTL
  <1>4. PInv /\ WalletFacts!IInv /\ DebitIsSeen /\ FailureAsked
          /\ WalletFacts!RefusedCredits => LostRefundHasCompetitor
    <2> SUFFICES ASSUME PInv, WalletFacts!IInv, DebitIsSeen, FailureAsked,
                        WalletFacts!RefusedCredits,
                        NEW p \in Payments,
                        flow[p] = "done", status[p] = "failed",
                        Debited(p), ~Refunded(p)
                 PROVE  \E i \in 1..Len(history[Owner[p]]) :
                          /\ i > seen[<<p, "credit">>].version
                          /\ history[Owner[p]][i].call[1] # p
      BY DEF LostRefundHasCompetitor
    <2> DEFINE w == Owner[p]
               c == <<p, "credit">>
               i == seen[c].version + 1
    <2>0. /\ w \in Wallets /\ c \in WalletCalls
          /\ WalletFacts!TypeOK /\ WalletFacts!NoLostUpdate
      BY PaymentAssumption DEF WalletCalls, Operations, WalletFacts!IInv
    <2>1. call[c] = "error"
      BY WhatAnswersMean DEF FailureAsked, HasFailed, Debited, Refunded
    <2>2. seen[c].version \in Nat /\ seen[c].version < Len(history[w])
      <3>1. seen[c].version \in Nat
        BY <2>0 DEF WalletFacts!TypeOK
      <3>2. seen[c].version < version[w]
        BY <2>0, <2>1 DEF WalletFacts!RefusedCredits
      <3>3. version[w] = Len(history[w])
        BY <2>0 DEF WalletFacts!NoLostUpdate
      <3>4. QED
        BY <3>1, <3>2, <3>3
    <2>3. i \in 1..Len(history[w]) /\ i > seen[c].version
      <3>1. Len(history[w]) \in Nat
        BY <2>0 DEF WalletFacts!TypeOK
      <3>2. QED
        BY <2>2, <3>1
    <2> HIDE DEF w, i
    <2>4. PICK q \in Payments, op \in Operations : history[w][i].call = <<q, op>>
      <3>1. history[w][i] \in WalletFacts!Update
        BY <2>0, <2>3 DEF WalletFacts!TypeOK
      <3>2. history[w][i].call \in WalletCalls
        BY <3>1 DEF WalletFacts!Update
      <3>3. QED
        BY <3>2 DEF WalletCalls
    <2>5. <<q, op>> # <<p, "debit">>
      <3>1. ~(i <= seen[c].version)
        BY <2>2, <2>3
      <3>2. history[w][i].call # <<p, "debit">>
        BY <2>1, <2>3, <3>1 DEF DebitIsSeen, w, c
      <3>3. QED
        BY <2>4, <3>2
    <2>6. <<q, op>> # c
      BY <2>0, <2>3, <2>4 DEF Refunded, Wallet!Applied, w, c
    <2>7. op # "validate"
      <3>1. WalletFacts!StartsFromPrevious(w, i)
        BY <2>0, <2>3 DEF WalletFacts!NoLostUpdate
      <3>2. <<q, op>> \in WalletCalls
        BY DEF WalletCalls
      <3>3. [c1 \in WalletCalls |-> c1[2]][<<q, op>>] \in {"debit", "credit"}
        BY <2>4, <3>1 DEF WalletFacts!StartsFromPrevious
      <3>4. [c1 \in WalletCalls |-> c1[2]][<<q, op>>] = op
        BY <3>2
      <3>5. QED
        BY <3>3, <3>4
    <2>8. q # p
      BY <2>5, <2>6, <2>7 DEF Operations
    <2>9. history[w][i].call[1] # p
      BY <2>4, <2>8
    <2>10. QED
      BY <2>3, <2>9, Zenon DEF w, c
  <1>5. QED
    BY <1>2, <1>3, <1>4, PaymentInvariant, PTL
-----------------------------------------------------------------------------
(***************************************************************************)
(* Sums over payments.  MapThenSumSet is a recursive function on the       *)
(* subsets of its argument; the induction behind each of these lemmas is   *)
(* the look at a smallest finite set that would be an exception.           *)
(***************************************************************************)
Pick(S) == CHOOSE x \in S : TRUE
Rest(S) == S \ {Pick(S)}

\* What MapThenFoldSet makes of each subset of S.
Sums(S, f) ==
  f = [T \in SUBSET S |-> IF T = {} THEN 0 ELSE Price[Pick(T)] + f[Rest(T)]]

\* A set of finite sets of payments has a smallest member.
LEMMA SmallestSet ==
  ASSUME NEW C, C \subseteq FiniteSubsetsOf(Payments), C # {}
  PROVE  \E T \in C : \A U \in C : U \subseteq T => U = T
  <1>1. \E T \in C : \A U \in C : <<U, T>> \notin StrictSubsetOrdering(Payments)
    BY FS_StrictSubsetOrderingWellFounded, WFMin
  <1>2. \A T, U \in C : U \subseteq T /\ U # T => <<U, T>> \in StrictSubsetOrdering(Payments)
    BY DEF StrictSubsetOrdering, FiniteSubsetsOf
  <1>3. QED
    BY <1>1, <1>2

\* A step of the recursion is to a smaller set.
LEMMA RestIsSmaller ==
  ASSUME NEW T \in FiniteSubsetsOf(Payments), T # {}
  PROVE  /\ Pick(T) \in T
         /\ Rest(T) \in FiniteSubsetsOf(Payments)
         /\ Rest(T) \subseteq T /\ Rest(T) # T
  <1>1. Pick(T) \in T
    BY DEF Pick
  <1>2. IsFiniteSet(Rest(T))
    BY FS_RemoveElement DEF FiniteSubsetsOf, Rest
  <1>3. QED
    BY <1>1, <1>2 DEF FiniteSubsetsOf, Rest

\* The recursive functions of two sets agree where both are defined.
LEMMA SumsAgree ==
  ASSUME NEW S, NEW T \in FiniteSubsetsOf(Payments), T \subseteq S,
         NEW f, Sums(S, f), NEW g, Sums(T, g)
  PROVE  \A U \in SUBSET T : f[U] = g[U]
  <1> DEFINE C == {U \in SUBSET T : f[U] # g[U]}
  <1>1. SUFFICES ASSUME C # {} PROVE FALSE
    OBVIOUS
  <1>2. SUBSET T \subseteq FiniteSubsetsOf(Payments)
    BY FS_Subset DEF FiniteSubsetsOf
  <1>3. PICK U \in C : \A V \in C : V \subseteq U => V = U
    <2>1. C \subseteq FiniteSubsetsOf(Payments)
      BY <1>2
    <2> HIDE DEF C
    <2>2. QED
      BY <1>1, <2>1, SmallestSet
  <1>4. /\ U \in SUBSET T /\ U \in SUBSET S /\ f[U] # g[U]
    BY <1>3
  <1>5. /\ f[U] = IF U = {} THEN 0 ELSE Price[Pick(U)] + f[Rest(U)]
        /\ g[U] = IF U = {} THEN 0 ELSE Price[Pick(U)] + g[Rest(U)]
    BY <1>4 DEF Sums
  <1>6. U # {}
    BY <1>4, <1>5
  <1>7. Rest(U) \in SUBSET T /\ Rest(U) # U /\ Rest(U) \subseteq U
    BY <1>2, <1>4, <1>6, RestIsSmaller
  <1>8. f[Rest(U)] = g[Rest(U)]
    BY <1>3, <1>7
  <1>9. f[U] = Price[Pick(U)] + f[Rest(U)] /\ g[U] = Price[Pick(U)] + g[Rest(U)]
    BY <1>5, <1>6
  <1> HIDE DEF C
  <1>10. QED
    BY <1>4, <1>8, <1>9, Zenon

SumsOf(S) == CHOOSE f : Sums(S, f)

\* The recursion defines a function.
LEMMA SumsExist ==
  ASSUME NEW S \in FiniteSubsetsOf(Payments)
  PROVE  Sums(S, SumsOf(S))
  <1> DEFINE C == {T \in FiniteSubsetsOf(Payments) : ~Sums(T, SumsOf(T))}
  <1>1. SUFFICES ASSUME C # {} PROVE FALSE
    OBVIOUS
  <1>2. PICK T \in C : \A U \in C : U \subseteq T => U = T
    <2>1. C \subseteq FiniteSubsetsOf(Payments)
      OBVIOUS
    <2> HIDE DEF C
    <2>2. QED
      BY <1>1, <2>1, SmallestSet
  <1>3. T \in FiniteSubsetsOf(Payments) /\ ~Sums(T, SumsOf(T))
    BY <1>2
  <1>4. SUBSET T \subseteq FiniteSubsetsOf(Payments)
    BY <1>3, FS_Subset DEF FiniteSubsetsOf
  <1>5. ASSUME NEW U \in SUBSET T, U # T PROVE Sums(U, SumsOf(U))
    BY <1>2, <1>4, <1>5
  <1> DEFINE g == [U \in SUBSET T |->
                     IF U = {} THEN 0
                     ELSE Price[Pick(U)] + SumsOf(Rest(U))[Rest(U)]]
  <1>6. ASSUME NEW U \in SUBSET T, U # T PROVE g[U] = SumsOf(U)[U]
    <2>1. Sums(U, SumsOf(U))
      BY <1>5, <1>6
    <2>2. SumsOf(U)[U] = IF U = {} THEN 0 ELSE Price[Pick(U)] + SumsOf(U)[Rest(U)]
      BY <2>1 DEF Sums
    <2>3. CASE U = {}
      BY <2>2, <2>3
    <2>4. CASE U # {}
      <3>1. /\ Rest(U) \in SUBSET T /\ Rest(U) \subseteq U /\ Rest(U) # T
            /\ Rest(U) \in FiniteSubsetsOf(Payments)
        BY <1>4, <1>6, <2>4, RestIsSmaller
      <3>2. Sums(Rest(U), SumsOf(Rest(U)))
        BY <1>5, <3>1
      <3>3. SumsOf(U)[Rest(U)] = SumsOf(Rest(U))[Rest(U)]
        BY <2>1, <3>1, <3>2, SumsAgree
      <3>4. QED
        BY <2>2, <2>4, <3>3
    <2>5. QED
      BY <2>3, <2>4
  <1>7. ASSUME NEW U \in SUBSET T, U # {} PROVE SumsOf(Rest(U))[Rest(U)] = g[Rest(U)]
    <2>1. Rest(U) \in SUBSET T /\ Rest(U) # T
      BY <1>4, <1>7, RestIsSmaller
    <2>2. QED
      BY <1>6, <2>1
  <1>8. \A U \in SUBSET T :
          g[U] = IF U = {} THEN 0 ELSE Price[Pick(U)] + SumsOf(Rest(U))[Rest(U)]
    OBVIOUS
  <1>9. g = [U \in SUBSET T |-> g[U]]
    OBVIOUS
  <1> HIDE DEF g
  <1>10. g = [U \in SUBSET T |-> IF U = {} THEN 0 ELSE Price[Pick(U)] + g[Rest(U)]]
    BY <1>7, <1>8, <1>9
  <1>11. Sums(T, g)
    BY <1>10 DEF Sums
  <1>12. Sums(T, SumsOf(T))
    BY <1>11 DEF SumsOf
  <1>13. QED
    BY <1>3, <1>12

\* What the recursion computes, as an equation of Total.
LEMMA TotalOfRest ==
  ASSUME NEW S \in FiniteSubsetsOf(Payments)
  PROVE  Total(S) = IF S = {} THEN 0 ELSE Price[Pick(S)] + Total(Rest(S))
  <1>1. \A T : Total(T) = SumsOf(T)[T]
    BY DEF Total, MapThenSumSet, MapThenFoldSet, SumsOf, Sums, Pick, Rest
  <1>2. SumsOf(S)[S] = IF S = {} THEN 0 ELSE Price[Pick(S)] + SumsOf(S)[Rest(S)]
    <2>1. S \in SUBSET S /\ Sums(S, SumsOf(S))
      BY SumsExist
    <2>2. QED
      BY <2>1 DEF Sums
  <1>3. CASE S = {}
    BY <1>1, <1>2, <1>3
  <1>4. CASE S # {}
    <2>1. Rest(S) \in FiniteSubsetsOf(Payments) /\ Rest(S) \subseteq S
      BY <1>4, RestIsSmaller
    <2>2. SumsOf(S)[Rest(S)] = SumsOf(Rest(S))[Rest(S)]
      BY <2>1, SumsAgree, SumsExist
    <2>3. QED
      BY <1>1, <1>2, <1>4, <2>2
  <1>5. QED
    BY <1>3, <1>4

\* The total of finitely many payments is a number.
LEMMA TotalIsNatural ==
  ASSUME NEW S \in FiniteSubsetsOf(Payments)
  PROVE  Total(S) \in Nat
  <1> DEFINE C == {T \in FiniteSubsetsOf(Payments) : Total(T) \notin Nat}
  <1>1. SUFFICES ASSUME C # {} PROVE FALSE
    OBVIOUS
  <1>2. PICK T \in C : \A U \in C : U \subseteq T => U = T
    <2>1. C \subseteq FiniteSubsetsOf(Payments)
      OBVIOUS
    <2> HIDE DEF C
    <2>2. QED
      BY <1>1, <2>1, SmallestSet
  <1>3. T \in FiniteSubsetsOf(Payments) /\ Total(T) \notin Nat
    BY <1>2
  <1>4. T # {}
    BY <1>3, TotalOfRest
  <1>5. Total(Rest(T)) \in Nat
    BY <1>2, <1>3, <1>4, RestIsSmaller
  <1>6. Price[Pick(T)] \in Nat
    BY <1>3, <1>4, RestIsSmaller, PaymentAssumption DEF FiniteSubsetsOf
  <1>7. QED
    BY <1>3, <1>4, <1>5, <1>6, TotalOfRest

\* The order in which the payments are chosen does not matter.
LEMMA TotalWithout ==
  ASSUME NEW S \in FiniteSubsetsOf(Payments), NEW p \in S
  PROVE  Total(S) = Price[p] + Total(S \ {p})
  <1> DEFINE C == {T \in FiniteSubsetsOf(Payments) :
                     \E q \in T : Total(T) # Price[q] + Total(T \ {q})}
  <1>1. SUFFICES ASSUME C # {} PROVE FALSE
    OBVIOUS
  <1>2. PICK T \in C : \A U \in C : U \subseteq T => U = T
    <2>1. C \subseteq FiniteSubsetsOf(Payments)
      OBVIOUS
    <2> HIDE DEF C
    <2>2. QED
      BY <1>1, <2>1, SmallestSet
  <1>3. T \in FiniteSubsetsOf(Payments)
    BY <1>2
  <1>4. PICK q \in T : Total(T) # Price[q] + Total(T \ {q})
    BY <1>2
  <1> DEFINE r == Pick(T)
             both == (T \ {r}) \ {q}
  <1>5. r \in T /\ Rest(T) = T \ {r} /\ Total(T) = Price[r] + Total(T \ {r})
    BY <1>3, <1>4, RestIsSmaller, TotalOfRest DEF Rest
  <1>6. r # q
    BY <1>4, <1>5
  <1>7. ASSUME NEW t \in T PROVE T \ {t} \in FiniteSubsetsOf(Payments) /\ T \ {t} \notin C
    <2>1. T \ {t} \in FiniteSubsetsOf(Payments)
      BY <1>3, FS_RemoveElement DEF FiniteSubsetsOf
    <2>2. T \ {t} \subseteq T /\ T \ {t} # T
      OBVIOUS
    <2>3. QED
      BY <1>2, <2>1, <2>2
  <1> HIDE DEF r
  <1>8. Total(T \ {r}) = Price[q] + Total(both)
    BY <1>5, <1>6, <1>7
  <1>9. Total(T \ {q}) = Price[r] + Total(both)
    <2>1. both = (T \ {q}) \ {r}
      OBVIOUS
    <2>2. T \ {q} \in FiniteSubsetsOf(Payments) /\ T \ {q} \notin C /\ r \in T \ {q}
      BY <1>5, <1>6, <1>7
    <2>3. Total(T \ {q}) = Price[r] + Total((T \ {q}) \ {r})
      BY <2>2
    <2> HIDE DEF both
    <2>4. QED
      BY <2>1, <2>3
  <1>10. /\ Price[q] \in Nat /\ Price[r] \in Nat
         /\ Total(both) \in Nat
    <2>1. q \in Payments /\ r \in Payments
      BY <1>3, <1>5 DEF FiniteSubsetsOf
    <2>2. both \in FiniteSubsetsOf(Payments)
      BY <1>5, <1>7, FS_RemoveElement DEF FiniteSubsetsOf
    <2>3. QED
      BY <2>1, <2>2, PaymentAssumption, TotalIsNatural
  <1> HIDE DEF both
  <1>11. QED
    BY <1>4, <1>5, <1>8, <1>9, <1>10
-----------------------------------------------------------------------------
\* The open payments of a wallet are finitely many and come to what is missing.
Accounts(w) ==
  /\ OpenPayments(w) \in FiniteSubsetsOf(Payments)
  /\ balance[w] = InitialBalance[w] - Total(OpenPayments(w))

\* At the start no payment is open.
LEMMA InitAccounts ==
  ASSUME Init, NEW w \in Wallets
  PROVE  Accounts(w)
  <1>1. /\ \A v \in Wallets : history[v] = <<>>
        /\ balance[w] = InitialBalance[w] /\ InitialBalance[w] \in Nat
    BY PaymentAssumption DEF Init, Wallet!Init
  <1>2. OpenPayments(w) = {}
    <2>1. ASSUME NEW p \in Payments PROVE ~Debited(p)
      <3>1. /\ <<p, "debit">> \in WalletCalls
            /\ history[Owner[p]] = <<>>
        BY <1>1, PaymentAssumption DEF WalletCalls, Operations
      <3>2. [c \in WalletCalls |-> Owner[c[1]]][<<p, "debit">>] = Owner[p]
        BY <3>1
      <3>3. QED
        BY <3>1, <3>2 DEF Debited, Wallet!Applied
    <2>2. QED
      BY <2>1 DEF OpenPayments
  <1>3. {} \in FiniteSubsetsOf(Payments)
    BY FS_EmptySet DEF FiniteSubsetsOf
  <1>4. Total({}) = 0
    BY <1>3, TotalOfRest
  <1>5. QED
    BY <1>1, <1>2, <1>3, <1>4 DEF Accounts

\* As long as no row is written, nothing moves.
LEMMA QuietAccounts ==
  ASSUME UNCHANGED <<balance, history>>, NEW w \in Wallets, Accounts(w)
  PROVE  Accounts(w)'
  <1>1. OpenPayments(w)' = OpenPayments(w)
    BY DEF OpenPayments, Debited, Refunded, Wallet!Applied
  <1>2. Total(OpenPayments(w))' = Total(OpenPayments(w))
    BY <1>1
  <1>3. QED
    BY <1>1, <1>2 DEF Accounts

\* A debit opens its payment, a credit closes it.
LEMMA WriteOpensOrCloses ==
  ASSUME PInv, WalletFacts!IInv, NEW p \in Payments, NEW op \in Operations,
         call[<<p, op>>] = "update_balance", Wallet!Write(<<p, op>>)
  PROVE  /\ \/ op = "debit" /\ p \notin OpenPayments(Owner[p])
            \/ op = "credit" /\ p \in OpenPayments(Owner[p])
         /\ OpenPayments(Owner[p])' =
              IF op = "debit" THEN OpenPayments(Owner[p]) \cup {p}
                              ELSE OpenPayments(Owner[p]) \ {p}
         /\ \A w \in Wallets \ {Owner[p]} : OpenPayments(w)' = OpenPayments(w)
  <1> DEFINE c == <<p, op>>
  <1>1. c \in WalletCalls /\ WalletFacts!TypeOK /\ WalletFacts!SeenIsPast
    BY DEF WalletCalls, WalletFacts!IInv
  <1>2. op \in {"debit", "credit"}
    <2>1. [d \in WalletCalls |-> d[2]][c] # "validate"
      BY <1>1 DEF WalletFacts!SeenIsPast
    <2>2. QED
      BY <1>1, <2>1 DEF Operations
  <1>3. ~Wallet!Applied(c)
    <2>1. WalletFacts!NotYetApplied /\ call[c] \in WalletFacts!InFlight
      BY DEF WalletFacts!IInv, WalletFacts!InFlight
    <2>2. ~WalletFacts!Applied(c)
      BY <1>1, <2>1 DEF WalletFacts!NotYetApplied
    <2>3. QED
      BY <2>2 DEF Wallet!Applied, WalletFacts!Applied
  <1>4. \A d \in WalletCalls : Wallet!Applied(d)' <=> (Wallet!Applied(d) \/ d = c)
    <2>1. WalletFacts!Write(c)
      BY DEF Wallet!Write, WalletFacts!Write, Wallet!NewBalance, WalletFacts!NewBalance
    <2>2. \A d \in WalletCalls :
            WalletFacts!Applied(d)' <=> (WalletFacts!Applied(d) \/ d = c)
      BY <1>1, <2>1, WalletConstants, WalletFacts!WriteApplies
    <2>3. QED
      BY <2>2 DEF Wallet!Applied, WalletFacts!Applied
  <1>5. \A q \in Payments : <<q, "debit">> \in WalletCalls /\ <<q, "credit">> \in WalletCalls
    BY DEF WalletCalls, Operations
  <1>6. \A q \in Payments :
          /\ Debited(q)' <=> (Debited(q) \/ (q = p /\ op = "debit"))
          /\ Refunded(q)' <=> (Refunded(q) \/ (q = p /\ op = "credit"))
    BY <1>4, <1>5 DEF Debited, Refunded
  <1>7. CASE op = "debit"
    <2>1. call[<<p, "credit">>] = "idle"
      BY <1>7 DEF PInv, CallsFollowFlow
    <2>2. ~Debited(p) /\ ~Refunded(p)
      BY <1>3, <1>7, <2>1, WhatAnswersMean DEF Debited, Refunded
    <2>3. QED
      BY <1>6, <1>7, <2>2 DEF OpenPayments
  <1>8. CASE op = "credit"
    <2>1. call[<<p, "debit">>] = "ok"
      BY <1>8 DEF PInv, CallsFollowFlow
    <2>2. Debited(p) /\ ~Refunded(p)
      BY <1>3, <1>8, <2>1, WhatAnswersMean DEF Debited, Refunded
    <2>3. QED
      BY <1>6, <1>8, <2>2 DEF OpenPayments
  <1>9. QED
    BY <1>2, <1>7, <1>8

\* A write changes the balance and the open payments by the same amount.
LEMMA WriteAccounts ==
  ASSUME PInv, WalletFacts!IInv, NEW c \in WalletCalls,
         call[c] = "update_balance", Wallet!VersionMatches(c), Wallet!Write(c),
         \A w \in Wallets : Accounts(w), NEW v \in Wallets
  PROVE  Accounts(v)'
  <1>1. PICK p \in Payments, op \in Operations : c = <<p, op>>
    BY DEF WalletCalls
  <1> DEFINE w == Owner[p]
             old == OpenPayments(w)
  <1>2. /\ \/ op = "debit" /\ p \notin old
           \/ op = "credit" /\ p \in old
        /\ OpenPayments(w)' = IF op = "debit" THEN old \cup {p} ELSE old \ {p}
        /\ \A u \in Wallets \ {w} : OpenPayments(u)' = OpenPayments(u)
    BY <1>1, WriteOpensOrCloses
  <1>3. /\ w \in Wallets /\ Price[p] \in Nat /\ InitialBalance[w] \in Nat
        /\ c[1] = p /\ c[2] = op
    BY <1>1, PaymentAssumption
  <1>4. /\ balance'[w] = IF op = "debit" THEN balance[w] - Price[p] ELSE balance[w] + Price[p]
        /\ \A u \in Wallets \ {w} : balance'[u] = balance[u]
    <2>1. /\ WalletFacts!TypeOK /\ WalletFacts!SeenIsPast /\ WalletFacts!NoLostUpdate
      BY DEF WalletFacts!IInv
    <2>2. seen[c].balance = balance[w]
      <3>1. seen[c].version = version[w]
        BY <1>3 DEF Wallet!VersionMatches
      <3>2. seen[c].balance = WalletFacts!BalanceAt(w, seen[c].version)
        BY <1>3, <2>1 DEF WalletFacts!SeenIsPast
      <3>3. balance[w] = WalletFacts!BalanceAt(w, version[w])
        BY <1>3, <2>1 DEF WalletFacts!NoLostUpdate
      <3>4. QED
        BY <3>1, <3>2, <3>3
    <2>3. Wallet!NewBalance(c) = IF op = "debit" THEN balance[w] - Price[p] ELSE balance[w] + Price[p]
      BY <1>3, <2>2 DEF Wallet!NewBalance
    <2>4. balance' = [balance EXCEPT ![w] = Wallet!NewBalance(c)]
      BY <1>3 DEF Wallet!Write
    <2>5. QED
      BY <1>3, <2>1, <2>3, <2>4 DEF WalletFacts!TypeOK
  <1>5. CASE v # w
    <2>1. OpenPayments(v)' = OpenPayments(v) /\ balance'[v] = balance[v]
      BY <1>2, <1>4, <1>5
    <2>2. Total(OpenPayments(v))' = Total(OpenPayments(v))
      BY <2>1
    <2>3. QED
      BY <2>1, <2>2 DEF Accounts
  <1>6. CASE v = w
    <2>1. PICK new : new = OpenPayments(w)'
      OBVIOUS
    <2>2. /\ old \in FiniteSubsetsOf(Payments)
          /\ balance[w] = InitialBalance[w] - Total(old)
          /\ Total(old) \in Nat
      BY <1>3, TotalIsNatural DEF Accounts
    <2> HIDE DEF old, w
    <2>3. /\ new \in FiniteSubsetsOf(Payments)
          /\ op = "debit" => p \in new /\ new \ {p} = old
          /\ op = "credit" => p \in old /\ old \ {p} = new
      <3>1. IsFiniteSet(old \cup {p}) /\ IsFiniteSet(old \ {p})
        BY <2>2, FS_AddElement, FS_RemoveElement DEF FiniteSubsetsOf
      <3>2. QED
        BY <1>2, <2>1, <2>2, <3>1 DEF FiniteSubsetsOf
    <2>4. Total(new) \in Nat
      BY <2>3, TotalIsNatural
    <2>5. /\ op = "debit" => Total(new) = Price[p] + Total(old)
          /\ op = "credit" => Total(old) = Price[p] + Total(new)
      BY <2>2, <2>3, TotalWithout
    <2>6. balance'[w] = InitialBalance[w] - Total(new)
      BY <1>2, <1>3, <1>4, <2>2, <2>4, <2>5
    <2>7. Total(OpenPayments(w))' = Total(new)
      BY <2>1
    <2>8. QED
      BY <1>6, <2>1, <2>3, <2>6, <2>7 DEF Accounts
  <1>7. QED
    BY <1>5, <1>6

\* Every step keeps the accounts: only UpdateBalance writes a row.
LEMMA NextAccounts ==
  ASSUME PInv, WalletFacts!IInv, [Next]_vars, \A w \in Wallets : Accounts(w),
         NEW v \in Wallets
  PROVE  Accounts(v)'
  <1>1. ASSUME UNCHANGED <<balance, history>> PROVE Accounts(v)'
    BY <1>1, QuietAccounts
  <1>2. ASSUME NEW c \in WalletCalls, Wallet!Step(c) PROVE Accounts(v)'
    <2>1. \/ UNCHANGED <<balance, history>>
          \/ /\ call[c] = "update_balance"
             /\ Wallet!VersionMatches(c) /\ Wallet!Write(c)
      BY <1>2 DEF Wallet!Step, Wallet!GetWallet, Wallet!CreateTransaction,
                  Wallet!UpdateBalance
    <2>2. QED
      BY <1>1, <2>1, WriteAccounts
  <1>3. ASSUME NEW p \in Payments, Request(p) \/ Proceed(p)
        PROVE  \/ UNCHANGED <<balance, history>>
               \/ \E op \in Operations : Wallet!Step(<<p, op>>)
    BY <1>3 DEF Request, Proceed, Save, AfterValidate, AfterDeduct, Reject,
                Accept, Gateway, AfterRefund, Fail, Complete, WalletStep,
                Wallet!Invoke, walletVars
  <1>4. ASSUME Crash \/ UNCHANGED vars PROVE UNCHANGED <<balance, history>>
    BY <1>4 DEF Crash, Wallet!Stop, vars, walletVars
  <1>5. \A p \in Payments, op \in Operations : <<p, op>> \in WalletCalls
    BY DEF WalletCalls
  <1>6. QED
    BY <1>1, <1>2, <1>3, <1>4, <1>5 DEF Next

\* Every cent missing from a wallet was debited for a payment that was not
\* refunded, for every number of payments, whatever fails or stops.
THEOREM BalancesAreExplained == Spec => []BalanceAccountsForPayments
  <1> DEFINE All == \A w \in Wallets : Accounts(w)
  <1>1. Init => All
    BY InitAccounts
  <1>2. PInv /\ WalletFacts!IInv /\ All /\ [Next]_vars => All'
    BY NextAccounts
  <1>3. All => BalanceAccountsForPayments
    BY DEF Accounts, BalanceAccountsForPayments
  <1> HIDE DEF All
  <1>4. QED
    BY <1>1, <1>2, <1>3, PaymentInvariant, PTL DEF Spec
=============================================================================
