------------------------ MODULE WalletServiceProofs ------------------------
(***************************************************************************)
(* Proofs about WalletService, for every set of wallets and calls, every   *)
(* amount and every fault of the statements.                               *)
(***************************************************************************)
EXTENDS WalletService, TLAPS

(***************************************************************************)
(* The inductive invariant.  What makes the version test enough is         *)
(* SeenIsPast: the row a call works with is the row the table held when    *)
(* its version was the current one.  When the versions match, the stale    *)
(* copy is the present row.                                                *)
(***************************************************************************)
SeenIsPast ==
  \A c \in Calls : call[c] \in {"create_transaction", "update_balance"} =>
    /\ Kind[c] # "validate"
    /\ seen[c].version <= version[WalletOf[c]]
    /\ seen[c].balance = BalanceAt(WalletOf[c], seen[c].version)
    /\ Kind[c] = "debit" => seen[c].balance >= Amount[c]

\* A call that has not ended has changed nothing yet; one that is about to
\* update the balance has left its row.
NotYetApplied ==
  \A c \in Calls :
    /\ call[c] \in {"idle"} \cup InFlight => ~Applied(c)
    /\ call[c] = "update_balance" => c \in txns

IInv ==
  /\ TypeOK
  /\ NoLostUpdate
  /\ NeverOverdrawn
  /\ SeenIsPast
  /\ NotYetApplied
  /\ AppliedOnceAndRecorded
  /\ AnswersAreTrue

-----------------------------------------------------------------------------
\* The state after the row of c's wallet is written: one more update, the
\* older ones as they were.
LEMMA WriteAppends ==
  ASSUME TypeOK, NEW c \in Calls, Write(c)
  PROVE  /\ history' \in [Wallets -> Seq(Update)]
         /\ balance' \in [Wallets -> Int]
         /\ version' \in [Wallets -> Nat]
         /\ \A w \in Wallets \ {WalletOf[c]} :
              /\ history'[w] = history[w]
              /\ balance'[w] = balance[w]
              /\ version'[w] = version[w]
         /\ Len(history'[WalletOf[c]]) = Len(history[WalletOf[c]]) + 1
         /\ \A i \in 1..Len(history[WalletOf[c]]) :
              history'[WalletOf[c]][i] = history[WalletOf[c]][i]
         /\ history'[WalletOf[c]][Len(history[WalletOf[c]]) + 1] =
              [call |-> c, base |-> seen[c].balance, result |-> NewBalance(c)]
         /\ balance'[WalletOf[c]] = NewBalance(c)
         /\ version'[WalletOf[c]] = version[WalletOf[c]] + 1
  <1> DEFINE w == WalletOf[c]
             u == [call |-> c, base |-> seen[c].balance, result |-> NewBalance(c)]
  <1>1. w \in Wallets /\ Amount[c] \in Nat
    BY WalletAssumption
  <1>2. NewBalance(c) \in Int
    BY <1>1 DEF NewBalance, TypeOK
  <1>3. u \in Update
    BY <1>2 DEF Update, TypeOK
  <1>4. /\ history' = [history EXCEPT ![w] = Append(@, u)]
        /\ balance' = [balance EXCEPT ![w] = NewBalance(c)]
        /\ version' = [version EXCEPT ![w] = @ + 1]
    BY DEF Write
  <1>5. history[w] \in Seq(Update) /\ Append(history[w], u) \in Seq(Update)
    BY <1>1, <1>3 DEF TypeOK
  <1> HIDE DEF u
  <1>6. /\ history' \in [Wallets -> Seq(Update)]
        /\ history'[w] = Append(history[w], u)
        /\ \A x \in Wallets \ {w} : history'[x] = history[x]
    BY <1>1, <1>4, <1>5 DEF TypeOK
  <1>7. /\ Len(history'[w]) = Len(history[w]) + 1
        /\ \A i \in 1..Len(history[w]) : history'[w][i] = history[w][i]
        /\ history'[w][Len(history[w]) + 1] = u
    BY <1>3, <1>5, <1>6
  <1>8. /\ balance' \in [Wallets -> Int]
        /\ version' \in [Wallets -> Nat]
        /\ balance'[w] = NewBalance(c)
        /\ version'[w] = version[w] + 1
        /\ \A x \in Wallets \ {w} : balance'[x] = balance[x] /\ version'[x] = version[x]
    BY <1>1, <1>2, <1>4 DEF TypeOK
  <1>9. QED
    BY <1>6, <1>7, <1>8 DEF u

\* A step that writes no row keeps what the table has to do with its history.
LEMMA NoWriteKeepsHistory ==
  ASSUME UNCHANGED <<balance, version, history>>
  PROVE  /\ NoLostUpdate => NoLostUpdate'
         /\ NeverOverdrawn => NeverOverdrawn'
         /\ \A c \in Calls : Applied(c)' <=> Applied(c)
         /\ \A w \in Wallets, v \in Nat : BalanceAt(w, v)' = BalanceAt(w, v)
  BY DEF NoLostUpdate, StartsFromPrevious, NeverOverdrawn, Applied, BalanceAt

\* What a write does to the two ways of looking at the history.
LEMMA WriteApplies ==
  ASSUME TypeOK, NEW c \in Calls, Write(c)
  PROVE  /\ \A d \in Calls : Applied(d)' <=> (Applied(d) \/ d = c)
         /\ \A w \in Wallets, v \in Nat :
              v <= Len(history[w]) => BalanceAt(w, v)' = BalanceAt(w, v)
         /\ BalanceAt(WalletOf[c], Len(history[WalletOf[c]]))' = NewBalance(c)
  <1> DEFINE wc == WalletOf[c]
             n  == Len(history[wc])
  <1>1. wc \in Wallets /\ n \in Nat
    BY WalletAssumption DEF TypeOK
  <1>2. /\ \A w \in Wallets \ {wc} : history'[w] = history[w]
        /\ Len(history'[wc]) = n + 1
        /\ \A i \in 1..n : history'[wc][i] = history[wc][i]
        /\ history'[wc][n + 1].call = c
        /\ history'[wc][n + 1].result = NewBalance(c)
    <2>1. history'[wc][n + 1] =
            [call |-> c, base |-> seen[c].balance, result |-> NewBalance(c)]
      BY WriteAppends
    <2>2. /\ history'[wc][n + 1].call = c
          /\ history'[wc][n + 1].result = NewBalance(c)
      BY <2>1
    <2>3. \A w \in Wallets \ {wc} : history'[w] = history[w]
      BY WriteAppends
    <2>4. Len(history'[wc]) = n + 1
      BY WriteAppends
    <2>5. \A i \in 1..n : history'[wc][i] = history[wc][i]
      BY WriteAppends
    <2>6. QED
      BY <2>2, <2>3, <2>4, <2>5
  <1>3. ASSUME NEW d \in Calls
        PROVE  Applied(d)' <=> (Applied(d) \/ d = c)
    <2>1. WalletOf[d] \in Wallets
      BY WalletAssumption
    <2>2. CASE WalletOf[d] # wc
      BY <1>2, <2>1, <2>2 DEF Applied
    <2>3. CASE WalletOf[d] = wc
      <3>1. Applied(d)' <=> \E i \in 1..(n + 1) : history'[wc][i].call = d
        BY <1>2, <2>3 DEF Applied
      <3>2. 1..(n + 1) = 1..n \cup {n + 1}
        BY <1>1
      <3>3. Applied(d) <=> \E i \in 1..n : history'[wc][i].call = d
        BY <1>2, <2>3 DEF Applied
      <3> HIDE DEF n, wc
      <3>4. QED
        BY <1>2, <3>1, <3>2, <3>3
    <2>4. QED
      BY <2>2, <2>3
  <1>4. ASSUME NEW w \in Wallets, NEW v \in Nat, v <= Len(history[w])
        PROVE  BalanceAt(w, v)' = BalanceAt(w, v)
    <2>1. history[w] \in Seq(Update)
      BY DEF TypeOK
    <2>2. v = 0 \/ v \in 1..Len(history[w])
      BY <1>4, <2>1
    <2>3. history'[w][v] = history[w][v] \/ v = 0
      BY <1>2, <2>2
    <2>4. QED
      BY <2>3 DEF BalanceAt
  <1>5. BalanceAt(wc, Len(history[wc]))' = NewBalance(c)
    <2>1. Len(history'[wc]) # 0 /\ Len(history'[wc]) = n + 1
      BY <1>1, <1>2
    <2>2. history'[wc][Len(history'[wc])].result = NewBalance(c)
      BY <1>2, <2>1
    <2>3. QED
      BY <2>1, <2>2 DEF BalanceAt
  <1>6. QED
    BY <1>3, <1>4, <1>5

-----------------------------------------------------------------------------
LEMMA InitIInv == Init => IInv
  <1> SUFFICES ASSUME Init PROVE IInv
    OBVIOUS
  <1> USE WalletAssumption DEF Init
  <1>1. \A w \in Wallets : Len(history[w]) = 0
    OBVIOUS
  <1>2. TypeOK
    BY DEF TypeOK
  <1>3. NoLostUpdate /\ NeverOverdrawn
    BY <1>1 DEF NoLostUpdate, NeverOverdrawn, BalanceAt
  <1>4. \A c \in Calls : ~Applied(c)
    BY <1>1 DEF Applied
  <1>5. SeenIsPast /\ NotYetApplied /\ AppliedOnceAndRecorded /\ AnswersAreTrue
    BY <1>1, <1>4 DEF SeenIsPast, NotYetApplied, AppliedOnceAndRecorded, AnswersAreTrue
  <1>6. QED
    BY <1>2, <1>3, <1>5 DEF IInv

\* The steps that write no row: each one moves one call, or ends several.
LEMMA QuietStepIInv ==
  ASSUME IInv, UNCHANGED <<balance, version, history>>,
         TypeOK', txns \subseteq txns', SeenIsPast',
         \A c \in Calls : \/ call'[c] = call[c]
                           \/ call'[c] = "dead"
                           \/ /\ call[c] \in {"idle"} \cup InFlight
                              /\ call'[c] # "ok" \/ Kind[c] = "validate"
                              /\ call'[c] = "update_balance" => c \in txns'
  PROVE  IInv'
  <1>1. NoLostUpdate' /\ NeverOverdrawn'
    BY NoWriteKeepsHistory DEF IInv
  <1>2. \A c \in Calls : Applied(c)' <=> Applied(c)
    BY NoWriteKeepsHistory
  <1>3. \A c \in Calls : call[c] \in {"idle"} \cup InFlight => ~Applied(c)
    BY DEF IInv, NotYetApplied
  <1>4. \A c \in Calls : call[c] = "update_balance" => c \in txns
    BY DEF IInv, NotYetApplied
  <1>5. NotYetApplied'
    BY <1>2, <1>3, <1>4 DEF NotYetApplied, InFlight
  <1>6. AppliedOnceAndRecorded'
    BY <1>2 DEF IInv, AppliedOnceAndRecorded
  <1>7. AnswersAreTrue'
    BY <1>2, <1>3 DEF IInv, AnswersAreTrue
  <1>8. QED
    BY <1>1, <1>5, <1>6, <1>7 DEF IInv

-----------------------------------------------------------------------------
(* One lemma per action.                                                   *)

LEMMA InvokeIInv ==
  ASSUME IInv, NEW c \in Calls, Invoke(c)
  PROVE  IInv'
  <1> USE DEF Invoke, Goto
  <1>1. TypeOK'
    BY DEF IInv, TypeOK, InFlight
  <1>2. /\ call'[c] = "get_wallet" /\ call[c] = "idle"
        /\ \A d \in Calls : d # c => call'[d] = call[d]
    BY DEF IInv, TypeOK
  <1>3. SeenIsPast'
    BY <1>2 DEF IInv, SeenIsPast, BalanceAt
  <1>4. \A d \in Calls : \/ call'[d] = call[d]
                          \/ /\ call[d] \in {"idle"} \cup InFlight
                             /\ call'[d] # "ok"
                             /\ call'[d] # "update_balance"
    BY <1>2
  <1>5. QED
    BY <1>1, <1>3, <1>4, QuietStepIInv

LEMMA GetWalletIInv ==
  ASSUME IInv, NEW c \in Calls, GetWallet(c)
  PROVE  IInv'
  <1> DEFINE w == WalletOf[c]
  <1> USE DEF GetWallet, Goto
  <1>1. TypeOK /\ w \in Wallets /\ Kind[c] \in CallKinds /\ Amount[c] \in Nat
    BY WalletAssumption DEF IInv
  <1>2. PICK l \in {"error", "ok", "create_transaction"} :
          /\ call' = [call EXCEPT ![c] = l]
          /\ l = "ok" => Kind[c] = "validate"
          /\ l = "create_transaction" =>
               /\ seen' = [seen EXCEPT ![c] = [balance |-> balance[w],
                                               version |-> version[w]]]
               /\ Kind[c] # "validate"
               /\ Kind[c] = "debit" => ~(balance[w] < Amount[c])
    BY <1>1 DEF AfterRead, CallKinds
  <1>3. \A d \in Calls : d # c => seen'[d] = seen[d]
    BY <1>1 DEF TypeOK
  <1>4. TypeOK'
    <2>1. [balance |-> balance[w], version |-> version[w]] \in
            [balance : Int, version : Nat]
      BY <1>1 DEF TypeOK
    <2>2. seen' \in [Calls -> [balance : Int, version : Nat]]
      BY <1>1, <2>1 DEF TypeOK
    <2>3. call' \in [Calls -> {"idle"} \cup InFlight \cup Ended]
      BY <1>1, <1>2 DEF TypeOK, InFlight, Ended
    <2>4. QED
      BY <1>1, <2>2, <2>3 DEF TypeOK
  <1>5. /\ call'[c] = l
        /\ \A d \in Calls : d # c => call'[d] = call[d]
    BY <1>1, <1>2 DEF TypeOK
  <1>6. SeenIsPast'
    <2> SUFFICES ASSUME NEW d \in Calls,
                        call'[d] \in {"create_transaction", "update_balance"}
                 PROVE  /\ Kind[d] # "validate"
                        /\ seen'[d].version <= version[WalletOf[d]]
                        /\ seen'[d].balance =
                             BalanceAt(WalletOf[d], seen'[d].version)
                        /\ Kind[d] = "debit" => seen'[d].balance >= Amount[d]
      BY DEF SeenIsPast, BalanceAt
    <2>1. CASE d # c
      BY <1>3, <1>5, <2>1 DEF IInv, SeenIsPast
    <2>2. CASE d = c
      <3>1. l = "create_transaction"
        BY <1>5, <2>2
      <3>2. seen'[c].balance = balance[w] /\ seen'[c].version = version[w]
        BY <1>1, <1>2, <3>1 DEF TypeOK
      <3>3. balance[w] = BalanceAt(w, version[w])
        BY <1>1 DEF IInv, NoLostUpdate
      <3>4. balance[w] \in Int /\ version[w] \in Nat
        BY <1>1 DEF TypeOK
      <3>5. QED
        BY <1>1, <1>2, <2>2, <3>1, <3>2, <3>3, <3>4
    <2>3. QED
      BY <2>1, <2>2
  <1>7. \A d \in Calls : \/ call'[d] = call[d]
                          \/ /\ call[d] \in {"idle"} \cup InFlight
                             /\ call'[d] # "ok" \/ Kind[d] = "validate"
                             /\ call'[d] # "update_balance"
    BY <1>2, <1>5 DEF InFlight
  <1>8. UNCHANGED <<balance, version, txns, history>>
    OBVIOUS
  <1>9. QED
    BY <1>4, <1>6, <1>7, <1>8, QuietStepIInv

LEMMA CreateTransactionIInv ==
  ASSUME IInv, NEW c \in Calls, CreateTransaction(c)
  PROVE  IInv'
  <1> USE DEF CreateTransaction, Goto
  <1>1. TypeOK /\ call[c] = "create_transaction"
    BY DEF IInv
  <1>2. PICK l \in {"error", "update_balance"} :
          /\ call' = [call EXCEPT ![c] = l]
          /\ l = "update_balance" => c \in txns'
    OBVIOUS
  <1>3. /\ call'[c] = l
        /\ \A d \in Calls : d # c => call'[d] = call[d]
    BY <1>1, <1>2 DEF TypeOK
  <1>4. TypeOK' /\ txns \subseteq txns'
    BY <1>1, <1>2 DEF TypeOK, InFlight, Ended
  <1>5. SeenIsPast'
    BY <1>1, <1>3 DEF IInv, SeenIsPast, BalanceAt
  <1>6. \A d \in Calls : \/ call'[d] = call[d]
                          \/ /\ call[d] \in {"idle"} \cup InFlight
                             /\ call'[d] # "ok"
                             /\ call'[d] = "update_balance" => d \in txns'
    BY <1>1, <1>2, <1>3 DEF InFlight
  <1>7. UNCHANGED <<balance, version, history>>
    OBVIOUS
  <1>8. QED
    BY <1>4, <1>5, <1>6, <1>7, QuietStepIInv

LEMMA StopIInv ==
  ASSUME IInv, Stop
  PROVE  IInv'
  <1> USE DEF Stop
  <1>1. TypeOK'
    BY DEF IInv, TypeOK, Ended
  <1>2. \A c \in Calls : call'[c] = call[c] \/ call'[c] = "dead"
    OBVIOUS
  <1>3. SeenIsPast'
    BY <1>2 DEF IInv, SeenIsPast, BalanceAt
  <1>4. UNCHANGED <<balance, version, txns, history>>
    OBVIOUS
  <1>5. QED
    BY <1>1, <1>2, <1>3, <1>4, QuietStepIInv

\* The step that matters: the row c has read is the row of the table, because
\* the versions match and SeenIsPast.
LEMMA WriteIInv ==
  ASSUME IInv, NEW c \in Calls, call[c] = "update_balance",
         VersionMatches(c), Write(c),
         \/ call' = [call EXCEPT ![c] = "ok"]
         \/ "lost" \in Faults /\ call' = [call EXCEPT ![c] = "error"],
         UNCHANGED <<txns, seen>>
  PROVE  IInv'
  <1> DEFINE w == WalletOf[c]
             n == Len(history[w])
  <1>1. /\ TypeOK /\ NoLostUpdate /\ NeverOverdrawn /\ SeenIsPast
        /\ NotYetApplied /\ AppliedOnceAndRecorded /\ AnswersAreTrue
    BY DEF IInv
  <1>2. /\ w \in Wallets /\ n \in Nat /\ version[w] = n
        /\ Amount[c] \in Nat /\ balance[w] \in Int
        /\ Kind[c] \in CallKinds
    BY <1>1, WalletAssumption DEF TypeOK, NoLostUpdate
  <1>3. /\ seen[c].version = n
        /\ seen[c].balance = balance[w]
        /\ Kind[c] \in {"debit", "credit"}
        /\ Kind[c] = "debit" => balance[w] >= Amount[c]
    BY <1>1, <1>2 DEF SeenIsPast, NoLostUpdate, VersionMatches, CallKinds
  <1>4. /\ \A d \in Calls : d # c => call'[d] = call[d]
        /\ call'[c] \in {"ok", "error"}
        /\ call'[c] = "error" => "lost" \in Faults
        /\ call' \in [Calls -> {"idle"} \cup InFlight \cup Ended]
    BY <1>1 DEF TypeOK, Ended
  <1>5. TypeOK'
    BY <1>1, <1>4, WriteAppends DEF TypeOK
  <1>6. \A d \in Calls : Applied(d)' <=> (Applied(d) \/ d = c)
    BY <1>1, WriteApplies
  <1>7. \A x \in Wallets, v \in Nat :
          v <= Len(history[x]) => BalanceAt(x, v)' = BalanceAt(x, v)
    BY <1>1, WriteApplies
  <1>8. ~Applied(c) /\ c \in txns
    BY <1>1 DEF NotYetApplied, InFlight
  <1>9. NoLostUpdate'
    <2> SUFFICES ASSUME NEW x \in Wallets
                 PROVE  /\ version'[x] = Len(history'[x])
                        /\ balance'[x] = BalanceAt(x, version[x])'
                        /\ \A i \in 1..Len(history'[x]) :
                             StartsFromPrevious(x, i)'
      BY DEF NoLostUpdate
    <2>1. CASE x # w
      <3>1. /\ history'[x] = history[x]
            /\ version'[x] = version[x]
            /\ balance'[x] = balance[x]
        BY <1>1, <2>1, WriteAppends
      <3>2. \A v : BalanceAt(x, v)' = BalanceAt(x, v)
        BY <3>1 DEF BalanceAt
      <3>3. \A i : StartsFromPrevious(x, i)' <=> StartsFromPrevious(x, i)
        BY <3>1, <3>2 DEF StartsFromPrevious
      <3>4. QED
        BY <1>1, <3>1, <3>2, <3>3 DEF NoLostUpdate
    <2>2. CASE x = w
      <3>1. Len(history'[w]) = n + 1 /\ version'[w] = n + 1
        BY <1>1, <1>2, WriteAppends
      <3>2. balance'[w] = BalanceAt(w, version[w])'
        <4>1. BalanceAt(w, Len(history[w]))' = NewBalance(c)
          BY <1>1, WriteApplies
        <4>2. balance'[w] = NewBalance(c)
          BY <1>1, WriteAppends
        <4>3. QED
          BY <3>1, <4>1, <4>2
      <3>3. ASSUME NEW i \in 1..n
            PROVE  StartsFromPrevious(w, i)'
        <4>1. history'[w][i] = history[w][i]
          BY <1>1, WriteAppends
        <4>2. i - 1 \in Nat /\ i - 1 <= Len(history[w])
          BY <1>2
        <4>3. BalanceAt(w, i - 1)' = BalanceAt(w, i - 1)
          BY <1>2, <1>7, <4>2
        <4>4. StartsFromPrevious(w, i)
          BY <1>1, <1>2 DEF NoLostUpdate
        <4>5. QED
          BY <4>1, <4>3, <4>4 DEF StartsFromPrevious
      <3>4. ASSUME NEW i \in Nat, i = n + 1
            PROVE  StartsFromPrevious(w, i)'
        <4>1. history'[w][i] =
                [call |-> c, base |-> seen[c].balance, result |-> NewBalance(c)]
          BY <1>1, <3>4, WriteAppends
        <4>2. i - 1 \in Nat /\ i - 1 = n
          BY <1>2, <3>4
        <4>3. BalanceAt(w, i - 1)' = balance[w]
          BY <1>1, <1>2, <1>7, <4>2 DEF NoLostUpdate
        <4>4. QED
          BY <1>3, <4>1, <4>3 DEF StartsFromPrevious, NewBalance
      <3>5. \A i \in 1..Len(history'[w]) : i \in 1..n \/ (i \in Nat /\ i = n + 1)
        BY <1>2, <3>1
      <3>6. QED
        BY <2>2, <3>1, <3>2, <3>3, <3>4, <3>5
    <2>3. QED
      BY <2>1, <2>2
  <1>10. NeverOverdrawn'
    <2>1. balance'[w] = NewBalance(c)
      BY <1>1, WriteAppends
    <2>2. NewBalance(c) >= 0
      BY <1>1, <1>2, <1>3 DEF NewBalance, NeverOverdrawn
    <2>3. \A x \in Wallets \ {w} : balance'[x] = balance[x]
      BY <1>1, WriteAppends
    <2>4. QED
      BY <1>1, <2>1, <2>2, <2>3 DEF NeverOverdrawn
  <1>11. SeenIsPast'
    <2> SUFFICES ASSUME NEW d \in Calls,
                        call'[d] \in {"create_transaction", "update_balance"}
                 PROVE  /\ Kind[d] # "validate"
                        /\ seen[d].version <= version'[WalletOf[d]]
                        /\ seen[d].balance =
                             BalanceAt(WalletOf[d], seen[d].version)'
                        /\ Kind[d] = "debit" => seen[d].balance >= Amount[d]
      BY DEF SeenIsPast, BalanceAt
    <2>1. /\ call[d] \in {"create_transaction", "update_balance"}
          /\ WalletOf[d] \in Wallets
      BY <1>4, WalletAssumption
    <2>2. /\ seen[d].version \in Nat
          /\ seen[d].version <= Len(history[WalletOf[d]])
          /\ version[WalletOf[d]] \in Nat
      BY <1>1, <2>1 DEF SeenIsPast, TypeOK, NoLostUpdate
    <2>3. BalanceAt(WalletOf[d], seen[d].version)' =
            BalanceAt(WalletOf[d], seen[d].version)
      BY <1>7, <2>1, <2>2
    <2>4. \/ version'[WalletOf[d]] = version[WalletOf[d]]
          \/ version'[WalletOf[d]] = version[WalletOf[d]] + 1
      BY <1>1, <2>1, WriteAppends
    <2>5. QED
      BY <1>1, <2>1, <2>2, <2>3, <2>4 DEF SeenIsPast
  <1>12. NotYetApplied'
    BY <1>1, <1>4, <1>6 DEF NotYetApplied, InFlight
  <1>13. AppliedOnceAndRecorded'
    <2>1. \A d \in Calls : Applied(d)' => d \in txns'
      BY <1>1, <1>6, <1>8 DEF AppliedOnceAndRecorded
    <2>2. ASSUME NEW x \in Wallets,
                 NEW i \in 1..Len(history'[x]), NEW j \in 1..Len(history'[x]),
                 history'[x][i].call = history'[x][j].call
          PROVE  i = j
      <3>1. CASE x # w
        <4>1. history'[x] = history[x]
          BY <1>1, <3>1, WriteAppends
        <4>2. QED
          BY <1>1, <2>2, <4>1 DEF AppliedOnceAndRecorded
      <3>2. CASE x = w
        <4>1. Len(history'[w]) = n + 1
          BY <1>1, WriteAppends
        <4>2. \A k \in 1..n : history'[w][k] = history[w][k]
          BY <1>1, WriteAppends
        <4>3. history'[w][n + 1] =
                [call |-> c, base |-> seen[c].balance, result |-> NewBalance(c)]
          BY <1>1, WriteAppends
        <4>4. \A k \in 1..n : history[w][k].call # c
          BY <1>8 DEF Applied
        <4>5. i \in 1..n \cup {n + 1} /\ j \in 1..n \cup {n + 1}
          BY <1>2, <3>2, <4>1
        <4>6. \A k \in 1..n : k # n + 1
          BY <1>2
        <4>7. history'[w][n + 1].call = c
          BY <4>3
        <4>8. \A k, m \in 1..n : history[w][k].call = history[w][m].call => k = m
          BY <1>1, <1>2 DEF AppliedOnceAndRecorded
        <4> HIDE DEF n, w
        <4>9. QED
          BY <2>2, <3>2, <4>2, <4>4, <4>5, <4>7, <4>8
      <3>3. QED
        BY <3>1, <3>2
    <2>3. QED
      BY <2>1, <2>2 DEF AppliedOnceAndRecorded
  <1>14. AnswersAreTrue'
    BY <1>1, <1>4, <1>6 DEF AnswersAreTrue
  <1>15. QED
    BY <1>5, <1>9, <1>10, <1>11, <1>12, <1>13, <1>14 DEF IInv

LEMMA UpdateBalanceIInv ==
  ASSUME IInv, NEW c \in Calls, UpdateBalance(c)
  PROVE  IInv'
  <1>1. call[c] = "update_balance" /\ UNCHANGED <<txns, seen>> /\ TypeOK
    BY DEF UpdateBalance, IInv
  <1>2. CASE VersionMatches(c) /\ Write(c) /\
             (\/ Goto(c, "ok")
              \/ "lost" \in Faults /\ Goto(c, "error"))
    <2>1. \/ call' = [call EXCEPT ![c] = "ok"]
          \/ "lost" \in Faults /\ call' = [call EXCEPT ![c] = "error"]
      BY <1>2 DEF Goto
    <2>2. VersionMatches(c) /\ Write(c)
      BY <1>2
    <2>3. UNCHANGED <<txns, seen>>
      BY <1>1
    <2>4. QED
      BY <1>1, <2>1, <2>2, <2>3, WriteIInv
  <1>3. CASE Goto(c, "error") /\ UNCHANGED <<balance, version, history>>
    <2>1. /\ call'[c] = "error"
          /\ \A d \in Calls : d # c => call'[d] = call[d]
      BY <1>1, <1>3 DEF Goto, TypeOK
    <2>2. TypeOK'
      BY <1>1, <1>3 DEF Goto, TypeOK, Ended
    <2>3. SeenIsPast'
      BY <1>1, <1>3, <2>1 DEF IInv, SeenIsPast, BalanceAt
    <2>4. \A d \in Calls : \/ call'[d] = call[d]
                            \/ /\ call[d] \in {"idle"} \cup InFlight
                               /\ call'[d] = "error"
      BY <1>1, <2>1 DEF InFlight
    <2>5. QED
      BY <1>1, <1>3, <2>2, <2>3, <2>4, QuietStepIInv
  <1>4. QED
    BY <1>2, <1>3 DEF UpdateBalance

-----------------------------------------------------------------------------
(* The theorems.                                                           *)

\* The invariant holds in every state of the wallet service.
THEOREM WalletInvariant == Spec => []IInv
  <1>1. Init => IInv
    BY InitIInv
  <1>2. IInv /\ [Next]_walletVars => IInv'
    <2> SUFFICES ASSUME IInv, [Next]_walletVars
                 PROVE  IInv'
      OBVIOUS
    <2>1. ASSUME NEW c \in Calls, Invoke(c)
          PROVE  IInv'
      BY <2>1, InvokeIInv
    <2>2. ASSUME NEW c \in Calls, Step(c)
          PROVE  IInv'
      BY <2>2, GetWalletIInv, CreateTransactionIInv, UpdateBalanceIInv DEF Step
    <2>3. CASE Stop
      BY <2>3, StopIInv
    <2>4. CASE UNCHANGED walletVars
      <3>1. TypeOK' /\ SeenIsPast'
        BY <2>4 DEF walletVars, IInv, TypeOK, SeenIsPast, BalanceAt
      <3>2. UNCHANGED <<balance, version, txns, call, history>>
        BY <2>4 DEF walletVars
      <3>3. QED
        BY <3>1, <3>2, QuietStepIInv
    <2>5. QED
      BY <2>1, <2>2, <2>3, <2>4 DEF Next
  <1>3. QED
    BY <1>1, <1>2, PTL DEF Spec

\* Every variable keeps its type, whatever the calls and the faults.
THEOREM TypeCorrect == Spec => []TypeOK
  <1>1. IInv => TypeOK
    BY DEF IInv
  <1>2. QED
    BY <1>1, WalletInvariant, PTL

\* The version test of UpdateBalance loses no update of any wallet.
THEOREM NoUpdateIsLost == Spec => []NoLostUpdate
  <1>1. IInv => NoLostUpdate
    BY DEF IInv
  <1>2. QED
    BY <1>1, WalletInvariant, PTL

\* No interleaving of DeductBalance and RefundBalance overdraws a wallet.
THEOREM NoOverdraft == Spec => []NeverOverdrawn
  <1>1. IInv => NeverOverdrawn
    BY DEF IInv
  <1>2. QED
    BY <1>1, WalletInvariant, PTL

\* A debit or a credit changes the balance at most once, after its row is in
\* the transactions table.
THEOREM AppliedOnce == Spec => []AppliedOnceAndRecorded
  <1>1. IInv => AppliedOnceAndRecorded
    BY DEF IInv
  <1>2. QED
    BY <1>1, WalletInvariant, PTL

\* A caller told "ok" had its amount applied; a caller told "error" had not,
\* unless an answer of the database was lost.
THEOREM TrueAnswers == Spec => []AnswersAreTrue
  <1>1. IInv => AnswersAreTrue
    BY DEF IInv
  <1>2. QED
    BY <1>1, WalletInvariant, PTL

\* A credit that was refused had read a row that another update has replaced.
RefusedCredits ==
  \A c \in Calls : Kind[c] = "credit" /\ call[c] = "error" =>
    seen[c].version < version[WalletOf[c]]

\* A database that answers leaves RefundBalance one error, the conflict.
THEOREM RefusedCreditsLostARace ==
  ASSUME Faults = {}
  PROVE  Spec => []RefusedCredits
  <1>1. Init => RefusedCredits
    BY DEF Init, RefusedCredits
  <1>2. ASSUME IInv, RefusedCredits, [Next]_walletVars
        PROVE  RefusedCredits'
    <2>1. TypeOK /\ SeenIsPast
      BY <1>2 DEF IInv
    <2>2. ASSUME NEW c \in Calls, Invoke(c)
          PROVE  RefusedCredits'
      <3>1. /\ UNCHANGED <<version, seen>>
            /\ \A d \in Calls : call'[d] = "error" => call[d] = "error"
        BY <2>1, <2>2 DEF Invoke, Goto, TypeOK
      <3>2. QED
        BY <1>2, <3>1 DEF RefusedCredits
    <2>3. ASSUME NEW c \in Calls, GetWallet(c)
          PROVE  RefusedCredits'
      <3>1. /\ UNCHANGED version
            /\ call[c] = "get_wallet"
            /\ \A d \in Calls : d # c => call'[d] = call[d] /\ seen'[d] = seen[d]
            /\ Kind[c] = "credit" => call'[c] = "create_transaction"
        BY <2>1, <2>3 DEF GetWallet, AfterRead, Goto, TypeOK
      <3>2. QED
        BY <1>2, <3>1 DEF RefusedCredits
    <2>4. ASSUME NEW c \in Calls, CreateTransaction(c)
          PROVE  RefusedCredits'
      <3>1. /\ UNCHANGED <<version, seen>>
            /\ \A d \in Calls : call'[d] = "error" => call[d] = "error"
        BY <2>1, <2>4 DEF CreateTransaction, Goto, TypeOK
      <3>2. QED
        BY <1>2, <3>1 DEF RefusedCredits
    <2>5. ASSUME NEW c \in Calls, UpdateBalance(c)
          PROVE  RefusedCredits'
      <3>1. call[c] = "update_balance" /\ UNCHANGED seen
        BY <2>5 DEF UpdateBalance
      <3>2. CASE VersionMatches(c) /\ Write(c) /\ Goto(c, "ok")
        <4>1. \A d \in Calls : call'[d] = "error" => call[d] = "error"
          BY <2>1, <3>2 DEF Goto, TypeOK
        <4>2. \A w \in Wallets :
                version[w] \in Nat /\ version'[w] \in {version[w], version[w] + 1}
          BY <2>1, <3>2 DEF Write, TypeOK
        <4>3. \A d \in Calls : WalletOf[d] \in Wallets /\ seen[d].version \in Nat
          BY <2>1, WalletAssumption DEF TypeOK
        <4>4. QED
          BY <1>2, <3>1, <4>1, <4>2, <4>3 DEF RefusedCredits
      <3>3. CASE ~VersionMatches(c) /\ Goto(c, "error") /\ UNCHANGED version
        <4>1. \A d \in Calls : d # c => call'[d] = call[d]
          BY <2>1, <3>3 DEF Goto, TypeOK
        <4>2. /\ seen[c].version <= version[WalletOf[c]]
              /\ seen[c].version # version[WalletOf[c]]
          BY <2>1, <3>1, <3>3 DEF SeenIsPast, VersionMatches
        <4>3. seen[c].version \in Nat /\ version[WalletOf[c]] \in Nat
          BY <2>1, WalletAssumption DEF TypeOK
        <4>4. QED
          BY <1>2, <3>1, <3>3, <4>1, <4>2, <4>3 DEF RefusedCredits
      <3>4. QED
        BY <2>5, <3>2, <3>3 DEF UpdateBalance
    <2>6. CASE Stop
      <3>1. /\ UNCHANGED <<version, seen>>
            /\ \A d \in Calls : call'[d] = "error" => call[d] = "error"
        BY <2>6 DEF Stop
      <3>2. QED
        BY <1>2, <3>1 DEF RefusedCredits
    <2>7. CASE UNCHANGED walletVars
      BY <1>2, <2>7 DEF RefusedCredits, walletVars
    <2>8. QED
      BY <1>2, <2>2, <2>3, <2>4, <2>5, <2>6, <2>7 DEF Next, Step
  <1>3. QED
    BY <1>1, <1>2, WalletInvariant, PTL DEF Spec

-----------------------------------------------------------------------------
(* The service implements AtomicWallet.                                    *)

\* A step that writes no row and changes the label of c, and perhaps its copy
\* of the row, answers c or is not seen at all by the caller.
LEMMA QuietStepRefines ==
  ASSUME IInv, NEW c \in Calls, call[c] \in {"idle"} \cup InFlight,
         UNCHANGED <<balance, version, history>>,
         NEW l, Goto(c, l),
         \/ l \in InFlight
         \/ l = "error"
         \/ l = "ok" /\ Kind[c] = "validate" /\ balance[WalletOf[c]] >= Amount[c]
  PROVE  [Atomic!Next]_(Atomic!atomicVars)
  <1> DEFINE answers == [d \in Calls |-> AnswerOf(d)]
  <1>1. TypeOK /\ ~Applied(c)
    BY DEF IInv, NotYetApplied
  <1>2. AppliedCalls' = AppliedCalls /\ c \notin AppliedCalls
    BY <1>1, NoWriteKeepsHistory DEF AppliedCalls
  <1>3. /\ call'[c] = l
        /\ \A d \in Calls : d # c => call'[d] = call[d]
    BY <1>1 DEF Goto, TypeOK
  <1>4. answers[c] = "none"
    BY DEF AnswerOf, InFlight
  <1>5. answers' = [answers EXCEPT ![c] = AnswerOf(c)']
    BY <1>3 DEF AnswerOf
  <1>6. CASE l \in InFlight
    <2>1. AnswerOf(c)' = "none"
      BY <1>3, <1>6 DEF AnswerOf, InFlight
    <2>2. answers' = answers
      BY <1>4, <1>5, <2>1
    <2>3. QED
      BY <1>2, <2>2 DEF Atomic!atomicVars
  <1>7. CASE l = "error"
    <2>1. AnswerOf(c)' = "error"
      BY <1>3, <1>7 DEF AnswerOf
    <2>2. Atomic!Refuse(c)
      BY <1>2, <1>4, <1>5, <2>1 DEF Atomic!Refuse, Atomic!Answer
    <2>3. QED
      BY <2>2 DEF Atomic!Next
  <1>8. CASE l = "ok" /\ Kind[c] = "validate" /\ balance[WalletOf[c]] >= Amount[c]
    <2>1. AnswerOf(c)' = "ok"
      BY <1>3, <1>8 DEF AnswerOf
    <2>2. Atomic!Validate(c)
      BY <1>2, <1>4, <1>5, <1>8, <2>1 DEF Atomic!Validate, Atomic!Answer
    <2>3. QED
      BY <2>2 DEF Atomic!Next
  <1>9. QED
    BY <1>6, <1>7, <1>8

\* Writing the row is the step in which the call takes effect.
LEMMA WriteRefines ==
  ASSUME IInv, NEW c \in Calls, call[c] = "update_balance",
         VersionMatches(c), Write(c),
         NEW l \in {"ok", "error"}, Goto(c, l)
  PROVE  Atomic!Apply(c)
  <1> DEFINE answers == [d \in Calls |-> AnswerOf(d)]
             w == WalletOf[c]
  <1>1. TypeOK /\ ~Applied(c) /\ NoLostUpdate /\ SeenIsPast
    BY DEF IInv, NotYetApplied, InFlight
  <1>2. /\ w \in Wallets /\ Kind[c] \in CallKinds
        /\ balance[w] \in Int /\ Amount[c] \in Nat
    BY <1>1, WalletAssumption DEF TypeOK
  <1>3. /\ seen[c].balance = balance[w]
        /\ Kind[c] \in {"debit", "credit"}
        /\ Kind[c] = "debit" => balance[w] >= Amount[c]
    BY <1>1, <1>2 DEF SeenIsPast, NoLostUpdate, VersionMatches, CallKinds
  <1>4. balance' = [balance EXCEPT ![w] = NewBalance(c)]
    BY DEF Write
  <1>5. AppliedCalls' = AppliedCalls \cup {c} /\ c \notin AppliedCalls
    <2>1. \A d \in Calls : Applied(d)' <=> (Applied(d) \/ d = c)
      BY <1>1, WriteApplies
    <2>2. QED
      BY <1>1, <2>1 DEF AppliedCalls
  <1>6. answers[c] = "none" /\ answers' = [answers EXCEPT ![c] = l]
    <2>1. /\ call'[c] = l
          /\ \A d \in Calls : d # c => call'[d] = call[d]
      BY <1>1 DEF Goto, TypeOK
    <2>2. QED
      BY <2>1 DEF AnswerOf
  <1>7. Atomic!Answer(c, "ok") \/ Atomic!Answer(c, "error")
    BY <1>6 DEF Atomic!Answer
  <1>8. \/ /\ Kind[c] = "debit"
           /\ balance[w] >= Amount[c]
           /\ balance' = [balance EXCEPT ![w] = @ - Amount[c]]
        \/ /\ Kind[c] = "credit"
           /\ balance' = [balance EXCEPT ![w] = @ + Amount[c]]
    BY <1>2, <1>3, <1>4 DEF NewBalance
  <1>9. QED
    BY <1>5, <1>7, <1>8 DEF Atomic!Apply

\* For every set of calls and every fault, the three statements of a call are
\* for its caller one atomic debit, credit or validation.
THEOREM WalletIsAtomic == Spec => ImplementsAtomicWallet
  <1>1. Init => Atomic!Init
    <2> SUFFICES ASSUME Init PROVE Atomic!Init
      OBVIOUS
    <2>1. \A c \in Calls : ~Applied(c) /\ AnswerOf(c) = "none"
      BY WalletAssumption DEF Init, Applied, AnswerOf
    <2>2. QED
      BY <2>1 DEF Init, Atomic!Init, AppliedCalls
  <1>2. IInv /\ [Next]_walletVars => [Atomic!Next]_(Atomic!atomicVars)
    <2> SUFFICES ASSUME IInv, [Next]_walletVars
                 PROVE  [Atomic!Next]_(Atomic!atomicVars)
      OBVIOUS
    <2>1. ASSUME NEW c \in Calls, Invoke(c)
          PROVE  [Atomic!Next]_(Atomic!atomicVars)
      BY <2>1, QuietStepRefines DEF Invoke, InFlight
    <2>2. ASSUME NEW c \in Calls, GetWallet(c)
          PROVE  [Atomic!Next]_(Atomic!atomicVars)
      <3>1. balance[WalletOf[c]] \in Int /\ Amount[c] \in Nat
        BY WalletAssumption DEF IInv, TypeOK
      <3>2. PICK l : /\ Goto(c, l)
                     /\ \/ l \in {"error", "create_transaction"}
                        \/ /\ l = "ok" /\ Kind[c] = "validate"
                           /\ balance[WalletOf[c]] >= Amount[c]
        BY <2>2, <3>1 DEF GetWallet, AfterRead
      <3>3. call[c] = "get_wallet" /\ UNCHANGED <<balance, version, history>>
        BY <2>2 DEF GetWallet
      <3>4. QED
        BY <3>2, <3>3, QuietStepRefines DEF InFlight
    <2>3. ASSUME NEW c \in Calls, CreateTransaction(c)
          PROVE  [Atomic!Next]_(Atomic!atomicVars)
      <3>1. PICK l \in {"error", "update_balance"} : Goto(c, l)
        BY <2>3 DEF CreateTransaction
      <3>2. call[c] = "create_transaction" /\ UNCHANGED <<balance, version, history>>
        BY <2>3 DEF CreateTransaction
      <3>3. QED
        BY <3>1, <3>2, QuietStepRefines DEF InFlight
    <2>4. ASSUME NEW c \in Calls, UpdateBalance(c)
          PROVE  [Atomic!Next]_(Atomic!atomicVars)
      <3>1. call[c] = "update_balance"
        BY <2>4 DEF UpdateBalance
      <3>2. CASE UNCHANGED <<balance, version, history>> /\ Goto(c, "error")
        BY <3>1, <3>2, QuietStepRefines DEF InFlight
      <3>3. ASSUME NEW l \in {"ok", "error"}, Goto(c, l), VersionMatches(c), Write(c)
            PROVE  [Atomic!Next]_(Atomic!atomicVars)
        BY <3>1, <3>3, WriteRefines DEF Atomic!Next
      <3>4. QED
        BY <2>4, <3>2, <3>3 DEF UpdateBalance
    <2>5. CASE Stop
      <3>1. AppliedCalls' = AppliedCalls
        BY <2>5, NoWriteKeepsHistory DEF Stop, AppliedCalls
      <3>2. \A c \in Calls : AnswerOf(c)' = AnswerOf(c)
        BY <2>5 DEF Stop, AnswerOf, InFlight
      <3>3. QED
        BY <2>5, <3>1, <3>2 DEF Stop, Atomic!atomicVars
    <2>6. CASE UNCHANGED walletVars
      BY <2>6 DEF walletVars, Atomic!atomicVars, AppliedCalls, Applied, AnswerOf
    <2>7. QED
      BY <2>1, <2>2, <2>3, <2>4, <2>5, <2>6 DEF Next, Step
  <1>3. QED
    BY <1>1, <1>2, WalletInvariant, PTL
      DEF Spec, Atomic!Spec, ImplementsAtomicWallet

=============================================================================
