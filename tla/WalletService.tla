--------------------------- MODULE WalletService ---------------------------
(***************************************************************************)
(* The wallet service (internal/services/wallet/service.go) over the       *)
(* wallets and transactions tables (pkg/database/repositories.go).         *)
(*                                                                         *)
(* A call is one invocation of ValidateBalance, DeductBalance or           *)
(* RefundBalance.  Each call is a process of its own that issues at most   *)
(* three SQL statements; the statements of different calls interleave, and *)
(* nothing but the version test of UpdateBalance orders them.              *)
(*                                                                         *)
(* The events the calls publish are left out: no operation of the service  *)
(* reads them and every publishing error is ignored.                       *)
(***************************************************************************)
EXTENDS Integers, Sequences

CONSTANTS
  Wallets,         \* rows of the wallets table
  Calls,           \* invocations of the service
  Kind,            \* Kind[c]: the operation that c invokes
  WalletOf,        \* WalletOf[c]: the wallet that c is about
  Amount,          \* Amount[c]: the amount of c, in cents
  InitialBalance,  \* balance of each row when the system starts
  Faults           \* what may go wrong with a statement, see FaultKinds

CallKinds == {"validate", "debit", "credit"}

\* "err": the statement is not executed and returns an error.
\* "lost": the statement is executed and its caller still gets an error (the
\* connection or the request context ended before the answer).
FaultKinds == {"err", "lost"}

ASSUME WalletAssumption ==
  /\ Kind \in [Calls -> CallKinds]
  /\ WalletOf \in [Calls -> Wallets]
  /\ Amount \in [Calls -> Nat \ {0}]
  /\ InitialBalance \in [Wallets -> Nat]
  /\ Faults \subseteq FaultKinds

VARIABLES
  balance,   \* wallets.balance
  version,   \* wallets.version
  txns,      \* calls with a row in the transactions table
  call,      \* call[c]: the statement that c executes next, or how c ended
  seen,      \* seen[c]: the row that c read, its local variable "wallet"
  history    \* history[w]: updates of w, oldest first (auxiliary)

walletVars == <<balance, version, txns, call, seen, history>>

InFlight == {"get_wallet", "create_transaction", "update_balance"}
Ended    == {"ok", "error", "dead"}

Update == [call : Calls, base : Int, result : Int]

TypeOK ==
  /\ balance \in [Wallets -> Int]
  /\ version \in [Wallets -> Nat]
  /\ txns \in SUBSET Calls
  /\ call \in [Calls -> {"idle"} \cup InFlight \cup Ended]
  /\ seen \in [Calls -> [balance : Int, version : Nat]]
  /\ history \in [Wallets -> Seq(Update)]

Init ==
  /\ balance = InitialBalance
  /\ version = [w \in Wallets |-> 0]
  /\ txns = {}
  /\ call = [c \in Calls |-> "idle"]
  /\ seen = [c \in Calls |-> [balance |-> 0, version |-> 0]]
  /\ history = [w \in Wallets |-> << >>]

-----------------------------------------------------------------------------
(* The steps of a call.                                                    *)

Goto(c, label) == call' = [call EXCEPT ![c] = label]

\* Some caller invokes the operation.
Invoke(c) ==
  /\ call[c] = "idle"
  /\ Goto(c, "get_wallet")
  /\ UNCHANGED <<balance, version, txns, seen, history>>

\* Mutant of AfterRead: no balance test in DeductBalance.
AfterReadUntested(c) ==
  IF Kind[c] = "validate" THEN "ok" ELSE "create_transaction"

\* What the balance test lets a call do after it has read the row.
AfterRead(c) ==
  IF Kind[c] # "credit" /\ balance[WalletOf[c]] < Amount[c]
  THEN "error"
  ELSE IF Kind[c] = "validate" THEN "ok" ELSE "create_transaction"

\* GetWalletByUserID, and the balance test that follows it.
GetWallet(c) ==
  /\ call[c] = "get_wallet"
  /\ \/ /\ seen' = [seen EXCEPT ![c] = [balance |-> balance[WalletOf[c]],
                                        version |-> version[WalletOf[c]]]]
        /\ Goto(c, AfterRead(c))
     \/ /\ Faults # {}
        /\ Goto(c, "error")
        /\ UNCHANGED seen
  /\ UNCHANGED <<balance, version, txns, history>>

\* Mutant of CreateTransaction: its error is logged and not returned.
CreateTransactionUnchecked(c) ==
  /\ call[c] = "create_transaction"
  /\ \/ txns' = txns \cup {c}
     \/ "err" \in Faults /\ UNCHANGED txns
  /\ Goto(c, "update_balance")
  /\ UNCHANGED <<balance, version, seen, history>>

\* CreateTransaction: a row of its own, outside any database transaction.
CreateTransaction(c) ==
  /\ call[c] = "create_transaction"
  /\ \/ /\ txns' = txns \cup {c}
        /\ \/ Goto(c, "update_balance")
           \/ "lost" \in Faults /\ Goto(c, "error")
     \/ /\ "err" \in Faults
        /\ Goto(c, "error")
        /\ UNCHANGED txns
  /\ UNCHANGED <<balance, version, seen, history>>

\* newBalance, computed from the row that was read and not from the table.
NewBalance(c) ==
  IF Kind[c] = "debit" THEN seen[c].balance - Amount[c]
                       ELSE seen[c].balance + Amount[c]

\* Mutant of VersionMatches: the WHERE clause names the row alone.
VersionIgnored(c) == TRUE

\* The WHERE clause of the update: the row still has the version c has read.
VersionMatches(c) == version[WalletOf[c]] = seen[c].version

\* The row is written.
Write(c) ==
  LET w == WalletOf[c] IN
  /\ balance' = [balance EXCEPT ![w] = NewBalance(c)]
  /\ version' = [version EXCEPT ![w] = @ + 1]
  /\ history' = [history EXCEPT ![w] =
                   Append(@, [call   |-> c,
                              base   |-> seen[c].balance,
                              result |-> NewBalance(c)])]

\* Mutant of UpdateBalance: the test of RowsAffected is the wrong way round.
UpdateBalanceInverted(c) ==
  /\ call[c] = "update_balance"
  /\ \/ VersionMatches(c) /\ Write(c) /\ Goto(c, "error")
     \/ /\ ~VersionMatches(c)
        /\ Goto(c, "ok")
        /\ UNCHANGED <<balance, version, history>>
  /\ UNCHANGED <<txns, seen>>

\* UpdateBalance: "optimistic lock failed" when no row matches.
UpdateBalance(c) ==
  /\ call[c] = "update_balance"
  /\ \/ /\ VersionMatches(c)
        /\ Write(c)
        /\ \/ Goto(c, "ok")
           \/ "lost" \in Faults /\ Goto(c, "error")
     \/ /\ ~VersionMatches(c) \/ "err" \in Faults
        /\ Goto(c, "error")
        /\ UNCHANGED <<balance, version, history>>
  /\ UNCHANGED <<txns, seen>>

\* The process stops: the calls in flight issue no other statement.
Stop ==
  /\ call' = [c \in Calls |-> IF call[c] \in InFlight THEN "dead" ELSE call[c]]
  /\ UNCHANGED <<balance, version, txns, seen, history>>

Step(c) == GetWallet(c) \/ CreateTransaction(c) \/ UpdateBalance(c)

Next ==
  \/ \E c \in Calls : Invoke(c) \/ Step(c)
  \/ Stop

Spec == Init /\ [][Next]_walletVars

-----------------------------------------------------------------------------
(* Properties.                                                             *)

Applied(c) == \E i \in 1..Len(history[WalletOf[c]]) :
                 history[WalletOf[c]][i].call = c

\* The balance of w after its v-th update.
BalanceAt(w, v) == IF v = 0 THEN InitialBalance[w] ELSE history[w][v].result

\* The i-th update of w starts from the balance that the previous one left,
\* and changes it by the amount of its call.
StartsFromPrevious(w, i) ==
  LET u == history[w][i] IN
  /\ u.base = BalanceAt(w, i - 1)
  /\ \/ Kind[u.call] = "debit"  /\ u.result = u.base - Amount[u.call]
     \/ Kind[u.call] = "credit" /\ u.result = u.base + Amount[u.call]

\* No update is lost: DeductBalance and RefundBalance compute the new balance
\* from a row read earlier, and yet each update starts from the balance that
\* the previous update left, changes it by its own amount and no other, and
\* the table holds what the last one wrote.
NoLostUpdate ==
  \A w \in Wallets :
    /\ version[w] = Len(history[w])
    /\ balance[w] = BalanceAt(w, version[w])
    /\ \A i \in 1..Len(history[w]) : StartsFromPrevious(w, i)

\* The balance test of DeductBalance, made before two other statements, is
\* enough to keep the balance from going below zero: the CHECK of the table
\* never has to reject an update.
NeverOverdrawn == \A w \in Wallets : balance[w] >= 0

\* A call changes the balance at most once, and leaves its audit row first.
AppliedOnceAndRecorded ==
  /\ \A w \in Wallets : \A i, j \in 1..Len(history[w]) :
       history[w][i].call = history[w][j].call => i = j
  /\ \A c \in Calls : Applied(c) => c \in txns

\* What the caller concludes from the result of a debit or a credit is right:
\* nil means the balance was changed; an error means it was not, unless the
\* answer of the update was lost.
AnswersAreTrue ==
  \A c \in Calls : Kind[c] # "validate" =>
    /\ call[c] = "ok" => Applied(c)
    /\ call[c] = "error" /\ Applied(c) => "lost" \in Faults

\* The three statements together behave as one: the service implements the
\* wallet its callers rely on, in spite of the stale row it computes with.
AppliedCalls == {c \in Calls : Applied(c)}
AnswerOf(c)  == IF call[c] \in {"ok", "error"} THEN call[c] ELSE "none"
Atomic == INSTANCE AtomicWallet WITH
            applied <- AppliedCalls,
            answer  <- [c \in Calls |-> AnswerOf(c)]
ImplementsAtomicWallet == Atomic!Spec
=============================================================================
