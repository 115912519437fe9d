---------------------------- MODULE AtomicWallet ----------------------------
(***************************************************************************)
(* What the callers of the wallet service rely on: a debit or a credit     *)
(* takes effect in one step, at most once, on the balance of that moment,  *)
(* and never takes a balance below zero; "ok" is answered only for a call  *)
(* that took effect.  A call may be refused at any time.                   *)
(***************************************************************************)
EXTENDS Integers

CONSTANTS Wallets, Calls, Kind, WalletOf, Amount, InitialBalance

VARIABLES
  balance,  \* balance of each wallet
  applied,  \* calls that took effect
  answer    \* what the caller of each call knows: "none", "ok" or "error"

atomicVars == <<balance, applied, answer>>

Init ==
  /\ balance = InitialBalance
  /\ applied = {}
  /\ answer = [c \in Calls |-> "none"]

Answer(c, a) ==
  /\ answer[c] = "none"
  /\ answer' = [answer EXCEPT ![c] = a]

\* The call takes effect; a caller may be told otherwise, never too early.
Apply(c) ==
  LET w == WalletOf[c] IN
  /\ c \notin applied
  /\ \/ /\ Kind[c] = "debit"
        /\ balance[w] >= Amount[c]
        /\ balance' = [balance EXCEPT ![w] = @ - Amount[c]]
     \/ /\ Kind[c] = "credit"
        /\ balance' = [balance EXCEPT ![w] = @ + Amount[c]]
  /\ applied' = applied \cup {c}
  /\ Answer(c, "ok") \/ Answer(c, "error")

\* A debit or credit that will not take effect.
Refuse(c) ==
  /\ c \notin applied
  /\ Answer(c, "error")
  /\ UNCHANGED <<balance, applied>>

\* A validation answers "ok" only if the balance suffices at that moment.
Validate(c) ==
  /\ Kind[c] = "validate"
  /\ balance[WalletOf[c]] >= Amount[c]
  /\ Answer(c, "ok")
  /\ UNCHANGED <<balance, applied>>

Next == \E c \in Calls : Apply(c) \/ Refuse(c) \/ Validate(c)

Spec == Init /\ [][Next]_atomicVars
=============================================================================
