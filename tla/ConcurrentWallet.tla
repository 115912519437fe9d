-------------------------- MODULE ConcurrentWallet --------------------------
(***************************************************************************)
(* ConcurrentWalletService and UserLockManager (pkg/eventstore/            *)
(* concurrency_control.go): one balance in memory, and calls that deduct   *)
(* from it, refund to it or read it under one of three strategies.         *)
(*                                                                         *)
(* Only the calls of one user share a lock and a balance, so that one user *)
(* is all there is to see.                                                 *)
(***************************************************************************)
EXTENDS Integers, FiniteSets

CONSTANTS
  Calls,           \* calls of the service, each made once
  Kind,            \* Kind[c]: what call c is
  Amount,          \* Amount[c]: how much it deducts or refunds
  InitialBalance,  \* the balance that SetBalance has left
  MaxRetries       \* maxRetries of the optimistic strategy; the code has 5

ASSUME ConcurrentWalletAssumption ==
  /\ Kind \in [Calls -> {"deduct", "refund", "check"}]
  /\ Amount \in [Calls -> Nat]
  /\ InitialBalance \in Nat
  /\ MaxRetries \in Nat \ {0}

VARIABLES
  strategy,  \* cws.strategy
  balance,   \* balance.Balance
  version,   \* balance.Version
  lockMap,   \* the user's entry of ulm.locks, the number of a lock; 0 if none
  locks,     \* how many locks were made
  lockOf,    \* lockOf[c]: the lock that getLock has given to c
  acquirer,  \* acquirer[c]: the goroutine in which LockUser calls Lock for c
  pc,        \* pc[c]: what call c does
  seen,      \* seen[c]: currentVersion of c
  attempt,   \* attempt[c]: conflicts of c so far
  result     \* result[c]: what c has returned

balanceVars == <<balance, version>>
lockVars == <<lockMap, locks, lockOf, acquirer>>
vars == <<strategy, balanceVars, lockVars, pc, seen, attempt, result>>

TypeOK ==
  /\ strategy \in {"pessimistic", "optimistic", "partition_based"}
  /\ balance \in Int
  /\ version \in Nat
  /\ locks \in Nat /\ lockMap \in 0..locks
  /\ lockOf \in [Calls -> 0..locks]
  /\ acquirer \in [Calls -> {"none", "waiting", "holding"}]
  /\ pc \in [Calls -> {"new", "find_lock", "make_lock", "select", "locked",
                       "unlock", "read", "write", "update", "done"}]
  /\ seen \in [Calls -> Nat]
  /\ attempt \in [Calls -> 0..MaxRetries - 1]
  /\ result \in [Calls -> {"none", "ok", "insufficient", "timeout", "conflict"}]

Init ==
  /\ strategy \in {"pessimistic", "optimistic", "partition_based"}
  /\ balance = InitialBalance
  /\ version = 2
  /\ lockMap = 0 /\ locks = 0
  /\ lockOf = [c \in Calls |-> 0]
  /\ acquirer = [c \in Calls |-> "none"]
  /\ pc = [c \in Calls |-> "new"]
  /\ seen = [c \in Calls |-> 0]
  /\ attempt = [c \in Calls |-> 0]
  /\ result = [c \in Calls |-> "none"]

Goto(c, label) == pc' = [pc EXCEPT ![c] = label]

Return(c, r) == result' = [result EXCEPT ![c] = r]

\* DeductFunds, RefundFunds and CheckBalance choose by the strategy.
Begin(c) ==
  /\ pc[c] = "new"
  /\ \/ strategy = "pessimistic" /\ Goto(c, "find_lock")
     \/ strategy = "optimistic" /\ Kind[c] # "check" /\ Goto(c, "read")
     \/ strategy = "optimistic" /\ Kind[c] = "check" /\ Goto(c, "update")
     \/ strategy = "partition_based" /\ Goto(c, "update")
  /\ UNCHANGED <<strategy, balanceVars, lockVars, seen, attempt, result>>

-----------------------------------------------------------------------------
(* getLock, LockUser and RLockUser.                                        *)

\* The goroutine of LockUser starts, for lock l.
StartAcquirer(c, l) ==
  /\ lockOf' = [lockOf EXCEPT ![c] = l]
  /\ acquirer' = [acquirer EXCEPT ![c] = "waiting"]
  /\ Goto(c, "select")

\* The first look at the map.
FindLock(c) ==
  /\ pc[c] = "find_lock"
  /\ \/ lockMap # 0 /\ StartAcquirer(c, lockMap)
     \/ lockMap = 0 /\ Goto(c, "make_lock") /\ UNCHANGED <<lockOf, acquirer>>
  /\ UNCHANGED <<strategy, balanceVars, lockMap, locks, seen, attempt, result>>

\* Mutant of MakeLock: the map is not looked at again.
MakeLockUnchecked(c) ==
  /\ pc[c] = "make_lock"
  /\ locks' = locks + 1
  /\ lockMap' = locks + 1
  /\ StartAcquirer(c, locks + 1)
  /\ UNCHANGED <<strategy, balanceVars, seen, attempt, result>>

\* The second look, with the mutex of the map, and a new lock.
MakeLock(c) ==
  /\ pc[c] = "make_lock"
  /\ \/ /\ lockMap # 0
        /\ StartAcquirer(c, lockMap)
        /\ UNCHANGED <<lockMap, locks>>
     \/ /\ lockMap = 0
        /\ locks' = locks + 1
        /\ lockMap' = locks + 1
        /\ StartAcquirer(c, locks + 1)
  /\ UNCHANGED <<strategy, balanceVars, seen, attempt, result>>

Holds(c) == acquirer[c] = "holding"

\* RWMutex: a writer holds it alone.
Free(c) ==
  \A d \in Calls \ {c} :
    Holds(d) /\ lockOf[d] = lockOf[c] => Kind[c] = "check" /\ Kind[d] = "check"

\* Lock or RLock returns in the goroutine, be the caller there or gone.
Acquire(c) ==
  /\ acquirer[c] = "waiting"
  /\ Free(c)
  /\ acquirer' = [acquirer EXCEPT ![c] = "holding"]
  /\ UNCHANGED <<strategy, balanceVars, lockMap, locks, lockOf, pc, seen,
                 attempt, result>>

\* The select of LockUser.
Acquired(c) ==
  /\ pc[c] = "select"
  /\ Holds(c)
  /\ Goto(c, "locked")
  /\ UNCHANGED <<strategy, balanceVars, lockVars, seen, attempt, result>>

\* The timeout, or the end of the context; the goroutine is left behind and
\* nobody will release what it acquires.
Timeout(c) ==
  /\ pc[c] = "select"
  /\ Goto(c, "done")
  /\ Return(c, "timeout")
  /\ UNCHANGED <<strategy, balanceVars, lockVars, seen, attempt>>

-----------------------------------------------------------------------------
(* The balance.  Its own mutex makes each of these one step.               *)

Covers(c) == Kind[c] = "deduct" => balance >= Amount[c]

\* A change of the balance; a check changes nothing.
Change(c) ==
  /\ \/ /\ Kind[c] = "deduct"
        /\ balance' = balance - Amount[c] /\ version' = version + 1
     \/ /\ Kind[c] = "refund"
        /\ balance' = balance + Amount[c] /\ version' = version + 1
     \/ Kind[c] = "check" /\ UNCHANGED balanceVars
  /\ Return(c, "ok")

Refuse(c) == Return(c, "insufficient") /\ UNCHANGED balanceVars

\* Mutant of UpdateLocked: the error path leaves without Unlock.
UpdateLockedLeaking(c) ==
  /\ pc[c] = "locked"
  /\ \/ Covers(c) /\ Change(c) /\ Goto(c, "unlock")
     \/ ~Covers(c) /\ Refuse(c) /\ Goto(c, "done")
  /\ UNCHANGED <<strategy, lockVars, seen, attempt>>

\* deductFundsPessimistic, refundFundsPessimistic, checkBalancePessimistic.
UpdateLocked(c) ==
  /\ pc[c] = "locked"
  /\ \/ Covers(c) /\ Change(c)
     \/ ~Covers(c) /\ Refuse(c)
  /\ Goto(c, "unlock")
  /\ UNCHANGED <<strategy, lockVars, seen, attempt>>

Unlock(c) ==
  /\ pc[c] = "unlock"
  /\ acquirer' = [acquirer EXCEPT ![c] = "none"]
  /\ Goto(c, "done")
  /\ UNCHANGED <<strategy, balanceVars, lockMap, locks, lockOf, seen, attempt,
                 result>>

\* The partitioned functions, and checkBalanceOptimistic.
Update(c) ==
  /\ pc[c] = "update"
  /\ \/ Covers(c) /\ Change(c)
     \/ ~Covers(c) /\ Refuse(c)
  /\ Goto(c, "done")
  /\ UNCHANGED <<strategy, lockVars, seen, attempt>>

\* The optimistic functions: version and balance are read and compared.
Read(c) ==
  /\ pc[c] = "read"
  /\ seen' = [seen EXCEPT ![c] = version]
  /\ \/ Covers(c) /\ Goto(c, "write") /\ UNCHANGED <<balanceVars, result>>
     \/ ~Covers(c) /\ Refuse(c) /\ Goto(c, "done")
  /\ UNCHANGED <<strategy, lockVars, attempt>>

\* Mutant of Conflict: the next try does not read again.
ConflictWithoutRead(c) ==
  \/ /\ attempt[c] + 1 < MaxRetries
     /\ attempt' = [attempt EXCEPT ![c] = @ + 1]
     /\ UNCHANGED <<pc, result>>
  \/ /\ attempt[c] + 1 = MaxRetries
     /\ Goto(c, "done") /\ Return(c, "conflict")
     /\ UNCHANGED attempt

\* The version has changed: another try, or an error.
Conflict(c) ==
  \/ /\ attempt[c] + 1 < MaxRetries
     /\ attempt' = [attempt EXCEPT ![c] = @ + 1]
     /\ Goto(c, "read")
     /\ UNCHANGED result
  \/ /\ attempt[c] + 1 = MaxRetries
     /\ Goto(c, "done") /\ Return(c, "conflict")
     /\ UNCHANGED attempt

\* Mutant of Write: the version is not compared.
WriteUnchecked(c) ==
  /\ pc[c] = "write"
  /\ Change(c) /\ Goto(c, "done") /\ UNCHANGED attempt
  /\ UNCHANGED <<strategy, lockVars, seen>>

\* The version is compared and the balance written under its mutex.
Write(c) ==
  /\ pc[c] = "write"
  /\ \/ /\ version = seen[c]
        /\ Change(c) /\ Goto(c, "done") /\ UNCHANGED attempt
     \/ version # seen[c] /\ Conflict(c) /\ UNCHANGED balanceVars
  /\ UNCHANGED <<strategy, lockVars, seen>>

Step(c) ==
  \/ FindLock(c) \/ MakeLock(c) \/ Acquire(c) \/ Acquired(c)
  \/ UpdateLocked(c) \/ Unlock(c)
  \/ Update(c) \/ Read(c) \/ Write(c)

Next == \E c \in Calls : Begin(c) \/ Timeout(c) \/ Step(c)

Spec == Init /\ [][Next]_vars

\* Goroutines run; a timeout may come at any time or never.
FairCalls == \A c \in Calls : WF_vars(Step(c))

FairSpec == Spec /\ FairCalls

-----------------------------------------------------------------------------
(* Properties.                                                             *)

\* No strategy deducts more than there is: not by a test that another call has
\* overtaken, nor by a lock that two calls hold.
NeverOverdrawn == balance >= 0

\* While a call is between Lock and Unlock no other call of the user writes,
\* though both may have found no lock in the map, and though the goroutines of
\* calls that have timed out go on taking locks.
LockIsExclusive ==
  \A c, d \in Calls :
    /\ c # d
    /\ {pc[c], pc[d]} \subseteq {"locked", "unlock"}
    => Kind[c] = "check" /\ Kind[d] = "check"

Winners == {c \in Calls : result[c] = "ok" /\ Kind[c] # "check"}

\* A call gives up for conflicts only when as many other calls have succeeded
\* as it has made tries.
ConflictsHaveWinners ==
  \A c \in Calls : result[c] = "conflict" => Cardinality(Winners) >= MaxRetries

\* Under each strategy a call is for its caller one step of a wallet: a deduction
\* or a refund takes effect at once or never, on the balance of that moment, and
\* "ok" says that it has; whoever is told of a timeout or of conflicts has
\* changed nothing.  A check is a validation of nothing.
AnswerOf(c) == IF result[c] \in {"none", "ok"} THEN result[c] ELSE "error"
Atomic == INSTANCE AtomicWallet WITH
            Wallets       <- {"user"},
            WalletOf      <- [c \in Calls |-> "user"],
            Kind          <- [c \in Calls |->
                                IF Kind[c] = "deduct" THEN "debit"
                                ELSE IF Kind[c] = "refund" THEN "credit"
                                ELSE "validate"],
            Amount        <- [c \in Calls |->
                                IF Kind[c] = "check" THEN 0 ELSE Amount[c]],
            InitialBalance <- [w \in {"user"} |-> InitialBalance],
            balance       <- [w \in {"user"} |-> balance],
            applied       <- Winners,
            answer        <- [c \in Calls |-> AnswerOf(c)]
ImplementsAtomicWallet == Atomic!Spec

\* As long as no call has timed out, every call ends: a lock is given back
\* whatever the outcome.  (After a timeout the lock may be lost for good.)
CallsEnd ==
  \A c \in Calls :
    pc[c] # "new" ~> pc[c] = "done" \/ \E d \in Calls : result[d] = "timeout"
=============================================================================
