----------------------- MODULE ConcurrentWalletProofs -----------------------
(***************************************************************************)
(* Proofs about ConcurrentWallet and PartitionedEvents: types, the mutual  *)
(* exclusion of LockUser, the balance that no strategy overdraws, the      *)
(* winners without whom no call gives up and the atomic wallet that each   *)
(* strategy implements, for any number of calls; and the order in which    *)
(* each user's events are processed, for any partitions.                   *)
(***************************************************************************)
EXTENDS ConcurrentWallet, PartitionedEvents, FiniteSetTheorems, TLAPS

-----------------------------------------------------------------------------
(* Types.                                                                  *)

LEMMA ChangeType ==
  ASSUME TypeOK, NEW c \in Calls, Change(c)
  PROVE  /\ balance' \in Int /\ version' \in Nat
         /\ result' \in [Calls -> {"none", "ok", "insufficient", "timeout",
                                   "conflict"}]
  <1>1. balance \in Int /\ version \in Nat /\ Amount[c] \in Nat
    BY ConcurrentWalletAssumption DEF TypeOK
  <1>2. balance' \in Int /\ version' \in Nat
    BY <1>1 DEF Change, balanceVars
  <1>3. QED
    BY <1>2 DEF TypeOK, Change, Return

LEMMA StartAcquirerType ==
  ASSUME TypeOK, NEW c \in Calls, NEW l \in Nat, StartAcquirer(c, l),
         locks' \in Nat, l <= locks', locks <= locks', lockMap' \in 0..locks',
         UNCHANGED <<strategy, balanceVars, seen, attempt, result>>
  PROVE  TypeOK'
  BY DEF TypeOK, StartAcquirer, Goto, balanceVars

LEMMA TypeStep ==
  ASSUME TypeOK, [Next]_vars
  PROVE  TypeOK'
  <1>1. ASSUME NEW c \in Calls, Begin(c) PROVE TypeOK'
    BY <1>1 DEF TypeOK, Begin, Goto, balanceVars, lockVars
  <1>2. ASSUME NEW c \in Calls, Timeout(c) PROVE TypeOK'
    BY <1>2 DEF TypeOK, Timeout, Goto, Return, balanceVars, lockVars
  <1>3. ASSUME NEW c \in Calls, FindLock(c) PROVE TypeOK'
    <2>1. CASE lockMap # 0 /\ StartAcquirer(c, lockMap)
      BY <1>3, <2>1, StartAcquirerType DEF TypeOK, FindLock
    <2>2. CASE Goto(c, "make_lock") /\ UNCHANGED <<lockOf, acquirer>>
      BY <1>3, <2>2 DEF TypeOK, FindLock, Goto, balanceVars
    <2>3. QED
      BY <1>3, <2>1, <2>2 DEF FindLock
  <1>4. ASSUME NEW c \in Calls, MakeLock(c) PROVE TypeOK'
    <2>1. CASE StartAcquirer(c, lockMap) /\ UNCHANGED <<lockMap, locks>>
      BY <1>4, <2>1, StartAcquirerType DEF TypeOK, MakeLock
    <2>2. CASE /\ locks' = locks + 1 /\ lockMap' = locks + 1
               /\ StartAcquirer(c, locks + 1)
      <3>1. locks \in Nat /\ locks + 1 \in Nat
        BY DEF TypeOK
      <3>2. QED
        BY <1>4, <2>2, <3>1, StartAcquirerType DEF MakeLock
    <2>3. QED
      BY <1>4, <2>1, <2>2 DEF MakeLock
  <1>5. ASSUME NEW c \in Calls, Acquire(c) PROVE TypeOK'
    BY <1>5 DEF TypeOK, Acquire, balanceVars
  <1>6. ASSUME NEW c \in Calls, Acquired(c) PROVE TypeOK'
    BY <1>6 DEF TypeOK, Acquired, Goto, balanceVars, lockVars
  <1>7. ASSUME NEW c \in Calls, UpdateLocked(c) \/ Update(c) PROVE TypeOK'
    <2>1. CASE Change(c)
      BY <1>7, <2>1, ChangeType
         DEF TypeOK, UpdateLocked, Update, Goto, lockVars
    <2>2. CASE Refuse(c)
      BY <1>7, <2>2
         DEF TypeOK, UpdateLocked, Update, Refuse, Return, Goto, balanceVars,
             lockVars
    <2>3. QED
      BY <1>7, <2>1, <2>2 DEF UpdateLocked, Update
  <1>8. ASSUME NEW c \in Calls, Unlock(c) PROVE TypeOK'
    BY <1>8 DEF TypeOK, Unlock, Goto, balanceVars
  <1>9. ASSUME NEW c \in Calls, Read(c) PROVE TypeOK'
    BY <1>9 DEF TypeOK, Read, Refuse, Return, Goto, balanceVars, lockVars
  <1>10. ASSUME NEW c \in Calls, Write(c) PROVE TypeOK'
    <2>1. CASE Change(c) /\ Goto(c, "done") /\ UNCHANGED attempt
      BY <1>10, <2>1, ChangeType DEF TypeOK, Write, Goto, lockVars
    <2>2. CASE Conflict(c) /\ UNCHANGED balanceVars
      BY <1>10, <2>2, ConcurrentWalletAssumption
         DEF TypeOK, Write, Conflict, Return, Goto, balanceVars, lockVars
    <2>3. QED
      BY <1>10, <2>1, <2>2 DEF Write
  <1>11. CASE UNCHANGED vars
    BY <1>11 DEF TypeOK, vars, balanceVars, lockVars
  <1>12. QED
    BY <1>1, <1>2, <1>3, <1>4, <1>5, <1>6, <1>7, <1>8, <1>9, <1>10, <1>11
       DEF Next, Step

\* Every variable of the service keeps its type, the retries their bound.
THEOREM TypeCorrect == Spec => []TypeOK
  <1>1. Init => TypeOK
    BY ConcurrentWalletAssumption DEF Init, TypeOK
  <1>2. QED
    BY <1>1, TypeStep, PTL DEF Spec

-----------------------------------------------------------------------------
(* The lock.                                                               *)

\* Every goroutine that waits for a lock or holds one has the lock of the map;
\* those that hold it are alone or readers, and a call between Lock and Unlock
\* is one of them.
LockInv ==
  /\ \A c \in Calls :
       acquirer[c] # "none" => lockOf[c] = lockMap /\ lockMap # 0
  /\ \A c, d \in Calls : c # d /\ Holds(c) /\ Holds(d) =>
       Kind[c] = "check" /\ Kind[d] = "check"
  /\ \A c \in Calls : pc[c] \in {"locked", "unlock"} => Holds(c)

LEMMA StartAcquirerLocks ==
  ASSUME TypeOK, LockInv, NEW c \in Calls, NEW l, StartAcquirer(c, l),
         pc[c] \in {"find_lock", "make_lock"}, lockMap' = l, l # 0,
         lockMap # 0 => lockMap' = lockMap
  PROVE  LockInv'
  <1>1. /\ \A d \in Calls \ {c} : /\ acquirer'[d] = acquirer[d]
                                  /\ lockOf'[d] = lockOf[d]
                                  /\ pc'[d] = pc[d]
        /\ acquirer'[c] = "waiting" /\ lockOf'[c] = l /\ pc'[c] = "select"
    BY DEF TypeOK, StartAcquirer, Goto
  <1>2. QED
    BY <1>1 DEF LockInv, Holds

LEMMA LockStep ==
  ASSUME TypeOK, LockInv, [Next]_vars
  PROVE  LockInv'
  <1>1. ASSUME NEW c \in Calls,
               UNCHANGED <<acquirer, lockOf, lockMap>>,
               \A d \in Calls \ {c} : pc'[d] = pc[d],
               pc'[c] \in {"locked", "unlock"} => Holds(c)
        PROVE  LockInv'
    BY <1>1 DEF LockInv, Holds
  <1>2. ASSUME NEW c \in Calls, Begin(c) \/ Timeout(c) \/ Acquired(c)
                 \/ UpdateLocked(c) \/ Update(c) \/ Read(c) \/ Write(c)
        PROVE  LockInv'
    <2>1. /\ UNCHANGED <<acquirer, lockOf, lockMap>>
          /\ \A d \in Calls \ {c} : pc'[d] = pc[d]
      BY <1>2 DEF TypeOK, Begin, Timeout, Acquired, UpdateLocked, Update, Read,
                  Write, Conflict, Goto, lockVars
    <2>2. pc'[c] \in {"locked", "unlock"} => Acquired(c) \/ UpdateLocked(c)
      BY <1>2 DEF TypeOK, Begin, Timeout, Update, Read, Write, Conflict, Goto
    <2>3. Acquired(c) \/ UpdateLocked(c) => Holds(c)
      BY DEF Acquired, UpdateLocked, LockInv
    <2>4. QED
      BY <1>1, <2>1, <2>2, <2>3
  <1>3. ASSUME NEW c \in Calls, FindLock(c) PROVE LockInv'
    <2>1. CASE lockMap # 0 /\ StartAcquirer(c, lockMap)
      BY <1>3, <2>1, StartAcquirerLocks DEF FindLock
    <2>2. CASE Goto(c, "make_lock") /\ UNCHANGED <<lockOf, acquirer>>
      BY <1>1, <1>3, <2>2 DEF TypeOK, FindLock, Goto
    <2>3. QED
      BY <1>3, <2>1, <2>2 DEF FindLock
  <1>4. ASSUME NEW c \in Calls, MakeLock(c) PROVE LockInv'
    <2>1. CASE lockMap # 0 /\ StartAcquirer(c, lockMap) /\ UNCHANGED lockMap
      BY <1>4, <2>1, StartAcquirerLocks DEF MakeLock
    <2>2. CASE /\ lockMap = 0 /\ lockMap' = locks + 1
               /\ StartAcquirer(c, locks + 1)
      <3>1. locks + 1 # 0
        BY DEF TypeOK
      <3>2. QED
        BY <1>4, <2>2, <3>1, StartAcquirerLocks DEF MakeLock
    <2>3. QED
      BY <1>4, <2>1, <2>2 DEF MakeLock
  <1>5. ASSUME NEW c \in Calls, Acquire(c) PROVE LockInv'
    <2>1. /\ \A d \in Calls \ {c} : acquirer'[d] = acquirer[d]
          /\ acquirer[c] = "waiting" /\ acquirer'[c] = "holding"
          /\ UNCHANGED <<lockOf, lockMap, pc>>
      BY <1>5 DEF TypeOK, Acquire
    <2>2. \A d \in Calls \ {c} :
            Holds(d) => Kind[c] = "check" /\ Kind[d] = "check"
      BY <1>5, <2>1 DEF Acquire, Free, LockInv, Holds
    <2>3. QED
      BY <2>1, <2>2 DEF LockInv, Holds
  <1>6. ASSUME NEW c \in Calls, Unlock(c) PROVE LockInv'
    <2>1. /\ \A d \in Calls \ {c} : acquirer'[d] = acquirer[d] /\ pc'[d] = pc[d]
          /\ acquirer'[c] = "none" /\ pc'[c] = "done"
          /\ UNCHANGED <<lockOf, lockMap>>
      BY <1>6 DEF TypeOK, Unlock, Goto
    <2>2. QED
      BY <2>1 DEF LockInv, Holds
  <1>7. CASE UNCHANGED vars
    BY <1>7 DEF LockInv, Holds, vars, lockVars
  <1>8. QED
    BY <1>2, <1>3, <1>4, <1>5, <1>6, <1>7 DEF Next, Step

\* Two calls that found no lock in the map do not make two, and a goroutine
\* that outlives its call takes the same lock as everybody else.
THEOREM LockExcludes == Spec => []LockIsExclusive
  <1>1. Init => LockInv
    BY DEF Init, LockInv, Holds
  <1>2. LockInv => LockIsExclusive
    BY DEF LockInv, LockIsExclusive
  <1>3. QED
    BY <1>1, <1>2, LockStep, TypeCorrect, PTL DEF Spec

-----------------------------------------------------------------------------
(* The balance and its versions.                                           *)

\* A version that has not changed since it was read means that the balance has
\* not either.
BalanceInv ==
  /\ balance >= 0
  /\ \A c \in Calls :
       /\ seen[c] <= version
       /\ pc[c] = "write" /\ seen[c] = version => Covers(c)

LEMMA ChangeBalance ==
  ASSUME TypeOK, BalanceInv, NEW c \in Calls, Change(c), Covers(c),
         pc'[c] # "write", UNCHANGED seen,
         \A d \in Calls \ {c} : pc'[d] = pc[d]
  PROVE  BalanceInv'
  <1>1. /\ balance \in Int /\ version \in Nat /\ Amount[c] \in Nat
        /\ \A d \in Calls : seen[d] \in Nat
    BY ConcurrentWalletAssumption DEF TypeOK
  <1>2. /\ balance' >= 0
        /\ \/ version' = version /\ balance' = balance
           \/ version' = version + 1
    BY <1>1 DEF Change, Covers, BalanceInv, balanceVars
  <1>3. QED
    BY <1>1, <1>2 DEF BalanceInv, Covers

LEMMA BalanceStep ==
  ASSUME TypeOK, BalanceInv, [Next]_vars
  PROVE  BalanceInv'
  <1>1. ASSUME UNCHANGED <<balanceVars, seen>>,
               \A c \in Calls : pc'[c] = "write" => pc[c] = "write"
        PROVE  BalanceInv'
    BY <1>1 DEF BalanceInv, Covers, balanceVars
  <1>2. ASSUME NEW c \in Calls, Begin(c) \/ Timeout(c) \/ FindLock(c)
                 \/ MakeLock(c) \/ Acquire(c) \/ Acquired(c) \/ Unlock(c)
        PROVE  BalanceInv'
    <2>1. UNCHANGED <<balanceVars, seen>>
      BY <1>2 DEF Begin, Timeout, FindLock, MakeLock, Acquire, Acquired, Unlock
    <2>2. \A d \in Calls : pc'[d] = "write" => pc[d] = "write"
      BY <1>2 DEF TypeOK, Begin, Timeout, FindLock, MakeLock, StartAcquirer,
                  Acquire, Acquired, Unlock, Goto
    <2>3. QED
      BY <1>1, <2>1, <2>2
  <1>3. ASSUME NEW c \in Calls, UpdateLocked(c) \/ Update(c) PROVE BalanceInv'
    <2>1. /\ UNCHANGED seen
          /\ \A d \in Calls \ {c} : pc'[d] = pc[d]
          /\ pc'[c] # "write"
      BY <1>3 DEF TypeOK, UpdateLocked, Update, Goto
    <2>2. CASE Covers(c) /\ Change(c)
      BY <2>1, <2>2, ChangeBalance
    <2>3. CASE Refuse(c)
      BY <1>1, <2>1, <2>3 DEF Refuse
    <2>4. QED
      BY <1>3, <2>2, <2>3 DEF UpdateLocked, Update
  <1>4. ASSUME NEW c \in Calls, Read(c) PROVE BalanceInv'
    <2>1. /\ UNCHANGED balanceVars
          /\ \A d \in Calls \ {c} : pc'[d] = pc[d] /\ seen'[d] = seen[d]
          /\ seen'[c] = version
          /\ pc'[c] = "write" => Covers(c)
      BY <1>4 DEF TypeOK, Read, Refuse, Goto
    <2>2. version \in Nat
      BY DEF TypeOK
    <2>3. QED
      BY <2>1, <2>2 DEF BalanceInv, Covers, balanceVars
  <1>5. ASSUME NEW c \in Calls, Write(c) PROVE BalanceInv'
    <2>1. CASE Conflict(c) /\ UNCHANGED balanceVars
      <3>1. UNCHANGED seen /\ \A d \in Calls : pc'[d] = "write" => pc[d] = "write"
        BY <1>5, <2>1 DEF TypeOK, Write, Conflict, Goto
      <3>2. QED
        BY <1>1, <2>1, <3>1
    <2>2. CASE version = seen[c] /\ Change(c) /\ Goto(c, "done")
      <3>1. Covers(c)
        BY <1>5, <2>2 DEF Write, BalanceInv
      <3>2. /\ UNCHANGED seen /\ pc'[c] # "write"
            /\ \A d \in Calls \ {c} : pc'[d] = pc[d]
        BY <1>5, <2>2 DEF TypeOK, Write, Goto
      <3>3. QED
        BY <2>2, <3>1, <3>2, ChangeBalance
    <2>3. QED
      BY <1>5, <2>1, <2>2 DEF Write
  <1>6. CASE UNCHANGED vars
    BY <1>6 DEF BalanceInv, Covers, vars, balanceVars
  <1>7. QED
    BY <1>2, <1>3, <1>4, <1>5, <1>6 DEF Next, Step

LEMMA BalanceInvariant == Spec => []BalanceInv
  <1>1. Init => BalanceInv
    BY ConcurrentWalletAssumption DEF Init, BalanceInv
  <1>2. QED
    BY <1>1, BalanceStep, TypeCorrect, PTL DEF Spec

\* No strategy overdraws the balance, however its calls interleave.
THEOREM BalanceCovers == Spec => []NeverOverdrawn
  <1>1. BalanceInv => NeverOverdrawn
    BY DEF BalanceInv, NeverOverdrawn
  <1>2. QED
    BY <1>1, BalanceInvariant, PTL

-----------------------------------------------------------------------------
(* The winners.                                                            *)

\* The version counts the winners; a call that has met k conflicts has read a
\* version that k winners have made.
Tried(c) ==
  /\ result[c] # "none" => pc[c] \in {"unlock", "done"}
  /\ pc[c] \in {"read", "write"} => Kind[c] # "check"
  /\ pc[c] = "new" => attempt[c] = 0
  /\ pc[c] = "read" => attempt[c] + 2 <= version
  /\ pc[c] = "write" => attempt[c] + 2 <= seen[c] /\ seen[c] <= version
  /\ result[c] = "conflict" => MaxRetries + 2 <= version

WinnersInv ==
  /\ IsFiniteSet(Winners)
  /\ version = Cardinality(Winners) + 2
  /\ \A c \in Calls : Tried(c)

\* A change makes its call a winner, who was none before, or is a check.
LEMMA ChangeWins ==
  ASSUME TypeOK, WinnersInv, NEW c \in Calls, Change(c), result[c] = "none"
  PROVE  /\ IsFiniteSet(Winners') /\ version' = Cardinality(Winners') + 2
         /\ version <= version'
         /\ result'[c] = "ok"
         /\ \A d \in Calls \ {c} : result'[d] = result[d]
  <1>1. /\ version \in Nat /\ Cardinality(Winners) \in Nat /\ c \notin Winners
        /\ result' = [result EXCEPT ![c] = "ok"]
        /\ result \in [Calls -> {"none", "ok", "insufficient", "timeout",
                                "conflict"}]
    BY FS_CardinalityType DEF TypeOK, WinnersInv, Winners, Change, Return
  <1>2. CASE Kind[c] = "check"
    <2>1. Winners' = Winners
      BY <1>1, <1>2 DEF Winners
    <2>2. version' = version
      BY <1>2 DEF Change, balanceVars
    <2>3. QED
      BY <1>1, <2>1, <2>2 DEF WinnersInv
  <1>3. CASE Kind[c] # "check"
    <2>1. Winners' = Winners \cup {c}
      BY <1>1, <1>3 DEF Winners
    <2>2. version' = version + 1
      BY <1>3 DEF Change
    <2>3. /\ IsFiniteSet(Winners \cup {c})
          /\ Cardinality(Winners \cup {c}) = Cardinality(Winners) + 1
      BY <1>1, FS_AddElement DEF WinnersInv
    <2>4. QED
      BY <1>1, <2>1, <2>2, <2>3 DEF WinnersInv
  <1>4. QED
    BY <1>2, <1>3

\* What a step of call c leaves to show if nobody wins by it.
LEMMA NobodyWins ==
  ASSUME TypeOK, WinnersInv, NEW c \in Calls, UNCHANGED version,
         \A d \in Calls \ {c} : UNCHANGED <<pc[d], seen[d], attempt[d], result[d]>>,
         result'[c] # result[c] => result[c] # "ok" /\ result'[c] # "ok",
         Tried(c)'
  PROVE  WinnersInv'
  <1>1. Winners' = Winners
    BY DEF Winners
  <1>2. \A d \in Calls \ {c} : Tried(d)'
    BY DEF WinnersInv, Tried
  <1>3. QED
    BY <1>1, <1>2 DEF WinnersInv

\* The same for a change.
LEMMA SomebodyWins ==
  ASSUME TypeOK, WinnersInv, NEW c \in Calls, Change(c),
         pc[c] \in {"locked", "update", "write"}, pc'[c] \in {"unlock", "done"},
         \A d \in Calls \ {c} : UNCHANGED <<pc[d], seen[d], attempt[d]>>
  PROVE  WinnersInv'
  <1>1. result[c] = "none"
    BY DEF WinnersInv, Tried
  <1>2. /\ version <= version' /\ result'[c] = "ok"
        /\ \A d \in Calls \ {c} : result'[d] = result[d]
        /\ version \in Nat /\ version' \in Nat
        /\ \A d \in Calls : attempt[d] \in Nat /\ seen[d] \in Nat
        /\ MaxRetries \in Nat
    BY <1>1, ChangeWins, ChangeType, ConcurrentWalletAssumption DEF TypeOK
  <1>3. \A d \in Calls \ {c} : Tried(d)'
    BY <1>2 DEF WinnersInv, Tried
  <1>4. Tried(c)'
    BY <1>2 DEF Tried
  <1>5. QED
    BY <1>1, <1>3, <1>4, ChangeWins DEF WinnersInv

LEMMA WinnersStep ==
  ASSUME TypeOK, WinnersInv, [Next]_vars
  PROVE  WinnersInv'
  <1>0. /\ version \in Nat /\ version >= 2 /\ MaxRetries \in Nat
        /\ \A d \in Calls : attempt[d] \in Nat /\ seen[d] \in Nat
    <2>1. version \in Nat /\ \A d \in Calls : attempt[d] \in Nat /\ seen[d] \in Nat
      BY DEF TypeOK
    <2>2. Cardinality(Winners) \in Nat
      BY FS_CardinalityType DEF WinnersInv
    <2>3. QED
      BY <2>1, <2>2, ConcurrentWalletAssumption DEF WinnersInv
  <1>1. ASSUME NEW c \in Calls, Begin(c) \/ Timeout(c) \/ FindLock(c)
                 \/ MakeLock(c) \/ Acquire(c) \/ Acquired(c) \/ Unlock(c)
        PROVE  WinnersInv'
    <2>1. /\ UNCHANGED version
          /\ \A d \in Calls \ {c} :
               UNCHANGED <<pc[d], seen[d], attempt[d], result[d]>>
          /\ UNCHANGED <<seen[c], attempt[c]>>
      BY <1>1 DEF TypeOK, Begin, Timeout, FindLock, MakeLock, StartAcquirer,
                  Acquire, Acquired, Unlock, Goto, Return, balanceVars
    <2>2. /\ \/ result'[c] = result[c]
             \/ result[c] = "none" /\ result'[c] = "timeout"
          /\ Tried(c)'
      <3>1. Tried(c)
        BY DEF WinnersInv
      <3>2. CASE Begin(c)
        BY <1>0, <2>1, <3>1, <3>2 DEF TypeOK, Begin, Goto, Tried
      <3>3. CASE Timeout(c)
        BY <1>0, <2>1, <3>1, <3>3 DEF TypeOK, Timeout, Goto, Return, Tried
      <3>4. CASE FindLock(c) \/ MakeLock(c) \/ Acquired(c) \/ Unlock(c)
        <4>1. /\ result'[c] = result[c]
              /\ pc'[c] \in {"make_lock", "select", "locked", "done"}
              /\ pc[c] \notin {"unlock", "done"} \/ pc'[c] = "done"
          BY <3>4 DEF TypeOK, FindLock, MakeLock, StartAcquirer, Acquired, Unlock,
                      Goto
        <4>2. QED
          BY <2>1, <3>1, <4>1 DEF Tried
      <3>5. CASE Acquire(c)
        BY <2>1, <3>1, <3>5 DEF Acquire, Tried
      <3>6. QED
        BY <1>1, <3>2, <3>3, <3>4, <3>5
    <2>3. QED
      BY <2>1, <2>2, NobodyWins
  <1>2. ASSUME NEW c \in Calls, UpdateLocked(c) \/ Update(c) PROVE WinnersInv'
    <2>1. /\ \A d \in Calls \ {c} : UNCHANGED <<pc[d], seen[d], attempt[d]>>
          /\ pc[c] \in {"locked", "update"} /\ pc'[c] \in {"unlock", "done"}
          /\ UNCHANGED <<seen[c], attempt[c]>>
      BY <1>2 DEF TypeOK, UpdateLocked, Update, Goto
    <2>2. CASE Change(c)
      BY <2>1, <2>2, SomebodyWins
    <2>3. CASE Refuse(c)
      <3>1. /\ UNCHANGED version /\ result[c] = "none"
            /\ result'[c] = "insufficient"
            /\ \A d \in Calls \ {c} : result'[d] = result[d]
        BY <2>1, <2>3 DEF TypeOK, Refuse, Return, balanceVars, WinnersInv, Tried
      <3>2. Tried(c)'
        BY <2>1, <3>1 DEF Tried
      <3>3. QED
        BY <2>1, <3>1, <3>2, NobodyWins
    <2>4. QED
      BY <1>2, <2>2, <2>3 DEF UpdateLocked, Update
  <1>3. ASSUME NEW c \in Calls, Read(c) PROVE WinnersInv'
    <2>1. /\ \A d \in Calls \ {c} :
               UNCHANGED <<pc[d], seen[d], attempt[d], result[d]>>
          /\ UNCHANGED <<version, attempt[c]>>
          /\ pc[c] = "read" /\ seen'[c] = version
          /\ \/ pc'[c] = "write" /\ result'[c] = result[c]
             \/ pc'[c] = "done" /\ result'[c] = "insufficient"
      <3>1. /\ pc[c] = "read" /\ UNCHANGED <<version, attempt>>
            /\ seen' = [seen EXCEPT ![c] = version]
            /\ \/ pc' = [pc EXCEPT ![c] = "write"] /\ UNCHANGED result
               \/ /\ pc' = [pc EXCEPT ![c] = "done"]
                  /\ result' = [result EXCEPT ![c] = "insufficient"]
        BY <1>3 DEF Read, Refuse, Return, Goto, balanceVars
      <3>2. QED
        BY <3>1 DEF TypeOK
    <2>2. Tried(c)
      BY DEF WinnersInv
    <2>3. result[c] = "none" /\ Tried(c)'
      BY <1>0, <2>1, <2>2 DEF TypeOK, Tried
    <2>4. QED
      BY <2>1, <2>3, NobodyWins
  <1>4. ASSUME NEW c \in Calls, Write(c) PROVE WinnersInv'
    <2>1. /\ \A d \in Calls \ {c} : UNCHANGED <<pc[d], seen[d], attempt[d]>>
          /\ UNCHANGED seen[c] /\ pc[c] = "write"
      BY <1>4 DEF TypeOK, Write, Conflict, Goto
    <2>2. CASE Change(c) /\ Goto(c, "done")
      <3>1. pc'[c] = "done"
        BY <2>2 DEF TypeOK, Goto
      <3>2. QED
        BY <2>1, <2>2, <3>1, SomebodyWins
    <2>3. CASE version # seen[c] /\ Conflict(c) /\ UNCHANGED balanceVars
      <3>1. Tried(c)
        BY DEF WinnersInv
      <3>2. /\ result[c] = "none" /\ attempt[c] + 3 <= version
            /\ UNCHANGED version
        <4>1. /\ attempt[c] + 2 <= seen[c] /\ seen[c] <= version
              /\ UNCHANGED version
          BY <2>1, <2>3, <3>1 DEF Tried, balanceVars
        <4>2. result[c] = "none"
          BY <2>1, <3>1 DEF Tried
        <4>3. attempt[c] \in Nat /\ seen[c] \in Nat /\ version # seen[c]
          BY <1>0, <2>3
        <4>4. QED
          BY <1>0, <4>1, <4>2, <4>3
      <3>3. /\ \A d \in Calls \ {c} : result'[d] = result[d]
            /\ \/ /\ attempt'[c] = attempt[c] + 1 /\ pc'[c] = "read"
                  /\ result'[c] = result[c]
               \/ /\ attempt[c] + 1 = MaxRetries /\ pc'[c] = "done"
                  /\ result'[c] = "conflict"
        BY <2>3 DEF TypeOK, Conflict, Goto, Return
      <3>4. Tried(c)'
        BY <1>0, <2>1, <3>1, <3>2, <3>3 DEF Tried
      <3>5. QED
        BY <2>1, <3>2, <3>3, <3>4, NobodyWins
    <2>4. QED
      BY <1>4, <2>2, <2>3 DEF Write
  <1>5. CASE UNCHANGED vars
    BY <1>5 DEF WinnersInv, Winners, Tried, vars, balanceVars
  <1>6. QED
    BY <1>1, <1>2, <1>3, <1>4, <1>5 DEF Next, Step

LEMMA WinnersInvariant == Spec => []WinnersInv
  <1>1. Init => WinnersInv
    <2> SUFFICES ASSUME Init PROVE WinnersInv
      OBVIOUS
    <2>1. Winners = {}
      BY DEF Init, Winners
    <2>2. \A c \in Calls : Tried(c)
      BY DEF Init, Tried
    <2>3. QED
      BY <2>1, <2>2, FS_EmptySet DEF Init, WinnersInv
  <1>2. QED
    BY <1>1, WinnersStep, TypeCorrect, PTL DEF Spec

\* A call of the optimistic strategy gives up only for the sake of as many calls
\* that succeeded as it has tries, be there ever so many calls.
THEOREM ConflictsAreFair == Spec => []ConflictsHaveWinners
  <1>1. TypeOK /\ WinnersInv => ConflictsHaveWinners
    BY FS_CardinalityType, ConcurrentWalletAssumption
       DEF WinnersInv, Tried, ConflictsHaveWinners
  <1>2. QED
    BY <1>1, WinnersInvariant, TypeCorrect, PTL

-----------------------------------------------------------------------------
(* The calls implement AtomicWallet.                                       *)

\* What the caller of c learns.
LEMMA AnswerGiven ==
  ASSUME TypeOK, NEW c \in Calls, result[c] = "none",
         NEW r \in {"ok", "insufficient", "timeout", "conflict"}, Return(c, r)
  PROVE  /\ result'[c] = r /\ \A d \in Calls \ {c} : result'[d] = result[d]
         /\ r = "ok" => Atomic!Answer(c, "ok")
         /\ r # "ok" => Atomic!Answer(c, "error")
  <1> DEFINE answers == [d \in Calls |-> AnswerOf(d)]
  <1>1. /\ result'[c] = r /\ \A d \in Calls \ {c} : result'[d] = result[d]
    BY DEF TypeOK, Return
  <1>2. answers[c] = "none"
    BY DEF AnswerOf
  <1>3. answers' = [answers EXCEPT ![c] = IF r = "ok" THEN "ok" ELSE "error"]
    BY <1>1 DEF AnswerOf
  <1>4. QED
    BY <1>1, <1>2, <1>3 DEF Atomic!Answer

\* A call that is refused, times out or gives up changes nothing.
LEMMA RefusalRefines ==
  ASSUME TypeOK, NEW c \in Calls, result[c] = "none",
         NEW r \in {"insufficient", "timeout", "conflict"}, Return(c, r),
         UNCHANGED balance
  PROVE  Atomic!Next
  <1>1. /\ result'[c] = r /\ \A d \in Calls \ {c} : result'[d] = result[d]
        /\ Atomic!Answer(c, "error")
    BY AnswerGiven
  <1>2. Winners' = Winners /\ c \notin Winners
    BY <1>1 DEF Winners
  <1>3. Atomic!Refuse(c)
    BY <1>1, <1>2 DEF Atomic!Refuse
  <1>4. QED
    BY <1>3 DEF Atomic!Next

\* The change of the balance is the step in which the call takes effect.
LEMMA ChangeRefines ==
  ASSUME TypeOK, BalanceInv, NEW c \in Calls, result[c] = "none",
         Covers(c), Change(c)
  PROVE  Atomic!Next
  <1>1. /\ result'[c] = "ok" /\ \A d \in Calls \ {c} : result'[d] = result[d]
        /\ Atomic!Answer(c, "ok")
    BY AnswerGiven DEF Change
  <1>2. Kind[c] \in {"deduct", "refund", "check"} /\ balance >= 0
    BY ConcurrentWalletAssumption DEF BalanceInv
  <1>3. CASE Kind[c] = "check"
    <2>1. Winners' = Winners /\ UNCHANGED balance
      BY <1>1, <1>3 DEF Winners, Change, balanceVars
    <2>2. Atomic!Validate(c)
      BY <1>1, <1>2, <1>3, <2>1 DEF Atomic!Validate
    <2>3. QED
      BY <2>2 DEF Atomic!Next
  <1>4. CASE Kind[c] # "check"
    <2>1. Winners' = Winners \cup {c} /\ c \notin Winners
      BY <1>1, <1>4 DEF Winners
    <2>2. CASE Kind[c] = "deduct"
      <3>1. balance >= Amount[c] /\ balance' = balance - Amount[c]
        BY <2>2 DEF Covers, Change
      <3>2. Atomic!Apply(c)
        BY <1>1, <2>1, <2>2, <3>1 DEF Atomic!Apply
      <3>3. QED
        BY <3>2 DEF Atomic!Next
    <2>3. CASE Kind[c] = "refund"
      <3>1. balance' = balance + Amount[c]
        BY <2>3 DEF Change
      <3>2. Atomic!Apply(c)
        BY <1>1, <2>1, <2>3, <3>1 DEF Atomic!Apply
      <3>3. QED
        BY <3>2 DEF Atomic!Next
    <2>4. QED
      BY <1>2, <1>4, <2>2, <2>3
  <1>5. QED
    BY <1>3, <1>4

\* For every set of calls, under each strategy and whatever times out,
\* DeductFunds, RefundFunds and CheckBalance are atomic for their callers.
THEOREM ConcurrentWalletIsAtomic == Spec => ImplementsAtomicWallet
  <1>1. Init => Atomic!Init
    <2> SUFFICES ASSUME Init PROVE Atomic!Init
      OBVIOUS
    <2>1. Winners = {} /\ \A c \in Calls : AnswerOf(c) = "none"
      BY DEF Init, Winners, AnswerOf
    <2>2. QED
      BY <2>1 DEF Init, Atomic!Init
  <1>2. ASSUME TypeOK, BalanceInv, WinnersInv, [Next]_vars
        PROVE  [Atomic!Next]_(Atomic!atomicVars)
    <2>1. ASSUME UNCHANGED <<balance, result>>
          PROVE  UNCHANGED Atomic!atomicVars
      BY <2>1 DEF Atomic!atomicVars, Winners, AnswerOf
    <2>2. ASSUME NEW c \in Calls, Timeout(c) PROVE Atomic!Next
      <3>1. result[c] = "none"
        BY <1>2, <2>2 DEF WinnersInv, Tried, Timeout
      <3>2. QED
        BY <1>2, <2>2, <3>1, RefusalRefines DEF Timeout, balanceVars
    <2>3. ASSUME NEW c \in Calls, UpdateLocked(c) \/ Update(c) PROVE Atomic!Next
      <3>1. result[c] = "none"
        BY <1>2, <2>3 DEF WinnersInv, Tried, UpdateLocked, Update
      <3>2. CASE Covers(c) /\ Change(c)
        BY <1>2, <3>1, <3>2, ChangeRefines
      <3>3. CASE Refuse(c)
        BY <1>2, <3>1, <3>3, RefusalRefines DEF Refuse, balanceVars
      <3>4. QED
        BY <2>3, <3>2, <3>3 DEF UpdateLocked, Update
    <2>4. ASSUME NEW c \in Calls, Read(c)
          PROVE  Atomic!Next \/ UNCHANGED <<balance, result>>
      <3>1. result[c] = "none"
        BY <1>2, <2>4 DEF WinnersInv, Tried, Read
      <3>2. CASE Refuse(c)
        BY <1>2, <3>1, <3>2, RefusalRefines DEF Refuse, balanceVars
      <3>3. CASE UNCHANGED <<balanceVars, result>>
        BY <3>3 DEF balanceVars
      <3>4. QED
        BY <2>4, <3>2, <3>3 DEF Read
    <2>5. ASSUME NEW c \in Calls, Write(c)
          PROVE  Atomic!Next \/ UNCHANGED <<balance, result>>
      <3>1. result[c] = "none" /\ pc[c] = "write"
        BY <1>2, <2>5 DEF WinnersInv, Tried, Write
      <3>2. CASE version = seen[c] /\ Change(c)
        <4>1. Covers(c)
          BY <1>2, <3>1, <3>2 DEF BalanceInv
        <4>2. QED
          BY <1>2, <3>1, <3>2, <4>1, ChangeRefines
      <3>3. CASE Conflict(c) /\ UNCHANGED balanceVars
        <4>1. CASE UNCHANGED result
          BY <3>3, <4>1 DEF balanceVars
        <4>2. CASE Return(c, "conflict")
          BY <1>2, <3>1, <3>3, <4>2, RefusalRefines DEF balanceVars
        <4>3. QED
          BY <3>3, <4>1, <4>2 DEF Conflict
      <3>4. QED
        BY <2>5, <3>2, <3>3 DEF Write
    <2>6. ASSUME NEW c \in Calls,
                 \/ Begin(c) \/ FindLock(c) \/ MakeLock(c) \/ Acquire(c)
                 \/ Acquired(c) \/ Unlock(c)
          PROVE  UNCHANGED <<balance, result>>
      BY <2>6 DEF Begin, FindLock, MakeLock, Acquire, Acquired, Unlock, balanceVars
    <2>7. UNCHANGED vars => UNCHANGED <<balance, result>>
      BY DEF vars, balanceVars
    <2>8. Atomic!Next \/ UNCHANGED <<balance, result>>
      BY <1>2, <2>2, <2>3, <2>4, <2>5, <2>6, <2>7 DEF Next, Step
    <2>9. QED
      BY <2>1, <2>8
  <1>3. QED
    BY <1>1, <1>2, TypeCorrect, BalanceInvariant, WinnersInvariant, PTL
       DEF Spec, Atomic!Spec, ImplementsAtomicWallet

-----------------------------------------------------------------------------
(* The partitioned events.                                                 *)

LEMMA EventsTypeStep ==
  ASSUME EventsTypeOK, [NextEvents]_eventVars
  PROVE  EventsTypeOK'
  <1>1. ASSUME NEW e \in Events, ProcessEvent(e) PROVE EventsTypeOK'
    <2>1. CASE UNCHANGED <<eventChan, accepted>>
      BY <1>1, <2>1 DEF EventsTypeOK, ProcessEvent
    <2>2. ASSUME NEW i \in Partitions, Len(eventChan[i]) < Capacity,
                 eventChan' = [eventChan EXCEPT ![i] = Append(@, e)],
                 accepted' = Append(accepted, e)
          PROVE  EventsTypeOK'
      <3>0. eventChan[i] \in Seq(Events) /\ accepted \in Seq(Events)
        BY DEF EventsTypeOK
      <3>1. /\ Append(eventChan[i], e) \in Seq(Events)
            /\ Append(accepted, e) \in Seq(Events)
            /\ Len(Append(eventChan[i], e)) = Len(eventChan[i]) + 1
            /\ Len(eventChan[i]) \in Nat
        BY <3>0
      <3>2. Len(Append(eventChan[i], e)) <= Capacity
        BY <2>2, <3>1, PartitionAssumption
      <3>3. /\ eventChan' \in [Partitions -> Seq(Events)]
            /\ \A j \in Partitions : Len(eventChan'[j]) <= Capacity
        BY <2>2, <3>1, <3>2 DEF EventsTypeOK
      <3>4. QED
        BY <1>1, <2>2, <3>1, <3>3 DEF EventsTypeOK, ProcessEvent
    <2>3. QED
      BY <1>1, <2>1, <2>2 DEF ProcessEvent
  <1>2. ASSUME NEW i \in Partitions, Take(i) PROVE EventsTypeOK'
    <2>1. /\ eventChan[i] \in Seq(Events) /\ eventChan[i] # <<>>
          /\ eventChan \in [Partitions -> Seq(Events)]
          /\ \A j \in Partitions : Len(eventChan[j]) <= Capacity
      BY <1>2 DEF EventsTypeOK, Take
    <2>2. /\ Tail(eventChan[i]) \in Seq(Events) /\ Head(eventChan[i]) \in Events
          /\ Len(Tail(eventChan[i])) = Len(eventChan[i]) - 1
          /\ Len(eventChan[i]) \in Nat
      BY <2>1
    <2>3. /\ eventChan' \in [Partitions -> Seq(Events)]
          /\ \A j \in Partitions : Len(eventChan'[j]) <= Capacity
      <3>1. Len(Tail(eventChan[i])) <= Capacity
        BY <2>1, <2>2, PartitionAssumption
      <3>2. QED
        BY <1>2, <2>1, <2>2, <3>1 DEF Take
    <2>4. <<Head(eventChan[i])>> \in Seq(Events) /\ Len(<<Head(eventChan[i])>>) = 1
      BY <2>2
    <2>5. QED
      BY <1>2, <2>3, <2>4 DEF EventsTypeOK, Take
  <1>3. ASSUME NEW i \in Partitions, Finish(i) PROVE EventsTypeOK'
    <2>1. processed \in Seq(Events) /\ inHand[i] \in Seq(Events)
      BY DEF EventsTypeOK
    <2>2. processed \o inHand[i] \in Seq(Events)
      BY <2>1
    <2>3. <<>> \in Seq(Events) /\ Len(<<>>) # 1
      OBVIOUS
    <2>4. /\ inHand' = [inHand EXCEPT ![i] = <<>>]
          /\ worker' = [worker EXCEPT ![i] = "waiting"]
          /\ UNCHANGED <<eventChan, stopped, answer, accepted>>
          /\ processed' = processed \o inHand[i]
      BY <1>3 DEF Finish
    <2>5. /\ inHand' \in [Partitions -> Seq(Events)]
          /\ worker' \in [Partitions -> {"waiting", "processing", "ended"}]
          /\ inHand'[i] = <<>> /\ worker'[i] = "waiting"
          /\ \A j \in Partitions \ {i} : /\ inHand'[j] = inHand[j]
                                       /\ worker'[j] = worker[j]
      BY <2>3, <2>4 DEF EventsTypeOK
    <2>6. \A j \in Partitions : Len(inHand'[j]) = 1 <=> worker'[j] = "processing"
      BY <2>3, <2>5 DEF EventsTypeOK
    <2>7. QED
      BY <2>2, <2>4, <2>5, <2>6 DEF EventsTypeOK
  <1>4. ASSUME NEW i \in Partitions, End(i) PROVE EventsTypeOK'
    BY <1>4 DEF EventsTypeOK, End
  <1>5. CASE StopWorkers
    BY <1>5 DEF EventsTypeOK, StopWorkers
  <1>6. CASE UNCHANGED eventVars
    BY <1>6 DEF EventsTypeOK, eventVars
  <1>7. QED
    BY <1>1, <1>2, <1>3, <1>4, <1>5, <1>6 DEF NextEvents, WorkerStep

\* No channel ever holds more than its capacity, and a worker has an event in
\* hand exactly while it processes one.
THEOREM EventsTypeCorrect == SpecEvents => []EventsTypeOK
  <1>1. InitEvents => EventsTypeOK
    <2> SUFFICES ASSUME InitEvents PROVE EventsTypeOK
      OBVIOUS
    <2>1. <<>> \in Seq(Events) /\ Len(<<>>) = 0
      OBVIOUS
    <2>2. \A i \in Partitions : /\ eventChan[i] = <<>> /\ inHand[i] = <<>>
                               /\ worker[i] = "waiting"
      BY DEF InitEvents
    <2>3. /\ eventChan \in [Partitions -> Seq(Events)]
          /\ inHand \in [Partitions -> Seq(Events)]
      BY <2>1 DEF InitEvents
    <2>4. /\ \A i \in Partitions : Len(eventChan[i]) <= Capacity
          /\ \A i \in Partitions :
               Len(inHand[i]) = 1 <=> worker[i] = "processing"
      <3>1. Capacity \in Nat
        BY PartitionAssumption
      <3>2. ASSUME NEW i \in Partitions
            PROVE  /\ eventChan[i] = <<>> /\ inHand[i] = <<>>
                   /\ worker[i] = "waiting"
        BY <2>2
      <3>3. ASSUME NEW i \in Partitions
            PROVE  Len(eventChan[i]) <= Capacity
        BY <2>1, <3>1, <3>2
      <3>4. ASSUME NEW i \in Partitions
            PROVE  Len(inHand[i]) = 1 <=> worker[i] = "processing"
        BY <2>1, <3>2
      <3>5. QED
        BY <3>3, <3>4
    <2>5. /\ accepted \in Seq(Events) /\ processed \in Seq(Events)
          /\ worker \in [Partitions -> {"waiting", "processing", "ended"}]
          /\ stopped \in BOOLEAN
          /\ answer \in [Events -> {"none", "nil", "no user", "not found", "full"}]
      BY <2>1 DEF InitEvents
    <2>6. QED
      BY <2>3, <2>4, <2>5, Zenon DEF EventsTypeOK
  <1>2. QED
    BY <1>1, EventsTypeStep, PTL DEF SpecEvents

-----------------------------------------------------------------------------
(* The order of a user's events.                                           *)

\* The recursion of OfUser, on the first n events of s.
Selects(s, u, n, f) ==
  f = [m \in 0..n |->
         IF m = 0 THEN <<>>
         ELSE IF CausedBy[s[m]] = u THEN Append(f[m - 1], s[m])
         ELSE f[m - 1]]

SelectionOf(s, u, n) == CHOOSE f : Selects(s, u, n, f)

\* A set of numbers has a smallest member.
LEMMA SmallestNumber ==
  ASSUME NEW C, C \subseteq Nat, C # {}
  PROVE  \E n \in C : \A m \in C : n <= m
  <1>1. PICK n \in C : \A m \in C : ~ (<<m, n>> \in OpToRel(<, Nat))
    BY NatLessThanWellFounded, WFMin, Zenon
  <1>2. ASSUME NEW m \in C, m < n
        PROVE  <<m, n>> \in OpToRel(<, Nat)
    <2>1. <<m, n>> \in Nat \X Nat
      OBVIOUS
    <2>2. <<m, n>>[1] < <<m, n>>[2]
      BY <1>2
    <2>3. QED
      BY <2>1, <2>2, Zenon DEF OpToRel
  <1>3. \A m \in C : ~ (m < n)
    BY <1>1, <1>2, Zenon
  <1>4. QED
    BY <1>3

LEMMA SelectsNone ==
  ASSUME NEW s, NEW u, NEW n \in Nat, NEW f, Selects(s, u, n, f)
  PROVE  f[0] = <<>>
  BY DEF Selects

LEMMA SelectsUnfolded ==
  ASSUME NEW s, NEW u, NEW n \in Nat, NEW f, Selects(s, u, n, f)
  PROVE  \A m \in 1..n :
           f[m] = IF CausedBy[s[m]] = u THEN Append(f[m - 1], s[m]) ELSE f[m - 1]
  <1>1. \A m \in 0..n : f[m] = IF m = 0 THEN <<>>
                               ELSE IF CausedBy[s[m]] = u
                                      THEN Append(f[m - 1], s[m])
                               ELSE f[m - 1]
    BY Zenon DEF Selects
  <1>2. \A m \in 1..n : m \in 0..n /\ m # 0
    OBVIOUS
  <1>3. QED
    BY <1>1, <1>2, Zenon

\* The recursion defines a function.
LEMMA SelectionExists ==
  ASSUME NEW s, NEW u, NEW n \in Nat
  PROVE  Selects(s, u, n, SelectionOf(s, u, n))
  <1> DEFINE C == {k \in Nat : ~ \E f : Selects(s, u, k, f)}
  <1>1. SUFFICES ASSUME C # {} PROVE FALSE
    BY DEF SelectionOf
  <1>2. PICK k \in C : \A m \in C : k <= m
    <2> HIDE DEF C
    <2>1. C \subseteq Nat
      BY DEF C
    <2>2. QED
      BY <1>1, <2>1, SmallestNumber
  <1>3. k # 0
    <2>1. Selects(s, u, 0, [m \in 0..0 |-> <<>>])
      BY DEF Selects
    <2>2. QED
      BY <1>2, <2>1
  <1>4. k - 1 \in Nat /\ k - 1 \notin C
    BY <1>2, <1>3
  <1>5. PICK g : Selects(s, u, k - 1, g)
    BY <1>4
  <1> DEFINE f == [m \in 0..k |->
                     IF m < k THEN g[m]
                     ELSE IF CausedBy[s[m]] = u THEN Append(g[m - 1], s[m])
                     ELSE g[m - 1]]
  <1>6. \A m \in 0..k :
          f[m] = IF m = 0 THEN <<>>
                 ELSE IF CausedBy[s[m]] = u THEN Append(f[m - 1], s[m])
                 ELSE f[m - 1]
    <2> SUFFICES ASSUME NEW m \in 0..k
                 PROVE  f[m] = IF m = 0 THEN <<>>
                               ELSE IF CausedBy[s[m]] = u
                                      THEN Append(f[m - 1], s[m])
                               ELSE f[m - 1]
      OBVIOUS
    <2>1. m # 0 => m - 1 \in 0..k /\ m - 1 < k /\ f[m - 1] = g[m - 1]
      BY <1>4
    <2>2. CASE m < k
      <3>1. m \in 0..(k - 1) /\ f[m] = g[m]
        BY <1>4, <2>2
      <3>2. g[m] = IF m = 0 THEN <<>>
                   ELSE IF CausedBy[s[m]] = u THEN Append(g[m - 1], s[m])
                   ELSE g[m - 1]
        BY <1>5, <3>1 DEF Selects
      <3> HIDE DEF f
      <3>3. QED
        BY <2>1, <3>1, <3>2
    <2>3. CASE m = k
      <3>1. f[m] = IF CausedBy[s[m]] = u THEN Append(g[m - 1], s[m]) ELSE g[m - 1]
        BY <1>3, <1>4, <2>3
      <3> HIDE DEF f
      <3>2. QED
        BY <1>3, <2>1, <2>3, <3>1
    <2>4. QED
      BY <1>4, <2>2, <2>3
  <1>7. f = [m \in 0..k |-> f[m]]
    OBVIOUS
  <1>8. Selects(s, u, k, f)
    <2> HIDE DEF f
    <2>1. QED
      BY <1>6, <1>7 DEF Selects
  <1>9. QED
    BY <1>2, <1>8

\* On sequences that agree in the first k events, so do the selections, whose
\* elements are events of those sequences.
LEMMA SelectionsAgree ==
  ASSUME NEW s \in Seq(Events), NEW t \in Seq(Events), NEW u, NEW f, NEW g,
         Selects(s, u, Len(s), f), Selects(t, u, Len(t), g),
         NEW k \in 0..Len(s), k \in 0..Len(t), \A m \in 1..k : s[m] = t[m]
  PROVE  f[k] = g[k] /\ f[k] \in Seq(Events)
  <1> DEFINE C == {m \in 0..k : ~(f[m] = g[m] /\ f[m] \in Seq(Events))}
  <1>1. SUFFICES ASSUME C # {} PROVE FALSE
    OBVIOUS
  <1>2. PICK m \in C : \A l \in C : m <= l
    <2> HIDE DEF C
    <2>1. C \subseteq Nat
      BY DEF C
    <2>2. QED
      BY <1>1, <2>1, SmallestNumber
  <1>0. Len(s) \in Nat /\ Len(t) \in Nat
    OBVIOUS
  <1>3. f[0] = <<>> /\ g[0] = <<>>
    BY <1>0, SelectsNone
  <1>4. m \in 1..k
    <2>1. <<>> \in Seq(Events) /\ m \in 0..k /\ (m # 0 => m \in 1..k)
      BY <1>2
    <2>2. m # 0
      BY <1>2, <1>3, <2>1
    <2>3. QED
      BY <2>1, <2>2
  <1>5. f[m - 1] = g[m - 1] /\ f[m - 1] \in Seq(Events)
    <2>1. m - 1 \in 0..k /\ ~(m <= m - 1)
      BY <1>4
    <2>2. m - 1 \notin C
      BY <1>2, <2>1
    <2>3. QED
      BY <2>1, <2>2
  <1>6. /\ f[m] = IF CausedBy[s[m]] = u THEN Append(f[m - 1], s[m]) ELSE f[m - 1]
        /\ g[m] = IF CausedBy[t[m]] = u THEN Append(g[m - 1], t[m]) ELSE g[m - 1]
    <2>1. m \in 1..Len(s) /\ m \in 1..Len(t)
      BY <1>0, <1>4
    <2>2. \A l \in 1..Len(s) : f[l] = IF CausedBy[s[l]] = u
                                   THEN Append(f[l - 1], s[l]) ELSE f[l - 1]
      BY <1>0, SelectsUnfolded
    <2>3. \A l \in 1..Len(t) : g[l] = IF CausedBy[t[l]] = u
                                   THEN Append(g[l - 1], t[l]) ELSE g[l - 1]
      BY <1>0, SelectsUnfolded
    <2>4. QED
      BY <2>1, <2>2, <2>3, Zenon
  <1>7. s[m] = t[m] /\ s[m] \in Events
    BY <1>4
  <1>8. f[m] = g[m] /\ f[m] \in Seq(Events)
    <2>1. Append(f[m - 1], s[m]) \in Seq(Events)
      BY <1>5, <1>7
    <2>2. QED
      BY <1>5, <1>6, <1>7, <2>1
  <1>9. QED
    BY <1>2, <1>8

LEMMA OfUserIsSelection ==
  ASSUME NEW s \in Seq(Events), NEW u
  PROVE  /\ OfUser(s, u) = SelectionOf(s, u, Len(s))[Len(s)]
         /\ Selects(s, u, Len(s), SelectionOf(s, u, Len(s)))
         /\ OfUser(s, u) \in Seq(Events)
  <1>1. Len(s) \in Nat
    OBVIOUS
  <1>2. Selects(s, u, Len(s), SelectionOf(s, u, Len(s)))
    BY <1>1, SelectionExists
  <1>3. OfUser(s, u) = SelectionOf(s, u, Len(s))[Len(s)]
    BY DEF OfUser, SelectionOf, Selects
  <1>4. SelectionOf(s, u, Len(s))[Len(s)] \in Seq(Events)
    <2>1. Len(s) \in 0..Len(s)
      BY <1>1
    <2>2. QED
      BY <1>2, <2>1, SelectionsAgree
  <1>5. QED
    BY <1>2, <1>3, <1>4

LEMMA OfUserEmpty ==
  ASSUME NEW u
  PROVE  OfUser(<<>>, u) = <<>>
  <1>1. <<>> \in Seq(Events) /\ Len(<<>>) = 0
    OBVIOUS
  <1>2. OfUser(<<>>, u) = SelectionOf(<<>>, u, 0)[0]
    BY <1>1, OfUserIsSelection
  <1>3. Selects(<<>>, u, 0, SelectionOf(<<>>, u, 0))
    BY SelectionExists
  <1>4. SelectionOf(<<>>, u, 0)[0] = <<>>
    BY <1>3, SelectsNone
  <1>5. QED
    BY <1>2, <1>4

\* An event at the end is an event at the end, or none.
LEMMA OfUserAppend ==
  ASSUME NEW s \in Seq(Events), NEW e \in Events, NEW u
  PROVE  OfUser(Append(s, e), u) =
           IF CausedBy[e] = u THEN Append(OfUser(s, u), e) ELSE OfUser(s, u)
  <1>0. PICK t : t = Append(s, e)
    OBVIOUS
  <1>1. /\ t \in Seq(Events) /\ Len(t) = Len(s) + 1 /\ t[Len(t)] = e
        /\ Len(s) \in Nat /\ \A m \in 1..Len(s) : s[m] = t[m]
    BY <1>0
  <1>2. PICK f : OfUser(s, u) = f[Len(s)] /\ Selects(s, u, Len(s), f)
    BY OfUserIsSelection
  <1>3. PICK g : OfUser(t, u) = g[Len(t)] /\ Selects(t, u, Len(t), g)
    BY <1>1, OfUserIsSelection
  <1>4. f[Len(s)] = g[Len(s)]
    <2>1. /\ Len(s) \in 0..Len(s) /\ Len(s) \in 0..Len(t)
          /\ t \in Seq(Events) /\ \A m \in 1..Len(s) : s[m] = t[m]
      BY <1>1
    <2>2. Selects(s, u, Len(s), f) /\ Selects(t, u, Len(t), g)
      BY <1>2, <1>3
    <2>3. QED
      BY <2>1, <2>2, SelectionsAgree
  <1>5. g[Len(t)] = IF CausedBy[t[Len(t)]] = u
                      THEN Append(g[Len(t) - 1], t[Len(t)]) ELSE g[Len(t) - 1]
    <2>1. Len(t) \in Nat /\ Len(t) \in 1..Len(t)
      BY <1>1
    <2>2. QED
      BY <1>3, <2>1, SelectsUnfolded
  <1>6. Len(t) - 1 = Len(s)
    BY <1>1
  <1>7. OfUser(t, u) = IF CausedBy[e] = u THEN Append(OfUser(s, u), e)
                       ELSE OfUser(s, u)
    BY <1>1, <1>2, <1>3, <1>4, <1>5, <1>6
  <1>8. QED
    BY <1>0, <1>7

LEMMA OfUserOne ==
  ASSUME NEW e \in Events, NEW u
  PROVE  OfUser(<<e>>, u) = IF CausedBy[e] = u THEN <<e>> ELSE <<>>
  <1>1. <<>> \in Seq(Events) /\ Append(<<>>, e) = <<e>>
    OBVIOUS
  <1>2. OfUser(Append(<<>>, e), u) =
          IF CausedBy[e] = u THEN Append(OfUser(<<>>, u), e) ELSE OfUser(<<>>, u)
    BY <1>1, OfUserAppend, Zenon
  <1>3. QED
    BY <1>1, <1>2, OfUserEmpty, Zenon

LEMMA AppendToConcat ==
  ASSUME NEW a \in Seq(Events), NEW b \in Seq(Events), NEW e \in Events
  PROVE  Append(a \o b, e) = a \o Append(b, e)
  OBVIOUS

LEMMA ConcatAssociates ==
  ASSUME NEW a \in Seq(Events), NEW b \in Seq(Events), NEW c \in Seq(Events)
  PROVE  (a \o b) \o c = a \o (b \o c)
  OBVIOUS

LEMMA ConcatEmpty ==
  ASSUME NEW a \in Seq(Events), NEW b \in Seq(Events)
  PROVE  /\ a \o <<>> = a /\ <<>> \o a = a
         /\ a \o b = <<>> => a = <<>> /\ b = <<>>
  <1>1. a \o <<>> = a /\ <<>> \o a = a
    OBVIOUS
  <1>2. ASSUME a \o b = <<>> PROVE a = <<>> /\ b = <<>>
    BY <1>2
  <1>3. QED
    BY <1>1, <1>2

\* The event at the head of a channel comes before the others of its user.
LEMMA OfUserHead ==
  ASSUME NEW s \in Seq(Events), s # <<>>, NEW u
  PROVE  OfUser(s, u) = OfUser(<<Head(s)>>, u) \o OfUser(Tail(s), u)
  <1> DEFINE Splits(t) == OfUser(t, u) = OfUser(<<Head(t)>>, u) \o OfUser(Tail(t), u)
             C == {n \in Nat : \E t \in Seq(Events) :
                     t # <<>> /\ Len(t) = n /\ ~Splits(t)}
  <1>1. SUFFICES ASSUME C # {} PROVE FALSE
    BY Len(s) \in Nat
  <1>2. PICK n \in C : \A m \in C : n <= m
    <2> HIDE DEF C
    <2>1. C \subseteq Nat
      BY DEF C
    <2>2. QED
      BY <1>1, <2>1, SmallestNumber
  <1>3. PICK t \in Seq(Events) : t # <<>> /\ Len(t) = n /\ ~Splits(t)
    BY <1>2
  <1>4. PICK e \in Events, r \in Seq(Events) : t = Append(r, e) /\ Len(r) = n - 1
    <2>1. /\ t[Len(t)] \in Events /\ SubSeq(t, 1, Len(t) - 1) \in Seq(Events)
          /\ t = Append(SubSeq(t, 1, Len(t) - 1), t[Len(t)])
          /\ Len(SubSeq(t, 1, Len(t) - 1)) = n - 1
      BY <1>3
    <2>2. QED
      BY <2>1
  <1>5. OfUser(t, u) = IF CausedBy[e] = u THEN Append(OfUser(r, u), e)
                       ELSE OfUser(r, u)
    BY <1>4, OfUserAppend
  <1>6. CASE r = <<>>
    <2>1. t = <<e>> /\ Head(t) = e /\ Tail(t) = <<>>
      BY <1>4, <1>6
    <2>2. OfUser(t, u) \in Seq(Events)
      BY <1>3, OfUserIsSelection
    <2>3. OfUser(t, u) = OfUser(t, u) \o <<>>
      BY <2>2
    <2>4. Splits(t)
      BY <2>1, <2>3, OfUserEmpty
    <2>5. QED
      BY <1>3, <2>4
  <1>7. CASE r # <<>>
    <2>1. Splits(r)
      <3>1. n - 1 \in Nat /\ ~ (n <= n - 1)
        BY <1>2, <1>4
      <3>2. n - 1 \notin C
        BY <1>2, <3>1
      <3>3. QED
        BY <1>4, <1>7, <3>1, <3>2
    <2>2. /\ Head(t) = Head(r) /\ Tail(t) = Append(Tail(r), e)
          /\ Tail(r) \in Seq(Events) /\ <<Head(r)>> \in Seq(Events)
      <3>1. /\ Tail(r) \in Seq(Events) /\ Head(r) \in Events
            /\ <<Head(r)>> \in Seq(Events)
        BY <1>7
      <3>2. /\ Head(Append(r, e)) = Head(r)
            /\ Tail(Append(r, e)) = Append(Tail(r), e)
        BY <1>7
      <3>3. QED
        BY <1>4, <3>1, <3>2
    <2>3. OfUser(Tail(t), u) = IF CausedBy[e] = u THEN Append(OfUser(Tail(r), u), e)
                               ELSE OfUser(Tail(r), u)
      <3>1. Tail(r) \in Seq(Events)
        BY <2>2
      <3>2. OfUser(Append(Tail(r), e), u) =
              IF CausedBy[e] = u THEN Append(OfUser(Tail(r), u), e)
              ELSE OfUser(Tail(r), u)
        BY <3>1, OfUserAppend
      <3>3. QED
        BY <2>2, <3>2, Zenon
    <2>4. /\ OfUser(<<Head(r)>>, u) \in Seq(Events)
          /\ OfUser(Tail(r), u) \in Seq(Events)
      BY <2>2, OfUserIsSelection
    <2>5. Append(OfUser(<<Head(r)>>, u) \o OfUser(Tail(r), u), e)
            = OfUser(<<Head(r)>>, u) \o Append(OfUser(Tail(r), u), e)
      BY <2>4, AppendToConcat
    <2>6. Splits(t)
      BY <1>5, <2>1, <2>2, <2>3, <2>5
    <2>7. QED
      BY <1>3, <2>6
  <1>8. QED
    BY <1>6, <1>7

\* What was accepted of a user's events was processed, or is in the hand or in
\* the channel of the worker of that user, in that order; no other worker has
\* any of them.
UserFlow(u) ==
  /\ \A j \in Partitions \ {PartitionForUser(u)} :
       OfUser(inHand[j], u) = <<>> /\ OfUser(eventChan[j], u) = <<>>
  /\ PartitionForUser(u) \in Partitions =>
       OfUser(accepted, u) =
         OfUser(processed, u) \o (OfUser(inHand[PartitionForUser(u)], u)
                                    \o OfUser(eventChan[PartitionForUser(u)], u))
  /\ PartitionForUser(u) \notin Partitions =>
       OfUser(accepted, u) = <<>> /\ OfUser(processed, u) = <<>>

FlowInv ==
  /\ \A i \in Partitions : worker[i] # "processing" => inHand[i] = <<>>
  /\ \A u \in Users : UserFlow(u)

LEMMA ProcessEventFlow ==
  ASSUME EventsTypeOK, NEW e \in Events, ProcessEvent(e), NEW u \in Users, UserFlow(u)
  PROVE  UserFlow(u)'
  <1>1. UNCHANGED <<inHand, processed>>
    BY DEF ProcessEvent
  <1>2. CASE UNCHANGED <<eventChan, accepted>>
    BY <1>1, <1>2 DEF UserFlow
  <1>3. ASSUME NEW i \in Partitions, i = PartitionForUser(CausedBy[e]),
               eventChan' = [eventChan EXCEPT ![i] = Append(@, e)],
               accepted' = Append(accepted, e)
        PROVE  UserFlow(u)'
    <2>1. /\ eventChan \in [Partitions -> Seq(Events)] /\ accepted \in Seq(Events)
          /\ \A j \in Partitions : inHand[j] \in Seq(Events)
          /\ eventChan[i] \in Seq(Events) /\ processed \in Seq(Events)
      BY DEF EventsTypeOK
    <2>2. /\ eventChan'[i] = Append(eventChan[i], e)
          /\ \A j \in Partitions \ {i} : eventChan'[j] = eventChan[j]
      BY <1>3, <2>1
    <2>3. OfUser(eventChan'[i], u) =
            IF CausedBy[e] = u THEN Append(OfUser(eventChan[i], u), e)
            ELSE OfUser(eventChan[i], u)
      BY <2>1, <2>2, OfUserAppend
    <2>4. OfUser(accepted', u) =
            IF CausedBy[e] = u THEN Append(OfUser(accepted, u), e)
            ELSE OfUser(accepted, u)
      BY <1>3, <2>1, OfUserAppend
    <2>5. CASE CausedBy[e] # u
      <3>1. /\ OfUser(accepted', u) = OfUser(accepted, u)
            /\ \A j \in Partitions : OfUser(eventChan'[j], u) = OfUser(eventChan[j], u)
        BY <2>2, <2>3, <2>4, <2>5
      <3>2. QED
        BY <1>1, <3>1 DEF UserFlow
    <2>6. CASE CausedBy[e] = u
      <3>1. /\ \A j \in Partitions \ {i} :
                 OfUser(eventChan'[j], u) = OfUser(eventChan[j], u)
            /\ OfUser(accepted', u) = Append(OfUser(accepted, u), e)
            /\ OfUser(eventChan'[i], u) = Append(OfUser(eventChan[i], u), e)
            /\ PartitionForUser(u) = i
        BY <1>3, <2>2, <2>3, <2>4, <2>6
      <3>2. OfUser(accepted, u) =
              OfUser(processed, u) \o (OfUser(inHand[i], u) \o OfUser(eventChan[i], u))
        BY <3>1 DEF UserFlow
      <3>3. /\ OfUser(processed, u) \in Seq(Events)
            /\ OfUser(inHand[i], u) \in Seq(Events)
            /\ OfUser(eventChan[i], u) \in Seq(Events)
        BY <2>1, OfUserIsSelection
      <3>4. Append(OfUser(inHand[i], u) \o OfUser(eventChan[i], u), e)
              = OfUser(inHand[i], u) \o Append(OfUser(eventChan[i], u), e)
        BY <3>3, AppendToConcat
      <3>5. Append(OfUser(processed, u)
                     \o (OfUser(inHand[i], u) \o OfUser(eventChan[i], u)), e)
              = OfUser(processed, u)
                  \o Append(OfUser(inHand[i], u) \o OfUser(eventChan[i], u), e)
        <4>1. OfUser(inHand[i], u) \o OfUser(eventChan[i], u) \in Seq(Events)
          BY <3>3
        <4>2. QED
          BY <3>3, <4>1, AppendToConcat
      <3>6. OfUser(accepted', u) =
              OfUser(processed, u)
                \o (OfUser(inHand[i], u) \o OfUser(eventChan'[i], u))
        BY <3>1, <3>2, <3>4, <3>5, Zenon
      <3>7. QED
        BY <1>1, <1>3, <3>1, <3>6 DEF UserFlow
    <2>7. QED
      BY <2>5, <2>6
  <1>4. QED
    BY <1>2, <1>3 DEF ProcessEvent

LEMMA TakeFlow ==
  ASSUME EventsTypeOK, NEW i \in Partitions, Take(i), inHand[i] = <<>>,
         NEW u \in Users, UserFlow(u)
  PROVE  UserFlow(u)'
  <1>1. /\ UNCHANGED <<accepted, processed>> /\ eventChan[i] \in Seq(Events)
        /\ eventChan[i] # <<>>
        /\ inHand'[i] = <<Head(eventChan[i])>> /\ eventChan'[i] = Tail(eventChan[i])
        /\ \A j \in Partitions \ {i} : /\ inHand'[j] = inHand[j]
                                     /\ eventChan'[j] = eventChan[j]
    BY DEF Take, EventsTypeOK
  <1>2. /\ <<Head(eventChan[i])>> \in Seq(Events) /\ Tail(eventChan[i]) \in Seq(Events)
    BY <1>1
  <1>3. OfUser(eventChan[i], u) = OfUser(inHand'[i], u) \o OfUser(eventChan'[i], u)
    BY <1>1, OfUserHead
  <1>4. /\ OfUser(inHand'[i], u) \in Seq(Events)
        /\ OfUser(eventChan'[i], u) \in Seq(Events)
        /\ OfUser(eventChan[i], u) \in Seq(Events)
    BY <1>1, <1>2, OfUserIsSelection
  <1>5. OfUser(inHand[i], u) \o OfUser(eventChan[i], u) = OfUser(eventChan[i], u)
    BY <1>4, OfUserEmpty, ConcatEmpty
  <1>6. CASE PartitionForUser(u) = i
    BY <1>1, <1>3, <1>5, <1>6 DEF UserFlow
  <1>7. CASE PartitionForUser(u) # i
    <2>1. OfUser(eventChan[i], u) = <<>>
      BY <1>7 DEF UserFlow
    <2>2. OfUser(inHand'[i], u) = <<>> /\ OfUser(eventChan'[i], u) = <<>>
      BY <1>3, <1>4, <2>1, ConcatEmpty
    <2>3. QED
      BY <1>1, <1>7, <2>2 DEF UserFlow
  <1>8. QED
    BY <1>6, <1>7

LEMMA FinishFlow ==
  ASSUME EventsTypeOK, NEW i \in Partitions, Finish(i), NEW u \in Users, UserFlow(u)
  PROVE  UserFlow(u)'
  <1>1. /\ UNCHANGED <<accepted, eventChan>> /\ processed' = processed \o inHand[i]
        /\ inHand'[i] = <<>>
        /\ \A j \in Partitions \ {i} : inHand'[j] = inHand[j]
        /\ inHand[i] \in Seq(Events) /\ processed \in Seq(Events)
        /\ eventChan[i] \in Seq(Events) /\ Len(inHand[i]) = 1
    BY DEF Finish, EventsTypeOK
  <1>2. PICK e \in Events : inHand[i] = <<e>>
    BY <1>1
  <1>3. processed' = Append(processed, e)
    BY <1>1, <1>2
  <1>4. OfUser(processed', u) = IF CausedBy[e] = u THEN Append(OfUser(processed, u), e)
                                ELSE OfUser(processed, u)
    BY <1>1, <1>3, OfUserAppend
  <1>5. OfUser(inHand[i], u) = IF CausedBy[e] = u THEN <<e>> ELSE <<>>
    BY <1>2, OfUserOne
  <1>6. /\ OfUser(processed, u) \in Seq(Events)
        /\ OfUser(inHand[i], u) \in Seq(Events)
        /\ OfUser(eventChan[i], u) \in Seq(Events)
    BY <1>1, OfUserIsSelection
  <1>7. OfUser(processed', u) = OfUser(processed, u) \o OfUser(inHand[i], u)
    BY <1>4, <1>5, <1>6
  <1>8. OfUser(inHand'[i], u) = <<>>
    BY <1>1, OfUserEmpty
  <1>9. CASE PartitionForUser(u) = i
    <2>1. OfUser(accepted, u) =
            OfUser(processed, u) \o (OfUser(inHand[i], u) \o OfUser(eventChan[i], u))
      BY <1>9 DEF UserFlow
    <2>2. OfUser(processed', u) \o OfUser(eventChan[i], u) =
            OfUser(processed, u) \o (OfUser(inHand[i], u) \o OfUser(eventChan[i], u))
      BY <1>6, <1>7, ConcatAssociates
    <2>3. OfUser(inHand'[i], u) \o OfUser(eventChan[i], u) = OfUser(eventChan[i], u)
      BY <1>6, <1>8, ConcatEmpty
    <2>4. OfUser(accepted, u) = OfUser(processed', u)
            \o (OfUser(inHand'[i], u) \o OfUser(eventChan[i], u))
      BY <2>1, <2>2, <2>3
    <2>5. QED
      BY <1>1, <1>9, <2>4 DEF UserFlow
  <1>10. CASE PartitionForUser(u) # i
    <2>1. OfUser(inHand[i], u) = <<>>
      BY <1>10 DEF UserFlow
    <2>2. OfUser(processed', u) = OfUser(processed, u)
      BY <1>6, <1>7, <2>1, ConcatEmpty
    <2>3. QED
      BY <1>1, <1>8, <1>10, <2>2 DEF UserFlow
  <1>11. QED
    BY <1>9, <1>10

LEMMA FlowStep ==
  ASSUME EventsTypeOK, FlowInv, [NextEvents]_eventVars
  PROVE  FlowInv'
  <1>1. ASSUME NEW e \in Events, ProcessEvent(e) PROVE FlowInv'
    <2>1. UNCHANGED <<worker, inHand>>
      BY <1>1 DEF ProcessEvent
    <2>2. QED
      BY <1>1, <2>1, ProcessEventFlow DEF FlowInv
  <1>2. ASSUME NEW i \in Partitions, Take(i) PROVE FlowInv'
    <2>1. /\ inHand[i] = <<>> /\ worker'[i] = "processing"
          /\ \A j \in Partitions \ {i} : /\ worker'[j] = worker[j]
                                       /\ inHand'[j] = inHand[j]
      BY <1>2 DEF FlowInv, Take, EventsTypeOK
    <2>2. QED
      BY <1>2, <2>1, TakeFlow DEF FlowInv
  <1>3. ASSUME NEW i \in Partitions, Finish(i) PROVE FlowInv'
    <2>1. /\ inHand'[i] = <<>>
          /\ \A j \in Partitions \ {i} : /\ worker'[j] = worker[j]
                                       /\ inHand'[j] = inHand[j]
      BY <1>3 DEF Finish, EventsTypeOK
    <2>2. QED
      BY <1>3, <2>1, FinishFlow DEF FlowInv
  <1>4. ASSUME NEW i \in Partitions, End(i) PROVE FlowInv'
    <2>1. /\ UNCHANGED <<eventChan, inHand, accepted, processed>>
          /\ \A j \in Partitions : worker'[j] = "processing" <=> worker[j] = "processing"
      BY <1>4 DEF End, EventsTypeOK
    <2>2. QED
      BY <2>1 DEF FlowInv, UserFlow
  <1>5. CASE StopWorkers
    BY <1>5 DEF FlowInv, UserFlow, StopWorkers
  <1>6. CASE UNCHANGED eventVars
    BY <1>6 DEF FlowInv, UserFlow, eventVars
  <1>7. QED
    BY <1>1, <1>2, <1>3, <1>4, <1>5, <1>6 DEF NextEvents, WorkerStep

\* However many users, workers and events there are, and wherever the hashes
\* send the users: the events of a user are processed one at a time, in the
\* order in which they were accepted, without a gap.
THEOREM UserEventsAreProcessedInOrder == SpecEvents => []UsersInOrder
  <1>1. InitEvents => FlowInv
    <2> SUFFICES ASSUME InitEvents PROVE FlowInv
      OBVIOUS
    <2>1. /\ accepted = <<>> /\ processed = <<>>
          /\ \A i \in Partitions : inHand[i] = <<>> /\ eventChan[i] = <<>>
      BY DEF InitEvents
    <2>2. <<>> \in Seq(Events)
      OBVIOUS
    <2>3. <<>> = <<>> \o (<<>> \o <<>>)
      BY <2>2, ConcatEmpty
    <2>4. QED
      BY <2>1, <2>3, OfUserEmpty DEF FlowInv, UserFlow
  <1>2. EventsTypeOK /\ FlowInv => UsersInOrder
    <2> SUFFICES ASSUME EventsTypeOK, FlowInv, NEW u \in Users
                 PROVE  /\ \A i, j \in Partitions :
                             OfUser(inHand[i], u) # <<>> /\ OfUser(inHand[j], u) # <<>>
                               => i = j
                        /\ IsPrefix(OfUser(processed, u), OfUser(accepted, u))
      BY DEF UsersInOrder
    <2>1. UserFlow(u)
      BY DEF FlowInv
    <2>2. PICK rest \in Seq(Events) :
            OfUser(accepted, u) = OfUser(processed, u) \o rest
      <3>1. CASE PartitionForUser(u) \in Partitions
        <4>1. /\ inHand[PartitionForUser(u)] \in Seq(Events)
              /\ eventChan[PartitionForUser(u)] \in Seq(Events)
          BY <3>1 DEF EventsTypeOK
        <4>2. OfUser(inHand[PartitionForUser(u)], u)
                \o OfUser(eventChan[PartitionForUser(u)], u) \in Seq(Events)
          BY <4>1, OfUserIsSelection
        <4>3. QED
          BY <2>1, <3>1, <4>2 DEF UserFlow
      <3>2. CASE PartitionForUser(u) \notin Partitions
        <4>1. <<>> \in Seq(Events) /\ <<>> = <<>> \o <<>>
          OBVIOUS
        <4>2. QED
          BY <2>1, <3>2, <4>1 DEF UserFlow
      <3>3. QED
        BY <3>1, <3>2
    <2>3. OfUser(processed, u) \in Seq(Events)
      BY OfUserIsSelection DEF EventsTypeOK
    <2>4. IsPrefix(OfUser(processed, u), OfUser(accepted, u))
      BY <2>2, <2>3 DEF IsPrefix
    <2>5. QED
      BY <2>1, <2>4 DEF UserFlow
  <1>3. QED
    BY <1>1, <1>2, FlowStep, EventsTypeCorrect, PTL DEF SpecEvents
=============================================================================
