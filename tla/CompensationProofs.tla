------------------------- MODULE CompensationProofs -------------------------
(***************************************************************************)
(* Proofs about Compensation and the dead letter queue next to it, for any *)
(* payments, events, bounds of the queue and of the retries, and any       *)
(* failures.                                                               *)
(***************************************************************************)
EXTENDS Compensation, TLAPS

(***************************************************************************)
(* The inductive invariant.  Within an attempt the wallet is one ahead of  *)
(* the store, then the store one ahead of the bus; what has been looked at *)
(* of the saga is what is no longer in todo.                               *)
(***************************************************************************)
OneAhead ==
  \A p \in Payments :
    /\ published[p] <= stored[p] /\ stored[p] <= refunds[p]
    /\ pc[p] = "store" => stored[p] < refunds[p]
    /\ pc[p] = "publish" => published[p] < stored[p]
    /\ refunds[p] <= published[p] + failures[p] + Interrupted(p)

LookedAt ==
  \A p \in Payments :
    /\ Len(todo[p]) <= Len(Completed[p])
    /\ \A i \in 1..Len(todo[p]) : todo[p][i] = Completed[p][i]
    /\ pc[p] \in {"idle", "next", "cancel", "done"} =>
         \A i \in 1..Len(Completed[p]) :
           i > Len(todo[p]) /\ Completed[p][i] = "funds_deducted" => published[p] > 0
    /\ record[p] = "completed" => pc[p] = "done" /\ Len(todo[p]) = 0

IInv == TypeOK /\ LettersAreKept /\ OneAhead /\ LookedAt

-----------------------------------------------------------------------------
(* The queue.                                                              *)

\* No letter is in a queue twice.
Distinct(s) == \A i, j \in DOMAIN s : s[i] = s[j] => i = j

LEMMA SequenceFacts ==
  ASSUME NEW S, NEW s \in Seq(S)
  PROVE  Len(s) \in Nat /\ DOMAIN s = 1..Len(s) /\ \A i \in 1..Len(s) : s[i] \in S
  OBVIOUS

\* What adding a letter does to a queue.
LEMMA LetterAdded ==
  ASSUME QueueTypeOK, Distinct(queue), NEW e \in Events
  PROVE  /\ WithLetter(e) \in Seq(Events)
         /\ Len(WithLetter(e)) <= MaxSize
         /\ Distinct(WithLetter(e))
         /\ \A i \in DOMAIN WithLetter(e) :
              WithLetter(e)[i] = e \/ Queued(WithLetter(e)[i])
<1>1. queue \in Seq(Events) /\ Len(queue) <= MaxSize /\ MaxSize \in Nat /\ MaxSize > 0
  BY QueueAssumption DEF QueueTypeOK
<1>2. Len(queue) \in Nat /\ DOMAIN queue = 1..Len(queue)
  BY <1>1
<1>3. CASE Queued(e)
  <2>1. WithLetter(e) = queue
    BY <1>3 DEF WithLetter
  <2> QED
    BY <1>1, <2>1 DEF Queued
<1>4. CASE ~Queued(e) /\ Len(queue) < MaxSize
  <2>1. WithLetter(e) = Append(queue, e)
    BY <1>4 DEF WithLetter
  <2>2. \A i \in 1..Len(queue) : queue[i] # e
    BY <1>2, <1>4 DEF Queued
  <2>3. /\ Append(queue, e) \in Seq(Events)
        /\ Len(Append(queue, e)) = Len(queue) + 1
        /\ DOMAIN Append(queue, e) = 1..(Len(queue) + 1)
        /\ Append(queue, e)[Len(queue) + 1] = e
        /\ \A i \in 1..Len(queue) : Append(queue, e)[i] = queue[i]
    BY <1>1, <1>2
  <2>4. Distinct(Append(queue, e))
    BY <1>2, <2>2, <2>3 DEF Distinct
  <2>5. \A i \in DOMAIN Append(queue, e) :
          Append(queue, e)[i] = e \/ Queued(Append(queue, e)[i])
    BY <1>2, <2>3 DEF Queued
  <2> QED
    BY <1>1, <1>2, <1>4, <2>1, <2>3, <2>4, <2>5
<1>5. CASE ~Queued(e) /\ ~(Len(queue) < MaxSize)
  <2> DEFINE n == Len(queue)
             q == Append(Tail(queue), e)
  <2>1. WithLetter(e) = q
    BY <1>5 DEF WithLetter
  <2>2. n \in Nat /\ n = MaxSize /\ n > 0
    <3>1. MaxSize \in Nat /\ MaxSize > 0 /\ n <= MaxSize /\ ~(n < MaxSize) /\ n \in Nat
      BY <1>1, <1>2, <1>5, Zenon
    <3> HIDE DEF n
    <3> QED
      BY <3>1
  <2>3. /\ Tail(queue) \in Seq(Events)
        /\ Len(Tail(queue)) = n - 1
        /\ \A i \in 1..(n - 1) : Tail(queue)[i] = queue[i + 1]
    BY <1>1, <2>2
  <2>4. /\ q \in Seq(Events) /\ Len(q) = n /\ DOMAIN q = 1..n
        /\ q[n] = e /\ \A i \in 1..(n - 1) : q[i] = queue[i + 1]
    BY <2>2, <2>3
  <2>5. \A i \in 1..n : queue[i] # e
    BY <1>2, <1>5 DEF Queued
  <2>6. \A i, j \in 1..n : queue[i] = queue[j] => i = j
    BY <1>2 DEF Distinct
  <2> HIDE DEF q, n
  <2>7. Distinct(q)
    <3> SUFFICES ASSUME NEW i \in 1..n, NEW j \in 1..n, q[i] = q[j] PROVE i = j
      BY <2>4 DEF Distinct
    <3>1. CASE i < n /\ j < n
      <4>1. i \in 1..(n - 1) /\ j \in 1..(n - 1) /\ i + 1 \in 1..n /\ j + 1 \in 1..n
        BY <2>2, <3>1
      <4>2. queue[i + 1] = queue[j + 1]
        BY <2>4, <4>1
      <4>3. i + 1 = j + 1
        BY <2>6, <4>1, <4>2
      <4> QED
        BY <4>1, <4>3
    <3>2. CASE i = n \/ j = n
      <4>1. \A k \in 1..n : k # n => k \in 1..(n - 1) /\ k + 1 \in 1..n
        BY <2>2
      <4>2. \A k \in 1..n : k # n => q[k] # e
        BY <2>4, <2>5, <4>1
      <4> QED
        BY <2>4, <3>2, <4>2
    <3> QED
      BY <2>2, <3>1, <3>2
  <2>8. \A i \in DOMAIN q : q[i] = e \/ Queued(q[i])
    <3> SUFFICES ASSUME NEW i \in 1..n, i # n PROVE Queued(q[i])
      BY <2>4
    <3>1. i \in 1..(n - 1) /\ i + 1 \in 1..n
      BY <2>2
    <3> QED
      BY <1>2, <2>4, <3>1 DEF Queued, n
  <2> QED
    BY <1>1, <2>1, <2>2, <2>4, <2>7, <2>8
<1> QED
  BY <1>3, <1>4, <1>5

\* The parts of LettersAreKept.
Stored  == \A e \in owed : e \in storage \/ e \in refused
Waiting == \A i \in DOMAIN queue : queue[i] \in owed

LEMMA KeptParts == LettersAreKept <=> Stored /\ Waiting /\ Distinct(queue)
  BY DEF LettersAreKept, Stored, Waiting, Distinct

\* What removing a letter does to a queue.
LEMMA LetterRemoved ==
  ASSUME QueueTypeOK, Distinct(queue), NEW i \in DOMAIN queue
  PROVE  /\ RemoveAt(queue, i) \in Seq(Events)
         /\ Len(RemoveAt(queue, i)) <= MaxSize
         /\ Distinct(RemoveAt(queue, i))
         /\ \A j \in DOMAIN RemoveAt(queue, i) :
              RemoveAt(queue, i)[j] # queue[i] /\ Queued(RemoveAt(queue, i)[j])
<1> DEFINE n == Len(queue)
           r == RemoveAt(queue, i)
           From(j) == IF j < i THEN j ELSE j + 1
<1>1. queue \in Seq(Events) /\ n <= MaxSize /\ MaxSize \in Nat
  BY QueueAssumption DEF QueueTypeOK
<1>2. n \in Nat /\ DOMAIN queue = 1..n /\ i \in 1..n
  BY <1>1
<1>3. /\ r \in Seq(Events) /\ Len(r) = n - 1 /\ DOMAIN r = 1..(n - 1)
      /\ \A j \in 1..(n - 1) : r[j] = queue[From(j)]
  <2>1. /\ SubSeq(queue, 1, i - 1) \in Seq(Events)
        /\ Len(SubSeq(queue, 1, i - 1)) = i - 1
        /\ \A j \in 1..(i - 1) : SubSeq(queue, 1, i - 1)[j] = queue[j]
    BY <1>1, <1>2
  <2>2. /\ SubSeq(queue, i + 1, n) \in Seq(Events)
        /\ Len(SubSeq(queue, i + 1, n)) = n - i
        /\ \A j \in 1..(n - i) : SubSeq(queue, i + 1, n)[j] = queue[i + j]
    BY <1>1, <1>2
  <2> DEFINE a == SubSeq(queue, 1, i - 1)
             b == SubSeq(queue, i + 1, n)
  <2>3. r = a \o b
    BY DEF RemoveAt
  <2> HIDE DEF a, b, r, n
  <2>4. /\ a \in Seq(Events) /\ Len(a) = i - 1
        /\ \A j \in 1..(i - 1) : a[j] = queue[j]
        /\ b \in Seq(Events) /\ Len(b) = n - i
        /\ \A j \in 1..(n - i) : b[j] = queue[i + j]
    BY <2>1, <2>2 DEF a, b
  <2>5. /\ a \o b \in Seq(Events) /\ Len(a \o b) = n - 1
        /\ \A j \in 1..(n - 1) :
             (a \o b)[j] = IF j < i THEN a[j] ELSE b[j - (i - 1)]
    <3>1. Len(a) + Len(b) = n - 1 /\ \A j \in Nat : j <= Len(a) <=> j < i
      BY <1>2, <2>4
    <3>2. /\ a \o b \in Seq(Events) /\ Len(a \o b) = Len(a) + Len(b)
          /\ \A j \in 1..(Len(a) + Len(b)) :
               (a \o b)[j] = IF j <= Len(a) THEN a[j] ELSE b[j - Len(a)]
      BY <2>4
    <3> QED
      BY <1>2, <2>4, <3>1, <3>2
  <2>6. ASSUME NEW j \in 1..(n - 1) PROVE r[j] = queue[From(j)]
    <3>1. CASE j < i
      BY <1>2, <2>3, <2>4, <2>5, <3>1
    <3>2. CASE ~(j < i)
      <4>1. j - (i - 1) \in 1..(n - i) /\ i + (j - (i - 1)) = j + 1
        BY <1>2, <3>2
      <4> QED
        BY <2>3, <2>4, <2>5, <3>2, <4>1
    <3> QED
      BY <3>1, <3>2
  <2> QED
    BY <1>2, <2>3, <2>5, <2>6
<1>4. \A j \in 1..(n - 1) : From(j) \in 1..n /\ From(j) # i
  BY <1>2
<1>5. \A j, k \in 1..(n - 1) : From(j) = From(k) => j = k
  BY <1>2
<1>6. \A j, k \in 1..n : queue[j] = queue[k] => j = k
  BY <1>2 DEF Distinct
<1> HIDE DEF n, r, From
<1>7. Distinct(r)
  BY <1>3, <1>4, <1>5, <1>6 DEF Distinct
<1>8. \A j \in DOMAIN r : r[j] # queue[i] /\ Queued(r[j])
  BY <1>2, <1>3, <1>4, <1>6 DEF Queued
<1>9. Len(r) <= MaxSize
  BY <1>1, <1>2, <1>3
<1> QED
  BY <1>3, <1>7, <1>8, <1>9 DEF r

\* A sender, a processor that begins or returns, and a stop.
LEMMA QueueStep ==
  ASSUME QueueTypeOK, LettersAreKept,
         \/ \E e \in Events : SendToDLQ(e) \/ StartRetry(e) \/ EndRetry(e)
         \/ ForgetQueue
         \/ UNCHANGED queueVars
  PROVE  QueueTypeOK' /\ LettersAreKept'
<1>1. Stored /\ Waiting /\ Distinct(queue)
  BY KeptParts
<1>2. SUFFICES QueueTypeOK' /\ Stored' /\ Waiting' /\ Distinct(queue)'
  BY DEF LettersAreKept, Stored, Waiting, Distinct
<1>3. ASSUME NEW e \in Events, SendToDLQ(e)
      PROVE  QueueTypeOK' /\ Stored' /\ Waiting' /\ Distinct(queue)'
  <2> DEFINE q == WithLetter(e)
  <2>1. /\ q \in Seq(Events) /\ Len(q) <= MaxSize /\ Distinct(q)
        /\ \A i \in DOMAIN q : q[i] = e \/ Queued(q[i])
    BY <1>1, LetterAdded
  <2>2. queue' = q /\ owed' = owed \cup {e} /\ retrying' = retrying
    BY <1>3 DEF SendToDLQ
  <2>3. \/ storage' = storage \cup {e} /\ refused' = refused \ {e}
        \/ storage' \in {storage, storage \cup {e}} /\ refused' = refused \cup {e}
    BY <1>3 DEF SendToDLQ
  <2> HIDE DEF q
  <2>4. QueueTypeOK'
    BY <2>1, <2>2, <2>3 DEF QueueTypeOK
  <2>5. Stored'
    BY <1>1, <2>2, <2>3 DEF Stored
  <2>6. Waiting'
    BY <1>1, <2>1, <2>2 DEF Waiting, Queued
  <2>7. Distinct(queue)'
    BY <2>1, <2>2 DEF Distinct
  <2> QED
    BY <2>4, <2>5, <2>6, <2>7
<1>4. ASSUME NEW e \in Events, StartRetry(e)
      PROVE  QueueTypeOK' /\ Stored' /\ Waiting' /\ Distinct(queue)'
  BY <1>1, <1>4 DEF StartRetry, QueueTypeOK, Stored, Waiting, Distinct
<1>5. ASSUME NEW e \in Events, EndRetry(e)
      PROVE  QueueTypeOK' /\ Stored' /\ Waiting' /\ Distinct(queue)'
  <2>1. CASE UNCHANGED <<queue, storage, owed>>
    BY <1>1, <1>5, <2>1 DEF EndRetry, QueueTypeOK, Stored, Waiting, Distinct
  <2>2. CASE ~UNCHANGED <<queue, storage, owed>>
    <3>1. PICK i \in DOMAIN queue : queue[i] = e /\ queue' = RemoveAt(queue, i)
      BY <1>5, <2>2 DEF EndRetry
    <3>2. /\ storage' \in {storage, storage \ {e}} /\ owed' = owed \ {e}
          /\ refused' = refused /\ retrying' = {}
      BY <1>5, <2>2 DEF EndRetry
    <3> DEFINE r == RemoveAt(queue, i)
    <3>3. /\ r \in Seq(Events) /\ Len(r) <= MaxSize /\ Distinct(r)
          /\ \A j \in DOMAIN r : r[j] # e /\ Queued(r[j])
      BY <1>1, <3>1, LetterRemoved
    <3>4. queue' = r
      BY <3>1
    <3> HIDE DEF r
    <3>5. QueueTypeOK'
      BY <3>2, <3>3, <3>4 DEF QueueTypeOK
    <3>6. Stored'
      BY <1>1, <3>2 DEF Stored
    <3>7. Waiting'
      BY <1>1, <3>2, <3>3, <3>4 DEF Waiting, Queued
    <3>8. Distinct(queue)'
      BY <3>3, <3>4 DEF Distinct
    <3> QED
      BY <3>5, <3>6, <3>7, <3>8
  <2> QED
    BY <2>1, <2>2
<1>6. CASE ForgetQueue
  <2>1. queue' = <<>> /\ retrying' = {} /\ UNCHANGED <<storage, owed, refused>>
    BY <1>6 DEF ForgetQueue
  <2>2. queue' \in Seq(Events) /\ Len(queue') = 0 /\ DOMAIN queue' = {}
    BY <2>1
  <2> QED
    BY <1>1, <2>1, <2>2, QueueAssumption DEF QueueTypeOK, Stored, Waiting, Distinct
<1>7. CASE UNCHANGED queueVars
  BY <1>1, <1>7 DEF queueVars, QueueTypeOK, Stored, Waiting, Distinct
<1> QED
  BY <1>3, <1>4, <1>5, <1>6, <1>7

-----------------------------------------------------------------------------
(* The compensations.                                                      *)

Labels == {"idle", "done", "panic", "dead"} \cup Running

\* TypeOK without the queue.
ManagerTypeOK ==
  /\ pc \in [Payments -> Labels]
  /\ todo \in [Payments -> Seq(SagaSteps)]
  /\ attempt \in [Payments -> 0..MaxRetries]
  /\ record \in [Payments -> {"none", "in_progress", "completed"}]
  /\ refunds \in [Payments -> Nat]
  /\ stored \in [Payments -> Nat]
  /\ published \in [Payments -> Nat]
  /\ failures \in [Payments -> Nat]

LEMMA TypeParts == TypeOK <=> QueueTypeOK /\ ManagerTypeOK
  BY DEF TypeOK, ManagerTypeOK, Labels

MInv == ManagerTypeOK /\ OneAhead /\ LookedAt

LEMMA InitMInv == Init => MInv
<1> SUFFICES ASSUME Init PROVE MInv
  OBVIOUS
<1>1. ManagerTypeOK
  BY CompensationAssumption DEF Init, None, ManagerTypeOK, Labels
<1>2. OneAhead
  BY DEF Init, None, OneAhead, Interrupted
<1>3. LookedAt
  <2>1. \A p \in Payments : Len(Completed[p]) \in Nat
    BY CompensationAssumption
  <2> QED
    BY <2>1 DEF Init, LookedAt
<1> QED
  BY <1>1, <1>2, <1>3 DEF MInv

\* The loop of the manager, and what is not a refund.
LEMMA LoopStep ==
  ASSUME MInv, NEW p \in Payments,
         Start(p) \/ NextStep(p) \/ CancelGatewayPayment(p) \/ SendNil(p)
  PROVE  MInv'
<1>1. ManagerTypeOK /\ OneAhead /\ LookedAt
  BY DEF MInv
<1>2. CASE Start(p)
  <2> USE <1>2 DEF Start, Goto, SetRecord, worldVars
  <2>1. ManagerTypeOK'
    BY <1>1 DEF ManagerTypeOK, Labels, Running
  <2>2. OneAhead'
    BY <1>1 DEF ManagerTypeOK, OneAhead, Interrupted
  <2>3. LookedAt'
    BY <1>1 DEF ManagerTypeOK, LookedAt
  <2> QED
    BY <2>1, <2>2, <2>3 DEF MInv
<1>3. CASE CancelGatewayPayment(p) \/ SendNil(p)
  <2> USE <1>3 DEF CancelGatewayPayment, SendNil, Goto, worldVars
  <2>1. ManagerTypeOK'
    BY <1>1 DEF ManagerTypeOK, Labels, Running
  <2>2. OneAhead'
    BY <1>1 DEF ManagerTypeOK, OneAhead, Interrupted
  <2>3. LookedAt'
    <3>1. /\ todo' = todo /\ record' = record /\ published' = published
          /\ \/ pc[p] = "cancel" /\ pc' = [pc EXCEPT ![p] = "next"]
             \/ pc[p] = "failed" /\ pc' = [pc EXCEPT ![p] = "panic"]
      OBVIOUS
    <3>2. /\ \A q \in Payments \ {p} : pc'[q] = pc[q]
          /\ \/ pc[p] = "cancel" /\ pc'[p] = "next"
             \/ pc[p] = "failed" /\ pc'[p] = "panic"
      BY <1>1, <3>1 DEF ManagerTypeOK
    <3> HIDE <1>3
    <3> QED
      BY <1>1, <3>1, <3>2 DEF LookedAt
  <2> QED
    BY <2>1, <2>2, <2>3 DEF MInv
<1>4. CASE NextStep(p)
  <2>1. /\ pc[p] = "next" /\ UNCHANGED worldVars
        /\ attempt' = [attempt EXCEPT ![p] = 0]
    BY <1>4 DEF NextStep
  <2>2. CASE todo[p] = <<>>
    <3>1. /\ record' = [record EXCEPT ![p] = "completed"]
          /\ pc' = [pc EXCEPT ![p] = "done"] /\ todo' = todo /\ Len(todo[p]) = 0
      BY <1>4, <2>2 DEF NextStep, Goto, SetRecord
    <3>2. ManagerTypeOK'
      BY <1>1, <2>1, <3>1, CompensationAssumption DEF ManagerTypeOK, Labels, worldVars
    <3>3. OneAhead'
      BY <1>1, <2>1, <3>1 DEF ManagerTypeOK, OneAhead, Interrupted, worldVars
    <3>4. LookedAt'
      BY <1>1, <2>1, <3>1 DEF ManagerTypeOK, LookedAt, worldVars
    <3> QED
      BY <3>2, <3>3, <3>4 DEF MInv
  <2>3. CASE todo[p] # <<>>
    <3> DEFINE n == Len(todo[p])
               step == Last(todo[p])
    <3>1. /\ record' = record
          /\ pc' = [pc EXCEPT ![p] = Action[step]]
          /\ todo' = [todo EXCEPT ![p] = Front(todo[p])]
      BY <1>4, <2>3 DEF NextStep, Goto
    <3>2. todo[p] \in Seq(SagaSteps) /\ n \in Nat /\ n > 0
      BY <1>1, <2>3 DEF ManagerTypeOK
    <3>3. /\ Front(todo[p]) \in Seq(SagaSteps)
          /\ Len(Front(todo[p])) = n - 1
          /\ \A i \in 1..(n - 1) : Front(todo[p])[i] = todo[p][i]
      BY <3>2 DEF Front
    <3>4. step = todo[p][n] /\ step \in SagaSteps
      BY <3>2 DEF Last
    <3>5. /\ Action[step] \in {"refund", "cancel", "next"}
          /\ Action[step] # "refund" => step # "funds_deducted"
      BY <3>4 DEF Action, SagaSteps
    <3>6. step = Completed[p][n] /\ n <= Len(Completed[p]) /\ Len(Completed[p]) \in Nat
      BY <1>1, <3>2, <3>4, CompensationAssumption DEF LookedAt
    <3> HIDE DEF n, step
    <3>7. ManagerTypeOK'
      BY <1>1, <2>1, <3>1, <3>3, <3>5, CompensationAssumption
         DEF ManagerTypeOK, Labels, Running, worldVars
    <3>8. OneAhead'
      BY <1>1, <2>1, <3>1, <3>5 DEF ManagerTypeOK, OneAhead, Interrupted, worldVars
    <3>9. LookedAt'
      <4>0. todo'[p] = Front(todo[p])
        BY <1>1, <3>1 DEF ManagerTypeOK
      <4>1. /\ Len(todo'[p]) <= Len(Completed[p])
            /\ \A i \in 1..Len(todo'[p]) : todo'[p][i] = Completed[p][i]
        <5>1. \A i \in 1..n : todo[p][i] = Completed[p][i]
          BY <1>1, Zenon DEF LookedAt, n
        <5>2. Len(todo'[p]) = n - 1 /\ n - 1 <= Len(Completed[p])
          BY <3>2, <3>3, <3>6, <4>0
        <5>3. \A i \in 1..(n - 1) : i \in 1..n
          BY <3>2
        <5> QED
          BY <3>3, <4>0, <5>1, <5>2, <5>3
      <4>2. pc'[p] \in {"idle", "next", "cancel", "done"} =>
              \A i \in 1..Len(Completed[p]) :
                i > Len(todo'[p]) /\ Completed[p][i] = "funds_deducted" => published'[p] > 0
        <5> SUFFICES ASSUME Action[step] # "refund", NEW i \in 1..Len(Completed[p]),
                            i > n - 1, Completed[p][i] = "funds_deducted"
                     PROVE  published[p] > 0
          BY <1>1, <2>1, <3>1, <3>3, <3>5 DEF ManagerTypeOK, worldVars
        <5>1. i # n
          BY <3>5, <3>6
        <5>2. i > n
          BY <3>2, <3>6, <5>1
        <5> QED
          BY <1>1, <2>1, <5>2 DEF LookedAt, n
      <4>3. record'[p] # "completed"
        BY <1>1, <2>1, <3>1 DEF LookedAt
      <4>4. \A q \in Payments : q # p =>
              /\ todo'[q] = todo[q] /\ pc'[q] = pc[q] /\ record'[q] = record[q]
              /\ published'[q] = published[q]
        BY <1>1, <2>1, <3>1 DEF ManagerTypeOK, worldVars
      <4> QED
        BY <1>1, <4>1, <4>2, <4>3, <4>4 DEF LookedAt
    <3> QED
      BY <3>7, <3>8, <3>9 DEF MInv
  <2> QED
    BY <2>2, <2>3
<1> QED
  BY <1>2, <1>3, <1>4

\* A failed attempt of p: what is retried and what is counted.
LEMMA FailedAttempt ==
  ASSUME ManagerTypeOK, NEW p \in Payments, AttemptFails(p)
  PROVE  /\ failures' = [failures EXCEPT ![p] = failures[p] + 1]
         /\ attempt' \in [Payments -> 0..MaxRetries]
         /\ pc' \in {[pc EXCEPT ![p] = "refund"], [pc EXCEPT ![p] = "failed"]}
<1>1. attempt \in [Payments -> 0..MaxRetries] /\ MaxRetries \in Nat
  BY CompensationAssumption DEF ManagerTypeOK
<1>2. attempt[p] < MaxRetries => attempt[p] + 1 \in 0..MaxRetries
  BY <1>1
<1> QED
  BY <1>1, <1>2 DEF AttemptFails, Count, Goto

\* The three calls of a refund, each of which counts for one of the three
\* parties if it takes effect.
LEMMA RefundStep ==
  ASSUME MInv, NEW p \in Payments, RefundFunds(p) \/ AppendEvent(p) \/ Publish(p)
  PROVE  MInv'
<1>1. ManagerTypeOK /\ OneAhead /\ LookedAt
  BY DEF MInv
<1>2. /\ refunds[p] \in Nat /\ stored[p] \in Nat /\ published[p] \in Nat
      /\ failures[p] \in Nat
  BY <1>1 DEF ManagerTypeOK
<1>3. todo' = todo /\ record' = record
  BY DEF RefundFunds, AppendEvent, Publish
<1> DEFINE More(f) == [f EXCEPT ![p] = f[p] + 1]
           Counts ==
             /\ refunds' \in {refunds, More(refunds)}
             /\ stored' \in {stored, More(stored)}
             /\ published' \in {published, More(published)}
             /\ failures' \in {failures, More(failures)}
             /\ attempt' \in [Payments -> 0..MaxRetries]
           Moves == \E label \in {"store", "publish", "next", "refund", "failed"} :
                      pc' = [pc EXCEPT ![p] = label]
           Balance ==
             /\ published'[p] <= stored'[p] /\ stored'[p] <= refunds'[p]
             /\ pc'[p] = "store" => stored'[p] < refunds'[p]
             /\ pc'[p] = "publish" => published'[p] < stored'[p]
             /\ refunds'[p] <= published'[p] + failures'[p] + Interrupted(p)'
             /\ pc'[p] = "next" => published'[p] > 0
<1>4. Counts /\ Moves /\ Balance
  <2>1. /\ published[p] <= stored[p] /\ stored[p] <= refunds[p]
        /\ pc[p] = "store" => stored[p] < refunds[p]
        /\ pc[p] = "publish" => published[p] < stored[p]
        /\ refunds[p] <= published[p] + failures[p] + Interrupted(p)
    BY <1>1 DEF OneAhead
  <2>2. CASE RefundFunds(p)
    <3>1. pc[p] = "refund" /\ stored' = stored /\ published' = published
      BY <2>2 DEF RefundFunds
    <3>2. CASE /\ refunds' = More(refunds) /\ pc' = [pc EXCEPT ![p] = "store"]
               /\ attempt' = attempt /\ failures' = failures
      BY <1>1, <1>2, <2>1, <3>1, <3>2 DEF ManagerTypeOK, Interrupted
    <3>3. CASE AttemptFails(p) /\ refunds' \in {refunds, More(refunds)}
      <4>1. /\ failures' = More(failures) /\ attempt' \in [Payments -> 0..MaxRetries]
            /\ pc' \in {[pc EXCEPT ![p] = "refund"], [pc EXCEPT ![p] = "failed"]}
        BY <1>1, <3>3, FailedAttempt
      <4>2. /\ pc'[p] \in {"refund", "failed"} /\ failures'[p] = failures[p] + 1
            /\ refunds'[p] \in {refunds[p], refunds[p] + 1}
        BY <1>1, <3>3, <4>1 DEF ManagerTypeOK
      <4>3. Interrupted(p) = 0 /\ Interrupted(p)' = 0
        BY <3>1, <4>2 DEF Interrupted
      <4>4. Balance
        BY <1>2, <2>1, <3>1, <4>2, <4>3
      <4>5. Counts
        BY <3>1, <3>3, <4>1
      <4>6. Moves
        BY <4>1
      <4> QED
        BY <4>4, <4>5, <4>6
    <3> QED
      BY <2>2, <3>2, <3>3 DEF RefundFunds, Count, Goto
  <2>3. CASE AppendEvent(p)
    <3>1. pc[p] = "store" /\ refunds' = refunds /\ published' = published
      BY <2>3 DEF AppendEvent
    <3>2. CASE /\ stored' = More(stored) /\ pc' = [pc EXCEPT ![p] = "publish"]
               /\ attempt' = attempt /\ failures' = failures
      BY <1>1, <1>2, <2>1, <3>1, <3>2 DEF ManagerTypeOK, Interrupted
    <3>3. CASE AttemptFails(p) /\ stored' \in {stored, More(stored)}
      <4>1. /\ failures' = More(failures) /\ attempt' \in [Payments -> 0..MaxRetries]
            /\ pc' \in {[pc EXCEPT ![p] = "refund"], [pc EXCEPT ![p] = "failed"]}
        BY <1>1, <3>3, FailedAttempt
      <4>2. /\ pc'[p] \in {"refund", "failed"} /\ failures'[p] = failures[p] + 1
            /\ stored'[p] \in {stored[p], stored[p] + 1}
        BY <1>1, <3>3, <4>1 DEF ManagerTypeOK
      <4>3. Interrupted(p) = 1 /\ Interrupted(p)' = 0
        BY <3>1, <4>2 DEF Interrupted
      <4>4. Balance
        BY <1>2, <2>1, <3>1, <4>2, <4>3
      <4>5. Counts
        BY <3>1, <3>3, <4>1
      <4>6. Moves
        BY <4>1
      <4> QED
        BY <4>4, <4>5, <4>6
    <3> QED
      BY <2>3, <3>2, <3>3 DEF AppendEvent, Count, Goto
  <2>4. CASE Publish(p)
    <3>1. pc[p] = "publish" /\ refunds' = refunds /\ stored' = stored
      BY <2>4 DEF Publish
    <3>2. CASE /\ published' = More(published) /\ pc' = [pc EXCEPT ![p] = "next"]
               /\ attempt' = attempt /\ failures' = failures
      BY <1>1, <1>2, <2>1, <3>1, <3>2 DEF ManagerTypeOK, Interrupted
    <3>3. CASE AttemptFails(p) /\ published' \in {published, More(published)}
      <4>1. /\ failures' = More(failures) /\ attempt' \in [Payments -> 0..MaxRetries]
            /\ pc' \in {[pc EXCEPT ![p] = "refund"], [pc EXCEPT ![p] = "failed"]}
        BY <1>1, <3>3, FailedAttempt
      <4>2. /\ pc'[p] \in {"refund", "failed"} /\ failures'[p] = failures[p] + 1
            /\ published'[p] \in {published[p], published[p] + 1}
        BY <1>1, <3>3, <4>1 DEF ManagerTypeOK
      <4>3. Interrupted(p) = 1 /\ Interrupted(p)' = 0
        BY <3>1, <4>2 DEF Interrupted
      <4>4. Balance
        BY <1>2, <2>1, <3>1, <4>2, <4>3
      <4>5. Counts
        BY <3>1, <3>3, <4>1
      <4>6. Moves
        BY <4>1
      <4> QED
        BY <4>4, <4>5, <4>6
    <3> QED
      BY <2>4, <3>2, <3>3 DEF Publish, Count, Goto
  <2> QED
    BY <2>2, <2>3, <2>4
<1>5. ManagerTypeOK'
  <2>1. \A f \in [Payments -> Nat] : More(f) \in [Payments -> Nat]
    OBVIOUS
  <2>2. /\ refunds' \in [Payments -> Nat] /\ stored' \in [Payments -> Nat]
        /\ published' \in [Payments -> Nat] /\ failures' \in [Payments -> Nat]
    <3> HIDE DEF More
    <3> QED
      BY <1>1, <1>4, <2>1 DEF ManagerTypeOK
  <2>3. pc' \in [Payments -> Labels]
    BY <1>1, <1>4 DEF ManagerTypeOK, Labels, Running
  <2> QED
    BY <1>1, <1>3, <1>4, <2>2, <2>3 DEF ManagerTypeOK
<1>6. \A q \in Payments : q # p =>
        /\ pc'[q] = pc[q] /\ refunds'[q] = refunds[q] /\ stored'[q] = stored[q]
        /\ published'[q] = published[q] /\ failures'[q] = failures[q]
  BY <1>1, <1>4 DEF ManagerTypeOK
<1>7. pc'[p] \in {"store", "publish", "next", "refund", "failed"} /\ Balance
  BY <1>1, <1>4 DEF ManagerTypeOK
<1> HIDE DEF More
<1>8. OneAhead'
  BY <1>1, <1>6, <1>7 DEF OneAhead, Interrupted
<1>9. LookedAt'
  <2>1. pc[p] \in {"refund", "store", "publish"}
    BY DEF RefundFunds, AppendEvent, Publish
  <2> QED
    BY <1>1, <1>3, <1>6, <1>7, <2>1 DEF LookedAt
<1> QED
  BY <1>5, <1>8, <1>9 DEF MInv

LEMMA RestartStep == ASSUME MInv, Restart PROVE MInv'
<1>1. ManagerTypeOK /\ OneAhead /\ LookedAt
  BY DEF MInv
<1>2. /\ pc' = [p \in Payments |-> IF pc[p] \in Running THEN "dead" ELSE pc[p]]
      /\ record' = [p \in Payments |-> "none"]
      /\ UNCHANGED <<todo, attempt, worldVars>>
  BY DEF Restart
<1>3. ManagerTypeOK'
  BY <1>1, <1>2 DEF ManagerTypeOK, Labels, Running, worldVars
<1>4. OneAhead'
  BY <1>1, <1>2 DEF ManagerTypeOK, OneAhead, Interrupted, Running, worldVars
<1>5. LookedAt'
  BY <1>1, <1>2 DEF ManagerTypeOK, LookedAt, Running, worldVars
<1> QED
  BY <1>3, <1>4, <1>5 DEF MInv

-----------------------------------------------------------------------------
(* The theorems.                                                           *)

LEMMA InitIInv == Init => IInv
<1> SUFFICES ASSUME Init PROVE IInv
  OBVIOUS
<1>1. /\ queue = <<>> /\ storage = {} /\ retrying = {} /\ owed = {} /\ refused = {}
  BY DEF Init, InitQueue
<1>2. queue \in Seq(Events) /\ Len(queue) = 0 /\ DOMAIN queue = {}
  BY <1>1
<1>3. QueueTypeOK /\ LettersAreKept
  BY <1>1, <1>2, QueueAssumption DEF QueueTypeOK, LettersAreKept
<1> QED
  BY <1>3, InitMInv, TypeParts DEF IInv, MInv

LEMMA StepIInv == IInv /\ [Next]_vars => IInv'
<1> SUFFICES ASSUME IInv, [Next]_vars PROVE IInv'
  OBVIOUS
<1>1. QueueTypeOK /\ LettersAreKept /\ MInv
  BY TypeParts DEF IInv, MInv
<1>2. (QueueTypeOK /\ LettersAreKept)'
  <2>1. \/ \E e \in Events : SendToDLQ(e) \/ StartRetry(e) \/ EndRetry(e)
        \/ ForgetQueue
        \/ UNCHANGED queueVars
    <3>1. ASSUME NEW p \in Payments, Compensate(p) PROVE UNCHANGED queueVars
      BY <3>1 DEF Compensate, Start, NextStep, CancelGatewayPayment, RefundFunds,
                  AppendEvent, Publish, SendNil
    <3>2. CASE Restart
      BY <3>2 DEF Restart
    <3>3. CASE UNCHANGED vars
      BY <3>3 DEF vars
    <3> QED
      BY <3>1, <3>2, <3>3 DEF Next
  <2> QED
    BY <1>1, <2>1, QueueStep
<1>3. MInv'
  <2>1. ASSUME NEW p \in Payments, Compensate(p) PROVE MInv'
    BY <1>1, <2>1, LoopStep, RefundStep DEF Compensate
  <2>2. CASE Restart
    BY <1>1, <2>2, RestartStep
  <2>3. CASE UNCHANGED <<managerVars, worldVars>>
    BY <1>1, <2>3 DEF MInv, ManagerTypeOK, OneAhead, LookedAt, Interrupted,
                      managerVars, worldVars
  <2>4. UNCHANGED vars => UNCHANGED <<managerVars, worldVars>>
    BY DEF vars
  <2> QED
    BY <2>1, <2>2, <2>3, <2>4 DEF Next
<1>4. TypeOK'
  BY <1>2, <1>3 DEF MInv, ManagerTypeOK, TypeOK, Labels
<1> QED
  BY <1>2, <1>3, <1>4 DEF IInv, MInv

\* What the wallet, the store and the bus know, and what the manager has looked
\* at, is linked throughout.
THEOREM CompensationInvariant == Spec => []IInv
  BY InitIInv, StepIInv, PTL DEF Spec

\* The state keeps its types: the queue stays in its bound, and no step is tried
\* more often than allowed.
THEOREM TypeCorrect == Spec => []TypeOK
<1>1. IInv => TypeOK
  BY DEF IInv
<1> QED
  BY <1>1, CompensationInvariant, PTL

\* SendToDLQ, RetryFromDLQ and a stop lose no letter whose sender was not told.
THEOREM LettersStayKept == Spec => []LettersAreKept
<1>1. IInv => LettersAreKept
  BY DEF IInv
<1> QED
  BY <1>1, CompensationInvariant, PTL

\* Whatever executeRefundFunds is retried or interrupted, the wallet, the event
\* store and the bus differ by failed calls alone, and a completed compensation
\* has paid and told.
THEOREM RefundsExplained == Spec => []RefundsAreExplained
<1>1. IInv => RefundsAreExplained
  <2> SUFFICES ASSUME IInv, NEW p \in Payments,
                      record[p] = "completed", MustRefund(p)
               PROVE  published[p] > 0
    BY DEF IInv, OneAhead, RefundsAreExplained
  <2>1. PICK i \in DOMAIN Completed[p] : Completed[p][i] = "funds_deducted"
    BY DEF MustRefund
  <2>2. Completed[p] \in Seq(SagaSteps)
    BY CompensationAssumption
  <2>3. i \in 1..Len(Completed[p])
    BY <2>2
  <2>4. pc[p] = "done" /\ Len(todo[p]) = 0
    BY DEF IInv, LookedAt
  <2> QED
    BY <2>1, <2>3, <2>4 DEF IInv, LookedAt
<1> QED
  BY <1>1, CompensationInvariant, PTL
=============================================================================
