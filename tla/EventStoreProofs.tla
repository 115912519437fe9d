--------------------------- MODULE EventStoreProofs ---------------------------
(***************************************************************************)
(* Proofs about the two users of the event store.                          *)
(*                                                                         *)
(* The repository of the aggregates, for any writers, snapshot frequency   *)
(* and batches: the stream of events stays in order, the expected version  *)
(* keeps updates from being lost by aggregates that serve one operation,   *)
(* and a load misses at most one event then.                               *)
(*                                                                         *)
(* The projectors of the read models, for any number of events, of starts, *)
(* of projectors at work at once and of failing calls, any capacity of the *)
(* channels and any maxRetries: which events they may lose, which they may *)
(* count twice and how often, and when the checkpoint goes forward.        *)
(***************************************************************************)
EXTENDS AggregateRepository, Projector, SequenceTheorems, FiniteSetTheorems, TLAPS

-----------------------------------------------------------------------------
(* The repository.                                                         *)

\* The balance b is that of version v or of the one before.
Claims(v, b) == \E u \in {v, v - 1} : u \in 0..CurrentVersion /\ b = BalanceAt(u)

\* An aggregate with changes was used, and then has counted past 0.
UsedAggregates ==
  \A w \in Writers :
    /\ pc[w] # "used" => pending[w] = <<>>
    /\ pc[w] \in {"used", "snapshot"} => version[w] > 0

\* What an aggregate that serves one operation has to save: one event, one
\* version behind what the aggregate claims.
OneOperation ==
  ~kept => \A w \in Writers : pending[w] # <<>> =>
    /\ Len(pending[w]) = 1
    /\ pending[w][1].version >= 1
    /\ version[w] = pending[w][1].version + 1
    /\ balance[w] = pending[w][1].data.after

\* Snapshots, and aggregates that were loaded or saved, are one event behind
\* their version at most.
ClaimsHold ==
  ~kept =>
    /\ Claims(snapshot.version, snapshot.balance)
    /\ \A w \in Writers : pc[w] \in {"loading", "loaded", "snapshot"} =>
         Claims(version[w], balance[w])

\* Without a snapshot, aggregates and the events they are to save start from
\* the state that their version names.
ExactWithoutSnapshot ==
  ~kept /\ snapshot = NoSnapshot =>
    \A w \in Writers :
      /\ pc[w] \in {"loading", "loaded"} =>
           version[w] <= Len(log) /\ balance[w] = BalanceAt(version[w])
      /\ pending[w] # <<>> =>
           /\ pending[w][1].version <= Len(log) + 1
           /\ pending[w][1].data.before = BalanceAt(pending[w][1].version - 1)

IInv ==
  /\ TypeOK
  /\ StreamInOrder
  /\ UsedAggregates
  /\ OneOperation
  /\ ClaimsHold
  /\ ExactWithoutSnapshot
  /\ NoLostUpdate

-----------------------------------------------------------------------------
(* What an append does.                                                    *)

Event == [seq : Nat, version : Nat, data : Change]

\* AppendEvents adds the batch behind the events there are, numbered from the
\* versions and the counter.
LEMMA Appended ==
  ASSUME log \in Seq(Event), counter \in Nat,
         NEW batch \in Seq(Uncommitted), AppendEvents(batch)
  PROVE  /\ log' \in Seq(Event)
         /\ counter' = counter + Len(batch)
         /\ Len(log') = Len(log) + Len(batch)
         /\ \A i \in 1..Len(log) : log'[i] = log[i]
         /\ \A i \in 1..Len(batch) :
              log'[Len(log) + i] = [seq |-> counter + i, version |-> Len(log) + i,
                                    data |-> batch[i].data]
<1> DEFINE added == [i \in DOMAIN batch |->
                       [seq |-> counter + i, version |-> CurrentVersion + i,
                        data |-> batch[i].data]]
<1>1. Len(log) \in Nat /\ Len(batch) \in Nat /\ DOMAIN batch = 1..Len(batch)
  OBVIOUS
<1>2. \A i \in DOMAIN batch : batch[i] \in Uncommitted
  OBVIOUS
<1>3. added \in [1..Len(batch) -> Event]
  BY <1>1, <1>2 DEF Event, Uncommitted, CurrentVersion
<1>4. added \in Seq(Event) /\ Len(added) = Len(batch)
  BY <1>1, <1>3
<1>5. log' = log \o added /\ counter' = counter + Len(batch)
  BY DEF AppendEvents
<1>6. \A i \in 1..Len(batch) :
        added[i] = [seq |-> counter + i, version |-> Len(log) + i,
                    data |-> batch[i].data]
  BY <1>1 DEF CurrentVersion
<1> HIDE DEF added
<1>7. /\ log \o added \in Seq(Event)
      /\ Len(log \o added) = Len(log) + Len(added)
      /\ \A i \in 1..(Len(log) + Len(added)) :
           (log \o added)[i] = IF i <= Len(log) THEN log[i]
                                                ELSE added[i - Len(log)]
  BY <1>4, ConcatProperties
<1> QED
  BY <1>1, <1>4, <1>5, <1>6, <1>7

\* A saved aggregate has appended what it had, and has nothing to save.
SaveAccepted(w) ==
  /\ pc[w] = "used" /\ pending[w] # <<>>
  /\ AppendEvents(pending[w])
  /\ pending' = [pending EXCEPT ![w] = <<>>]
  /\ Goto(w, IF ShouldCreateSnapshot(w) THEN "snapshot" ELSE "used")
  /\ UNCHANGED <<snapshot, version, balance, kept>>

\* A refused save takes sequence numbers and changes nothing else.
SaveRefused(w) ==
  /\ RefuseEvents(pending[w])
  /\ UNCHANGED <<pending, pc, snapshot, version, balance, kept>>

\* The two outcomes of Save.
LEMMA SaveOutcome ==
  ASSUME NEW w \in Writers, Save(w)
  PROVE  SaveAccepted(w) \/ SaveRefused(w)
BY DEF Save, SaveAccepted, SaveRefused

-----------------------------------------------------------------------------
(* Types.                                                                  *)

LEMMA TypeInitial == Init => TypeOK
<1> SUFFICES ASSUME Init PROVE TypeOK
  OBVIOUS
<1>1. log \in Seq(Event) /\ counter \in Nat
  BY DEF Init, InitStore
<1>2. pending \in [Writers -> Seq(Uncommitted)]
  BY DEF Init
<1>3. snapshot \in [version : Nat, balance : Nat]
  BY DEF Init, NoSnapshot
<1>4. /\ pc \in [Writers -> {"idle", "loading", "loaded", "used", "snapshot"}]
      /\ version \in [Writers -> Nat]
      /\ balance \in [Writers -> Nat]
      /\ kept \in BOOLEAN
  BY DEF Init
<1> QED
  BY <1>1, <1>2, <1>3, <1>4 DEF TypeOK, Event

\* Recording a change keeps the types when the new balance has its type.
LEMMA RecordTyped ==
  ASSUME TypeOK, NEW w \in Writers, NEW after \in Nat, Record(w, after)
  PROVE  TypeOK'
<1>1. /\ pending[w] \in Seq(Uncommitted)
      /\ version[w] \in Nat /\ balance[w] \in Nat
  BY DEF TypeOK
<1>2. [version |-> version[w] + 1,
       data |-> [before |-> balance[w], after |-> after]] \in Uncommitted
  BY <1>1 DEF Uncommitted, Change
<1>3. Append(pending[w], [version |-> version[w] + 1,
               data |-> [before |-> balance[w], after |-> after]])
        \in Seq(Uncommitted)
  BY <1>1, <1>2
<1>4. pending' \in [Writers -> Seq(Uncommitted)]
  BY <1>3 DEF Record, TypeOK
<1>5. kept' \in BOOLEAN
  BY DEF Record, TypeOK
<1>6. /\ pc' \in [Writers -> {"idle", "loading", "loaded", "used", "snapshot"}]
      /\ version' \in [Writers -> Nat]
      /\ balance' \in [Writers -> Nat]
  BY <1>1 DEF Record, Becomes, Goto, TypeOK
<1>7. log' = log /\ counter' = counter /\ snapshot' = snapshot
  BY DEF Record, storeVars
<1> QED
  BY <1>4, <1>5, <1>6, <1>7 DEF TypeOK

\* There are events to load if the store is ahead of the aggregate.
LEMMA EventsToLoad ==
  ASSUME TypeOK, NEW w \in Writers
  PROVE  GetEventsByAggregate(version[w] + 1) # {} <=> version[w] < CurrentVersion
<1>1. version[w] \in Nat /\ CurrentVersion \in Nat
  BY DEF TypeOK, CurrentVersion
<1>2. version[w] < CurrentVersion =>
        version[w] + 1 \in GetEventsByAggregate(version[w] + 1)
  BY <1>1 DEF GetEventsByAggregate
<1>3. ~(version[w] < CurrentVersion) =>
        \A i : i \notin GetEventsByAggregate(version[w] + 1)
  BY <1>1 DEF GetEventsByAggregate
<1> QED
  BY <1>2, <1>3

\* Every step keeps the types.
LEMMA TypeInductive == TypeOK /\ [Next]_vars => TypeOK'
<1> SUFFICES ASSUME TypeOK, [Next]_vars PROVE TypeOK'
  OBVIOUS
<1> DEFINE Labels == {"idle", "loading", "loaded", "used", "snapshot"}
<1>1. CASE UNCHANGED vars
  BY <1>1 DEF vars, storeVars, TypeOK
<1>2. ASSUME NEW w \in Writers, LoadSnapshot(w) PROVE TypeOK'
  <2>1. snapshot.version \in Nat /\ snapshot.balance \in Nat
    BY DEF TypeOK
  <2> QED
    BY <1>2, <2>1 DEF LoadSnapshot, Becomes, Goto, storeVars, TypeOK
<1>3. ASSUME NEW w \in Writers, LoadEvents(w) PROVE TypeOK'
  <2>1. CASE version[w] < CurrentVersion
    <3>1. log \in Seq(Event) /\ version[w] \in Nat
      BY DEF TypeOK, Event
    <3>2. Len(log) \in Nat /\ Len(log) \in 1..Len(log) /\ log[Len(log)] \in Event
      BY <2>1, <3>1 DEF CurrentVersion
    <3>3. BalanceAt(CurrentVersion) \in Nat /\ CurrentVersion \in Nat
      BY <3>2 DEF BalanceAt, CurrentVersion, Event, Change
    <3> QED
      BY <1>3, <2>1, <3>3, EventsToLoad DEF LoadEvents, Becomes, Goto, storeVars, TypeOK
  <2>2. CASE ~(version[w] < CurrentVersion)
    BY <1>3, <2>2, EventsToLoad DEF LoadEvents, Goto, storeVars, TypeOK
  <2> QED
    BY <2>1, <2>2
<1>4. ASSUME NEW w \in Writers, Discard(w) PROVE TypeOK'
  BY <1>4 DEF Discard, Becomes, Goto, storeVars, TypeOK
<1>5. ASSUME NEW w \in Writers, AddBalance(w) PROVE TypeOK'
  <2>1. balance[w] + 1 \in Nat
    BY DEF TypeOK
  <2> QED
    BY <1>5, <2>1, RecordTyped DEF AddBalance
<1>6. ASSUME NEW w \in Writers, DeductBalance(w) PROVE TypeOK'
  <2>1. balance[w] - 1 \in Nat
    BY <1>6 DEF DeductBalance, TypeOK
  <2> QED
    BY <1>6, <2>1, RecordTyped DEF DeductBalance
<1>7. ASSUME NEW w \in Writers, Save(w) PROVE TypeOK'
  <2>1. pending[w] \in Seq(Uncommitted) /\ Len(pending[w]) \in Nat
    BY DEF TypeOK
  <2>2. CASE SaveAccepted(w)
    <3>0. log \in Seq(Event) /\ counter \in Nat /\ AppendEvents(pending[w])
      BY <2>2 DEF SaveAccepted, TypeOK, Event
    <3>1. log' \in Seq(Event) /\ counter' \in Nat
      BY <2>1, <3>0, Appended
    <3>2. pc' \in [Writers -> Labels] /\ pending' \in [Writers -> Seq(Uncommitted)]
      BY <2>2 DEF SaveAccepted, Goto, TypeOK
    <3> QED
      BY <2>2, <3>1, <3>2 DEF SaveAccepted, TypeOK, Event
  <2>3. CASE SaveRefused(w)
    <3>1. log' = log
      BY <2>3 DEF SaveRefused, RefuseEvents
    <3>2. counter' \in Nat
      <4>1. PICK i \in DOMAIN pending[w] : counter' = counter + (i - 1)
        BY <2>3 DEF SaveRefused, RefuseEvents
      <4>2. i \in 1..Len(pending[w]) /\ counter \in Nat
        BY <2>1 DEF TypeOK
      <4> QED
        BY <2>1, <4>1, <4>2
    <3> QED
      BY <2>3, <3>1, <3>2 DEF SaveRefused, TypeOK
  <2> QED
    BY <1>7, <2>2, <2>3, SaveOutcome
<1>8. ASSUME NEW w \in Writers, CreateSnapshot(w) PROVE TypeOK'
  BY <1>8 DEF CreateSnapshot, SnapshotOf, Goto, storeVars, TypeOK
<1> QED
  BY <1>1, <1>2, <1>3, <1>4, <1>5, <1>6, <1>7, <1>8 DEF Next

\* The state of the repository keeps its types: no balance goes below zero and
\* no event is malformed.
THEOREM TypeCorrect == Spec => []TypeOK
BY TypeInitial, TypeInductive, PTL DEF Spec

-----------------------------------------------------------------------------
(* The stream.                                                             *)

\* Only Save touches the store.
LEMMA StoreUntouched ==
  ASSUME [Next]_vars, \A w \in Writers : ~Save(w)
  PROVE  UNCHANGED storeVars
BY DEF Next, vars, LoadSnapshot, LoadEvents, Discard, AddBalance, DeductBalance,
       Record, CreateSnapshot

LEMMA StreamInductive ==
  ASSUME TypeOK, StreamInOrder, [Next]_vars
  PROVE  StreamInOrder'
<1>1. CASE UNCHANGED storeVars
  BY <1>1 DEF storeVars, StreamInOrder
<1>2. ASSUME NEW w \in Writers, Save(w) PROVE StreamInOrder'
  <2>1. /\ pending[w] \in Seq(Uncommitted) /\ Len(pending[w]) \in Nat
        /\ log \in Seq(Event) /\ Len(log) \in Nat /\ counter \in Nat
    BY DEF TypeOK, Event
  <2>2. CASE SaveAccepted(w)
    <3>1. AppendEvents(pending[w])
      BY <2>2 DEF SaveAccepted
    <3> DEFINE n == Len(log)
               k == Len(pending[w])
    <3>2. /\ log' \in Seq(Event) /\ counter' = counter + k
          /\ Len(log') = n + k
          /\ \A i \in 1..n : log'[i] = log[i]
          /\ \A i \in 1..k :
               log'[n + i] = [seq |-> counter + i, version |-> n + i,
                              data |-> pending[w][i].data]
      BY <2>1, <3>1, Appended
    <3>3. DOMAIN log = 1..n /\ DOMAIN log' = 1..(n + k) /\ n \in Nat /\ k \in Nat
      BY <2>1, <3>2
    <3>4. \A i \in 1..n : log'[i].version = i /\ log'[i].seq <= counter
      <4>1. \A i \in DOMAIN log : log[i].version = i /\ log[i].seq <= counter
        BY DEF StreamInOrder
      <4> QED
        BY <3>2, <3>3, <4>1
    <3>5. \A i \in 1..(n + k) : i > n =>
            log'[i].version = i /\ log'[i].seq = counter + (i - n)
      <4> SUFFICES ASSUME NEW i \in 1..(n + k), i > n
                   PROVE  log'[i].version = i /\ log'[i].seq = counter + (i - n)
        OBVIOUS
      <4> HIDE DEF n, k
      <4>1. PICK j \in 1..k : i = n + j
        <5>1. i - n \in 1..k /\ i = n + (i - n)
          BY <3>3
        <5> QED
          BY <5>1
      <4>2. i - n = j
        BY <3>3, <4>1
      <4>3. log'[n + j] = [seq |-> counter + j, version |-> n + j,
                           data |-> pending[w][j].data]
        BY <3>2, <4>1
      <4>4. log'[i].version = n + j /\ log'[i].seq = counter + j
        BY <4>1, <4>3
      <4> QED
        BY <4>1, <4>2, <4>4
    <3>6. \A i \in 1..n : log[i].seq \in Nat
      <4>1. \A i \in 1..n : log[i] \in Event
        BY <2>1
      <4> QED
        BY <4>1 DEF Event
    <3>7. \A i \in 1..(n + k) : log'[i].version = i /\ log'[i].seq <= counter + k
      <4> HIDE DEF n, k
      <4>0. \A i \in 1..n : log'[i].seq \in Nat
        BY <3>2, <3>6
      <4> QED
        BY <2>1, <3>3, <3>4, <3>5, <4>0
    <3>8. \A i, j \in 1..(n + k) : i < j => log'[i].seq < log'[j].seq
      <4>a. \A i, j \in DOMAIN log : i < j => log[i].seq < log[j].seq
        BY DEF StreamInOrder
      <4>1. \A i, j \in 1..n : i < j => log'[i].seq < log'[j].seq
        BY <3>2, <3>3, <4>a
      <4>0. \A i \in 1..n : log'[i].seq \in Nat
        BY <3>2, <3>6
      <4> HIDE DEF n, k
      <4> SUFFICES ASSUME NEW i \in 1..(n + k), NEW j \in 1..(n + k), i < j
                   PROVE  log'[i].seq < log'[j].seq
        OBVIOUS
      <4>2. CASE j <= n
        <5>1. i \in 1..n /\ j \in 1..n
          BY <3>3, <4>2
        <5> QED
          BY <4>1, <5>1
      <4>3. CASE i <= n /\ j > n
        <5>1. i \in 1..n /\ log'[j].seq = counter + (j - n)
          BY <3>3, <3>5, <4>3
        <5>2. log'[i].seq <= counter /\ log'[i].seq \in Nat
          BY <3>4, <4>0, <5>1
        <5> QED
          BY <2>1, <3>3, <4>3, <5>1, <5>2
      <4>4. CASE i > n /\ j > n
        <5>1. log'[i].seq = counter + (i - n) /\ log'[j].seq = counter + (j - n)
          BY <3>5, <4>4
        <5> QED
          BY <2>1, <3>3, <5>1
      <4> QED
        BY <3>3, <4>2, <4>3, <4>4
    <3> QED
      BY <3>2, <3>3, <3>7, <3>8 DEF StreamInOrder
  <2>3. CASE SaveRefused(w)
    <3>1. PICK i \in DOMAIN pending[w] :
            counter' = counter + (i - 1) /\ log' = log
      BY <2>3 DEF SaveRefused, RefuseEvents
    <3>2. counter' >= counter /\ counter' \in Nat
      BY <2>1, <3>1
    <3>3. \A j \in DOMAIN log : log[j].seq \in Nat
      <4>1. \A j \in DOMAIN log : log[j] \in Event
        BY <2>1
      <4> QED
        BY <4>1 DEF Event
    <3>4. \A j \in DOMAIN log : log[j].version = j /\ log[j].seq <= counter'
      BY <2>1, <3>2, <3>3 DEF StreamInOrder
    <3> QED
      BY <3>1, <3>4 DEF StreamInOrder
  <2> QED
    BY <1>2, <2>2, <2>3, SaveOutcome
<1> QED
  BY <1>1, <1>2, StoreUntouched

\* Versions have no gap and sequence numbers grow, whatever batches the store
\* has refused.
THEOREM StreamIsOrdered == Spec => []StreamInOrder
<1>1. Init => StreamInOrder
  BY DEF Init, InitStore, StreamInOrder
<1>2. TypeOK /\ StreamInOrder /\ [Next]_vars => StreamInOrder'
  BY StreamInductive
<1> QED
  BY <1>1, <1>2, TypeCorrect, PTL DEF Spec

-----------------------------------------------------------------------------
(* The invariant of loading and saving.                                    *)

\* BalanceAt in the next state.
BalanceThen(u) == IF u = 0 THEN 0 ELSE log'[u].data.after

\* An append leaves the balances of the events there were.
LEMMA BalanceKept ==
  ASSUME log \in Seq(Event), counter \in Nat,
         NEW batch \in Seq(Uncommitted), AppendEvents(batch)
  PROVE  \A u \in 0..Len(log) : BalanceThen(u) = BalanceAt(u)
<1>1. \A i \in 1..Len(log) : log'[i] = log[i]
  BY Appended
<1>2. Len(log) \in Nat
  OBVIOUS
<1> QED
  BY <1>1, <1>2 DEF BalanceAt, BalanceThen

LEMMA InvInitial == Init => IInv
<1> SUFFICES ASSUME Init PROVE IInv
  OBVIOUS
<1>1. TypeOK
  BY TypeInitial
<1>2. log = <<>> /\ Len(log) = 0 /\ StreamInOrder /\ NoLostUpdate
  BY DEF Init, InitStore, StreamInOrder, NoLostUpdate
<1>3. UsedAggregates /\ OneOperation /\ ExactWithoutSnapshot
  BY DEF Init, UsedAggregates, OneOperation, ExactWithoutSnapshot
<1>4. Claims(0, 0)
  BY <1>2 DEF Claims, CurrentVersion, BalanceAt
<1>5. ClaimsHold
  BY <1>4 DEF ClaimsHold, Init, NoSnapshot
<1> QED
  BY <1>1, <1>2, <1>3, <1>5 DEF IInv

\* What a step of writer w leaves alone: the aggregates of the others.
OthersSame(w) ==
  \A x \in Writers \ {w} :
    /\ pc'[x] = pc[x] /\ version'[x] = version[x]
    /\ balance'[x] = balance[x] /\ pending'[x] = pending[x]

\* Loading, with or without a snapshot, keeps the invariant.
LEMMA LoadSnapshotKeeps ==
  ASSUME IInv, NEW w \in Writers, LoadSnapshot(w)
  PROVE  /\ UsedAggregates' /\ OneOperation' /\ ClaimsHold'
         /\ ExactWithoutSnapshot' /\ NoLostUpdate'
<1>1. /\ pc[w] = "idle" /\ pc'[w] = "loading"
      /\ version'[w] = snapshot.version /\ balance'[w] = snapshot.balance
      /\ log' = log /\ snapshot' = snapshot /\ pending' = pending /\ kept' = kept
      /\ OthersSame(w)
  BY DEF LoadSnapshot, Becomes, Goto, OthersSame, storeVars, IInv, TypeOK
<1>2. pending[w] = <<>>
  BY <1>1 DEF IInv, UsedAggregates
<1>3. UsedAggregates' /\ OneOperation'
  BY <1>1, <1>2 DEF IInv, UsedAggregates, OneOperation, OthersSame
<1>4. ClaimsHold'
  BY <1>1 DEF IInv, ClaimsHold, Claims, CurrentVersion, BalanceAt, OthersSame
<1>5. ExactWithoutSnapshot'
  <2>1. Len(log) \in Nat
    BY DEF IInv, TypeOK
  <2> QED
    BY <1>1, <1>2, <2>1 DEF IInv, ExactWithoutSnapshot, BalanceAt, OthersSame, NoSnapshot
<1>6. NoLostUpdate'
  BY <1>1 DEF IInv, NoLostUpdate, BalanceAt
<1> QED
  BY <1>3, <1>4, <1>5, <1>6

LEMMA LoadEventsKeeps ==
  ASSUME IInv, NEW w \in Writers, LoadEvents(w)
  PROVE  /\ UsedAggregates' /\ OneOperation' /\ ClaimsHold'
         /\ ExactWithoutSnapshot' /\ NoLostUpdate'
<1>1. /\ pc[w] = "loading" /\ pc'[w] = "loaded"
      /\ log' = log /\ snapshot' = snapshot /\ pending' = pending /\ kept' = kept
      /\ OthersSame(w)
  BY DEF LoadEvents, Becomes, Goto, OthersSame, storeVars, IInv, TypeOK
<1>2. \/ /\ version[w] < Len(log)
         /\ version'[w] = Len(log) /\ balance'[w] = BalanceAt(Len(log))
      \/ /\ ~(version[w] < Len(log))
         /\ version'[w] = version[w] /\ balance'[w] = balance[w]
  <2>1. TypeOK /\ CurrentVersion = Len(log)
    BY DEF IInv, CurrentVersion
  <2>2. GetEventsByAggregate(version[w] + 1) # {} <=> version[w] < Len(log)
    BY <2>1, EventsToLoad
  <2> QED
    BY <2>1, <2>2 DEF LoadEvents, Becomes, TypeOK
<1>3. pending[w] = <<>> /\ Len(log) \in Nat
  BY <1>1 DEF IInv, UsedAggregates, TypeOK
<1>4. UsedAggregates' /\ OneOperation'
  BY <1>1, <1>3 DEF IInv, UsedAggregates, OneOperation, OthersSame
<1>5. ClaimsHold'
  <2>1. ~kept => Claims(version'[w], balance'[w])
    <3>1. CASE version'[w] = Len(log) /\ balance'[w] = BalanceAt(Len(log))
      BY <1>3, <3>1 DEF Claims, CurrentVersion
    <3>2. CASE version'[w] = version[w] /\ balance'[w] = balance[w]
      BY <1>1, <3>2 DEF IInv, ClaimsHold
    <3> QED
      BY <1>2, <3>1, <3>2
  <2> QED
    BY <1>1, <2>1 DEF IInv, ClaimsHold, Claims, CurrentVersion, BalanceAt, OthersSame
<1>6. ExactWithoutSnapshot'
  <2>1. ~kept /\ snapshot = NoSnapshot =>
          version'[w] <= Len(log) /\ balance'[w] = BalanceAt(version'[w])
    BY <1>1, <1>2, <1>3 DEF IInv, ExactWithoutSnapshot
  <2> QED
    BY <1>1, <1>3, <2>1 DEF IInv, ExactWithoutSnapshot, BalanceAt, OthersSame
<1>7. NoLostUpdate'
  BY <1>1 DEF IInv, NoLostUpdate, BalanceAt
<1> QED
  BY <1>4, <1>5, <1>6, <1>7

LEMMA DiscardKeeps ==
  ASSUME IInv, NEW w \in Writers, Discard(w)
  PROVE  /\ UsedAggregates' /\ OneOperation' /\ ClaimsHold'
         /\ ExactWithoutSnapshot' /\ NoLostUpdate'
<1>1. /\ pc'[w] = "idle" /\ pending'[w] = <<>>
      /\ log' = log /\ snapshot' = snapshot /\ kept' = kept
      /\ OthersSame(w)
  BY DEF Discard, Becomes, Goto, OthersSame, storeVars, IInv, TypeOK
<1>2. UsedAggregates' /\ OneOperation'
  BY <1>1 DEF IInv, UsedAggregates, OneOperation, OthersSame
<1>3. ClaimsHold'
  BY <1>1 DEF IInv, ClaimsHold, Claims, CurrentVersion, BalanceAt, OthersSame
<1>4. ExactWithoutSnapshot'
  BY <1>1 DEF IInv, ExactWithoutSnapshot, BalanceAt, OthersSame
<1>5. NoLostUpdate'
  BY <1>1 DEF IInv, NoLostUpdate, BalanceAt
<1> QED
  BY <1>2, <1>3, <1>4, <1>5

\* AddBalance and DeductBalance: an aggregate that was loaded for the operation
\* has one event, which starts from what was loaded.
LEMMA RecordKeeps ==
  ASSUME IInv, NEW w \in Writers, NEW after \in Nat, Record(w, after)
  PROVE  /\ UsedAggregates' /\ OneOperation' /\ ClaimsHold'
         /\ ExactWithoutSnapshot' /\ NoLostUpdate'
<1> DEFINE r == [version |-> version[w] + 1,
                 data |-> [before |-> balance[w], after |-> after]]
<1>1. /\ pc[w] \in {"loaded", "used"} /\ pc'[w] = "used"
      /\ version'[w] = version[w] + 2 /\ balance'[w] = after
      /\ pending'[w] = Append(pending[w], r)
      /\ kept' = (kept \/ pc[w] = "used")
      /\ log' = log /\ snapshot' = snapshot
      /\ OthersSame(w)
  BY DEF Record, Becomes, Goto, OthersSame, storeVars, IInv, TypeOK
<1>2. /\ version[w] \in Nat /\ Len(log) \in Nat
      /\ r.version = version[w] + 1
      /\ r.data.before = balance[w] /\ r.data.after = after
  BY DEF IInv, TypeOK
<1> HIDE DEF r
<1>3. ~kept' => ~kept /\ pc[w] = "loaded" /\ pending[w] = <<>>
  BY <1>1 DEF IInv, UsedAggregates
<1>4. ~kept' => Len(pending'[w]) = 1 /\ pending'[w][1] = r
  BY <1>1, <1>3
<1>5. UsedAggregates'
  BY <1>1, <1>2 DEF IInv, UsedAggregates, OthersSame
<1>6. OneOperation'
  <2>1. ~kept' => /\ pending'[w][1].version >= 1
                  /\ version'[w] = pending'[w][1].version + 1
                  /\ balance'[w] = pending'[w][1].data.after
    BY <1>1, <1>2, <1>4
  <2> QED
    BY <1>1, <1>3, <1>4, <2>1 DEF IInv, OneOperation, OthersSame
<1>7. ClaimsHold'
  BY <1>1, <1>3 DEF IInv, ClaimsHold, Claims, CurrentVersion, BalanceAt, OthersSame
<1>8. ExactWithoutSnapshot'
  <2>1. ~kept' /\ snapshot = NoSnapshot =>
          version[w] <= Len(log) /\ balance[w] = BalanceAt(version[w])
    BY <1>3 DEF IInv, ExactWithoutSnapshot
  <2>2. ~kept' /\ snapshot = NoSnapshot =>
          /\ pending'[w][1].version <= Len(log) + 1
          /\ pending'[w][1].data.before = BalanceAt(pending'[w][1].version - 1)
    <3>1. r.version - 1 = version[w] /\ (version[w] <= Len(log) => r.version <= Len(log) + 1)
      BY <1>2
    <3> QED
      BY <1>2, <1>4, <2>1, <3>1
  <2> QED
    BY <1>1, <1>3, <2>2 DEF IInv, ExactWithoutSnapshot, BalanceAt, OthersSame
<1>9. NoLostUpdate'
  BY <1>1, <1>3 DEF IInv, NoLostUpdate, BalanceAt
<1> QED
  BY <1>5, <1>6, <1>7, <1>8, <1>9

LEMMA CreateSnapshotKeeps ==
  ASSUME IInv, NEW w \in Writers, CreateSnapshot(w)
  PROVE  /\ UsedAggregates' /\ OneOperation' /\ ClaimsHold'
         /\ ExactWithoutSnapshot' /\ NoLostUpdate'
<1>1. /\ pc[w] = "snapshot" /\ pc'[w] = "used"
      /\ log' = log /\ kept' = kept
      /\ version' = version /\ balance' = balance /\ pending' = pending
      /\ OthersSame(w)
  BY DEF CreateSnapshot, SnapshotOf, Goto, OthersSame, storeVars, IInv, TypeOK
<1>2. \/ snapshot' = [version |-> version[w], balance |-> balance[w]]
      \/ snapshot' = snapshot
  BY DEF CreateSnapshot, SnapshotOf
<1>3. version[w] > 0 /\ pending[w] = <<>> /\ version[w] \in Nat
  BY <1>1 DEF IInv, UsedAggregates, TypeOK
<1>4. snapshot' = NoSnapshot => snapshot = NoSnapshot
  BY <1>2, <1>3 DEF NoSnapshot
<1>5. UsedAggregates' /\ OneOperation'
  BY <1>1, <1>3 DEF IInv, UsedAggregates, OneOperation, OthersSame
<1>6. ClaimsHold'
  <2>1. ~kept => Claims(snapshot'.version, snapshot'.balance)
    <3>1. CASE snapshot' = snapshot
      BY <3>1 DEF IInv, ClaimsHold
    <3>2. CASE snapshot' = [version |-> version[w], balance |-> balance[w]]
      BY <1>1, <3>2 DEF IInv, ClaimsHold
    <3> QED
      BY <1>2, <3>1, <3>2
  <2> QED
    BY <1>1, <2>1 DEF IInv, ClaimsHold, Claims, CurrentVersion, BalanceAt, OthersSame
<1>7. ExactWithoutSnapshot' /\ NoLostUpdate'
  BY <1>1, <1>3, <1>4
     DEF IInv, ExactWithoutSnapshot, NoLostUpdate, BalanceAt, OthersSame
<1> QED
  BY <1>5, <1>6, <1>7

\* A save that is refused changes nothing the invariant speaks of.
LEMMA SaveRefusedKeeps ==
  ASSUME IInv, NEW w \in Writers, SaveRefused(w)
  PROVE  /\ UsedAggregates' /\ OneOperation' /\ ClaimsHold'
         /\ ExactWithoutSnapshot' /\ NoLostUpdate'
<1>1. UNCHANGED <<log, pending, pc, snapshot, version, balance, kept>>
  BY DEF SaveRefused, RefuseEvents
<1> QED
  BY <1>1 DEF IInv, UsedAggregates, OneOperation, ClaimsHold, Claims,
     CurrentVersion, BalanceAt, ExactWithoutSnapshot, NoLostUpdate

\* A save that is accepted: the expected version shows that the event starts
\* from the one that is the last.
LEMMA SaveAcceptedKeeps ==
  ASSUME IInv, NEW w \in Writers, SaveAccepted(w)
  PROVE  /\ UsedAggregates' /\ OneOperation' /\ ClaimsHold'
         /\ ExactWithoutSnapshot' /\ NoLostUpdate'
<1> DEFINE n == Len(log)
           p == pending[w][1]
<1>1. /\ pc[w] = "used" /\ pc'[w] \in {"used", "snapshot"}
      /\ pending[w] # <<>> /\ pending'[w] = <<>>
      /\ version' = version /\ balance' = balance
      /\ snapshot' = snapshot /\ kept' = kept
      /\ AppendEvents(pending[w])
      /\ OthersSame(w)
  BY DEF SaveAccepted, Goto, OthersSame, IInv, TypeOK
<1>2. /\ log \in Seq(Event) /\ counter \in Nat /\ n \in Nat
      /\ pending[w] \in Seq(Uncommitted) /\ version[w] \in Nat
  BY DEF IInv, TypeOK, Event
<1>3. /\ Len(log') = n + Len(pending[w])
      /\ \A i \in 1..n : log'[i] = log[i]
      /\ \A i \in 1..Len(pending[w]) :
           log'[n + i] = [seq |-> counter + i, version |-> n + i,
                          data |-> pending[w][i].data]
  BY <1>1, <1>2, Appended
<1>4. \A u \in 0..n : BalanceThen(u) = BalanceAt(u)
  BY <1>1, <1>2, BalanceKept
<1>5. ~kept => /\ Len(pending[w]) = 1 /\ p.version >= 1
               /\ version[w] = p.version + 1 /\ balance[w] = p.data.after
  BY <1>1 DEF IInv, OneOperation
<1>6. p \in Uncommitted
  BY <1>1, <1>2
<1>7. ~kept => p.version = n + 1
  <2>1. 1 \in DOMAIN pending[w]
    BY <1>1, <1>2
  <2>2. p.version \in {0, n + 1}
    BY <1>1, <2>1 DEF AppendEvents, Fits, CurrentVersion
  <2> QED
    BY <1>2, <1>5, <2>2
<1>8. ~kept => Len(log') = n + 1 /\ log'[n + 1].data = p.data
  <2> SUFFICES ASSUME ~kept PROVE Len(log') = n + 1 /\ log'[n + 1].data = p.data
    OBVIOUS
  <2>1. Len(pending[w]) = 1 /\ 1 \in 1..Len(pending[w])
    BY <1>5
  <2>2. log'[n + 1] = [seq |-> counter + 1, version |-> n + 1,
                       data |-> pending[w][1].data]
    BY <1>3, <2>1
  <2> QED
    BY <1>3, <2>1, <2>2
<1> HIDE DEF p
<1>9. UsedAggregates'
  BY <1>1 DEF IInv, UsedAggregates, OthersSame
<1>10. OneOperation'
  BY <1>1 DEF IInv, OneOperation, OthersSame
<1>11. ClaimsHold'
  <2> SUFFICES ASSUME ~kept' PROVE ClaimsHold'
    BY DEF ClaimsHold
  <2>1. ~kept /\ n + 1 \in 0..Len(log') /\ 0..n \subseteq 0..Len(log')
    BY <1>1, <1>2, <1>8
  <2>2. ASSUME NEW v, NEW b, Claims(v, b)
        PROVE  \E u \in {v, v - 1} : u \in 0..Len(log') /\ b = BalanceThen(u)
    BY <1>4, <2>1, <2>2 DEF Claims, CurrentVersion
  <2>3. version[w] - 1 = n + 1 /\ balance[w] = BalanceThen(n + 1)
    <3>1. n + 1 # 0 /\ log'[n + 1].data.after = p.data.after
      BY <1>2, <1>8, <2>1
    <3> QED
      BY <1>2, <1>5, <1>7, <2>1, <3>1 DEF BalanceThen
  <2>4. \E u \in {version[w], version[w] - 1} :
          u \in 0..Len(log') /\ balance[w] = BalanceThen(u)
    BY <2>1, <2>3
  <2>5. \E u \in {snapshot.version, snapshot.version - 1} :
          u \in 0..Len(log') /\ snapshot.balance = BalanceThen(u)
    BY <2>1, <2>2 DEF IInv, ClaimsHold
  <2>6. ASSUME NEW x \in Writers, pc'[x] \in {"loading", "loaded", "snapshot"}
        PROVE  \E u \in {version[x], version[x] - 1} :
                 u \in 0..Len(log') /\ balance[x] = BalanceThen(u)
    <3>1. CASE x = w
      BY <2>4, <3>1
    <3>2. CASE x # w
      BY <1>1, <2>1, <2>2, <2>6, <3>2 DEF IInv, ClaimsHold, OthersSame
    <3> QED
      BY <3>1, <3>2
  <2> QED
    BY <1>1, <2>5, <2>6 DEF ClaimsHold, Claims, CurrentVersion, BalanceAt, BalanceThen
<1>12. ExactWithoutSnapshot'
  <2> SUFFICES ASSUME ~kept', snapshot' = NoSnapshot, NEW x \in Writers
      PROVE  /\ pc'[x] \in {"loading", "loaded"} =>
                  version'[x] <= Len(log') /\ balance'[x] = BalanceThen(version'[x])
             /\ pending'[x] # <<>> =>
                  /\ pending'[x][1].version <= Len(log') + 1
                  /\ pending'[x][1].data.before = BalanceThen(pending'[x][1].version - 1)
    BY DEF ExactWithoutSnapshot, BalanceAt, BalanceThen
  <2>1. ~kept /\ snapshot = NoSnapshot /\ Len(log') = n + 1
    BY <1>1, <1>8
  <2>2. ASSUME x # w, pc[x] \in {"loading", "loaded"}
        PROVE  version[x] <= Len(log') /\ balance[x] = BalanceThen(version[x])
    <3>1. version[x] <= n /\ balance[x] = BalanceAt(version[x])
      BY <2>1, <2>2 DEF IInv, ExactWithoutSnapshot
    <3>2. version[x] \in 0..n
      BY <1>2, <3>1 DEF IInv, TypeOK
    <3> QED
      BY <1>2, <1>4, <2>1, <3>1, <3>2
  <2>3. ASSUME x # w, pending[x] # <<>>
        PROVE  /\ pending[x][1].version <= Len(log') + 1
               /\ pending[x][1].data.before = BalanceThen(pending[x][1].version - 1)
    <3>1. /\ pending[x][1].version <= n + 1 /\ pending[x][1].version >= 1
          /\ pending[x][1].data.before = BalanceAt(pending[x][1].version - 1)
      BY <2>1, <2>3 DEF IInv, ExactWithoutSnapshot, OneOperation
    <3>2. pending[x] \in Seq(Uncommitted)
      BY DEF IInv, TypeOK
    <3>3. pending[x][1] \in Uncommitted
      BY <2>3, <3>2
    <3>4. pending[x][1].version \in Nat
      BY <3>3 DEF Uncommitted
    <3>5. pending[x][1].version - 1 \in 0..n
      BY <1>2, <3>1, <3>4
    <3> QED
      BY <1>2, <1>4, <2>1, <3>1, <3>4, <3>5
  <2> QED
    BY <1>1, <2>2, <2>3 DEF OthersSame
<1>13. NoLostUpdate'
  <2> SUFFICES ASSUME ~kept', snapshot' = NoSnapshot, NEW i \in DOMAIN log'
               PROVE  log'[i].data.before = BalanceThen(i - 1)
    BY DEF NoLostUpdate, BalanceAt, BalanceThen
  <2>1. ~kept /\ snapshot = NoSnapshot /\ Len(log') = n + 1
    BY <1>1, <1>8
  <2>2. i \in 1..(n + 1)
    <3>1. log' \in Seq(Event)
      BY <1>1, <1>2, Appended
    <3> QED
      BY <2>1, <3>1
  <2>3. CASE i <= n
    <3>1. i \in 1..n /\ i - 1 \in 0..n /\ i \in DOMAIN log
      BY <1>2, <2>2, <2>3
    <3>2. log[i].data.before = BalanceAt(i - 1)
      BY <2>1, <3>1 DEF IInv, NoLostUpdate
    <3> QED
      BY <1>3, <1>4, <3>1, <3>2
  <2>4. CASE i = n + 1
    <3>1. p.data.before = BalanceAt(p.version - 1)
      BY <1>1, <2>1 DEF IInv, ExactWithoutSnapshot, p
    <3>2. p.version - 1 = n /\ i - 1 = n /\ n \in 0..n
      BY <1>2, <1>7, <2>1, <2>4
    <3> QED
      BY <1>4, <1>8, <2>1, <2>4, <3>1, <3>2
  <2> QED
    BY <1>2, <2>2, <2>3, <2>4
<1> QED
  BY <1>9, <1>10, <1>11, <1>12, <1>13

LEMMA InvInductive == IInv /\ [Next]_vars => IInv'
<1> SUFFICES ASSUME IInv, [Next]_vars PROVE IInv'
  OBVIOUS
<1>1. TypeOK' /\ StreamInOrder'
  BY TypeInductive, StreamInductive DEF IInv
<1> DEFINE Rest == /\ UsedAggregates /\ OneOperation /\ ClaimsHold
                   /\ ExactWithoutSnapshot /\ NoLostUpdate
<1>2. CASE UNCHANGED vars
  <2>1. UNCHANGED <<log, snapshot, pc, version, balance, pending, kept>>
    BY <1>2 DEF vars, storeVars
  <2>2. UsedAggregates' /\ OneOperation'
    BY <2>1 DEF IInv, UsedAggregates, OneOperation
  <2>3. ClaimsHold'
    BY <2>1 DEF IInv, ClaimsHold, Claims, CurrentVersion, BalanceAt
  <2>4. ExactWithoutSnapshot' /\ NoLostUpdate'
    BY <2>1 DEF IInv, ExactWithoutSnapshot, NoLostUpdate, BalanceAt
  <2> QED
    BY <1>1, <2>2, <2>3, <2>4 DEF IInv
<1>3. ASSUME NEW w \in Writers, LoadSnapshot(w) PROVE Rest'
  BY <1>3, LoadSnapshotKeeps
<1>4. ASSUME NEW w \in Writers, LoadEvents(w) PROVE Rest'
  BY <1>4, LoadEventsKeeps
<1>5. ASSUME NEW w \in Writers, Discard(w) PROVE Rest'
  BY <1>5, DiscardKeeps
<1>6. ASSUME NEW w \in Writers, AddBalance(w) PROVE Rest'
  <2>1. balance[w] + 1 \in Nat
    BY DEF IInv, TypeOK
  <2> QED
    BY <1>6, <2>1, RecordKeeps DEF AddBalance
<1>7. ASSUME NEW w \in Writers, DeductBalance(w) PROVE Rest'
  <2>1. balance[w] - 1 \in Nat
    BY <1>7 DEF DeductBalance, IInv, TypeOK
  <2> QED
    BY <1>7, <2>1, RecordKeeps DEF DeductBalance
<1>8. ASSUME NEW w \in Writers, Save(w) PROVE Rest'
  BY <1>8, SaveOutcome, SaveAcceptedKeeps, SaveRefusedKeeps
<1>9. ASSUME NEW w \in Writers, CreateSnapshot(w) PROVE Rest'
  BY <1>9, CreateSnapshotKeeps
<1>10. CASE Next
  <2>1. Rest'
    BY <1>3, <1>4, <1>5, <1>6, <1>7, <1>8, <1>9, <1>10 DEF Next
  <2> QED
    BY <1>1, <2>1 DEF IInv
<1> QED
  BY <1>2, <1>10

-----------------------------------------------------------------------------
(* The theorems.                                                           *)

\* The invariant holds in every state of the repository.
THEOREM RepositoryInvariant == Spec => []IInv
<1>1. Init => IInv
  BY InvInitial
<1>2. IInv /\ [Next]_vars => IInv'
  BY InvInductive
<1> QED
  BY <1>1, <1>2, PTL DEF Spec

\* Writers that load an aggregate for every operation lose no update, as long as
\* there is no snapshot: the expected version of Save is enough then.  Nothing is
\* said of runs in which a writer goes on with an aggregate that it has saved.
THEOREM NoUpdateIsLost == Spec => []NoLostUpdate
<1>1. IInv => NoLostUpdate
  BY DEF IInv
<1> QED
  BY <1>1, RepositoryInvariant, PTL

\* If every aggregate is loaded for each operation, and none is kept after a save,
\* a snapshot that races with appends costs a load one event at most.
THEOREM LoadsMissAtMostOne == Spec => []LoadMissesAtMostOne
<1>1. IInv => LoadMissesAtMostOne
  <2> SUFFICES ASSUME IInv, ~kept, NEW w \in Writers, pc[w] = "loaded"
               PROVE  \E v \in {version[w], version[w] - 1} :
                        v \in 0..CurrentVersion /\ balance[w] = BalanceAt(v)
    BY DEF LoadMissesAtMostOne
  <2> QED
    BY DEF IInv, ClaimsHold, Claims
<1> QED
  BY <1>1, RepositoryInvariant, PTL

-----------------------------------------------------------------------------
(* The projectors of the read models.                                      *)

Stored == [seq : Nat, version : Nat, data : {"wallet", "payment", "other"}]

\* The members of a queue.
Elements(q) == {q[i] : i \in 1..Len(q)}

\* The events before projector p: what GetEvents gave it, or the channel.
Waiting(p) == Elements(todo[p]) \cup Elements(channel[p])

InHand(p) == stage[p] \in Reading \cup Setting \cup {"summary", "checkpoint"}

\* Those and the one in hand.
Ahead(p) == IF InHand(p) THEN Waiting(p) \cup {event[p]} ELSE Waiting(p)

Increasing(q) == \A i, j \in 1..Len(q) : i < j => q[i] < q[j]

\* p has read a checkpoint and has not ended.
Busy(p) == stage[p] \notin {"new", "load", "stuck", "ended"}

\* p has counted e, or has gone past it.
Done(p, e) ==
  /\ from[p] < log[e].seq
  /\ \/ log[e].seq <= lastProcessed[p]
     \/ event[p] = e /\ stage[p] \in {"summary", "checkpoint"}

Doers(e) == {p \in Projectors : Done(p, e)}

\* Values that no other variable bears on.
ShapeInv ==
  /\ channel \in [Projectors -> Seq(Nat)]
  /\ subscription \in [Projectors -> {"none", "open", "closed"}]
  /\ stage \in [Projectors -> Stages]
  /\ todo \in [Projectors -> Seq(Nat)]
  /\ event \in [Projectors -> Nat]
  /\ attempt \in [Projectors -> 0..MaxRetries - 1]
  /\ copy \in [Projectors -> [Numbers -> Nat]]
  /\ lastProcessed \in [Projectors -> Nat]
  /\ from \in [Projectors -> Nat]
  /\ checkpoint \in 0..counter
  /\ counted \in [Numbers -> Nat]
  /\ starts \in Projectors /\ running \in BOOLEAN /\ faults \in 0..MaxFaults
  /\ unseen \subseteq Numbers /\ blind \subseteq Projectors
  /\ raced \subseteq Numbers

LogInv ==
  /\ log \in Seq(Stored) /\ Len(log) <= MaxLog
  /\ counter \in 0..MaxNumber
  /\ \A e \in 1..Len(log) : log[e].seq > 0 /\ log[e].seq <= counter
  /\ \A d, e \in 1..Len(log) : d < e => log[d].seq < log[e].seq

\* A projector handles the events in their order: the one in hand comes before
\* those that wait.
Queue(p) ==
  /\ Len(channel[p]) <= Capacity
  /\ Increasing(todo[p]) /\ Increasing(channel[p])
  /\ Waiting(p) \subseteq 1..Len(log)
  /\ IF Live(p) THEN todo[p] = <<>> ELSE channel[p] = <<>>
  /\ stage[p] \in {"new", "load", "catch_up", "next", "subscribe", "stuck"} => ~Live(p)
  /\ stage[p] \in {"new", "load", "catch_up", "subscribe"} => todo[p] = <<>>
  /\ stage[p] \in {"live", "ended"} => Live(p)
  /\ InHand(p) => event[p] \in 1..Len(log) /\ \A e \in Waiting(p) : event[p] < e
  /\ stage[p] \in {"balance", "set_balance", "summary"} => log[event[p]].data = "wallet"
  /\ stage[p] \in {"status", "set_status"} => log[event[p]].data = "payment"

StartsInv == \A p \in Projectors : p > starts => stage[p] = "new"

\* What is ahead has a number above lastProcessed, and that has not gone below
\* the checkpoint it began with.
Progress(p) ==
  /\ event[p] <= Len(log)
  /\ from[p] <= lastProcessed[p] /\ lastProcessed[p] <= counter
  /\ \A e \in Ahead(p) : lastProcessed[p] < log[e].seq
  /\ stage[p] \in {"new", "load"} =>
       lastProcessed[p] = 0 /\ event[p] = 0 /\ p \notin blind
  /\ stage[p] = "catch_up" => event[p] = 0 /\ from[p] = lastProcessed[p]

\* How often e may have been counted.
Allowed(e) == IF e <= Len(log) THEN Cardinality(Doers(e)) + faults ELSE 0

CountInv ==
  \A e \in Numbers :
    /\ counted[e] <= Allowed(e)
    /\ \A p \in Projectors : stage[p] \in Setting => copy[p][e] <= Allowed(e)

\* Of two projectors at work one is blind, and the checkpoint is behind one that
\* is not, or else a blind one has written it.
OverlapInv ==
  /\ \A p, q \in Projectors :
       p # q /\ Busy(p) /\ Busy(q) => p \in blind \/ q \in blind
  /\ \A p \in Projectors :
       Busy(p) /\ p \notin blind =>
         checkpoint <= lastProcessed[p] \/ \E b \in blind : from[b] < checkpoint

TwiceInv ==
  faults = 0 =>
    \A p \in Projectors, e \in 1..Len(log) : Done(p, e) =>
      /\ \/ log[e].seq <= checkpoint
         \/ BehindBlind(e)
         \/ event[p] = e /\ stage[p] \in {"summary", "checkpoint"}
      /\ \A q \in Projectors \ {p} :
           /\ Busy(q) /\ q \notin blind /\ from[q] < log[e].seq => BehindBlind(e)
           /\ Done(q, e) => BehindBlind(e)

\* A read model in hand differs from the one stored in whether e is counted.
Outdated(p, e) ==
  /\ stage[p] \in Setting /\ SameModel(e, event[p])
  /\ ~(counted[e] = 0 <=> copy[p][e] = 0)

FollowsCheckpoint(e) ==
  \E q \in Projectors : from[q] # 0 /\ log[e].seq = from[q] + 1

Known(e) ==
  \/ e \in unseen \cup raced
  \/ FollowsCheckpoint(e)
  \/ counted[e] # 0
  \/ log[e].data = "other"

\* Came after the channel was full, behind everything in it.
Late(p, e) ==
  /\ subscription[p] = "closed" /\ lastProcessed[p] < log[e].seq
  /\ \A d \in Ahead(p) : d < e

\* The event is in hand, or ahead, or lost in a known way, or was counted.
Placed(p, e) ==
  \/ stage[p] \in {"new", "load", "catch_up"}
  \/ stage[p] \in Reading \cup Setting /\ e = event[p]
  \/ e \in Waiting(p)
  \/ Late(p, e)
  \/ Known(e)

LossInv ==
  faults = 0 =>
    \A e \in 1..Len(log) :
      /\ log[e].seq <= checkpoint => Known(e)
      /\ \A p \in Projectors :
           /\ log[e].seq <= lastProcessed[p] => Known(e)
           /\ Placed(p, e)
           /\ Outdated(p, e) => e \in raced

LEMMA ElementsEmpty == Elements(<<>>) = {} /\ Increasing(<<>>)
  BY DEF Elements, Increasing

LEMMA ElementsAppend ==
  ASSUME NEW q \in Seq(Nat), NEW n \in Nat, Increasing(q),
         \A e \in Elements(q) : e < n
  PROVE  /\ Append(q, n) \in Seq(Nat) /\ Len(Append(q, n)) = Len(q) + 1
         /\ Increasing(Append(q, n))
         /\ Elements(Append(q, n)) = Elements(q) \cup {n}
  <1>1. /\ Append(q, n) \in Seq(Nat) /\ Len(Append(q, n)) = Len(q) + 1
        /\ \A i \in 1..Len(q) : Append(q, n)[i] = q[i]
        /\ Append(q, n)[Len(q) + 1] = n /\ Len(q) \in Nat
    OBVIOUS
  <1>2. \A i \in 1..(Len(q) + 1) : i \in 1..Len(q) \/ i = Len(q) + 1
    BY <1>1
  <1>3. \A i \in 1..Len(q) : i \in 1..(Len(q) + 1) /\ q[i] < n
    BY <1>1 DEF Elements
  <1>4. Increasing(Append(q, n))
    BY <1>1, <1>2, <1>3 DEF Increasing
  <1>5. Elements(Append(q, n)) = Elements(q) \cup {n}
    <2>1. Len(q) + 1 \in 1..(Len(q) + 1)
      BY <1>1
    <2>2. QED
      BY <1>1, <1>2, <1>3, <2>1 DEF Elements
  <1>6. QED
    BY <1>1, <1>4, <1>5

LEMMA ElementsTail ==
  ASSUME NEW q \in Seq(Nat), q # <<>>, Increasing(q)
  PROVE  /\ Tail(q) \in Seq(Nat) /\ Len(Tail(q)) <= Len(q)
         /\ Increasing(Tail(q))
         /\ Head(q) \in Elements(q) /\ Head(q) \in Nat
         /\ Elements(q) = Elements(Tail(q)) \cup {Head(q)}
         /\ \A e \in Elements(Tail(q)) : Head(q) < e
  <1>1. /\ Tail(q) \in Seq(Nat) /\ Len(Tail(q)) = Len(q) - 1
        /\ \A i \in 1..(Len(q) - 1) : Tail(q)[i] = q[i + 1]
        /\ Head(q) = q[1] /\ Len(q) \in Nat \ {0} /\ Head(q) \in Nat
    OBVIOUS
  <1>2. /\ \A i \in 1..(Len(q) - 1) : i + 1 \in 1..Len(q) /\ 1 < i + 1
        /\ \A i \in 1..Len(q) : i = 1 \/ (i - 1 \in 1..(Len(q) - 1) /\ (i - 1) + 1 = i)
        /\ 1 \in 1..Len(q)
    BY <1>1
  <1>3. Increasing(Tail(q))
    <2>1. SUFFICES ASSUME NEW i \in 1..(Len(q) - 1), NEW j \in 1..(Len(q) - 1), i < j
                   PROVE  Tail(q)[i] < Tail(q)[j]
      BY <1>1 DEF Increasing
    <2>2. i + 1 < j + 1
      BY <2>1
    <2>3. QED
      BY <1>1, <1>2, <2>2 DEF Increasing
  <1>4. Elements(q) = Elements(Tail(q)) \cup {Head(q)}
    <2>1. ASSUME NEW i \in 1..Len(q) PROVE q[i] \in Elements(Tail(q)) \cup {Head(q)}
      <3>1. CASE i = 1
        BY <1>1, <3>1
      <3>2. CASE i # 1
        <4>1. i - 1 \in 1..Len(Tail(q)) /\ Tail(q)[i - 1] = q[i]
          BY <1>1, <1>2, <3>2
        <4>2. QED
          BY <4>1 DEF Elements
      <3>3. QED
        BY <3>1, <3>2
    <2>2. ASSUME NEW i \in 1..Len(Tail(q)) PROVE Tail(q)[i] \in Elements(q)
      BY <1>1, <1>2 DEF Elements
    <2>3. Head(q) \in Elements(q)
      BY <1>1, <1>2 DEF Elements
    <2>4. QED
      BY <2>1, <2>2, <2>3 DEF Elements
  <1>5. \A e \in Elements(Tail(q)) : Head(q) < e
    <2>1. \A i \in 1..(Len(q) - 1) : q[1] < q[i + 1]
      BY <1>2 DEF Increasing
    <2>2. QED
      BY <1>1, <2>1 DEF Elements
  <1>6. QED
    BY <1>1, <1>3, <1>4, <1>5

\* A set of numbers has a smallest member.
LEMMA SmallestNumber ==
  ASSUME NEW C, C \subseteq Nat, C # {}
  PROVE  \E n \in C : \A m \in C : n <= m
  <1>1. PICK n \in C : \A m \in C : ~ (<<m, n>> \in OpToRel(<, Nat))
    BY NatLessThanWellFounded, WFMin, Zenon
  <1>2. ASSUME NEW m \in C, m < n
        PROVE  <<m, n>> \in OpToRel(<, Nat)
    <2>1. <<m, n>> \in Nat \X Nat
      OBVIOUS
    <2>2. <<m, n>>[1] < <<m, n>>[2]
      BY <1>2
    <2>3. QED
      BY <2>1, <2>2, Zenon DEF OpToRel
  <1>3. \A m \in C : ~ (m < n)
    BY <1>1, <1>2, Zenon
  <1>4. QED
    BY <1>3

\* The recursion of Matching, on the first n events of the log.
Matches(number, n, f) ==
  f = [m \in 0..n |->
         IF m = 0 THEN <<>>
         ELSE IF MatchesFilter(m, number) THEN Append(f[m - 1], m)
         ELSE f[m - 1]]

MatchesOf(number, n) == CHOOSE f : Matches(number, n, f)

LEMMA MatchesNone ==
  ASSUME NEW number, NEW n \in Nat, NEW f, Matches(number, n, f)
  PROVE  f[0] = <<>>
  BY DEF Matches

LEMMA MatchesUnfolded ==
  ASSUME NEW number, NEW n \in Nat, NEW f, Matches(number, n, f)
  PROVE  \A m \in 1..n :
           f[m] = IF MatchesFilter(m, number) THEN Append(f[m - 1], m) ELSE f[m - 1]
  <1>1. \A m \in 0..n : f[m] = IF m = 0 THEN <<>>
                               ELSE IF MatchesFilter(m, number)
                                      THEN Append(f[m - 1], m)
                               ELSE f[m - 1]
    BY Zenon DEF Matches
  <1>2. \A m \in 1..n : m \in 0..n /\ m # 0
    OBVIOUS
  <1>3. QED
    BY <1>1, <1>2, Zenon

\* The recursion defines a function.
LEMMA MatchesExist ==
  ASSUME NEW number, NEW n \in Nat
  PROVE  Matches(number, n, MatchesOf(number, n))
  <1> DEFINE C == {k \in Nat : ~ \E f : Matches(number, k, f)}
  <1>1. SUFFICES ASSUME C # {} PROVE FALSE
    BY DEF MatchesOf
  <1>2. PICK k \in C : \A m \in C : k <= m
    <2> HIDE DEF C
    <2>1. C \subseteq Nat
      BY DEF C
    <2>2. QED
      BY <1>1, <2>1, SmallestNumber
  <1>3. k # 0
    <2>1. Matches(number, 0, [m \in 0..0 |-> <<>>])
      BY DEF Matches
    <2>2. QED
      BY <1>2, <2>1
  <1>4. k - 1 \in Nat /\ k - 1 \notin C
    BY <1>2, <1>3
  <1>5. PICK g : Matches(number, k - 1, g)
    BY <1>4
  <1> DEFINE f == [m \in 0..k |->
                     IF m < k THEN g[m]
                     ELSE IF MatchesFilter(m, number) THEN Append(g[m - 1], m)
                     ELSE g[m - 1]]
  <1>6. \A m \in 0..k :
          f[m] = IF m = 0 THEN <<>>
                 ELSE IF MatchesFilter(m, number) THEN Append(f[m - 1], m)
                 ELSE f[m - 1]
    <2> SUFFICES ASSUME NEW m \in 0..k
                 PROVE  f[m] = IF m = 0 THEN <<>>
                               ELSE IF MatchesFilter(m, number)
                                      THEN Append(f[m - 1], m)
                               ELSE f[m - 1]
      OBVIOUS
    <2>1. m # 0 => m - 1 \in 0..k /\ m - 1 < k /\ f[m - 1] = g[m - 1]
      BY <1>4
    <2>2. CASE m < k
      <3>1. m \in 0..(k - 1) /\ f[m] = g[m]
        BY <1>4, <2>2
      <3>2. g[m] = IF m = 0 THEN <<>>
                   ELSE IF MatchesFilter(m, number) THEN Append(g[m - 1], m)
                   ELSE g[m - 1]
        BY <1>5, <3>1 DEF Matches
      <3> HIDE DEF f
      <3>3. QED
        BY <2>1, <3>1, <3>2
    <2>3. CASE m = k
      <3>1. f[m] = IF MatchesFilter(m, number) THEN Append(g[m - 1], m) ELSE g[m - 1]
        BY <1>3, <1>4, <2>3
      <3> HIDE DEF f
      <3>2. QED
        BY <1>3, <2>1, <2>3, <3>1
    <2>4. QED
      BY <1>4, <2>2, <2>3
  <1>7. f = [m \in 0..k |-> f[m]]
    OBVIOUS
  <1>8. Matches(number, k, f)
    <2> HIDE DEF f
    <2>1. QED
      BY <1>6, <1>7 DEF Matches
  <1>9. QED
    BY <1>2, <1>8

\* GetEvents gives the events that match, in their order.
LEMMA MatchingEvents ==
  ASSUME NEW number, Len(log) \in Nat
  PROVE  /\ Matching(number) \in Seq(Nat)
         /\ Increasing(Matching(number))
         /\ Elements(Matching(number)) =
              {e \in 1..Len(log) : MatchesFilter(e, number)}
  <1> DEFINE Good(q, m) == /\ q \in Seq(Nat) /\ Increasing(q)
                           /\ Elements(q) = {e \in 1..m : MatchesFilter(e, number)}
             f == MatchesOf(number, Len(log))
             C == {m \in 0..Len(log) : ~Good(f[m], m)}
  <1>1. Matches(number, Len(log), f)
    BY MatchesExist
  <1>2. Matching(number) = f[Len(log)]
    BY DEF Matching, MatchesOf, Matches
  <1> HIDE DEF f
  <1>3. SUFFICES ASSUME C # {} PROVE FALSE
    <2>1. C = {} => Good(f[Len(log)], Len(log))
      OBVIOUS
    <2>2. QED
      BY <1>2, <2>1
  <1>4. PICK m \in C : \A l \in C : m <= l
    <2> HIDE DEF C
    <2>1. C \subseteq Nat
      BY DEF C
    <2>2. QED
      BY <1>3, <2>1, SmallestNumber
  <1>5. m # 0
    <2>1. f[0] = <<>>
      BY <1>1, MatchesNone
    <2>2. Good(<<>>, 0)
      BY ElementsEmpty
    <2>3. QED
      BY <1>4, <2>1, <2>2
  <1>6. m \in 1..Len(log) /\ m - 1 \in 0..Len(log) /\ m - 1 \in Nat /\ ~(m <= m - 1)
    BY <1>4, <1>5
  <1>7. Good(f[m - 1], m - 1)
    <2>1. m - 1 \notin C
      BY <1>4, <1>6
    <2>2. QED
      BY <1>6, <2>1
  <1>8. f[m] = IF MatchesFilter(m, number) THEN Append(f[m - 1], m) ELSE f[m - 1]
    BY <1>1, <1>6, MatchesUnfolded
  <1>9. \A e \in 1..m : e \in 1..(m - 1) \/ e = m
    BY <1>6
  <1>10. CASE MatchesFilter(m, number)
    <2>1. \A e \in Elements(f[m - 1]) : e < m
      BY <1>6, <1>7
    <2>2. Good(Append(f[m - 1], m), m)
      <3>1. /\ Append(f[m - 1], m) \in Seq(Nat) /\ Increasing(Append(f[m - 1], m))
            /\ Elements(Append(f[m - 1], m)) = Elements(f[m - 1]) \cup {m}
        BY <1>6, <1>7, <2>1, ElementsAppend
      <3>2. {e \in 1..m : MatchesFilter(e, number)}
              = {e \in 1..(m - 1) : MatchesFilter(e, number)} \cup {m}
        BY <1>6, <1>9, <1>10
      <3>3. QED
        BY <1>7, <3>1, <3>2
    <2>3. QED
      BY <1>4, <1>8, <1>10, <2>2
  <1>11. CASE ~MatchesFilter(m, number)
    <2>1. {e \in 1..m : MatchesFilter(e, number)}
            = {e \in 1..(m - 1) : MatchesFilter(e, number)}
      BY <1>6, <1>9, <1>11
    <2>2. QED
      BY <1>4, <1>7, <1>8, <1>11, <2>1
  <1>12. QED
    BY <1>10, <1>11

ProjectorInv ==
  /\ ShapeInv /\ LogInv /\ StartsInv /\ CountInv /\ OverlapInv /\ TwiceInv /\ LossInv
  /\ \A p \in Projectors : Queue(p) /\ Progress(p)

-----------------------------------------------------------------------------
(* What the steps do, projector by projector.                              *)

Same(q) ==
  /\ channel'[q] = channel[q] /\ subscription'[q] = subscription[q]
  /\ stage'[q] = stage[q] /\ todo'[q] = todo[q]
  /\ event'[q] = event[q] /\ attempt'[q] = attempt[q] /\ copy'[q] = copy[q]
  /\ lastProcessed'[q] = lastProcessed[q] /\ from'[q] = from[q]

\* Only p moves.
Frame(p) ==
  /\ \A q \in Projectors : q # p => Same(q)
  /\ UNCHANGED <<log, counter, starts, running, unseen>>

\* AppendEvent adds an event at the end, with the next number.
LEMMA EventAppended ==
  ASSUME LogInv, AppendEvent
  PROVE  /\ Len(log) \in Nat /\ Len(log) + 1 <= MaxLog
         /\ Len(log') = Len(log) + 1 /\ log' \in Seq(Stored)
         /\ counter' = counter + 1 /\ counter + 1 <= MaxNumber
         /\ \A e \in 1..Len(log) : log'[e] = log[e]
         /\ log'[Len(log) + 1].seq = counter + 1
         /\ Notify(Len(log) + 1)
         /\ unseen' = IF \E p \in Projectors : Deaf(p)
                        THEN unseen \cup {Len(log) + 1} ELSE unseen
         /\ UNCHANGED <<stage, todo, event, attempt, copy, lastProcessed,
                        checkpoint, counted, starts, running, faults, from, blind,
                        raced>>
  <1>1. PICK type \in Kinds[Len(log) + 1] :
          AppendEvents(<<[version |-> 0, data |-> type]>>)
    BY DEF AppendEvent
  <1> DEFINE new == [seq |-> counter + 1, version |-> CurrentVersion + 1, data |-> type]
  <1>2. log \in Seq(Stored) /\ counter \in Nat /\ Len(log) \in Nat
    BY DEF LogInv
  <1>3. log' = log \o <<new>> /\ counter' = counter + 1
    BY <1>1 DEF AppendEvents
  <1>4. Len(log) < MaxLog /\ counter < MaxNumber
    BY DEF AppendEvent
  <1>5. Len(log) + 1 <= MaxLog /\ counter + 1 <= MaxNumber /\ Len(log) + 1 \in 1..MaxLog
    BY <1>2, <1>4, ProjectorAssumption
  <1>6. type \in {"wallet", "payment", "other"}
    BY <1>5, ProjectorAssumption
  <1>7. new \in Stored /\ new.seq = counter + 1
    BY <1>2, <1>6 DEF Stored, CurrentVersion
  <1> HIDE DEF new
  <1>8. /\ Len(log') = Len(log) + 1 /\ log' \in Seq(Stored)
        /\ \A e \in 1..Len(log) : log'[e] = log[e]
        /\ log'[Len(log) + 1] = new
    BY <1>2, <1>3, <1>7
  <1>9. /\ Notify(Len(log) + 1)
        /\ unseen' = IF \E p \in Projectors : Deaf(p)
                       THEN unseen \cup {Len(log) + 1} ELSE unseen
        /\ UNCHANGED <<stage, todo, event, attempt, copy, lastProcessed,
                       checkpoint, counted, starts, running, faults, from, blind,
                       raced>>
    BY DEF AppendEvent, modelVars, handlerVars, startVars
  <1>10. QED
    BY <1>2, <1>3, <1>5, <1>7, <1>8, <1>9

\* A refused batch takes numbers and changes nothing else.
LEMMA BatchRefused ==
  ASSUME LogInv, RefusedBatch
  PROVE  /\ counter' \in {counter, counter + 1} /\ counter' <= MaxNumber
         /\ counter' \in Nat
         /\ UNCHANGED <<log, channel, subscription, stage, todo, event, attempt, copy,
                        lastProcessed, checkpoint, counted, starts, running, faults,
                        unseen, from, blind, raced>>
  <1> DEFINE batch == <<[version |-> 0, data |-> "wallet"],
                        [version |-> CurrentVersion + 1, data |-> "wallet"]>>
  <1>1. PICK i \in DOMAIN batch : counter' = counter + (i - 1) /\ UNCHANGED log
    BY DEF RefusedBatch, RefuseEvents
  <1>2. i \in {1, 2}
    OBVIOUS
  <1>3. counter \in Nat /\ counter < MaxNumber /\ MaxNumber \in Nat
    BY ProjectorAssumption DEF LogInv, RefusedBatch
  <1>4. QED
    BY <1>1, <1>2, <1>3
       DEF RefusedBatch, queueVars, handlerVars, modelVars, startVars, ghostVars

LEMMA FirstStepOf ==
  ASSUME LogInv, NEW e \in 1..Len(log)
  PROVE  /\ \/ log[e].data = "wallet" /\ FirstStep(e) = "balance"
            \/ log[e].data = "payment" /\ FirstStep(e) = "status"
            \/ log[e].data = "other" /\ FirstStep(e) = "checkpoint"
         /\ log[e].seq \in Nat
  <1>1. log[e] \in Stored
    BY DEF LogInv
  <1>2. /\ log[e].data \in {"wallet", "payment", "other"}
        /\ log[e].seq \in Nat
    BY <1>1 DEF Stored
  <1>3. QED
    BY <1>2 DEF FirstStep

LEMMA LogStep ==
  ASSUME LogInv, [NextProjector]_projectorVars
  PROVE  LogInv'
  <1>0. Len(log) \in Nat /\ counter \in Nat /\ MaxNumber \in Nat /\ MaxLog \in Nat
    BY ProjectorAssumption DEF LogInv
  <1>1. CASE AppendEvent
    <2>1. /\ Len(log') = Len(log) + 1 /\ log' \in Seq(Stored)
          /\ Len(log) + 1 <= MaxLog
          /\ counter' = counter + 1 /\ counter + 1 <= MaxNumber
          /\ \A e \in 1..Len(log) : log'[e] = log[e]
          /\ log'[Len(log) + 1].seq = counter + 1
      BY <1>1, EventAppended
    <2>2. \A e \in 1..Len(log') : e \in 1..Len(log) \/ e = Len(log) + 1
      BY <1>0, <2>1
    <2>3. \A e \in 1..Len(log) : /\ log[e].seq \in Nat /\ log[e].seq > 0
                                /\ log[e].seq <= counter /\ e < Len(log) + 1
      BY <1>0, FirstStepOf DEF LogInv
    <2>4. \A e \in 1..Len(log') : log'[e].seq > 0 /\ log'[e].seq <= counter'
      BY <1>0, <2>1, <2>2, <2>3
    <2>5. ASSUME NEW d \in 1..Len(log'), NEW e \in 1..Len(log'), d < e
          PROVE  log'[d].seq < log'[e].seq
      <3>1. d \in 1..Len(log)
        BY <1>0, <2>1, <2>5
      <3>2. CASE e \in 1..Len(log)
        BY <2>1, <2>5, <3>1, <3>2 DEF LogInv
      <3>3. CASE e = Len(log) + 1
        BY <1>0, <2>1, <2>3, <3>1, <3>3
      <3>4. QED
        BY <2>2, <3>2, <3>3
    <2>6. counter' \in 0..MaxNumber
      BY <1>0, <2>1
    <2>7. QED
      BY <2>1, <2>4, <2>5, <2>6 DEF LogInv
  <1>2. CASE RefusedBatch
    <2>1. /\ counter' \in Nat /\ counter' <= MaxNumber /\ counter <= counter'
          /\ UNCHANGED log
      BY <1>0, <1>2, BatchRefused
    <2>2. \A e \in 1..Len(log) : log[e].seq \in Nat
      BY FirstStepOf
    <2>3. QED
      BY <1>0, <2>1, <2>2 DEF LogInv
  <1>3. CASE UNCHANGED storeVars
    BY <1>3 DEF LogInv, storeVars
  <1>4. QED
    BY <1>1, <1>2, <1>3 DEF NextProjector, Step, Stop, StartNew, LoadCheckpoint,
         GetEvents, NextEvent, Subscribe, Receive, End, GetModel, SetModel,
         SetSummary, UpdateCheckpoint, projectorVars, storeVars

\* LoadCheckpoint.
Loads(p) ==
  /\ Frame(p)
  /\ stage[p] = "load" /\ stage'[p] = "catch_up"
  /\ \/ lastProcessed'[p] = checkpoint /\ UNCHANGED faults
     \/ lastProcessed'[p] = 0 /\ faults' = faults + 1 /\ p \in blind'
  /\ from'[p] = lastProcessed'[p]
  /\ blind' \in {blind, blind \cup {p}}
  /\ (\E q \in Projectors : q # p /\ AtWork(q)) => p \in blind'
  /\ channel'[p] = channel[p] /\ subscription'[p] = subscription[p]
  /\ todo'[p] = todo[p] /\ event'[p] = event[p] /\ copy'[p] = copy[p]
  /\ UNCHANGED <<checkpoint, counted, raced>>

\* The steps but LoadCheckpoint, UpdateCheckpoint and those of the handler.
Fetches(p) ==
  /\ Frame(p)
  /\ UNCHANGED <<checkpoint, counted, faults, blind, raced>>
  /\ attempt'[p] = attempt[p] /\ copy'[p] = copy[p]
  /\ lastProcessed'[p] = lastProcessed[p] /\ from'[p] = from[p]

\* GetEvents.
Lists(p) ==
  /\ Fetches(p)
  /\ stage[p] = "catch_up" /\ stage'[p] = "next"
  /\ todo'[p] = Matching(FromSequence(p))
  /\ channel'[p] = channel[p] /\ subscription'[p] = subscription[p]
  /\ event'[p] = event[p]

\* NextEvent and Receive take the first of the events before p.
Takes(p) ==
  /\ Fetches(p)
  /\ stage[p] \in {"next", "live"}
  /\ event'[p] \in Waiting(p)
  /\ Waiting(p) = Waiting(p)' \cup {event'[p]}
  /\ \A e \in Waiting(p)' : event'[p] < e
  /\ stage'[p] = FirstStep(event'[p])
  /\ Increasing(todo'[p]) /\ Increasing(channel'[p])
  /\ Len(channel'[p]) <= Capacity
  /\ IF Live(p) THEN todo'[p] = todo[p] ELSE channel'[p] = channel[p]
  /\ subscription'[p] = subscription[p]

\* NextEvent at the end of the list, Subscribe and End.
Passes(p) ==
  /\ Fetches(p)
  /\ channel'[p] = channel[p] /\ todo'[p] = todo[p] /\ event'[p] = event[p]
  /\ \/ /\ stage[p] = "next" /\ stage'[p] = "subscribe" /\ todo[p] = <<>>
        /\ subscription'[p] = subscription[p]
     \/ /\ stage[p] = "subscribe" /\ stage'[p] = "live"
        /\ subscription'[p] = "open"
     \/ /\ stage[p] = "live" /\ stage'[p] = "ended"
        /\ subscription'[p] = subscription[p]

\* The steps of the handler.
Handles(p) ==
  /\ Frame(p)
  /\ UNCHANGED <<checkpoint, blind>>
  /\ channel'[p] = channel[p] /\ subscription'[p] = subscription[p]
  /\ todo'[p] = todo[p] /\ event'[p] = event[p]
  /\ lastProcessed'[p] = lastProcessed[p] /\ from'[p] = from[p]

\* GetModel.
Reads(p) ==
  /\ Handles(p) /\ UNCHANGED <<counted, raced>>
  /\ \/ stage[p] = "balance" /\ stage'[p] = "set_balance"
     \/ stage[p] = "status" /\ stage'[p] = "set_status"
  /\ \/ UNCHANGED faults /\ \A e \in Numbers :
          copy'[p][e] = IF SameModel(e, event[p]) THEN counted[e] ELSE 0
     \/ faults' = faults + 1 /\ \A e \in Numbers : copy'[p][e] = 0

\* SetModel.
Writes(p) ==
  /\ Handles(p) /\ UNCHANGED faults
  /\ \/ stage[p] = "set_balance" /\ stage'[p] = "summary"
     \/ stage[p] = "set_status" /\ stage'[p] = "checkpoint"
  /\ \A e \in Numbers :
       counted'[e] = IF e = event[p] THEN copy[p][e] + 1
                     ELSE IF SameModel(e, event[p]) THEN copy[p][e]
                     ELSE counted[e]
  /\ raced' = IF InUse(p, event[p]) THEN raced \cup {event[p]} ELSE raced

\* updateWalletSummary.
Sums(p) ==
  /\ Handles(p) /\ UNCHANGED <<counted, raced, faults>>
  /\ stage[p] = "summary" /\ stage'[p] = "checkpoint"

\* SetModel or updateWalletSummary gives an error.
Errs(p) ==
  /\ Handles(p) /\ UNCHANGED <<counted, raced>>
  /\ stage[p] \in Setting \cup {"summary"}
  /\ stage'[p] \in {FirstStep(event[p]), IF Live(p) THEN "live" ELSE "stuck"}
  /\ faults' = faults + 1

\* UpdateCheckpoint.
Marks(p) ==
  /\ Frame(p)
  /\ UNCHANGED <<counted, blind, raced>>
  /\ channel'[p] = channel[p] /\ subscription'[p] = subscription[p]
  /\ todo'[p] = todo[p] /\ event'[p] = event[p] /\ from'[p] = from[p]
  /\ stage[p] = "checkpoint"
  /\ lastProcessed'[p] = log[event[p]].seq
  /\ \/ /\ checkpoint' = log[event[p]].seq /\ UNCHANGED faults
        /\ stage'[p] = IF Live(p) THEN "live" ELSE "next"
     \/ /\ UNCHANGED checkpoint /\ faults' = faults + 1
        /\ stage'[p] = IF Live(p) THEN "live" ELSE "stuck"

LEMMA LoadEffect ==
  ASSUME ShapeInv, NEW p \in Projectors, LoadCheckpoint(p)
  PROVE  Loads(p)
  BY DEF ShapeInv, LoadCheckpoint, MoveTo, CallFails, Loads, Frame, Same, storeVars,
         queueVars, handlerVars, modelVars, startVars

LEMMA ListEffect ==
  ASSUME ShapeInv, NEW p \in Projectors, GetEvents(p)
  PROVE  Lists(p)
  BY DEF ShapeInv, GetEvents, MoveTo, Lists, Fetches, Frame, Same, storeVars,
         handlerVars, modelVars, startVars, ghostVars

LEMMA PassEffect ==
  ASSUME ShapeInv, NEW p \in Projectors,
         (NextEvent(p) /\ todo[p] = <<>>) \/ Subscribe(p) \/ End(p)
  PROVE  Passes(p)
  <1>1. CASE NextEvent(p) /\ todo[p] = <<>>
    BY <1>1 DEF ShapeInv, NextEvent, MoveTo, Passes, Fetches, Frame, Same,
         storeVars, modelVars, startVars, ghostVars
  <1>2. CASE Subscribe(p)
    BY <1>2 DEF ShapeInv, Subscribe, MoveTo, Passes, Fetches, Frame, Same,
         storeVars, handlerVars, modelVars, startVars, ghostVars
  <1>3. CASE End(p)
    BY <1>3 DEF ShapeInv, End, MoveTo, Passes, Fetches, Frame, Same,
         storeVars, queueVars, handlerVars, modelVars, startVars, ghostVars
  <1>4. QED
    BY <1>1, <1>2, <1>3

LEMMA ReadEffect ==
  ASSUME ShapeInv, NEW p \in Projectors, GetModel(p)
  PROVE  Reads(p)
  <1> DEFINE seen == [e \in Numbers |->
                        IF SameModel(e, event[p]) THEN counted[e] ELSE 0]
  <1>1. /\ stage \in [Projectors -> Stages] /\ copy \in [Projectors -> [Numbers -> Nat]]
        /\ stage[p] \in {"balance", "status"}
        /\ UNCHANGED <<storeVars, queueVars, event, attempt, lastProcessed, modelVars,
                       startVars, ghostVars>>
        /\ stage' = [stage EXCEPT ![p] =
                       IF stage[p] = "balance" THEN "set_balance" ELSE "set_status"]
        /\ \/ copy' = [copy EXCEPT ![p] = seen] /\ UNCHANGED faults
           \/ copy' = [copy EXCEPT ![p] = NoCounts] /\ faults' = faults + 1
    BY DEF ShapeInv, GetModel, MoveTo, CallFails, Reading
  <1>2. /\ \A e \in Numbers : /\ NoCounts[e] = 0
                              /\ seen[e] = IF SameModel(e, event[p]) THEN counted[e] ELSE 0
    BY DEF NoCounts
  <1> HIDE DEF seen
  <1>3. /\ \A q \in Projectors : q # p => stage'[q] = stage[q] /\ copy'[q] = copy[q]
        /\ \/ stage[p] = "balance" /\ stage'[p] = "set_balance"
           \/ stage[p] = "status" /\ stage'[p] = "set_status"
        /\ \/ copy'[p] = seen /\ UNCHANGED faults
           \/ copy'[p] = NoCounts /\ faults' = faults + 1
    BY <1>1
  <1>4. Handles(p)
    BY <1>1, <1>3 DEF Handles, Frame, Same, storeVars, queueVars, modelVars, startVars,
         ghostVars
  <1>5. QED
    BY <1>1, <1>2, <1>3, <1>4 DEF Reads, modelVars, ghostVars

LEMMA MarkEffect ==
  ASSUME ShapeInv, NEW p \in Projectors, UpdateCheckpoint(p)
  PROVE  Marks(p)
  BY DEF ShapeInv, UpdateCheckpoint, MoveTo, Fails, CallFails, Marks, Frame, Same,
         storeVars, queueVars, handlerVars, startVars, ghostVars

LEMMA ErrEffect ==
  ASSUME ShapeInv, NEW p \in Projectors, HandlerFails(p)
  PROVE  /\ faults' = faults + 1
         /\ stage'[p] \in {FirstStep(event[p]), IF Live(p) THEN "live" ELSE "stuck"}
         /\ \A q \in Projectors : q # p =>
              stage'[q] = stage[q] /\ attempt'[q] = attempt[q]
  BY DEF ShapeInv, HandlerFails, MoveTo, Fails, CallFails

LEMMA WriteEffect ==
  ASSUME ShapeInv, NEW p \in Projectors, SetModel(p)
  PROVE  Writes(p) \/ Errs(p)
  <1>1. /\ stage[p] \in Setting
        /\ \A q \in Projectors : q # p => copy'[q] = copy[q]
        /\ UNCHANGED <<storeVars, queueVars, event, lastProcessed, checkpoint,
                       startVars, unseen, from, blind>>
    BY DEF SetModel, ShapeInv
  <1>2. CASE HandlerFails(p) /\ UNCHANGED <<counted, raced>>
    BY <1>1, <1>2, ErrEffect DEF Errs, Handles, Frame, Same, storeVars, queueVars,
         startVars
  <1>3. CASE ~(HandlerFails(p) /\ UNCHANGED <<counted, raced>>)
    <2>1. /\ counted' = [e \in Numbers |->
               IF e = event[p] THEN copy[p][e] + 1
               ELSE IF SameModel(e, event[p]) THEN copy[p][e]
               ELSE counted[e]]
          /\ raced' = IF InUse(p, event[p]) THEN raced \cup {event[p]} ELSE raced
          /\ IF stage[p] = "set_balance" THEN MoveTo(p, "summary") /\ UNCHANGED attempt
             ELSE HandlerReturns(p)
          /\ UNCHANGED faults
      BY <1>3 DEF SetModel
    <2>2. /\ \A q \in Projectors : q # p =>
               stage'[q] = stage[q] /\ attempt'[q] = attempt[q]
          /\ \/ stage[p] = "set_balance" /\ stage'[p] = "summary"
             \/ stage[p] = "set_status" /\ stage'[p] = "checkpoint"
      BY <1>1, <2>1 DEF ShapeInv, MoveTo, HandlerReturns, Setting
    <2>3. \A e \in Numbers :
            counted'[e] = IF e = event[p] THEN copy[p][e] + 1
                          ELSE IF SameModel(e, event[p]) THEN copy[p][e]
                          ELSE counted[e]
      BY <2>1
    <2>4. QED
      BY <1>1, <2>1, <2>2, <2>3 DEF Writes, Handles, Frame, Same, storeVars,
           queueVars, startVars
  <1>4. QED
    BY <1>2, <1>3

LEMMA SumEffect ==
  ASSUME ShapeInv, NEW p \in Projectors, SetSummary(p)
  PROVE  Sums(p) \/ Errs(p)
  <1>1. /\ stage[p] = "summary"
        /\ UNCHANGED <<storeVars, queueVars, event, copy, lastProcessed, modelVars,
                       startVars, ghostVars>>
    BY DEF SetSummary
  <1>2. CASE HandlerFails(p)
    BY <1>1, <1>2, ErrEffect DEF Errs, Handles, Frame, Same, storeVars, queueVars,
         modelVars, startVars, ghostVars
  <1>3. CASE HandlerReturns(p) /\ UNCHANGED faults
    BY <1>1, <1>3 DEF ShapeInv, HandlerReturns, MoveTo, Sums, Handles, Frame, Same,
         storeVars, queueVars, modelVars, startVars, ghostVars
  <1>4. QED
    BY <1>2, <1>3 DEF SetSummary

LEMMA TakeEffect ==
  ASSUME ShapeInv, NEW p \in Projectors, Queue(p),
         (NextEvent(p) /\ todo[p] # <<>>) \/ Receive(p)
  PROVE  Takes(p)
  <1>0. /\ todo[p] \in Seq(Nat) /\ channel[p] \in Seq(Nat)
        /\ Increasing(todo[p]) /\ Increasing(channel[p])
        /\ Len(channel[p]) \in Nat /\ Len(channel[p]) <= Capacity /\ Capacity \in Nat
    BY ProjectorAssumption DEF ShapeInv, Queue
  <1>1. CASE NextEvent(p) /\ todo[p] # <<>>
    <2>1. /\ event'[p] = Head(todo[p]) /\ todo'[p] = Tail(todo[p])
          /\ stage'[p] = FirstStep(event'[p]) /\ stage[p] = "next"
          /\ channel' = channel /\ subscription' = subscription
          /\ Fetches(p)
      BY <1>1 DEF ShapeInv, NextEvent, TakeInHand, MoveTo, FirstStep, Fetches,
           Frame, Same, storeVars, modelVars, startVars, ghostVars
    <2>2. ~Live(p) /\ channel[p] = <<>> /\ Elements(channel[p]) = {}
      BY <2>1, ElementsEmpty DEF Queue
    <2>3. /\ Tail(todo[p]) \in Seq(Nat) /\ Increasing(Tail(todo[p]))
          /\ Head(todo[p]) \in Elements(todo[p])
          /\ Elements(todo[p]) = Elements(Tail(todo[p])) \cup {Head(todo[p])}
          /\ \A e \in Elements(Tail(todo[p])) : Head(todo[p]) < e
      BY <1>0, <1>1, ElementsTail
    <2>4. Waiting(p) = Elements(todo[p]) /\ Waiting(p)' = Elements(Tail(todo[p]))
      BY <2>1, <2>2 DEF Waiting
    <2>5. QED
      BY <1>0, <2>1, <2>2, <2>3, <2>4 DEF Takes
  <1>2. CASE Receive(p)
    <2>1. /\ event'[p] = Head(channel[p]) /\ channel'[p] = Tail(channel[p])
          /\ stage'[p] = FirstStep(event'[p]) /\ stage[p] = "live"
          /\ channel[p] # <<>>
          /\ todo' = todo /\ subscription' = subscription
          /\ Fetches(p)
      BY <1>2 DEF ShapeInv, Receive, TakeInHand, MoveTo, FirstStep, Fetches,
           Frame, Same, storeVars, modelVars, startVars, ghostVars
    <2>2. Live(p) /\ todo[p] = <<>> /\ Elements(todo[p]) = {}
      BY <2>1, ElementsEmpty DEF Queue
    <2>3. /\ Tail(channel[p]) \in Seq(Nat) /\ Increasing(Tail(channel[p]))
          /\ Len(Tail(channel[p])) <= Len(channel[p])
          /\ Head(channel[p]) \in Elements(channel[p])
          /\ Elements(channel[p]) = Elements(Tail(channel[p])) \cup {Head(channel[p])}
          /\ \A e \in Elements(Tail(channel[p])) : Head(channel[p]) < e
          /\ Len(Tail(channel[p])) \in Nat
      BY <1>0, <2>1, ElementsTail
    <2>4. Waiting(p) = Elements(channel[p]) /\ Waiting(p)' = Elements(Tail(channel[p]))
      BY <2>1, <2>2 DEF Waiting
    <2>5. QED
      BY <1>0, <2>1, <2>2, <2>3, <2>4 DEF Takes
  <1>3. QED
    BY <1>1, <1>2

\* The steps of a projector.
LEMMA StepEffect ==
  ASSUME ShapeInv, NEW p \in Projectors, Queue(p), Step(p)
  PROVE  \/ Loads(p) \/ Lists(p) \/ Takes(p) \/ Passes(p) \/ Reads(p) \/ Writes(p)
         \/ Sums(p) \/ Errs(p) \/ Marks(p)
  BY LoadEffect, ListEffect, TakeEffect, PassEffect, ReadEffect, WriteEffect,
     SumEffect, MarkEffect, Zenon DEF Step

-----------------------------------------------------------------------------
(* The types.                                                              *)

\* An event reaches the channel, or ends the subscription, or finds none open.
LEMMA EventNotified ==
  ASSUME ShapeInv, LogInv, NEW p \in Projectors, Queue(p), AppendEvent
  PROVE  /\ Increasing(channel'[p]) /\ Len(channel'[p]) <= Capacity
         /\ channel'[p] \in Seq(Nat) /\ todo'[p] = todo[p]
         /\ subscription[p] # "open" => channel'[p] = channel[p]
         /\ \/ /\ subscription[p] = "open" /\ subscription'[p] = "open"
               /\ Waiting(p)' = Waiting(p) \cup {Len(log) + 1}
            \/ /\ subscription[p] = "open" /\ subscription'[p] = "closed"
               /\ Waiting(p)' = Waiting(p)
            \/ /\ subscription[p] # "open" /\ subscription'[p] = subscription[p]
               /\ Waiting(p)' = Waiting(p)
  <1>1. /\ channel[p] \in Seq(Nat) /\ Increasing(channel[p]) /\ Len(channel[p]) <= Capacity
        /\ Len(log) \in Nat /\ Len(channel[p]) \in Nat /\ Capacity \in Nat
        /\ Notify(Len(log) + 1) /\ UNCHANGED todo
    BY EventAppended, ProjectorAssumption DEF ShapeInv, Queue
  <1>2. CASE subscription[p] = "open" /\ Len(channel[p]) < Capacity
    <2>1. channel'[p] = Append(channel[p], Len(log) + 1)
          /\ subscription'[p] = subscription[p]
      BY <1>1, <1>2 DEF Notify
    <2>2. \A e \in Elements(channel[p]) : e < Len(log) + 1
      <3>1. Elements(channel[p]) \subseteq 1..Len(log)
        BY DEF Queue, Waiting
      <3>2. QED
        BY <1>1, <3>1
    <2>3. /\ channel'[p] \in Seq(Nat) /\ Len(channel'[p]) = Len(channel[p]) + 1
          /\ Increasing(channel'[p])
          /\ Elements(channel'[p]) = Elements(channel[p]) \cup {Len(log) + 1}
      BY <1>1, <2>1, <2>2, ElementsAppend
    <2>4. Len(channel'[p]) <= Capacity
      BY <1>1, <1>2, <2>3
    <2>5. Waiting(p)' = Waiting(p) \cup {Len(log) + 1}
      BY <1>1, <2>3 DEF Waiting
    <2>6. QED
      BY <1>1, <1>2, <2>1, <2>3, <2>4, <2>5
  <1>3. CASE ~(subscription[p] = "open" /\ Len(channel[p]) < Capacity)
    <2>1. /\ channel'[p] = channel[p]
          /\ \/ subscription[p] = "open" /\ subscription'[p] = "closed"
             \/ subscription[p] # "open" /\ subscription'[p] = subscription[p]
      BY <1>1, <1>3 DEF Notify
    <2>2. Waiting(p)' = Waiting(p)
      BY <1>1, <2>1 DEF Waiting
    <2>3. QED
      BY <1>1, <2>1, <2>2
  <1>4. QED
    BY <1>2, <1>3

\* A step of the handler or of the updates keeps the types.
LEMMA HandlerTyped ==
  ASSUME ShapeInv, NEW p \in Projectors, HandlerFails(p) \/ HandlerReturns(p)
  PROVE  /\ stage' \in [Projectors -> Stages]
         /\ attempt' \in [Projectors -> 0..MaxRetries - 1]
  <1>0. attempt[p] \in 0..MaxRetries - 1 /\ MaxRetries \in Nat \ {0}
    BY ProjectorAssumption DEF ShapeInv
  <1>1. 0 \in 0..MaxRetries - 1
    BY <1>0
  <1>2. CASE HandlerReturns(p)
    BY <1>1, <1>2 DEF ShapeInv, HandlerReturns, MoveTo, Stages
  <1>3. CASE HandlerFails(p)
    <2>1. {FirstStep(event[p]), "live", "stuck"} \subseteq Stages
      BY DEF FirstStep, Stages, Reading
    <2>2. \/ attempt' = [attempt EXCEPT ![p] = 0]
          \/ /\ attempt' = [attempt EXCEPT ![p] = attempt[p] + 1]
             /\ attempt[p] + 1 < MaxRetries
      BY <1>3 DEF HandlerFails
    <2>3. attempt' \in [Projectors -> 0..MaxRetries - 1]
      <3>1. attempt[p] + 1 < MaxRetries => attempt[p] + 1 \in 0..MaxRetries - 1
        BY <1>0
      <3>2. attempt \in [Projectors -> 0..MaxRetries - 1]
        BY DEF ShapeInv
      <3> DEFINE T == 0..MaxRetries - 1
      <3> HIDE DEF T
      <3>3. \A n \in T : [attempt EXCEPT ![p] = n] \in [Projectors -> T]
        BY <3>2 DEF T
      <3>4. QED
        BY <1>1, <2>2, <3>1, <3>3, Zenon DEF T
    <2>4. stage' \in [Projectors -> Stages]
      <3>1. \E s \in Stages : stage' = [stage EXCEPT ![p] = s]
        BY <1>3, <2>1 DEF HandlerFails, Fails, MoveTo
      <3>2. stage \in [Projectors -> Stages]
        BY DEF ShapeInv
      <3>3. QED
        BY <3>1, <3>2
    <2>5. QED
      BY <2>3, <2>4
  <1>4. QED
    BY <1>2, <1>3

\* The counts of failed calls and of starts stay within their bounds.
LEMMA BoundsKept ==
  ASSUME ShapeInv, [NextProjector]_projectorVars
  PROVE  faults' \in 0..MaxFaults /\ starts' \in Projectors
         /\ faults' \in {faults, faults + 1}
  <1>1. /\ faults \in Nat /\ faults <= MaxFaults /\ MaxFaults \in Nat
        /\ starts \in Nat \ {0} /\ starts <= MaxStarts /\ MaxStarts \in Nat
    BY ProjectorAssumption DEF ShapeInv, Projectors
  <1>2. UNCHANGED faults \/ CallFails
    BY DEF NextProjector, AppendEvent, RefusedBatch, Step, Stop, StartNew,
         LoadCheckpoint, GetEvents, NextEvent, Subscribe, Receive, End, GetModel,
         SetModel, SetSummary, UpdateCheckpoint, HandlerFails, projectorVars
  <1>3. UNCHANGED starts \/ (starts < MaxStarts /\ starts' = starts + 1)
    BY DEF NextProjector, AppendEvent, RefusedBatch, Step, Stop, StartNew,
         LoadCheckpoint, GetEvents, NextEvent, Subscribe, Receive, End, GetModel,
         SetModel, SetSummary, UpdateCheckpoint, projectorVars, startVars
  <1>4. QED
    BY <1>1, <1>2, <1>3 DEF CallFails, Projectors

\* The values that only Start, Stop and AppendEvent set, and those of catchUp.
LEMMA ShapeStep ==
  ASSUME ShapeInv, LogInv, LogInv', \A p \in Projectors : Queue(p),
         [NextProjector]_projectorVars
  PROVE  ShapeInv'
  <1>0. /\ faults' \in 0..MaxFaults /\ starts' \in Projectors
        /\ counter \in Nat /\ counter' \in Nat /\ Len(log) \in Nat
    BY BoundsKept DEF LogInv
  <1>1. CASE AppendEvent
    <2>1. /\ UNCHANGED <<stage, todo, event, attempt, copy, lastProcessed,
                         checkpoint, counted, starts, running, faults, from, blind,
                         raced>>
          /\ counter' = counter + 1
          /\ unseen' \in {unseen, unseen \cup {Len(log) + 1}}
          /\ Len(log) + 1 <= MaxLog /\ MaxLog \in Nat
          /\ Notify(Len(log) + 1)
      BY <1>1, EventAppended, ProjectorAssumption
    <2>2. channel' \in [Projectors -> Seq(Nat)]
      <3>1. \A p \in Projectors : channel'[p] \in Seq(Nat)
        BY <1>1, EventNotified
      <3>2. channel' = [p \in Projectors |-> channel'[p]]
        BY <2>1 DEF Notify
      <3>3. QED
        BY <3>1, <3>2
    <2>3. subscription' \in [Projectors -> {"none", "open", "closed"}]
      <3>1. subscription \in [Projectors -> {"none", "open", "closed"}]
        BY DEF ShapeInv
      <3>2. QED
        BY <2>1, <3>1 DEF Notify
    <2>4. unseen' \subseteq Numbers
      BY <1>0, <2>1 DEF ShapeInv, Numbers
    <2>5. checkpoint' \in 0..counter'
      BY <1>0, <2>1 DEF ShapeInv
    <2>6. QED
      BY <2>1, <2>2, <2>3, <2>4, <2>5 DEF ShapeInv
  <1>2. CASE RefusedBatch
    <2>1. /\ UNCHANGED <<channel, subscription, stage, todo, event, attempt, copy,
                         lastProcessed, checkpoint, counted, starts, running, faults,
                         unseen, from, blind, raced>>
          /\ counter' \in {counter, counter + 1}
      BY <1>2, BatchRefused
    <2>2. checkpoint' \in 0..counter'
      BY <1>0, <2>1 DEF ShapeInv
    <2>3. QED
      BY <2>1, <2>2 DEF ShapeInv
  <1>3. CASE Stop \/ StartNew \/ UNCHANGED projectorVars
    BY <1>0, <1>3 DEF ShapeInv, Stop, StartNew, MoveTo, Stages, storeVars, queueVars,
         handlerVars, modelVars, startVars, ghostVars, projectorVars
  <1>4. ASSUME NEW p \in Projectors, Step(p)
        PROVE  ShapeInv'
    <2>0. UNCHANGED <<counter, log, starts, running, unseen>>
      BY <1>4 DEF Step, LoadCheckpoint, GetEvents, NextEvent, Subscribe, Receive, End,
           GetModel, SetModel, SetSummary, UpdateCheckpoint, storeVars, startVars,
           ghostVars
    <2>1. CASE LoadCheckpoint(p)
      <3>1. checkpoint \in Nat
        BY <1>0 DEF ShapeInv
      <3>2. PICK number \in Nat :
              /\ lastProcessed' = [lastProcessed EXCEPT ![p] = number]
              /\ from' = [from EXCEPT ![p] = number]
              /\ blind' \in {blind, blind \cup {p}}
              /\ stage' = [stage EXCEPT ![p] = "catch_up"]
              /\ UNCHANGED <<queueVars, handlerVars, modelVars, raced>>
        <4>1. PICK readable \in BOOLEAN :
                LET number == IF readable THEN checkpoint ELSE 0 IN
                  /\ lastProcessed' = [lastProcessed EXCEPT ![p] = number]
                  /\ from' = [from EXCEPT ![p] = number]
          BY <2>1 DEF LoadCheckpoint
        <4>2. QED
          BY <2>1, <3>1, <4>1 DEF LoadCheckpoint, MoveTo
      <3>3. /\ lastProcessed' \in [Projectors -> Nat] /\ from' \in [Projectors -> Nat]
            /\ blind' \subseteq Projectors /\ stage' \in [Projectors -> Stages]
        BY <3>2 DEF ShapeInv, Stages
      <3>4. QED
        BY <1>0, <2>0, <3>2, <3>3 DEF ShapeInv, queueVars, handlerVars, modelVars
    <2>2. CASE GetEvents(p)
      <3>1. Matching(FromSequence(p)) \in Seq(Nat)
        BY <1>0, MatchingEvents
      <3>2. QED
        BY <1>0, <2>0, <2>2, <3>1 DEF ShapeInv, GetEvents, MoveTo, Stages,
             handlerVars, modelVars, ghostVars
    <2>3. CASE NextEvent(p) \/ Receive(p)
      <3>1. \A e : FirstStep(e) \in Stages
        BY DEF FirstStep, Stages, Reading
      <3>2. todo[p] \in Seq(Nat) /\ channel[p] \in Seq(Nat)
        BY DEF ShapeInv
      <3>3. /\ todo[p] # <<>> => Head(todo[p]) \in Nat /\ Tail(todo[p]) \in Seq(Nat)
            /\ channel[p] # <<>> => Head(channel[p]) \in Nat /\ Tail(channel[p]) \in Seq(Nat)
        BY <3>2
      <3>4. CASE NextEvent(p)
        <4>1. /\ todo' = todo \/ (todo[p] # <<>> /\ todo' = [todo EXCEPT ![p] = Tail(@)])
              /\ event' = event \/ (todo[p] # <<>> /\ event' = [event EXCEPT ![p] = Head(todo[p])])
              /\ \E s \in Stages : stage' = [stage EXCEPT ![p] = s]
              /\ UNCHANGED <<channel, subscription, attempt, copy, lastProcessed,
                             modelVars, faults, ghostVars>>
          BY <3>1, <3>4 DEF NextEvent, TakeInHand, MoveTo, Stages
        <4>2. /\ todo' \in [Projectors -> Seq(Nat)] /\ event' \in [Projectors -> Nat]
              /\ stage' \in [Projectors -> Stages]
          <5>1. /\ todo \in [Projectors -> Seq(Nat)] /\ event \in [Projectors -> Nat]
                /\ stage \in [Projectors -> Stages]
            BY DEF ShapeInv
          <5>2. todo' \in [Projectors -> Seq(Nat)]
            BY <3>3, <4>1, <5>1
          <5>3. event' \in [Projectors -> Nat]
            BY <3>3, <4>1, <5>1
          <5>4. stage' \in [Projectors -> Stages]
            BY <4>1, <5>1
          <5>5. QED
            BY <5>2, <5>3, <5>4
        <4>3. QED
          BY <1>0, <2>0, <4>1, <4>2 DEF ShapeInv, modelVars, ghostVars
      <3>5. CASE Receive(p)
        BY <1>0, <2>0, <3>1, <3>3, <3>5 DEF ShapeInv, Receive, TakeInHand,
             MoveTo, Stages, modelVars, ghostVars
      <3>6. QED
        BY <2>3, <3>4, <3>5
    <2>4. CASE Subscribe(p) \/ End(p)
      BY <1>0, <2>0, <2>4 DEF ShapeInv, Subscribe, End, MoveTo, Stages, queueVars,
           handlerVars, modelVars, ghostVars
    <2>5. CASE GetModel(p)
      <3>1. copy' \in [Projectors -> [Numbers -> Nat]]
        <4> DEFINE seen == [e \in Numbers |->
                              IF SameModel(e, event[p]) THEN counted[e] ELSE 0]
        <4>1. seen \in [Numbers -> Nat] /\ NoCounts \in [Numbers -> Nat]
          BY DEF ShapeInv, NoCounts
        <4>2. copy' = [copy EXCEPT ![p] = seen] \/ copy' = [copy EXCEPT ![p] = NoCounts]
          BY <2>5 DEF GetModel
        <4> HIDE DEF seen
        <4>3. copy \in [Projectors -> [Numbers -> Nat]]
          BY DEF ShapeInv
        <4>4. QED
          BY <4>1, <4>2, <4>3
      <3>2. QED
        BY <1>0, <2>0, <2>5, <3>1 DEF ShapeInv, GetModel, MoveTo, Stages, Setting,
             queueVars, modelVars, ghostVars
    <2>6. CASE SetModel(p)
      <3>1. /\ copy' \in [Projectors -> [Numbers -> Nat]]
            /\ counted' \in [Numbers -> Nat] /\ raced' \subseteq Numbers
        <4>1. copy' = [copy EXCEPT ![p] = NoCounts] /\ copy[p] \in [Numbers -> Nat]
          BY <2>6 DEF ShapeInv, SetModel
        <4>2. event[p] \in Numbers
          <5>1. event[p] \in 1..Len(log) /\ Len(log) <= MaxLog /\ MaxLog \in Nat
            BY <2>6, ProjectorAssumption DEF SetModel, Queue, InHand, LogInv
          <5>2. QED
            BY <1>0, <5>1 DEF Numbers
        <4>3. \/ counted' = counted /\ raced' = raced
              \/ /\ counted' = [e \in Numbers |->
                      IF e = event[p] THEN copy[p][e] + 1
                      ELSE IF SameModel(e, event[p]) THEN copy[p][e]
                      ELSE counted[e]]
                 /\ raced' \in {raced, raced \cup {event[p]}}
          BY <2>6 DEF SetModel
        <4>4. copy' \in [Projectors -> [Numbers -> Nat]]
          BY <4>1 DEF ShapeInv, NoCounts
        <4>5. counted' \in [Numbers -> Nat]
          <5>1. counted \in [Numbers -> Nat]
            BY DEF ShapeInv
          <5>2. \A e \in Numbers : copy[p][e] \in Nat /\ copy[p][e] + 1 \in Nat
            BY <4>1
          <5>3. QED
            BY <4>3, <5>1, <5>2
        <4>6. raced' \subseteq Numbers
          BY <4>2, <4>3 DEF ShapeInv
        <4>7. QED
          BY <4>4, <4>5, <4>6
      <3>2. stage' \in [Projectors -> Stages] /\ attempt' \in [Projectors -> 0..MaxRetries - 1]
        <4>1. CASE HandlerFails(p) \/ HandlerReturns(p)
          BY <4>1, HandlerTyped
        <4>2. CASE MoveTo(p, "summary") /\ UNCHANGED attempt
          BY <4>2 DEF ShapeInv, MoveTo, Stages
        <4>3. QED
          BY <2>6, <4>1, <4>2 DEF SetModel
      <3>3. UNCHANGED <<queueVars, event, lastProcessed, checkpoint, from, blind>>
        BY <2>6 DEF SetModel
      <3>4. QED
        BY <1>0, <2>0, <3>1, <3>2, <3>3 DEF ShapeInv, queueVars
    <2>7. CASE SetSummary(p)
      <3>1. stage' \in [Projectors -> Stages] /\ attempt' \in [Projectors -> 0..MaxRetries - 1]
        BY <2>7, HandlerTyped DEF SetSummary
      <3>2. QED
        BY <1>0, <2>0, <2>7, <3>1 DEF ShapeInv, SetSummary, queueVars, modelVars,
             ghostVars
    <2>8. CASE UpdateCheckpoint(p)
      <3>1. log[event[p]].seq \in Nat /\ log[event[p]].seq \in 0..counter
        <4>1. event[p] \in 1..Len(log)
          BY <2>8 DEF UpdateCheckpoint, Queue, InHand
        <4>2. log[event[p]].seq \in Nat /\ log[event[p]].seq <= counter
          BY <4>1, FirstStepOf DEF LogInv
        <4>3. QED
          BY <1>0, <4>2
      <3>2. /\ lastProcessed' \in [Projectors -> Nat] /\ checkpoint' \in 0..counter
            /\ stage' \in [Projectors -> Stages]
        BY <2>8, <3>1 DEF ShapeInv, UpdateCheckpoint, Fails, MoveTo, Stages
      <3>3. UNCHANGED <<queueVars, handlerVars, counted, ghostVars>>
        BY <2>8 DEF UpdateCheckpoint
      <3>4. QED
        BY <1>0, <2>0, <3>2, <3>3 DEF ShapeInv, queueVars, handlerVars, ghostVars
    <2>9. QED
      BY <1>4, <2>1, <2>2, <2>3, <2>4, <2>5, <2>6, <2>7, <2>8, Zenon DEF Step
  <1>5. QED
    BY <1>1, <1>2, <1>3, <1>4 DEF NextProjector

-----------------------------------------------------------------------------
(* The queues.                                                             *)

LEMMA SameQueue ==
  ASSUME NEW q \in Projectors, Same(q)
  PROVE  /\ Waiting(q)' = Waiting(q) /\ InHand(q)' = InHand(q)
         /\ Ahead(q)' = Ahead(q) /\ Live(q)' = Live(q) /\ Busy(q)' = Busy(q)
  <1>1. Waiting(q)' = Waiting(q)
    BY DEF Same, Waiting
  <1>2. InHand(q)' = InHand(q) /\ Live(q)' = Live(q) /\ Busy(q)' = Busy(q)
    BY DEF Same, InHand, Live, Busy
  <1>3. Ahead(q)' = Ahead(q)
    BY <1>1, <1>2 DEF Ahead, Same
  <1>4. QED
    BY <1>1, <1>2, <1>3

LEMMA QueueOfOthers ==
  ASSUME NEW q \in Projectors, Same(q), UNCHANGED log, Queue(q)
  PROVE  Queue(q)'
  BY SameQueue DEF Queue, Same

\* The projector that moves.
LEMMA QueueOfMover ==
  ASSUME ShapeInv, LogInv, NEW p \in Projectors, Queue(p), Step(p)
  PROVE  Queue(p)'
  <1>0. Len(log) \in Nat
    BY DEF LogInv
  <1>1. ASSUME /\ UNCHANGED log
               /\ channel'[p] = channel[p] /\ todo'[p] = todo[p]
               /\ event'[p] = event[p]
        PROVE  Waiting(p)' = Waiting(p)
    BY <1>1 DEF Waiting
  <1>2. CASE Loads(p)
    BY <1>1, <1>2 DEF Loads, Frame, Queue, InHand, Live, Reading, Setting
  <1>3. CASE Passes(p)
    BY <1>1, <1>3 DEF Passes, Fetches, Frame, Queue, InHand, Live, Reading, Setting
  <1>4. CASE Reads(p) \/ Writes(p) \/ Sums(p)
    <2>1. /\ \/ stage[p] = "balance" /\ stage'[p] = "set_balance"
             \/ stage[p] = "status" /\ stage'[p] = "set_status"
             \/ stage[p] = "set_balance" /\ stage'[p] = "summary"
             \/ stage[p] = "set_status" /\ stage'[p] = "checkpoint"
             \/ stage[p] = "summary" /\ stage'[p] = "checkpoint"
          /\ Handles(p)
      BY <1>4 DEF Reads, Writes, Sums
    <2>2. QED
      BY <1>1, <2>1 DEF Handles, Frame, Queue, InHand, Live, Reading, Setting
  <1>5. CASE Errs(p)
    <2>1. InHand(p) /\ event[p] \in 1..Len(log) /\ Handles(p)
      BY <1>5 DEF Errs, InHand, Queue
    <2>2. \/ stage'[p] = "balance" /\ log[event[p]].data = "wallet"
          \/ stage'[p] = "status" /\ log[event[p]].data = "payment"
          \/ stage'[p] = "checkpoint"
          \/ stage'[p] = "live" /\ Live(p)
          \/ stage'[p] = "stuck" /\ ~Live(p)
      BY <1>5, <2>1, FirstStepOf DEF Errs
    <2>3. QED
      BY <1>1, <2>1, <2>2 DEF Handles, Frame, Queue, InHand, Live, Reading, Setting
  <1>6. CASE Marks(p)
    <2>1. /\ InHand(p)
          /\ stage'[p] \in {"live", "next", "stuck"} /\ (stage'[p] = "live" <=> Live(p))
      BY <1>6 DEF Marks, InHand
    <2>2. QED
      BY <1>1, <1>6, <2>1 DEF Marks, Frame, Queue, InHand, Live, Reading, Setting
  <1>7. CASE Lists(p)
    <2>1. /\ Increasing(todo'[p]) /\ Elements(todo'[p]) \subseteq 1..Len(log)
      BY <1>0, <1>7, MatchingEvents DEF Lists
    <2>2. /\ channel'[p] = <<>> /\ channel[p] = <<>> /\ ~Live(p)
      BY <1>7 DEF Lists, Queue
    <2>3. Waiting(p)' = Elements(todo'[p])
      BY <2>2, ElementsEmpty DEF Waiting
    <2>4. QED
      BY <1>7, <2>1, <2>2, <2>3 DEF Lists, Fetches, Frame, Queue, InHand, Live,
           Reading, Setting
  <1>8. CASE Takes(p)
    <2>1. event'[p] \in 1..Len(log) /\ Waiting(p)' \subseteq 1..Len(log)
          /\ UNCHANGED log
      BY <1>8 DEF Takes, Fetches, Frame, Queue
    <2>2. \/ log[event'[p]].data = "wallet" /\ stage'[p] = "balance"
          \/ log[event'[p]].data = "payment" /\ stage'[p] = "status"
          \/ log[event'[p]].data = "other" /\ stage'[p] = "checkpoint"
      BY <1>8, <2>1, FirstStepOf DEF Takes
    <2>3. /\ Increasing(todo'[p]) /\ Increasing(channel'[p])
          /\ Live(p)' = Live(p)
          /\ IF Live(p) THEN todo'[p] = <<>> ELSE channel'[p] = <<>>
          /\ \A e \in Waiting(p)' : event'[p] < e
      BY <1>8 DEF Takes, Queue, Live
    <2>4. Len(channel'[p]) <= Capacity
      BY <1>8 DEF Takes
    <2>5. QED
      BY <2>1, <2>2, <2>3, <2>4 DEF Queue, InHand, Live, Reading, Setting
  <1>9. QED
    BY <1>2, <1>3, <1>4, <1>5, <1>6, <1>7, <1>8, StepEffect

LEMMA OneMoves ==
  ASSUME ShapeInv, NEW p \in Projectors, Queue(p), Step(p)
  PROVE  /\ Frame(p) /\ blind \subseteq blind' /\ blind' \subseteq blind \cup {p}
         /\ Loads(p) \/ (UNCHANGED blind /\ from'[p] = from[p] /\ Busy(p))
         /\ stage'[p] \notin {"new", "load"} /\ stage[p] # "new"
  <1>0. ASSUME NEW e PROVE FirstStep(e) \in {"balance", "status", "checkpoint"}
    BY DEF FirstStep
  <1>1. CASE Loads(p)
    BY <1>1 DEF Loads
  <1>2. CASE Lists(p) \/ Takes(p) \/ Passes(p)
    BY <1>0, <1>2 DEF Lists, Takes, Passes, Fetches, Busy
  <1>3. CASE Reads(p) \/ Writes(p) \/ Sums(p) \/ Errs(p)
    BY <1>0, <1>3 DEF Reads, Writes, Sums, Errs, Handles, Busy, Setting
  <1>4. CASE Marks(p)
    BY <1>4 DEF Marks, Busy
  <1>5. QED
    BY <1>1, <1>2, <1>3, <1>4, StepEffect

LEMMA QueueStep ==
  ASSUME ShapeInv, LogInv, StartsInv, \A p \in Projectors : Queue(p),
         [NextProjector]_projectorVars
  PROVE  \A p \in Projectors : Queue(p)'
  <1> SUFFICES ASSUME NEW q \in Projectors PROVE Queue(q)'
    OBVIOUS
  <1>0. Len(log) \in Nat
    BY DEF LogInv
  <1>1. CASE AppendEvent
    <2>1. /\ \A e \in 1..Len(log) : log'[e] = log[e] /\ e \in 1..Len(log')
          /\ Len(log) + 1 \in 1..Len(log') /\ \A e \in 1..Len(log) : e < Len(log) + 1
          /\ stage'[q] = stage[q] /\ event'[q] = event[q]
      BY <1>0, <1>1, EventAppended
    <2>2. /\ Increasing(channel'[q]) /\ Len(channel'[q]) <= Capacity
          /\ todo'[q] = todo[q] /\ Live(q)' = Live(q)
          /\ subscription[q] # "open" => channel'[q] = channel[q]
          /\ Waiting(q)' \in {Waiting(q), Waiting(q) \cup {Len(log) + 1}}
      BY <1>1, EventNotified DEF Live
    <2>3. IF Live(q) THEN todo'[q] = <<>> ELSE channel'[q] = <<>>
      BY <2>2 DEF Queue, Live
    <2>4. InHand(q)' = InHand(q)
      BY <2>1 DEF InHand
    <2>5. Waiting(q)' \subseteq 1..Len(log')
      BY <2>1, <2>2 DEF Queue
    <2>6. InHand(q) => /\ event[q] \in 1..Len(log)
                       /\ \A e \in Waiting(q)' : event[q] < e
      BY <2>1, <2>2 DEF Queue
    <2>7. QED
      BY <2>1, <2>2, <2>3, <2>4, <2>5, <2>6 DEF Queue, InHand, Reading, Setting
  <1>2. CASE RefusedBatch
    BY <1>2, BatchRefused, QueueOfOthers DEF Same
  <1>3. CASE Stop \/ UNCHANGED projectorVars
    BY <1>3, QueueOfOthers DEF Same, Stop, storeVars, queueVars, handlerVars,
         ghostVars, projectorVars
  <1>4. CASE StartNew
    <2>1. /\ UNCHANGED <<log, channel, subscription, todo, event>>
          /\ stage' = [stage EXCEPT ![starts + 1] = "load"]
      BY <1>4 DEF StartNew, MoveTo, storeVars, queueVars, handlerVars
    <2>2. UNCHANGED <<attempt, copy, lastProcessed, from>>
      BY <1>4 DEF StartNew, handlerVars, ghostVars
    <2>3. CASE q # starts + 1
      BY <2>1, <2>2, <2>3, QueueOfOthers DEF Same, ShapeInv
    <2>4. CASE q = starts + 1
      <3>1. stage'[q] = "load" /\ Waiting(q)' = Waiting(q)
        BY <2>1, <2>4 DEF ShapeInv, Waiting
      <3>2. stage[q] = "new"
        BY <2>4 DEF StartsInv, ShapeInv, Projectors
      <3>3. QED
        BY <2>1, <3>1, <3>2 DEF Queue, InHand, Live, Reading, Setting
    <2>5. QED
      BY <2>3, <2>4
  <1>5. ASSUME NEW p \in Projectors, Step(p)
        PROVE  Queue(q)'
    <2>1. CASE q = p
      BY <1>5, <2>1, QueueOfMover
    <2>2. CASE q # p
      <3>1. Frame(p)
        BY <1>5, OneMoves
      <3>2. QED
        BY <2>2, <3>1, QueueOfOthers DEF Frame
    <2>3. QED
      BY <2>1, <2>2
  <1>6. QED
    BY <1>1, <1>2, <1>3, <1>4, <1>5 DEF NextProjector

LEMMA StartsStep ==
  ASSUME ShapeInv, StartsInv, \A p \in Projectors : Queue(p),
         [NextProjector]_projectorVars
  PROVE  StartsInv'
  <1>0. starts \in Nat
    BY DEF ShapeInv, Projectors
  <1>1. CASE StartNew
    <2>1. starts' = starts + 1 /\ stage' = [stage EXCEPT ![starts + 1] = "load"]
      BY <1>1 DEF StartNew, MoveTo
    <2>2. ASSUME NEW q \in Projectors, q > starts + 1
          PROVE  q > starts /\ q # starts + 1
      BY <1>0, <2>2 DEF Projectors
    <2>3. QED
      BY <2>1, <2>2 DEF StartsInv, ShapeInv
  <1>2. ASSUME NEW p \in Projectors, Step(p)
        PROVE  StartsInv'
    <2>1. Frame(p) /\ stage[p] # "new"
      BY <1>2, OneMoves
    <2>2. QED
      BY <2>1 DEF Frame, Same, StartsInv
  <1>3. CASE UNCHANGED <<starts, stage>>
    BY <1>3 DEF StartsInv
  <1>4. QED
    BY <1>1, <1>2, <1>3 DEF NextProjector, AppendEvent, RefusedBatch, Stop, startVars,
         projectorVars

-----------------------------------------------------------------------------
(* The numbers.                                                            *)

\* The numbers of events and of what projectors have handled.
LEMMA NumbersTyped ==
  ASSUME ShapeInv, LogInv
  PROVE  /\ Len(log) \in Nat /\ counter \in Nat /\ checkpoint \in Nat
         /\ checkpoint <= counter
         /\ \A p \in Projectors :
              lastProcessed[p] \in Nat /\ from[p] \in Nat /\ event[p] \in Nat
         /\ \A e \in 1..Len(log) : log[e].seq \in Nat
  <1>1. \A e \in 1..Len(log) : log[e].seq \in Nat
    BY FirstStepOf
  <1>2. counter \in Nat /\ Len(log) \in Nat
    BY DEF LogInv
  <1>3. QED
    BY <1>1, <1>2 DEF ShapeInv

LEMMA ProgressOfMover ==
  ASSUME ShapeInv, LogInv, NEW p \in Projectors, Queue(p), Progress(p), Step(p)
  PROVE  Progress(p)'
  <1>0. /\ Len(log) \in Nat /\ counter \in Nat /\ checkpoint \in Nat
        /\ checkpoint <= counter
        /\ lastProcessed[p] \in Nat /\ from[p] \in Nat /\ event[p] \in Nat
        /\ \A e \in 1..Len(log) : log[e].seq \in Nat
    BY NumbersTyped
  <1>1. CASE Loads(p)
    <2>1. Ahead(p)' = {}
      <3>1. todo'[p] = <<>> /\ channel'[p] = <<>>
        BY <1>1 DEF Loads, Queue
      <3>2. Waiting(p)' = {}
        BY <3>1, ElementsEmpty DEF Waiting
      <3>3. QED
        BY <1>1, <3>2 DEF Loads, Ahead, InHand, Reading, Setting
    <2>2. QED
      BY <1>0, <1>1, <2>1 DEF Loads, Frame, Progress
  <1>2. CASE Lists(p)
    <2>1. channel'[p] = <<>>
      BY <1>2 DEF Lists, Queue
    <2>2. Ahead(p)' = {e \in 1..Len(log) : log[e].seq > FromSequence(p)}
      <3>1. Waiting(p)' = {e \in 1..Len(log) : log[e].seq > FromSequence(p)}
        BY <1>0, <1>2, <2>1, MatchingEvents, ElementsEmpty
           DEF Lists, Waiting, MatchesFilter
      <3>2. QED
        BY <1>2, <3>1 DEF Lists, Ahead, InHand, Reading, Setting
    <2>3. FromSequence(p) \in Nat /\ lastProcessed[p] <= FromSequence(p)
      BY <1>0 DEF FromSequence
    <2>4. \A e \in Ahead(p)' : lastProcessed[p] < log[e].seq
      BY <1>0, <2>2, <2>3
    <2>5. QED
      BY <1>2, <2>4 DEF Lists, Fetches, Frame, Progress
  <1>3. CASE Takes(p)
    <2>1. Ahead(p) = Waiting(p) /\ Ahead(p)' = Waiting(p) /\ event'[p] \in Waiting(p)
          /\ stage'[p] \in {"balance", "status", "checkpoint"}
      BY <1>3 DEF Takes, Ahead, InHand, FirstStep, Reading, Setting
    <2>2. event'[p] <= Len(log)
      BY <1>0, <2>1 DEF Queue
    <2>3. QED
      BY <1>3, <2>1, <2>2 DEF Takes, Fetches, Frame, Progress
  <1>4. CASE Passes(p) \/ Reads(p) \/ Writes(p) \/ Sums(p) \/ Errs(p)
    <2>1. /\ Waiting(p)' = Waiting(p) /\ event'[p] = event[p]
          /\ lastProcessed'[p] = lastProcessed[p] /\ from'[p] = from[p]
          /\ UNCHANGED <<log, counter>>
      BY <1>4 DEF Passes, Fetches, Reads, Writes, Sums, Errs, Handles, Frame, Waiting
    <2>2. /\ InHand(p)' => InHand(p)
          /\ stage'[p] \notin {"new", "load", "catch_up"}
      BY <1>4 DEF Passes, Reads, Writes, Sums, Errs, InHand, Reading, Setting, FirstStep
    <2>3. Ahead(p)' \subseteq Ahead(p)
      BY <2>1, <2>2 DEF Ahead
    <2>4. QED
      BY <2>1, <2>2, <2>3 DEF Progress
  <1>5. CASE Marks(p)
    <2>1. /\ InHand(p) /\ event[p] \in 1..Len(log) /\ event[p] \in Ahead(p)
          /\ Waiting(p) \subseteq 1..Len(log) /\ \A e \in Waiting(p) : event[p] < e
      BY <1>5 DEF Marks, InHand, Ahead, Queue
    <2>2. Ahead(p)' = Waiting(p) /\ stage'[p] \in {"live", "next", "stuck"}
      BY <1>5 DEF Marks, Ahead, InHand, Waiting, Reading, Setting
    <2>3. \A e \in Waiting(p) : log[event[p]].seq < log[e].seq
      BY <2>1 DEF LogInv
    <2>4. log[event[p]].seq <= counter /\ from[p] <= log[event[p]].seq
      <3>1. lastProcessed[p] < log[event[p]].seq /\ from[p] <= lastProcessed[p]
        BY <2>1 DEF Progress
      <3>2. QED
        BY <1>0, <2>1, <3>1 DEF LogInv
    <2>5. QED
      BY <1>5, <2>2, <2>3, <2>4 DEF Marks, Frame, Progress
  <1>6. QED
    BY <1>1, <1>2, <1>3, <1>4, <1>5, StepEffect

LEMMA ProgressOfOthers ==
  ASSUME NEW q \in Projectors, Same(q), UNCHANGED <<log, counter>>, Progress(q),
         q \in blind' => q \in blind
  PROVE  Progress(q)'
  BY SameQueue DEF Progress, Same

LEMMA ProgressStep ==
  ASSUME ShapeInv, LogInv, StartsInv,
         \A p \in Projectors : Queue(p) /\ Progress(p),
         [NextProjector]_projectorVars
  PROVE  \A p \in Projectors : Progress(p)'
  <1> SUFFICES ASSUME NEW q \in Projectors PROVE Progress(q)'
    OBVIOUS
  <1>0. /\ Len(log) \in Nat /\ counter \in Nat /\ lastProcessed[q] \in Nat
        /\ event[q] \in Nat /\ \A e \in 1..Len(log) : log[e].seq \in Nat
    BY NumbersTyped
  <1>1. CASE AppendEvent
    <2>1. /\ \A e \in 1..Len(log) : log'[e] = log[e]
          /\ Len(log') = Len(log) + 1 /\ counter' = counter + 1
          /\ log'[Len(log) + 1].seq = counter + 1
          /\ UNCHANGED <<stage, event, lastProcessed, from, blind>>
      BY <1>1, EventAppended
    <2>2. Ahead(q)' \subseteq Ahead(q) \cup {Len(log) + 1}
      <3>1. Waiting(q)' \subseteq Waiting(q) \cup {Len(log) + 1}
        BY <1>1, EventNotified
      <3>2. QED
        BY <2>1, <3>1 DEF Ahead, InHand
    <2>3. Ahead(q) \subseteq 1..Len(log)
      BY DEF Ahead, Queue
    <2>4. \A e \in Ahead(q)' : lastProcessed[q] < log'[e].seq
      <3>1. lastProcessed[q] < counter + 1
        BY <1>0 DEF Progress
      <3>2. QED
        BY <2>1, <2>2, <2>3, <3>1 DEF Progress
    <2>5. lastProcessed[q] <= counter' /\ event[q] <= Len(log')
      BY <1>0, <2>1 DEF Progress
    <2>6. QED
      BY <2>1, <2>4, <2>5 DEF Progress
  <1>2. CASE RefusedBatch
    <2>1. /\ UNCHANGED <<log, channel, subscription, stage, todo, event, attempt, copy,
                         lastProcessed, from, blind>>
          /\ counter' \in {counter, counter + 1}
      BY <1>2, BatchRefused
    <2>2. Ahead(q)' = Ahead(q)
      BY <2>1, SameQueue DEF Same
    <2>3. lastProcessed[q] <= counter'
      BY <1>0, <2>1 DEF Progress
    <2>4. QED
      BY <2>1, <2>2, <2>3 DEF Progress
  <1>3. CASE Stop \/ UNCHANGED projectorVars
    BY <1>3, ProgressOfOthers DEF Same, Stop, storeVars, queueVars, handlerVars,
         ghostVars, projectorVars
  <1>4. CASE StartNew
    <2>1. /\ UNCHANGED <<log, counter, channel, subscription, todo, event, attempt, copy,
                         lastProcessed, from, blind>>
          /\ stage' = [stage EXCEPT ![starts + 1] = "load"]
      BY <1>4 DEF StartNew, MoveTo, storeVars, queueVars, handlerVars, ghostVars
    <2>2. CASE q # starts + 1
      BY <2>1, <2>2, ProgressOfOthers DEF Same, ShapeInv
    <2>3. CASE q = starts + 1
      <3>1. stage'[q] = "load" /\ Waiting(q)' = Waiting(q)
        BY <2>1, <2>3 DEF ShapeInv, Waiting
      <3>2. stage[q] = "new"
        BY <2>3 DEF StartsInv, ShapeInv, Projectors
      <3>3. Ahead(q)' = Ahead(q)
        BY <3>1, <3>2 DEF Ahead, InHand, Reading, Setting
      <3>4. QED
        BY <2>1, <3>1, <3>2, <3>3 DEF Progress
    <2>4. QED
      BY <2>2, <2>3
  <1>5. ASSUME NEW p \in Projectors, Step(p)
        PROVE  Progress(q)'
    <2>1. CASE q = p
      BY <1>5, <2>1, ProgressOfMover
    <2>2. CASE q # p
      <3>1. Frame(p) /\ blind' \subseteq blind \cup {p}
        BY <1>5, OneMoves
      <3>2. QED
        BY <2>2, <3>1, ProgressOfOthers DEF Frame
    <2>3. QED
      BY <2>1, <2>2
  <1>6. QED
    BY <1>1, <1>2, <1>3, <1>4, <1>5 DEF NextProjector

-----------------------------------------------------------------------------
(* The checkpoint.                                                         *)

\* A projector that was blind stays so, behind the same checkpoint.
LEMMA BlindKept ==
  ASSUME ShapeInv, NEW p \in Projectors, Queue(p), Progress(p), Step(p)
  PROVE  \A b \in blind : b \in blind' /\ from'[b] = from[b]
  <1>1. Frame(p) /\ blind \subseteq blind' /\ blind \subseteq Projectors
        /\ (Loads(p) \/ from'[p] = from[p])
    BY OneMoves DEF ShapeInv
  <1>2. Loads(p) => p \notin blind
    BY DEF Loads, Progress
  <1>3. QED
    BY <1>1, <1>2 DEF Frame, Same

\* What an event in hand has to do with the numbers.
LEMMA EventInHand ==
  ASSUME ShapeInv, LogInv, NEW p \in Projectors, Queue(p), Progress(p), InHand(p)
  PROVE  /\ event[p] \in 1..Len(log) /\ log[event[p]].seq \in Nat
         /\ lastProcessed[p] < log[event[p]].seq /\ from[p] < log[event[p]].seq
         /\ log[event[p]].seq <= counter
  <1>1. event[p] \in 1..Len(log) /\ lastProcessed[p] < log[event[p]].seq
        /\ from[p] <= lastProcessed[p]
    BY DEF Queue, Progress, Ahead
  <1>2. log[event[p]].seq <= counter
    BY <1>1 DEF LogInv
  <1>3. QED
    BY <1>1, <1>2, NumbersTyped

\* The steps but UpdateCheckpoint leave the checkpoint alone, and all but
\* LoadCheckpoint and UpdateCheckpoint lastProcessed.
LEMMA CheckpointKept ==
  ASSUME ShapeInv, NEW p \in Projectors, Queue(p), Step(p), ~Marks(p)
  PROVE  /\ UNCHANGED checkpoint
         /\ Loads(p) \/ lastProcessed'[p] = lastProcessed[p]
  BY StepEffect DEF Loads, Lists, Takes, Passes, Fetches, Reads, Writes, Sums, Errs,
     Handles

\* A step that starts no work and leaves numbers alone.
LEMMA OverlapKept ==
  ASSUME OverlapInv, UNCHANGED <<blind, from, lastProcessed, checkpoint>>,
         \A q \in Projectors : Busy(q)' => Busy(q)
  PROVE  OverlapInv'
  BY DEF OverlapInv

\* StartNew and the steps of the store and of Stop start no work.
LEMMA NobodyBegins ==
  ASSUME ShapeInv, LogInv,
         AppendEvent \/ RefusedBatch \/ Stop \/ StartNew \/ UNCHANGED projectorVars
  PROVE  /\ UNCHANGED <<blind, from, lastProcessed, checkpoint, event, copy, counted,
                        faults, raced>>
         /\ \A q \in Projectors : stage'[q] \in {stage[q], "load"}
  <1>1. CASE AppendEvent
    BY <1>1, EventAppended
  <1>2. CASE RefusedBatch
    BY <1>2, BatchRefused
  <1>3. CASE Stop \/ StartNew \/ UNCHANGED projectorVars
    BY <1>3 DEF ShapeInv, Stop, StartNew, MoveTo, handlerVars, modelVars, ghostVars,
         projectorVars
  <1>4. QED
    BY <1>1, <1>2, <1>3

LEMMA OverlapStep ==
  ASSUME ShapeInv, LogInv, \A p \in Projectors : Queue(p) /\ Progress(p), OverlapInv,
         [NextProjector]_projectorVars
  PROVE  OverlapInv'
  <1>1. CASE AppendEvent \/ RefusedBatch \/ Stop \/ StartNew \/ UNCHANGED projectorVars
    <2>1. /\ UNCHANGED <<blind, from, lastProcessed, checkpoint>>
          /\ \A q \in Projectors : stage'[q] \in {stage[q], "load"}
      BY <1>1, NobodyBegins
    <2>2. \A q \in Projectors : Busy(q)' => Busy(q)
      BY <2>1 DEF Busy
    <2>3. QED
      BY <2>1, <2>2, OverlapKept
  <1>2. ASSUME NEW p \in Projectors, Step(p)
        PROVE  OverlapInv'
    <2>1. /\ Frame(p) /\ blind \subseteq blind' /\ blind' \subseteq blind \cup {p}
          /\ Loads(p) \/ (UNCHANGED blind /\ from'[p] = from[p] /\ Busy(p))
      BY <1>2, OneMoves
    <2>2. \A q \in Projectors : q # p => Busy(q)' = Busy(q)
                                         /\ lastProcessed'[q] = lastProcessed[q]
      BY <2>1, SameQueue DEF Frame, Same
    <2>3. \A b \in blind : b \in blind' /\ from'[b] = from[b]
      BY <1>2, BlindKept
    <2>4. \A q \in Projectors : q # p /\ Busy(q) => q \in blind \/ p \in blind'
      <3> SUFFICES ASSUME NEW q \in Projectors, q # p, Busy(q), q \notin blind
                   PROVE  p \in blind'
        OBVIOUS
      <3>1. CASE Loads(p)
        BY <3>1 DEF Loads, AtWork, Busy
      <3>2. CASE ~Loads(p)
        BY <2>1, <3>2 DEF OverlapInv
      <3>3. QED
        BY <3>1, <3>2
    <2>5. \A q, r \in Projectors :
            q # r /\ Busy(q)' /\ Busy(r)' => q \in blind' \/ r \in blind'
      BY <2>1, <2>2, <2>4 DEF OverlapInv
    <2>6. ASSUME NEW q \in Projectors, Busy(q)', q \notin blind'
          PROVE  \/ checkpoint' <= lastProcessed'[q]
                 \/ \E b \in blind' : from'[b] < checkpoint'
      <3>0. checkpoint \in Nat /\ lastProcessed[q] \in Nat
        BY NumbersTyped
      <3>1. CASE Loads(p) /\ q = p
        BY <2>6, <3>0, <3>1 DEF Loads
      <3>2. CASE ~(Loads(p) /\ q = p)
        <4>1. \/ checkpoint <= lastProcessed[q]
              \/ \E b \in blind : from[b] < checkpoint
          BY <2>1, <2>2, <2>6, <3>2 DEF OverlapInv
        <4>2. CASE ~Marks(p)
          BY <1>2, <2>2, <2>3, <3>2, <4>1, <4>2, CheckpointKept
        <4>3. CASE Marks(p)
          <5>1. /\ log[event[p]].seq \in Nat /\ from[p] < log[event[p]].seq
                /\ lastProcessed[p] < log[event[p]].seq
                /\ lastProcessed[p] \in Nat /\ checkpoint \in Nat
            BY <4>3, EventInHand, NumbersTyped DEF Marks, InHand
          <5>2. CASE q = p
            <6>1. lastProcessed'[p] = log[event[p]].seq
                  /\ checkpoint' \in {checkpoint, log[event[p]].seq}
              BY <4>3 DEF Marks
            <6>2. QED
              BY <2>3, <4>1, <5>1, <5>2, <6>1
          <5>3. CASE q # p /\ checkpoint' = log[event[p]].seq
            <6>1. p \in blind' /\ ~Loads(p)
              BY <2>1, <2>2, <2>4, <2>6, <4>3, <5>3 DEF Loads, Marks
            <6>2. from'[p] < checkpoint'
              BY <2>1, <5>1, <5>3, <6>1
            <6>3. QED
              BY <6>1, <6>2
          <5>4. CASE q # p /\ UNCHANGED checkpoint
            BY <2>2, <2>3, <4>1, <5>4
          <5>5. QED
            BY <4>3, <5>2, <5>3, <5>4 DEF Marks
        <4>4. QED
          BY <4>2, <4>3
      <3>3. QED
        BY <3>1, <3>2
    <2>7. QED
      BY <2>5, <2>6 DEF OverlapInv
  <1>3. QED
    BY <1>1, <1>2 DEF NextProjector

-----------------------------------------------------------------------------
(* Counting twice.                                                         *)

\* Without failed calls now there were none before.
LEMMA FaultFree ==
  ASSUME ShapeInv, [NextProjector]_projectorVars, faults' = 0
  PROVE  faults = 0
  <1>1. faults \in Nat /\ faults' \in {faults, faults + 1}
    BY BoundsKept DEF ShapeInv
  <1>2. QED
    BY <1>1

\* What p does or has done is behind its checkpoint and the work of p, and
\* LoadCheckpoint does nothing.
LEMMA DoneByMover ==
  ASSUME ShapeInv, LogInv, NEW p \in Projectors, Queue(p), Progress(p), Step(p),
         NEW e \in 1..Len(log), Done(p, e)'
  PROVE  /\ ~Loads(p) /\ Busy(p) /\ from[p] < log[e].seq
         /\ UNCHANGED blind /\ from'[p] = from[p]
  <1>0. /\ Frame(p) /\ log[e].seq \in Nat /\ from[p] \in Nat /\ lastProcessed[p] \in Nat
        /\ checkpoint \in Nat
        /\ Loads(p) \/ (UNCHANGED blind /\ from'[p] = from[p] /\ Busy(p))
    BY OneMoves, NumbersTyped
  <1>1. ASSUME Loads(p) PROVE FALSE
    <2>1. /\ from'[p] = lastProcessed'[p] /\ event'[p] = 0
          /\ lastProcessed'[p] \in Nat
      BY <1>0, <1>1 DEF Loads, Progress
    <2>2. log'[e].seq = log[e].seq /\ e # 0
      BY <1>0 DEF Frame
    <2>3. from'[p] < log[e].seq /\ log[e].seq <= lastProcessed'[p]
      BY <2>1, <2>2 DEF Done
    <2>4. QED
      BY <1>0, <2>1, <2>3
  <1>2. QED
    BY <1>0, <1>1 DEF Done, Frame

LEMMA DoneByOthers ==
  ASSUME NEW q \in Projectors, Same(q), UNCHANGED log, NEW e
  PROVE  Done(q, e)' = Done(q, e)
  BY DEF Same, Done

LEMMA TwiceOfStep ==
  ASSUME ShapeInv, LogInv, \A q \in Projectors : Queue(q) /\ Progress(q), OverlapInv,
         NEW p \in Projectors, Step(p), TwiceInv, faults = 0, faults' = 0,
         NEW r \in Projectors, NEW e \in 1..Len(log), Done(r, e)'
  PROVE  /\ \/ log[e].seq <= checkpoint'
            \/ BehindBlind(e)'
            \/ event'[r] = e /\ stage'[r] \in {"summary", "checkpoint"}
         /\ \A q \in Projectors \ {r} :
              /\ Busy(q)' /\ q \notin blind' /\ from'[q] < log[e].seq => BehindBlind(e)'
              /\ Done(q, e)' => BehindBlind(e)'
  <1>0. /\ log[e].seq \in Nat /\ checkpoint \in Nat
        /\ \A q \in Projectors : from[q] \in Nat /\ lastProcessed[q] \in Nat
    BY NumbersTyped
  <1>1. /\ Frame(p) /\ blind \subseteq blind' /\ blind' \subseteq blind \cup {p}
        /\ Loads(p) \/ (UNCHANGED blind /\ from'[p] = from[p] /\ Busy(p))
        /\ UNCHANGED log
    BY OneMoves DEF Frame
  <1>2. \A q \in Projectors : q # p =>
          /\ Same(q) /\ Busy(q)' = Busy(q) /\ Done(q, e)' = Done(q, e)
    BY <1>1, SameQueue, DoneByOthers DEF Frame
  <1>3. /\ BehindBlind(e) => BehindBlind(e)'
        /\ p \in blind' /\ from'[p] < log[e].seq => BehindBlind(e)'
    BY <1>1, BlindKept DEF BehindBlind
  \* The events that others have done are behind a blind projector if p, which
  \* is at work or begins to be, may come to them.
  <1>4. ASSUME NEW q \in Projectors, q # p, Done(q, e), from'[p] < log[e].seq
        PROVE  BehindBlind(e)'
    <2>1. CASE p \in blind'
      BY <1>3, <1>4, <2>1
    <2>2. CASE p \notin blind' /\ ~Loads(p)
      BY <1>1, <1>3, <1>4, <2>2 DEF TwiceInv
    <2>3. CASE p \notin blind' /\ Loads(p)
      <3>1. ~AtWork(q) /\ from'[p] = checkpoint
        BY <1>4, <2>3 DEF Loads
      <3>2. stage[q] \notin {"summary", "checkpoint"}
        BY <3>1 DEF AtWork
      <3>3. BehindBlind(e)
        BY <1>0, <1>4, <3>1, <3>2 DEF TwiceInv
      <3>4. QED
        BY <1>3, <3>3
    <2>4. QED
      BY <2>1, <2>2, <2>3
  <1>5. \/ log[e].seq <= checkpoint'
        \/ BehindBlind(e)'
        \/ event'[r] = e /\ stage'[r] \in {"summary", "checkpoint"}
    <2>1. CASE r # p
      <3>1. /\ Done(r, e) /\ event'[r] = event[r] /\ stage'[r] = stage[r]
            /\ \/ log[e].seq <= checkpoint
               \/ BehindBlind(e)
               \/ event[r] = e /\ stage[r] \in {"summary", "checkpoint"}
        BY <1>2, <2>1 DEF TwiceInv, Same
      <3>2. CASE ~Marks(p)
        BY <1>3, <3>1, <3>2, CheckpointKept
      <3>3. CASE Marks(p)
        <4>1. /\ checkpoint' = log[event[p]].seq /\ from'[p] = from[p]
              /\ log[event[p]].seq \in Nat /\ from[p] < log[event[p]].seq
          <5>1. faults' # faults + 1
            OBVIOUS
          <5>2. QED
            BY <3>3, <5>1, EventInHand DEF Marks, InHand
        <4>2. log[e].seq > checkpoint' => from'[p] < log[e].seq
          BY <1>0, <4>1
        <4>3. log[e].seq <= checkpoint' \/ log[e].seq > checkpoint'
          BY <1>0, <4>1
        <4>4. QED
          BY <1>4, <2>1, <3>1, <4>2, <4>3
      <3>4. QED
        BY <3>2, <3>3
    <2>2. CASE r = p
      <3>1. ~Loads(p) /\ from'[p] = from[p]
        BY <2>2, DoneByMover
      <3>2. CASE Marks(p)
        <4>1. faults' # faults + 1
          OBVIOUS
        <4>2. lastProcessed'[p] = checkpoint' /\ stage'[p] \in {"live", "next"}
          BY <3>2, <4>1 DEF Marks
        <4>3. QED
          BY <1>1, <2>2, <4>2 DEF Done
      <3>3. CASE ~Marks(p)
        <4>1. lastProcessed'[p] = lastProcessed[p] /\ UNCHANGED checkpoint
          BY <3>1, <3>3, CheckpointKept
        <4>2. SUFFICES ASSUME log[e].seq <= lastProcessed[p]
                       PROVE  log[e].seq <= checkpoint' \/ BehindBlind(e)'
          BY <1>1, <2>2, <4>1 DEF Done
        <4>3. ~(event[p] = e /\ stage[p] \in {"summary", "checkpoint"})
          BY <1>0, <4>2, EventInHand DEF InHand
        <4>4. Done(p, e)
          BY <1>1, <2>2, <3>1, <4>2 DEF Done
        <4>5. QED
          BY <1>3, <4>1, <4>3, <4>4 DEF TwiceInv
      <3>4. QED
        BY <3>2, <3>3
    <2>3. QED
      BY <2>1, <2>2
  <1>6. ASSUME NEW q \in Projectors \ {r}, Busy(q)', q \notin blind', from'[q] < log[e].seq
        PROVE  BehindBlind(e)'
    <2>1. CASE r # p /\ q # p
      BY <1>1, <1>2, <1>3, <1>6, <2>1 DEF TwiceInv, Same
    <2>2. CASE r # p /\ q = p
      BY <1>2, <1>4, <1>6, <2>2
    <2>3. CASE r = p
      <3>1. Busy(p) /\ from'[p] < log[e].seq
        BY <2>3, DoneByMover
      <3>2. p \in blind'
        BY <1>1, <1>2, <1>6, <2>3, <3>1 DEF OverlapInv
      <3>3. QED
        BY <1>3, <3>1, <3>2
    <2>4. QED
      BY <2>1, <2>2, <2>3
  <1>7. ASSUME NEW q \in Projectors \ {r}, Done(q, e)'
        PROVE  BehindBlind(e)'
    <2>1. CASE r # p /\ q # p
      BY <1>2, <1>3, <1>7, <2>1 DEF TwiceInv
    <2>2. CASE r # p /\ q = p
      BY <1>2, <1>4, <1>7, <2>2, DoneByMover
    <2>3. CASE r = p
      BY <1>2, <1>4, <1>7, <2>3, DoneByMover
    <2>4. QED
      BY <2>1, <2>2, <2>3
  <1>8. QED
    BY <1>5, <1>6, <1>7

LEMMA TwiceStep ==
  ASSUME ShapeInv, LogInv, \A q \in Projectors : Queue(q) /\ Progress(q), OverlapInv,
         TwiceInv, StartsInv, [NextProjector]_projectorVars
  PROVE  TwiceInv'
  <1> SUFFICES ASSUME faults' = 0,
                      NEW r \in Projectors, NEW e \in 1..Len(log'), Done(r, e)'
               PROVE  /\ \/ log'[e].seq <= checkpoint'
                         \/ BehindBlind(e)'
                         \/ event'[r] = e /\ stage'[r] \in {"summary", "checkpoint"}
                      /\ \A q \in Projectors \ {r} :
                           /\ Busy(q)' /\ q \notin blind' /\ from'[q] < log'[e].seq
                                => BehindBlind(e)'
                           /\ Done(q, e)' => BehindBlind(e)'
    BY DEF TwiceInv
  <1>0. faults = 0
    BY FaultFree
  <1>1. CASE AppendEvent \/ RefusedBatch \/ Stop \/ StartNew \/ UNCHANGED projectorVars
    <2>1. /\ UNCHANGED <<blind, from, lastProcessed, checkpoint, event>>
          /\ \A q \in Projectors : stage'[q] \in {stage[q], "load"}
      BY <1>1, NobodyBegins
    <2>2. e \in 1..Len(log) /\ log'[e] = log[e]
      <3>1. CASE AppendEvent
        <4>1. /\ Len(log) \in Nat /\ counter \in Nat
              /\ lastProcessed[r] \in Nat /\ event[r] \in Nat
          BY NumbersTyped
        <4>2. /\ Len(log') = Len(log) + 1 /\ log'[Len(log) + 1].seq = counter + 1
              /\ \A d \in 1..Len(log) : log'[d] = log[d]
          BY <3>1, EventAppended
        <4>3. lastProcessed[r] <= counter /\ event[r] <= Len(log)
          BY DEF Progress
        <4>4. e # Len(log) + 1
          BY <2>1, <4>1, <4>2, <4>3 DEF Done
        <4>5. e \in 1..Len(log)
          BY <4>1, <4>2, <4>4
        <4>6. QED
          BY <4>2, <4>5
      <3>2. CASE UNCHANGED log
        BY <3>2
      <3>3. QED
        BY <1>1, <3>1, <3>2, BatchRefused DEF Stop, StartNew, storeVars, projectorVars
    <2>3. \A q \in Projectors : (Done(q, e)' => Done(q, e)) /\ (Busy(q)' => Busy(q))
      BY <2>1, <2>2 DEF Done, Busy
    <2>4. BehindBlind(e)' <=> BehindBlind(e)
      BY <2>1, <2>2 DEF BehindBlind
    <2>5. stage[r] \in {"summary", "checkpoint"} => stage'[r] = stage[r]
      <3>1. CASE StartNew
        <4>1. stage' = [stage EXCEPT ![starts + 1] = "load"]
          BY <3>1 DEF StartNew, MoveTo
        <4>2. r = starts + 1 => stage[r] = "new"
          BY DEF StartsInv, ShapeInv, Projectors
        <4>3. QED
          BY <4>1, <4>2 DEF ShapeInv
      <3>2. CASE ~StartNew
        BY <1>1, <3>2, EventAppended, BatchRefused DEF Stop, projectorVars
      <3>3. QED
        BY <3>1, <3>2
    <2>6. QED
      BY <1>0, <2>1, <2>2, <2>3, <2>4, <2>5 DEF TwiceInv
  <1>2. ASSUME NEW p \in Projectors, Step(p)
        PROVE  /\ \/ log'[e].seq <= checkpoint'
                  \/ BehindBlind(e)'
                  \/ event'[r] = e /\ stage'[r] \in {"summary", "checkpoint"}
               /\ \A q \in Projectors \ {r} :
                    /\ Busy(q)' /\ q \notin blind' /\ from'[q] < log'[e].seq
                         => BehindBlind(e)'
                    /\ Done(q, e)' => BehindBlind(e)'
    <2>1. UNCHANGED log
      BY <1>2, OneMoves DEF Frame
    <2>2. QED
      BY <1>0, <1>2, <2>1, TwiceOfStep
  <1>3. QED
    BY <1>1, <1>2 DEF NextProjector

-----------------------------------------------------------------------------
(* The counts.                                                             *)

LEMMA Sizes ==
  ASSUME NEW S \in SUBSET Projectors, NEW T \in SUBSET Projectors, NEW p
  PROVE  /\ Cardinality(S) \in Nat /\ Cardinality(T) \in Nat
         /\ S \subseteq T => Cardinality(S) <= Cardinality(T)
         /\ S \subseteq T \cup {p} => Cardinality(S) <= Cardinality(T) + 1
         /\ p \notin S /\ S \cup {p} \subseteq T => Cardinality(S) + 1 <= Cardinality(T)
  <1>1. IsFiniteSet(Projectors)
    BY FS_Interval, ProjectorAssumption DEF Projectors
  <1>2. IsFiniteSet(S) /\ IsFiniteSet(T)
    BY <1>1, FS_Subset
  <1>3. Cardinality(S) \in Nat /\ Cardinality(T) \in Nat
    BY <1>2, FS_CardinalityType
  <1>4. S \subseteq T => Cardinality(S) <= Cardinality(T)
    BY <1>2, FS_Subset
  <1>5. /\ IsFiniteSet(T \cup {p})
        /\ Cardinality(T \cup {p}) \in {Cardinality(T), Cardinality(T) + 1}
    BY <1>2, FS_AddElement
  <1>6. S \subseteq T \cup {p} => Cardinality(S) <= Cardinality(T) + 1
    <2>1. S \subseteq T \cup {p} => Cardinality(S) <= Cardinality(T \cup {p})
      BY <1>5, FS_Subset
    <2>2. QED
      BY <1>3, <1>5, <2>1
  <1>7. p \notin S /\ S \cup {p} \subseteq T => Cardinality(S) + 1 <= Cardinality(T)
    <2>1. p \notin S => Cardinality(S \cup {p}) = Cardinality(S) + 1
      BY <1>2, FS_AddElement
    <2>2. S \cup {p} \subseteq T => Cardinality(S \cup {p}) <= Cardinality(T)
      BY <1>2, FS_Subset
    <2>3. QED
      BY <2>1, <2>2
  <1>8. QED
    BY <1>3, <1>4, <1>6, <1>7

LEMMA AllowedTyped ==
  ASSUME ShapeInv, NEW e
  PROVE  Allowed(e) \in Nat
  <1>1. Cardinality(Doers(e)) \in Nat
    BY Sizes DEF Doers
  <1>2. faults \in Nat
    BY DEF ShapeInv
  <1>3. QED
    BY <1>1, <1>2 DEF Allowed

\* A projector that has done an event has done it, but for errors of its
\* handler.
LEMMA DoneKept ==
  ASSUME ShapeInv, LogInv, NEW p \in Projectors, Queue(p), Progress(p), Step(p),
         NEW e \in 1..Len(log), Done(p, e), ~Errs(p)
  PROVE  Done(p, e)'
  <1>0. /\ log[e].seq \in Nat /\ lastProcessed[p] \in Nat /\ from[p] \in Nat
        /\ log[e].seq > 0
    BY NumbersTyped DEF LogInv
  <1>1. UNCHANGED log
    BY OneMoves DEF Frame
  <1>2. CASE Loads(p)
    <2>1. lastProcessed[p] = 0 /\ stage[p] = "load"
      BY <1>2 DEF Loads, Progress
    <2>2. QED
      BY <1>0, <2>1 DEF Done
  <1>3. CASE Lists(p) \/ Takes(p) \/ Passes(p) \/ Reads(p) \/ Writes(p)
    <2>1. /\ stage[p] \notin {"summary", "checkpoint"}
          /\ lastProcessed'[p] = lastProcessed[p] /\ from'[p] = from[p]
      BY <1>3 DEF Lists, Takes, Passes, Fetches, Reads, Writes, Handles
    <2>2. QED
      BY <1>1, <2>1 DEF Done
  <1>4. CASE Sums(p)
    BY <1>1, <1>4 DEF Sums, Handles, Done
  <1>5. CASE Marks(p)
    <2>1. /\ lastProcessed[p] < log[event[p]].seq /\ log[event[p]].seq \in Nat
      BY <1>5, EventInHand DEF Marks, InHand
    <2>2. lastProcessed'[p] = log[event[p]].seq /\ from'[p] = from[p]
      BY <1>5 DEF Marks
    <2>3. log[e].seq <= lastProcessed'[p]
      BY <1>0, <2>1, <2>2 DEF Done
    <2>4. QED
      BY <1>1, <2>2, <2>3 DEF Done
  <1>6. QED
    BY <1>2, <1>3, <1>4, <1>5, StepEffect

LEMMA AllowedGrows ==
  ASSUME ShapeInv, ShapeInv', LogInv, \A q \in Projectors : Queue(q) /\ Progress(q),
         NEW p \in Projectors, Step(p), NEW e \in Numbers
  PROVE  Allowed(e) <= Allowed(e)'
  <1>0. /\ Frame(p) /\ UNCHANGED log /\ e \in Nat \ {0} /\ Len(log) \in Nat
        /\ faults \in Nat /\ faults' \in {faults, faults + 1}
    <2>1. Frame(p) /\ Len(log) \in Nat
      BY OneMoves, NumbersTyped
    <2>2. [NextProjector]_projectorVars
      BY DEF NextProjector
    <2>3. faults' \in {faults, faults + 1}
      BY <2>2, BoundsKept
    <2>4. faults \in Nat /\ e \in Nat \ {0}
      BY DEF ShapeInv, Numbers
    <2>5. QED
      BY <2>1, <2>3, <2>4 DEF Frame
  <1>1. CASE ~(e <= Len(log))
    BY <1>0, <1>1 DEF Allowed
  <1>2. CASE e <= Len(log)
    <2>1. e \in 1..Len(log)
      BY <1>0, <1>2
    <2>2. \A q \in Projectors : q # p => Done(q, e)' = Done(q, e)
      BY <1>0, DoneByOthers DEF Frame
    <2>3. /\ Allowed(e) = Cardinality(Doers(e)) + faults
          /\ Allowed(e)' = Cardinality(Doers(e)') + faults'
      BY <1>0, <1>2 DEF Allowed
    <2>4. Doers(e) \in SUBSET Projectors /\ Doers(e)' \in SUBSET Projectors
      BY DEF Doers
    <2>5. /\ Cardinality(Doers(e)) \in Nat /\ Cardinality(Doers(e)') \in Nat
          /\ Doers(e) \subseteq Doers(e)' =>
               Cardinality(Doers(e)) <= Cardinality(Doers(e)')
          /\ Doers(e) \subseteq Doers(e)' \cup {p} =>
               Cardinality(Doers(e)) <= Cardinality(Doers(e)') + 1
      BY <2>4, Sizes
    <2>6. CASE ~Errs(p)
      <3>1. Doers(e) \subseteq Doers(e)'
        BY <2>1, <2>2, <2>6, DoneKept DEF Doers
      <3>2. QED
        BY <1>0, <2>3, <2>5, <3>1
    <2>7. CASE Errs(p)
      <3>1. Doers(e) \subseteq Doers(e)' \cup {p} /\ faults' = faults + 1
        BY <2>2, <2>7 DEF Doers, Errs
      <3>2. QED
        BY <1>0, <2>3, <2>5, <3>1
    <2>8. QED
      BY <2>6, <2>7
  <1>3. QED
    BY <1>1, <1>2

LEMMA CountStep ==
  ASSUME ShapeInv, ShapeInv', LogInv, LogInv', StartsInv,
         \A q \in Projectors : Queue(q) /\ Progress(q), CountInv,
         [NextProjector]_projectorVars
  PROVE  CountInv'
  <1> SUFFICES ASSUME NEW e \in Numbers
               PROVE  /\ counted'[e] <= Allowed(e)'
                      /\ \A q \in Projectors :
                           stage'[q] \in Setting => copy'[q][e] <= Allowed(e)'
    BY DEF CountInv
  <1>0. /\ Allowed(e) \in Nat /\ Allowed(e)' \in Nat
        /\ counted[e] \in Nat /\ counted'[e] \in Nat
        /\ \A q \in Projectors : copy[q][e] \in Nat /\ copy'[q][e] \in Nat
        /\ e \in Nat \ {0} /\ Len(log) \in Nat
    <2>1. Allowed(e) \in Nat
      BY AllowedTyped
    <2>2. Allowed(e)' \in Nat
      <3>1. Cardinality(Doers(e)') \in Nat
        <4>1. Doers(e)' \in SUBSET Projectors
          BY DEF Doers
        <4>2. QED
          BY <4>1, Sizes
      <3>2. faults' \in Nat
        BY DEF ShapeInv
      <3>3. QED
        BY <3>1, <3>2 DEF Allowed
    <2>3. counted[e] \in Nat /\ counted'[e] \in Nat
      BY DEF ShapeInv
    <2>4. \A q \in Projectors : copy[q][e] \in Nat /\ copy'[q][e] \in Nat
      <3>1. \A q \in Projectors : copy[q] \in [Numbers -> Nat] /\ copy'[q] \in [Numbers -> Nat]
        BY DEF ShapeInv
      <3>2. QED
        BY <3>1
    <2>5. e \in Nat \ {0} /\ Len(log) \in Nat
      BY NumbersTyped DEF Numbers
    <2>6. QED
      BY <2>1, <2>2, <2>3, <2>4, <2>5
  <1>1. ASSUME Allowed(e) <= Allowed(e)', counted'[e] = counted[e],
               \A q \in Projectors : stage'[q] \in Setting =>
                 /\ stage[q] \in Setting /\ copy'[q] = copy[q]
        PROVE  /\ counted'[e] <= Allowed(e)'
               /\ \A q \in Projectors :
                    stage'[q] \in Setting => copy'[q][e] <= Allowed(e)'
    <2>1. counted[e] <= Allowed(e) /\ \A q \in Projectors :
            stage[q] \in Setting => copy[q][e] <= Allowed(e)
      BY DEF CountInv
    <2>2. QED
      BY <1>0, <1>1, <2>1
  <1>2. CASE AppendEvent \/ RefusedBatch \/ Stop \/ StartNew \/ UNCHANGED projectorVars
    <2>1. /\ UNCHANGED <<from, lastProcessed, event, copy, counted, faults>>
          /\ \A q \in Projectors : stage'[q] \in {stage[q], "load"}
      BY <1>2, NobodyBegins
    <2>2. Allowed(e) <= Allowed(e)'
      <3>1. CASE ~(e <= Len(log))
        BY <1>0, <3>1 DEF Allowed
      <3>2. CASE e <= Len(log)
        <4>1. e \in 1..Len(log)
          BY <1>0, <3>2
        <4>2. log'[e] = log[e] /\ e <= Len(log')
          <5>1. CASE AppendEvent
            BY <1>0, <3>2, <4>1, <5>1, EventAppended
          <5>2. CASE UNCHANGED log
            BY <3>2, <5>2
          <5>3. QED
            BY <1>2, <5>1, <5>2, BatchRefused DEF Stop, StartNew, storeVars, projectorVars
        <4>3. \A q \in Projectors : stage[q] \in {"summary", "checkpoint"} =>
                stage'[q] = stage[q]
          <5>1. CASE StartNew
            <6>1. stage' = [stage EXCEPT ![starts + 1] = "load"]
              BY <5>1 DEF StartNew, MoveTo
            <6>2. \A q \in Projectors : q = starts + 1 => stage[q] = "new"
              BY DEF StartsInv, ShapeInv, Projectors
            <6>3. QED
              BY <6>1, <6>2 DEF ShapeInv
          <5>2. CASE ~StartNew
            BY <1>2, <5>2, EventAppended, BatchRefused DEF Stop, projectorVars
          <5>3. QED
            BY <5>1, <5>2
        <4>4. Doers(e) \subseteq Doers(e)'
          BY <2>1, <4>2, <4>3 DEF Doers, Done
        <4>5. Doers(e) \in SUBSET Projectors /\ Doers(e)' \in SUBSET Projectors
          BY DEF Doers
        <4>6. /\ Cardinality(Doers(e)) <= Cardinality(Doers(e)')
              /\ Cardinality(Doers(e)) \in Nat /\ Cardinality(Doers(e)') \in Nat
          BY <4>4, <4>5, Sizes
        <4>7. /\ Allowed(e) = Cardinality(Doers(e)) + faults
              /\ Allowed(e)' = Cardinality(Doers(e)') + faults /\ faults \in Nat
          BY <2>1, <3>2, <4>2 DEF Allowed, ShapeInv
        <4>8. QED
          BY <4>6, <4>7
      <3>3. QED
        BY <3>1, <3>2
    <2>3. \A q \in Projectors : stage'[q] \in Setting =>
            /\ stage[q] \in Setting /\ copy'[q] = copy[q]
      BY <2>1 DEF Setting
    <2>4. QED
      BY <1>1, <2>1, <2>2, <2>3
  <1>3. ASSUME NEW p \in Projectors, Step(p)
        PROVE  /\ counted'[e] <= Allowed(e)'
               /\ \A q \in Projectors :
                    stage'[q] \in Setting => copy'[q][e] <= Allowed(e)'
    <2>1. Allowed(e) <= Allowed(e)'
      BY <1>3, AllowedGrows
    <2>2. \A q \in Projectors : q # p => stage'[q] = stage[q] /\ copy'[q] = copy[q]
      BY <1>3, OneMoves DEF Frame, Same
    <2>3. CASE Loads(p) \/ Lists(p) \/ Takes(p) \/ Passes(p) \/ Sums(p) \/ Errs(p) \/ Marks(p)
      <3>1. stage'[p] \notin Setting /\ counted' = counted
        BY <2>3 DEF Loads, Lists, Takes, Passes, Fetches, Sums, Errs, Marks, FirstStep,
             Setting
      <3>2. QED
        BY <1>1, <2>1, <2>2, <3>1
    <2>4. CASE Reads(p)
      <3>1. counted' = counted /\ copy'[p][e] \in {counted[e], 0}
        BY <2>4 DEF Reads
      <3>2. counted[e] <= Allowed(e) /\ \A q \in Projectors :
              stage[q] \in Setting => copy[q][e] <= Allowed(e)
        BY DEF CountInv
      <3>3. copy'[p][e] <= Allowed(e)'
        BY <1>0, <2>1, <3>1, <3>2
      <3>4. \A q \in Projectors : q # p /\ stage'[q] \in Setting =>
              copy'[q][e] <= Allowed(e)'
        BY <1>0, <2>1, <2>2, <3>2
      <3>5. QED
        BY <1>0, <2>1, <3>1, <3>2, <3>3, <3>4
    <2>5. CASE Writes(p)
      <3>1. /\ stage[p] \in Setting /\ stage'[p] \notin Setting /\ UNCHANGED <<faults, log>>
            /\ counted'[e] = IF e = event[p] THEN copy[p][e] + 1
                             ELSE IF SameModel(e, event[p]) THEN copy[p][e]
                             ELSE counted[e]
        BY <2>5 DEF Writes, Handles, Frame, Setting
      <3>2. counted[e] <= Allowed(e) /\ \A q \in Projectors :
              stage[q] \in Setting => copy[q][e] <= Allowed(e)
        BY DEF CountInv
      <3>3. \A q \in Projectors : stage'[q] \in Setting => copy'[q][e] <= Allowed(e)'
        BY <1>0, <2>1, <2>2, <3>1, <3>2
      <3>4. CASE e # event[p]
        BY <1>0, <2>1, <3>1, <3>2, <3>3, <3>4
      <3>5. CASE e = event[p]
        <4>1. /\ event[p] \in 1..Len(log) /\ lastProcessed[p] < log[event[p]].seq
              /\ from[p] < log[event[p]].seq
              /\ log[event[p]].seq \in Nat /\ lastProcessed[p] \in Nat
          BY <3>1, EventInHand, NumbersTyped DEF InHand
        <4>2. p \notin Doers(e)
          BY <3>1, <3>5, <4>1 DEF Doers, Done, Setting
        <4>3. p \in Doers(e)'
          BY <2>5, <3>1, <3>5, <4>1 DEF Writes, Handles, Doers, Done
        <4>4. Doers(e) \subseteq Doers(e)'
          <5>1. \A q \in Projectors : q # p => Done(q, e)' = Done(q, e)
            BY <1>3, OneMoves, DoneByOthers DEF Frame
          <5>2. QED
            BY <4>2, <5>1 DEF Doers
        <4>5. Doers(e) \in SUBSET Projectors /\ Doers(e)' \in SUBSET Projectors
          BY DEF Doers
        <4>6. /\ Cardinality(Doers(e)) + 1 <= Cardinality(Doers(e)')
              /\ Cardinality(Doers(e)) \in Nat /\ Cardinality(Doers(e)') \in Nat
          BY <4>2, <4>3, <4>4, <4>5, Sizes
        <4>7. /\ Allowed(e) = Cardinality(Doers(e)) + faults
              /\ Allowed(e)' = Cardinality(Doers(e)') + faults /\ faults \in Nat
          BY <1>0, <3>1, <3>5, <4>1 DEF Allowed, ShapeInv
        <4>8. Allowed(e) + 1 <= Allowed(e)'
          BY <4>6, <4>7
        <4>9. counted'[e] <= Allowed(e)'
          BY <1>0, <3>1, <3>2, <3>5, <4>8
        <4>10. QED
          BY <3>3, <4>9
      <3>6. QED
        BY <3>4, <3>5
    <2>6. QED
      BY <1>3, <2>3, <2>4, <2>5, StepEffect
  <1>4. QED
    BY <1>2, <1>3 DEF NextProjector

-----------------------------------------------------------------------------
(* The losses.                                                             *)

\* Of an event and a projector nothing changes that losses depend on.
LEMMA LossOfOthers ==
  ASSUME NEW q \in Projectors, Same(q), UNCHANGED log, NEW e \in 1..Len(log),
         Placed(q, e), Known(e) => Known(e)'
  PROVE  Placed(q, e)'
  <1>1. Waiting(q)' = Waiting(q) /\ Ahead(q)' = Ahead(q)
    BY SameQueue
  <1>2. Late(q, e)' = Late(q, e)
    BY <1>1 DEF Late, Same
  <1>3. QED
    BY <1>1, <1>2 DEF Placed, Same

\* SetModel counts its event, and another only if the read model is not the one
\* that was read.
LEMMA WrittenCounts ==
  ASSUME ShapeInv, LogInv, NEW p \in Projectors, Queue(p), Writes(p),
         NEW e \in 1..Len(log), Outdated(p, e) => e \in raced
  PROVE  /\ event[p] \in 1..Len(log)
         /\ e = event[p] => counted'[e] # 0
         /\ e # event[p] => e \in raced \/ (counted'[e] = 0 <=> counted[e] = 0)
         /\ raced \subseteq raced'
  <1>1. stage[p] \in Setting /\ event[p] \in 1..Len(log)
    BY DEF Writes, Queue, InHand, Setting
  <1>2. e \in Numbers
    <2>1. Len(log) \in Nat /\ Len(log) <= MaxLog /\ MaxLog \in Nat
      BY ProjectorAssumption DEF LogInv
    <2>2. QED
      BY <2>1 DEF Numbers
  <1>3. copy[p][e] \in Nat
    <2>1. copy[p] \in [Numbers -> Nat]
      BY DEF ShapeInv
    <2>2. QED
      BY <1>2, <2>1
  <1>4. /\ counted'[e] = IF e = event[p] THEN copy[p][e] + 1
                         ELSE IF SameModel(e, event[p]) THEN copy[p][e]
                         ELSE counted[e]
        /\ raced \subseteq raced'
    BY <1>2 DEF Writes
  <1>5. QED
    BY <1>1, <1>3, <1>4 DEF Outdated

LEMMA KnownKept ==
  ASSUME ShapeInv, LogInv, NEW p \in Projectors, Queue(p), Progress(p), Step(p),
         NEW e \in 1..Len(log), Outdated(p, e) => e \in raced, Known(e)
  PROVE  Known(e)'
  <1>1. Frame(p) /\ UNCHANGED <<log, unseen>>
    BY OneMoves DEF Frame
  <1>2. raced \subseteq raced' /\ (e \in raced' \/ (counted[e] # 0 => counted'[e] # 0))
    <2>1. CASE Writes(p)
      BY <2>1, WrittenCounts
    <2>2. CASE ~Writes(p)
      BY <2>2, StepEffect DEF Loads, Lists, Takes, Passes, Fetches, Reads, Sums, Errs, Marks
    <2>3. QED
      BY <2>1, <2>2
  <1>3. \A q \in Projectors : from[q] # 0 => from'[q] = from[q]
    <2>1. Loads(p) => from[p] = 0
      <3>1. Loads(p) => lastProcessed[p] = 0
        BY DEF Loads, Progress
      <3>2. from[p] \in Nat /\ from[p] <= lastProcessed[p]
        BY DEF Progress, ShapeInv
      <3>3. QED
        BY <3>1, <3>2
    <2>2. QED
      BY <1>1, <2>1, OneMoves DEF Frame, Same
  <1>4. FollowsCheckpoint(e) => FollowsCheckpoint(e)'
    BY <1>1, <1>3 DEF FollowsCheckpoint
  <1>5. QED
    BY <1>1, <1>2, <1>4 DEF Known

LEMMA OutdatedKept ==
  ASSUME ShapeInv, LogInv, NEW p \in Projectors, \A q \in Projectors : Queue(q),
         Step(p), faults = 0, faults' = 0, NEW e \in 1..Len(log),
         \A q \in Projectors : Outdated(q, e) => e \in raced,
         NEW q \in Projectors, Outdated(q, e)'
  PROVE  e \in raced'
  <1>0. Frame(p) /\ UNCHANGED log /\ faults' # faults + 1
    BY OneMoves DEF Frame
  <1>1. e \in Numbers
    <2>1. Len(log) \in Nat /\ Len(log) <= MaxLog /\ MaxLog \in Nat
      BY ProjectorAssumption DEF LogInv
    <2>2. QED
      BY <2>1 DEF Numbers
  <1>2. CASE q = p
    <2>1. Reads(p)
      BY <1>2, StepEffect DEF Outdated, Loads, Lists, Takes, Passes, Writes, Sums, Errs,
           Marks, FirstStep, Setting
    <2>2. /\ SameModel(e, event[p])' = SameModel(e, event[p])
          /\ counted' = counted
          /\ copy'[p][e] = IF SameModel(e, event[p]) THEN counted[e] ELSE 0
      BY <1>0, <1>1, <2>1 DEF Reads, Handles, SameModel
    <2>3. QED
      BY <1>2, <2>2 DEF Outdated
  <1>3. CASE q # p
    <2>1. /\ stage'[q] = stage[q] /\ event'[q] = event[q] /\ copy'[q] = copy[q]
          /\ stage[q] \in Setting
      BY <1>0, <1>3 DEF Frame, Same, Outdated
    <2>2. SameModel(e, event[q])
      BY <1>0, <2>1 DEF Outdated, SameModel
    <2>3. CASE Writes(p) /\ e = event[p]
      <3>1. InUse(p, event[p])
        BY <1>3, <2>1, <2>2, <2>3 DEF InUse
      <3>2. QED
        BY <2>3, <3>1 DEF Writes
    <2>4. CASE Writes(p) /\ e # event[p]
      <3>1. raced \subseteq raced' /\ (e \in raced \/ (counted'[e] = 0 <=> counted[e] = 0))
        BY <2>4, WrittenCounts
      <3>2. QED
        BY <2>1, <2>2, <3>1 DEF Outdated
    <2>5. CASE ~Writes(p)
      <3>1. counted' = counted /\ raced' = raced
        BY <2>5, StepEffect DEF Loads, Lists, Takes, Passes, Fetches, Reads, Sums, Errs, Marks
      <3>2. QED
        BY <2>1, <2>2, <3>1 DEF Outdated
    <2>6. QED
      BY <2>3, <2>4, <2>5
  <1>4. QED
    BY <1>2, <1>3

\* The events before the one whose checkpoint is written, and it itself, are
\* known.
LEMMA MarkedAreKnown ==
  ASSUME ShapeInv, LogInv, NEW p \in Projectors, Queue(p), Marks(p),
         NEW e \in 1..Len(log), Placed(p, e), log[e].seq <= log[event[p]].seq
  PROVE  Known(e)
  <1>1. /\ event[p] \in 1..Len(log) /\ event[p] \in Ahead(p)
        /\ \A d \in Waiting(p) : event[p] < d /\ d \in 1..Len(log)
    BY DEF Marks, Queue, InHand, Ahead
  <1>2. log[e].seq \in Nat /\ log[event[p]].seq \in Nat /\ Len(log) \in Nat
    BY <1>1, NumbersTyped
  <1>3. ~(event[p] < e)
    BY <1>1, <1>2 DEF LogInv
  <1>4. e \notin Waiting(p)
    BY <1>1, <1>3
  <1>5. ~Late(p, e)
    BY <1>1, <1>3 DEF Late
  <1>6. QED
    BY <1>4, <1>5 DEF Placed, Marks, Reading, Setting

\* Where an event is for the projector that moves.
LEMMA PlacedByMover ==
  ASSUME ShapeInv, LogInv, NEW p \in Projectors, Queue(p), Progress(p), Step(p),
         faults = 0, faults' = 0, NEW e \in 1..Len(log), Placed(p, e),
         log[e].seq <= lastProcessed[p] => Known(e),
         Outdated(p, e) => e \in raced, Known(e) => Known(e)'
  PROVE  Placed(p, e)'
  <1>0. /\ Len(log) \in Nat /\ log[e].seq \in Nat /\ lastProcessed[p] \in Nat
        /\ from[p] \in Nat /\ UNCHANGED log /\ faults' # faults + 1
    BY NumbersTyped, OneMoves DEF Frame
  <1>1. SUFFICES ASSUME ~Known(e) PROVE Placed(p, e)'
    BY DEF Placed
  <1>2. CASE Loads(p)
    BY <1>2 DEF Loads, Placed
  <1>3. CASE Lists(p)
    <2>1. lastProcessed[p] = from[p] /\ channel'[p] = <<>>
      BY <1>3 DEF Lists, Progress, Queue
    <2>2. Waiting(p)' = {d \in 1..Len(log) : log[d].seq > FromSequence(p)}
      BY <1>0, <1>3, <2>1, MatchingEvents, ElementsEmpty DEF Lists, Waiting, MatchesFilter
    <2>3. log[e].seq > FromSequence(p)
      <3>1. ~(log[e].seq <= lastProcessed[p])
        BY <1>1
      <3>2. lastProcessed[p] # 0 => log[e].seq # lastProcessed[p] + 1
        BY <1>1, <2>1 DEF Known, FollowsCheckpoint
      <3>3. QED
        BY <1>0, <3>1, <3>2 DEF FromSequence
    <2>4. QED
      BY <2>2, <2>3 DEF Placed
  <1>4. CASE Takes(p)
    <2>1. stage[p] \notin {"new", "load", "catch_up"} \cup Reading \cup Setting
      BY <1>4 DEF Takes, Reading, Setting
    <2>2. e \in Waiting(p) \/ Late(p, e)
      BY <1>1, <2>1 DEF Placed
    <2>3. Waiting(p) = Waiting(p)' \cup {event'[p]} /\ stage'[p] = FirstStep(event'[p])
      BY <1>4 DEF Takes
    <2>4. CASE e \in Waiting(p)
      <3>1. e = event'[p] => stage'[p] \in Reading
        BY <1>1, <2>3, FirstStepOf DEF Known, Reading
      <3>2. QED
        BY <2>3, <2>4, <3>1 DEF Placed
    <2>5. CASE Late(p, e)
      <3>1. Ahead(p)' \subseteq Ahead(p)
        BY <2>3 DEF Ahead
      <3>2. QED
        BY <1>0, <1>4, <2>5, <3>1 DEF Takes, Fetches, Late, Placed
    <2>6. QED
      BY <2>2, <2>4, <2>5
  <1>5. CASE Passes(p)
    <2>1. stage[p] \notin {"new", "load", "catch_up"} \cup Reading \cup Setting
      BY <1>5 DEF Passes, Reading, Setting
    <2>2. e \in Waiting(p) \/ Late(p, e)
      BY <1>1, <2>1 DEF Placed
    <2>3. Waiting(p)' = Waiting(p) /\ Ahead(p)' = Waiting(p) /\ Ahead(p) = Waiting(p)
      BY <1>5 DEF Passes, Waiting, Ahead, InHand, Reading, Setting
    <2>4. Late(p, e) => subscription'[p] = subscription[p]
      BY <1>5 DEF Late, Passes, Queue, Live
    <2>5. Late(p, e) => Late(p, e)'
      BY <1>0, <1>5, <2>3, <2>4 DEF Late, Passes, Fetches
    <2>6. QED
      BY <2>2, <2>3, <2>5 DEF Placed
  <1>6. CASE Reads(p) \/ Writes(p) \/ Sums(p)
    <2>1. /\ Waiting(p)' = Waiting(p) /\ event'[p] = event[p] /\ subscription'[p] = subscription[p]
          /\ lastProcessed'[p] = lastProcessed[p]
          /\ stage[p] \notin {"new", "load", "catch_up"}
      BY <1>6 DEF Reads, Writes, Sums, Handles, Waiting
    <2>2. Ahead(p)' = Ahead(p)
      BY <1>6, <2>1 DEF Ahead, InHand, Reads, Writes, Sums, Reading, Setting
    <2>3. Late(p, e)' = Late(p, e)
      BY <1>0, <2>1, <2>2 DEF Late
    <2>4. ASSUME stage[p] \in Reading \cup Setting, e = event[p]
          PROVE  Placed(p, e)'
      <3>1. CASE Reads(p)
        BY <2>1, <2>4, <3>1 DEF Reads, Placed, Setting
      <3>2. CASE Writes(p)
        BY <2>4, <3>2, WrittenCounts DEF Placed, Known
      <3>3. CASE Sums(p)
        BY <2>4, <3>3 DEF Sums, Reading, Setting
      <3>4. QED
        BY <1>6, <3>1, <3>2, <3>3
    <2>5. QED
      BY <1>1, <2>1, <2>3, <2>4 DEF Placed
  <1>7. CASE Marks(p)
    <2>1. stage[p] \notin {"new", "load", "catch_up"} \cup Reading \cup Setting
      BY <1>7 DEF Marks, Reading, Setting
    <2>2. e \in Waiting(p) \/ Late(p, e)
      BY <1>1, <2>1 DEF Placed
    <2>3. /\ Waiting(p)' = Waiting(p) /\ Ahead(p)' = Waiting(p)
          /\ Ahead(p) = Waiting(p) \cup {event[p]}
          /\ event[p] \in 1..Len(log)
      BY <1>7 DEF Marks, Waiting, Ahead, InHand, Queue, Reading, Setting
    <2>4. Late(p, e) => Late(p, e)'
      <3> SUFFICES ASSUME Late(p, e) PROVE Late(p, e)'
        OBVIOUS
      <3>1. event[p] < e /\ \A d \in Waiting(p) : d < e
        BY <2>3 DEF Late
      <3>2. log[event[p]].seq < log[e].seq
        BY <2>3, <3>1 DEF LogInv
      <3>3. QED
        BY <1>0, <1>7, <2>3, <3>1, <3>2 DEF Late, Marks
    <2>5. QED
      BY <2>2, <2>3, <2>4 DEF Placed
  <1>8. CASE Errs(p)
    BY <1>0, <1>8 DEF Errs
  <1>9. QED
    BY <1>2, <1>3, <1>4, <1>5, <1>6, <1>7, <1>8, StepEffect

LEMMA LossOfAppend ==
  ASSUME ShapeInv, LogInv, \A q \in Projectors : Queue(q) /\ Progress(q), CountInv,
         LossInv, faults = 0, AppendEvent, NEW e \in 1..Len(log')
  PROVE  /\ log'[e].seq <= checkpoint' => Known(e)'
         /\ \A p \in Projectors :
              /\ log'[e].seq <= lastProcessed'[p] => Known(e)'
              /\ Placed(p, e)'
              /\ Outdated(p, e)' => e \in raced'
  <1>0. /\ Len(log) \in Nat /\ counter \in Nat /\ checkpoint \in Nat
        /\ checkpoint <= counter
        /\ \A p \in Projectors : lastProcessed[p] \in Nat /\ lastProcessed[p] <= counter
    BY NumbersTyped DEF Progress
  <1>1. /\ Len(log') = Len(log) + 1 /\ Len(log) + 1 <= MaxLog
        /\ \A d \in 1..Len(log) : log'[d] = log[d]
        /\ log'[Len(log) + 1].seq = counter + 1
        /\ unseen' = IF \E p \in Projectors : Deaf(p)
                       THEN unseen \cup {Len(log) + 1} ELSE unseen
        /\ UNCHANGED <<stage, event, copy, lastProcessed, checkpoint, counted, from,
                       raced>>
    BY EventAppended
  <1>2. CASE e \in 1..Len(log)
    <2>1. log'[e] = log[e]
      BY <1>1, <1>2
    <2>2. Known(e) => Known(e)'
      BY <1>1, <2>1 DEF Known, FollowsCheckpoint
    <2>3. ASSUME NEW p \in Projectors
          PROVE  Placed(p, e)' /\ (Outdated(p, e)' => e \in raced')
      <3>1. /\ Waiting(p) \subseteq Waiting(p)'
            /\ subscription[p] = "closed" =>
                 Waiting(p)' = Waiting(p) /\ subscription'[p] = "closed"
        BY EventNotified
      <3>2. Late(p, e) => Late(p, e)'
        <4>1. subscription[p] = "closed" => Ahead(p)' = Ahead(p)
          BY <1>1, <3>1 DEF Ahead, InHand
        <4>2. QED
          BY <1>1, <2>1, <3>1, <4>1 DEF Late
      <3>3. Placed(p, e)
        BY <1>2 DEF LossInv
      <3>4. Placed(p, e)'
        BY <1>1, <2>2, <3>1, <3>2, <3>3 DEF Placed
      <3>5. Outdated(p, e)' => Outdated(p, e)
        <4> SUFFICES ASSUME Outdated(p, e)' PROVE Outdated(p, e)
          OBVIOUS
        <4>1. stage[p] \in Setting /\ event[p] \in 1..Len(log)
          BY <1>1 DEF Outdated, Queue, InHand
        <4>2. SameModel(e, event[p])
          BY <1>1, <1>2, <4>1 DEF Outdated, SameModel, LogInv
        <4>3. QED
          BY <1>1, <4>1, <4>2 DEF Outdated
      <3>6. QED
        BY <1>1, <1>2, <3>4, <3>5 DEF LossInv
    <2>4. QED
      BY <1>1, <1>2, <2>1, <2>2, <2>3 DEF LossInv
  <1>3. CASE e = Len(log) + 1
    <2>1. /\ ~(log'[e].seq <= checkpoint')
          /\ \A p \in Projectors : ~(log'[e].seq <= lastProcessed'[p])
      BY <1>0, <1>1, <1>3
    <2>2. ASSUME NEW p \in Projectors
          PROVE  Placed(p, e)'
      <3>1. CASE ~Live(p)
        BY <1>1, <1>3, <3>1 DEF Deaf, Placed, Known
      <3>2. CASE subscription[p] = "open" /\ subscription'[p] = "open"
        BY <1>3, <3>2, EventNotified DEF Placed
      <3>3. CASE subscription'[p] = "closed"
        <4>1. Waiting(p)' = Waiting(p)
          BY <3>3, EventNotified
        <4>2. Ahead(p)' \subseteq 1..Len(log)
          BY <1>1, <4>1 DEF Ahead, InHand, Queue
        <4>3. \A d \in Ahead(p)' : d < e
          BY <1>0, <1>3, <4>2
        <4>4. lastProcessed'[p] < log'[e].seq
          BY <1>0, <1>1, <1>3
        <4>5. QED
          BY <3>3, <4>3, <4>4 DEF Late, Placed
      <3>4. QED
        <4>1. subscription[p] \in {"none", "open", "closed"}
          BY DEF ShapeInv
        <4>2. QED
          BY <3>1, <3>2, <3>3, <4>1, EventNotified DEF Live
    <2>3. ASSUME NEW p \in Projectors, Outdated(p, e)'
          PROVE  FALSE
      <3>1. e \in Numbers /\ ~(e <= Len(log))
        BY <1>0, <1>1, <1>3, ProjectorAssumption DEF Numbers
      <3>2. Allowed(e) = 0
        BY <3>1 DEF Allowed
      <3>3. stage[p] \in Setting
        BY <1>1, <2>3 DEF Outdated
      <3>4. counted[e] <= 0 /\ copy[p][e] <= 0
        BY <3>1, <3>2, <3>3 DEF CountInv
      <3>5. counted[e] \in Nat /\ copy[p][e] \in Nat
        <4>1. copy[p] \in [Numbers -> Nat] /\ counted \in [Numbers -> Nat]
          BY DEF ShapeInv
        <4>2. QED
          BY <3>1, <4>1
      <3>6. counted[e] = 0 /\ copy[p][e] = 0
        BY <3>4, <3>5
      <3>7. QED
        BY <1>1, <2>3, <3>6 DEF Outdated
    <2>4. QED
      BY <2>1, <2>2, <2>3
  <1>4. QED
    BY <1>0, <1>1, <1>2, <1>3

LEMMA LossOfStep ==
  ASSUME ShapeInv, LogInv, \A q \in Projectors : Queue(q) /\ Progress(q),
         LossInv, faults = 0, faults' = 0, NEW p \in Projectors, Step(p),
         NEW e \in 1..Len(log)
  PROVE  /\ log[e].seq <= checkpoint' => Known(e)'
         /\ \A q \in Projectors :
              /\ log[e].seq <= lastProcessed'[q] => Known(e)'
              /\ Placed(q, e)'
              /\ Outdated(q, e)' => e \in raced'
  <1>0. Frame(p) /\ UNCHANGED log /\ faults' # faults + 1
    BY OneMoves DEF Frame
  <1>1. /\ log[e].seq <= checkpoint => Known(e)
        /\ \A q \in Projectors :
             /\ log[e].seq <= lastProcessed[q] => Known(e)
             /\ Placed(q, e)
             /\ Outdated(q, e) => e \in raced
    BY DEF LossInv
  <1>2. Known(e) => Known(e)'
    BY <1>1, KnownKept
  <1>3. \A q \in Projectors : Outdated(q, e)' => e \in raced'
    BY <1>1, OutdatedKept
  <1>4. \A q \in Projectors : Placed(q, e)'
    <2>1. Placed(p, e)'
      BY <1>1, <1>2, PlacedByMover
    <2>2. \A q \in Projectors : q # p => Placed(q, e)'
      BY <1>0, <1>1, <1>2, LossOfOthers DEF Frame
    <2>3. QED
      BY <2>1, <2>2
  <1>5. CASE ~Marks(p)
    <2>1. UNCHANGED checkpoint /\ (Loads(p) \/ lastProcessed'[p] = lastProcessed[p])
      BY <1>5, CheckpointKept
    <2>2. lastProcessed'[p] \in {lastProcessed[p], checkpoint}
      BY <1>0, <2>1 DEF Loads
    <2>3. \A q \in Projectors : q # p => lastProcessed'[q] = lastProcessed[q]
      BY <1>0 DEF Frame, Same
    <2>4. QED
      BY <1>1, <1>2, <1>3, <1>4, <2>1, <2>2, <2>3
  <1>6. CASE Marks(p)
    <2>1. log[e].seq <= log[event[p]].seq => Known(e)
      BY <1>1, <1>6, MarkedAreKnown
    <2>2. /\ checkpoint' = log[event[p]].seq /\ lastProcessed'[p] = log[event[p]].seq
          /\ \A q \in Projectors : q # p => lastProcessed'[q] = lastProcessed[q]
      BY <1>0, <1>6 DEF Marks, Frame, Same
    <2>3. QED
      BY <1>1, <1>2, <1>3, <1>4, <2>1, <2>2
  <1>7. QED
    BY <1>5, <1>6

LEMMA LossStep ==
  ASSUME ShapeInv, LogInv, StartsInv, \A q \in Projectors : Queue(q) /\ Progress(q),
         CountInv, LossInv, [NextProjector]_projectorVars
  PROVE  LossInv'
  <1> SUFFICES ASSUME faults' = 0, NEW e \in 1..Len(log')
               PROVE  /\ log'[e].seq <= checkpoint' => Known(e)'
                      /\ \A p \in Projectors :
                           /\ log'[e].seq <= lastProcessed'[p] => Known(e)'
                           /\ Placed(p, e)'
                           /\ Outdated(p, e)' => e \in raced'
    BY DEF LossInv
  <1>0. faults = 0
    BY FaultFree
  <1>1. CASE AppendEvent
    BY <1>0, <1>1, LossOfAppend
  <1>2. CASE RefusedBatch \/ Stop \/ StartNew \/ UNCHANGED projectorVars
    <2>1. /\ UNCHANGED <<log, channel, subscription, todo, event, attempt, copy,
                         lastProcessed, checkpoint, counted, unseen, from, raced>>
          /\ \A q \in Projectors : stage'[q] = stage[q] \/ stage'[q] = "load"
      <3>1. CASE RefusedBatch
        BY <3>1, BatchRefused
      <3>2. CASE Stop \/ StartNew \/ UNCHANGED projectorVars
        BY <3>2 DEF ShapeInv, Stop, StartNew, MoveTo, storeVars, queueVars, handlerVars,
             modelVars, ghostVars, projectorVars
      <3>3. QED
        BY <1>2, <3>1, <3>2
    <2>2. Known(e)' = Known(e)
      BY <2>1 DEF Known, FollowsCheckpoint
    <2>3. ASSUME NEW q \in Projectors
          PROVE  Placed(q, e)' /\ (Outdated(q, e)' => e \in raced')
      <3>1. CASE stage'[q] = "load"
        BY <3>1 DEF Placed, Outdated, Setting
      <3>2. CASE stage'[q] = stage[q]
        <4>1. Same(q)
          BY <2>1, <3>2 DEF Same
        <4>2. Placed(q, e)'
          BY <1>0, <2>1, <2>2, <4>1, LossOfOthers DEF LossInv
        <4>3. Outdated(q, e)' = Outdated(q, e)
          BY <2>1, <3>2 DEF Outdated, SameModel
        <4>4. QED
          BY <1>0, <2>1, <4>2, <4>3 DEF LossInv
      <3>3. QED
        BY <2>1, <3>1, <3>2
    <2>4. QED
      BY <1>0, <2>1, <2>2, <2>3 DEF LossInv
  <1>3. ASSUME NEW p \in Projectors, Step(p)
        PROVE  /\ log'[e].seq <= checkpoint' => Known(e)'
               /\ \A q \in Projectors :
                    /\ log'[e].seq <= lastProcessed'[q] => Known(e)'
                    /\ Placed(q, e)'
                    /\ Outdated(q, e)' => e \in raced'
    <2>1. UNCHANGED log
      BY <1>3, OneMoves DEF Frame
    <2>2. QED
      BY <1>0, <1>3, <2>1, LossOfStep
  <1>4. QED
    BY <1>1, <1>2, <1>3 DEF NextProjector

-----------------------------------------------------------------------------
(* The theorems about the projectors.                                      *)

LEMMA ProjectorBegins == InitProjector => ProjectorInv
  <1> SUFFICES ASSUME InitProjector PROVE ProjectorInv
    OBVIOUS
  <1>0. /\ log = <<>> /\ Len(log) = 0 /\ counter = 0 /\ checkpoint = 0 /\ faults = 0
        /\ starts = 1 /\ running = TRUE
        /\ unseen = {} /\ blind = {} /\ raced = {}
        /\ 1..Len(log) = {}
    BY DEF InitProjector, InitStore
  <1>1. \A p \in Projectors :
          /\ channel[p] = <<>> /\ todo[p] = <<>> /\ subscription[p] = "none"
          /\ event[p] = 0 /\ lastProcessed[p] = 0 /\ from[p] = 0
          /\ stage[p] \in {"load", "new"} /\ (p # 1 => stage[p] = "new")
    BY DEF InitProjector
  <1>2. \A p \in Projectors : Waiting(p) = {} /\ Ahead(p) = {} /\ ~InHand(p) /\ ~Live(p)
    BY <1>1, ElementsEmpty DEF Waiting, Ahead, InHand, Live, Reading, Setting
  <1>3. ShapeInv
    <2>1. /\ MaxRetries \in Nat \ {0} /\ MaxStarts \in Nat \ {0} /\ MaxFaults \in Nat
      BY ProjectorAssumption
    <2>2. 1 \in Projectors /\ 0 \in 0..MaxRetries - 1 /\ 0 \in 0..MaxFaults
      BY <2>1 DEF Projectors
    <2>3. NoCounts \in [Numbers -> Nat]
      BY DEF NoCounts
    <2>4. copy \in [Projectors -> [Numbers -> Nat]] /\ counted \in [Numbers -> Nat]
      BY <2>3 DEF InitProjector
    <2>5. channel \in [Projectors -> Seq(Nat)] /\ todo \in [Projectors -> Seq(Nat)]
      BY DEF InitProjector
    <2>6. QED
      BY <1>0, <2>2, <2>4, <2>5 DEF InitProjector, ShapeInv, Stages
  <1>4. LogInv
    BY <1>0, ProjectorAssumption DEF LogInv
  <1>5. StartsInv
    BY <1>0, <1>1 DEF StartsInv, Projectors
  <1>6. ASSUME NEW p \in Projectors PROVE Queue(p) /\ Progress(p)
    <2>1. Len(channel[p]) <= Capacity
      BY <1>1, ProjectorAssumption
    <2>2. Queue(p)
      BY <1>1, <1>2, <2>1, ElementsEmpty DEF Queue, InHand, Reading, Setting
    <2>3. Progress(p)
      BY <1>0, <1>1, <1>2 DEF Progress
    <2>4. QED
      BY <2>2, <2>3
  <1>7. CountInv
    <2>1. \A e \in Numbers : counted[e] = 0 /\ ~(e <= Len(log))
      BY <1>0 DEF InitProjector, NoCounts, Numbers
    <2>2. QED
      BY <1>1, <2>1 DEF CountInv, Allowed, Setting
  <1>8. OverlapInv
    BY <1>1 DEF OverlapInv, Busy
  <1>9. TwiceInv /\ LossInv
    BY <1>0 DEF TwiceInv, LossInv
  <1>10. QED
    BY <1>3, <1>4, <1>5, <1>6, <1>7, <1>8, <1>9 DEF ProjectorInv

LEMMA ProjectorGoesOn ==
  ProjectorInv /\ [NextProjector]_projectorVars => ProjectorInv'
  <1> SUFFICES ASSUME ProjectorInv, [NextProjector]_projectorVars
               PROVE  ProjectorInv'
    OBVIOUS
  <1>0. /\ ShapeInv /\ LogInv /\ StartsInv /\ CountInv /\ OverlapInv /\ TwiceInv
        /\ LossInv /\ \A p \in Projectors : Queue(p) /\ Progress(p)
    BY DEF ProjectorInv
  <1>1. LogInv'
    BY <1>0, LogStep
  <1>2. ShapeInv'
    BY <1>0, <1>1, ShapeStep
  <1>3. \A p \in Projectors : Queue(p)' /\ Progress(p)'
    BY <1>0, QueueStep, ProgressStep
  <1>4. StartsInv' /\ OverlapInv'
    BY <1>0, StartsStep, OverlapStep
  <1>5. CountInv'
    BY <1>0, <1>1, <1>2, CountStep
  <1>6. TwiceInv'
    BY <1>0, TwiceStep
  <1>7. LossInv'
    BY <1>0, LossStep
  <1>8. QED
    BY <1>1, <1>2, <1>3, <1>4, <1>5, <1>6, <1>7 DEF ProjectorInv

\* The inductive invariant: the queues of catchUp and of the subscription are in
\* order and ahead of lastProcessed, of two projectors at work one has read its
\* checkpoint blindly, and what each of them has done bounds the counts.
THEOREM ProjectorInvariant == SpecProjector => []ProjectorInv
  <1>1. ProjectorInv /\ UNCHANGED projectorVars => ProjectorInv'
    BY ProjectorGoesOn
  <1>2. QED
    BY <1>1, ProjectorBegins, ProjectorGoesOn, PTL DEF SpecProjector

\* The variables of the projectors keep their types: a channel never holds more
\* than its capacity, and attempt stays below maxRetries.
THEOREM ProjectorIsTyped == SpecProjector => []ProjectorTypeOK
  <1>1. ASSUME ProjectorInv PROVE ProjectorTypeOK
    <2> USE <1>1 DEF ProjectorInv
    <2>1. /\ Len(log) \in Nat /\ Len(log) <= MaxLog /\ MaxLog \in Nat
          /\ counter \in 0..MaxNumber /\ counter \in Nat /\ MaxNumber \in Nat
      BY ProjectorAssumption DEF LogInv
    <2>2. \A p \in Projectors : channel[p] \in Seq(Numbers) /\ todo[p] \in Seq(Numbers)
      <3> SUFFICES ASSUME NEW p \in Projectors
                   PROVE  channel[p] \in Seq(Numbers) /\ todo[p] \in Seq(Numbers)
        OBVIOUS
      <3>1. channel[p] \in Seq(Nat) /\ todo[p] \in Seq(Nat)
        BY DEF ShapeInv
      <3>2. Waiting(p) \subseteq Numbers
        <4>1. Waiting(p) \subseteq 1..Len(log)
          BY DEF Queue
        <4>2. QED
          BY <2>1, <4>1 DEF Numbers
      <3>3. /\ \A i \in 1..Len(channel[p]) : channel[p][i] \in Numbers
            /\ \A i \in 1..Len(todo[p]) : todo[p][i] \in Numbers
        BY <3>2 DEF Waiting, Elements
      <3>4. /\ channel[p] \in [1..Len(channel[p]) -> Numbers] /\ Len(channel[p]) \in Nat
            /\ todo[p] \in [1..Len(todo[p]) -> Numbers] /\ Len(todo[p]) \in Nat
        BY <3>1, <3>3
      <3>5. QED
        BY <3>4, SeqDef
    <2>3. channel \in [Projectors -> Seq(Numbers)] /\ todo \in [Projectors -> Seq(Numbers)]
      BY <2>2 DEF ShapeInv
    <2>4. \A p \in Projectors :
            /\ lastProcessed[p] \in 0..MaxNumber /\ from[p] \in 0..MaxNumber
            /\ event[p] \in Numbers \cup {0}
      <3> SUFFICES ASSUME NEW p \in Projectors
                   PROVE  /\ lastProcessed[p] \in 0..MaxNumber /\ from[p] \in 0..MaxNumber
                          /\ event[p] \in Numbers \cup {0}
        OBVIOUS
      <3>1. lastProcessed[p] \in Nat /\ from[p] \in Nat /\ event[p] \in Nat
        BY DEF ShapeInv
      <3>2. /\ from[p] <= lastProcessed[p] /\ lastProcessed[p] <= counter
            /\ event[p] <= Len(log)
        BY DEF Progress
      <3>3. QED
        BY <2>1, <3>1, <3>2 DEF Numbers
    <2>5. /\ lastProcessed \in [Projectors -> 0..MaxNumber]
          /\ from \in [Projectors -> 0..MaxNumber]
          /\ event \in [Projectors -> Numbers \cup {0}]
      BY <2>4 DEF ShapeInv
    <2>6. checkpoint \in 0..MaxNumber
      BY <2>1 DEF ShapeInv
    <2>7. \A p \in Projectors : Len(channel[p]) <= Capacity
      BY DEF Queue
    <2>8. QED
      BY <2>3, <2>5, <2>6, <2>7, Zenon DEF ShapeInv, ProjectorTypeOK
  <1>2. QED
    BY ProjectorInvariant, <1>1, PTL

\* While no read or write fails, an event that some processEvent has left behind
\* was counted by a handler, but for the events that no handler knows and three
\* ways to lose one that the code has: an event appended between GetEvents and
\* Subscribe, the first event after a checkpoint, which catchUp's filter leaves
\* out, and a Set of a read model that another projector has read.  A subscriber
\* that notifySubscribers drops for its full channel loses nothing that a later
\* event could hide, and neither does one that is stopped.
THEOREM ProjectorLosesKnownEvents == SpecProjector => []LossesAreKnown
  <1>1. ASSUME ProjectorInv PROVE LossesAreKnown
    <2> SUFFICES ASSUME faults = 0, NEW p \in Projectors, NEW e \in DOMAIN log,
                        log[e].seq <= lastProcessed[p], log[e].data # "other",
                        counted[e] = 0
                 PROVE  \/ e \in unseen \cup raced
                        \/ \E q \in Projectors :
                             from[q] # 0 /\ log[e].seq = from[q] + 1
      BY DEF LossesAreKnown
    <2>1. e \in 1..Len(log)
      BY <1>1 DEF ProjectorInv, LogInv
    <2>2. Known(e)
      BY <1>1, <2>1 DEF ProjectorInv, LossInv
    <2>3. QED
      BY <2>2 DEF Known, FollowsCheckpoint
  <1>2. QED
    BY ProjectorInvariant, <1>1, PTL

\* Without failed calls an event is counted twice only behind the checkpoint that
\* a projector read while another was at work.  Start, Stop and Start of a new
\* projector, at any step of the old one, count nothing twice otherwise.
THEOREM ProjectorCountsTwiceByOverlap == SpecProjector => []CountedTwiceByOverlap
  <1>1. ASSUME ProjectorInv PROVE CountedTwiceByOverlap
    <2> SUFFICES ASSUME faults = 0, NEW e \in DOMAIN log, counted[e] > 1
                 PROVE  BehindBlind(e)
      BY DEF CountedTwiceByOverlap
    <2>0. ShapeInv /\ LogInv /\ CountInv /\ TwiceInv
      BY <1>1 DEF ProjectorInv
    <2>1. /\ e \in 1..Len(log) /\ e \in Numbers /\ e <= Len(log)
      <3>1. e \in 1..Len(log) /\ Len(log) \in Nat /\ Len(log) <= MaxLog /\ MaxLog \in Nat
        BY <2>0, ProjectorAssumption DEF LogInv
      <3>2. QED
        BY <3>1 DEF Numbers
    <2>2. /\ Cardinality(Doers(e)) \in Nat
          /\ \A p : Doers(e) \subseteq {} \cup {p} =>
               Cardinality(Doers(e)) <= Cardinality({}) + 1
      <3>1. Doers(e) \in SUBSET Projectors /\ {} \in SUBSET Projectors
        BY DEF Doers
      <3>2. QED
        BY <3>1, Sizes
    <2>3. Cardinality(Doers(e)) > 1
      <3>1. counted[e] <= Cardinality(Doers(e)) + 0 /\ counted[e] \in Nat
        BY <2>0, <2>1 DEF CountInv, Allowed, ShapeInv
      <3>2. QED
        BY <2>2, <3>1
    <2>4. \A p : ~(Doers(e) \subseteq {p})
      <3>1. Cardinality({}) = 0
        BY FS_EmptySet
      <3>2. ASSUME NEW p, Doers(e) \subseteq {p} PROVE FALSE
        BY <2>2, <2>3, <3>1, <3>2
      <3>3. QED
        BY <3>2
    <2>5. PICK p \in Doers(e) : TRUE
      BY <2>4
    <2>6. PICK q \in Doers(e) : q # p
      BY <2>4
    <2>7. QED
      BY <2>0, <2>1, <2>5, <2>6 DEF Doers, TwiceInv
  <1>2. QED
    BY ProjectorInvariant, <1>1, PTL

\* Whatever fails and however many projectors work at once, an event is counted
\* once by each projector that was given it, and once more at most for each read
\* or write that has failed.
THEOREM ProjectorCountsAreExplained == SpecProjector => []CountsAreExplained
  <1>1. ASSUME ProjectorInv PROVE CountsAreExplained
    <2> SUFFICES ASSUME NEW e \in DOMAIN log
                 PROVE  counted[e] <= Cardinality({p \in Projectors : Given(p, e)}) + faults
      BY DEF CountsAreExplained
    <2> DEFINE G == {p \in Projectors : Given(p, e)}
    <2>0. ShapeInv /\ LogInv /\ CountInv
      BY <1>1 DEF ProjectorInv
    <2>1. /\ e \in Numbers /\ e <= Len(log)
      <3>1. e \in 1..Len(log) /\ Len(log) \in Nat /\ Len(log) <= MaxLog /\ MaxLog \in Nat
        BY <2>0, ProjectorAssumption DEF LogInv
      <3>2. QED
        BY <3>1 DEF Numbers
    <2>2. Doers(e) \in SUBSET Projectors /\ G \in SUBSET Projectors /\ Doers(e) \subseteq G
      BY DEF Doers, Done, Given
    <2>3. /\ Cardinality(Doers(e)) <= Cardinality(G)
          /\ Cardinality(Doers(e)) \in Nat /\ Cardinality(G) \in Nat
      <3> HIDE DEF G
      <3>1. QED
        BY <2>2, Sizes
    <2>4. counted[e] <= Cardinality(Doers(e)) + faults /\ counted[e] \in Nat /\ faults \in Nat
      BY <2>0, <2>1 DEF CountInv, Allowed, ShapeInv
    <2>5. QED
      BY <2>3, <2>4
  <1>2. QED
    BY ProjectorInvariant, <1>1, PTL

\* updateCheckpoint moves the stored checkpoint forward, unless a projector has
\* read it blindly and goes on from before it: a projector that is started when
\* the one before it has ended never writes an older checkpoint.
THEOREM CheckpointsGoForward == SpecProjector => CheckpointMovesForward
  <1>1. ASSUME ProjectorInv, [NextProjector]_projectorVars
        PROVE  [checkpoint' >= checkpoint
                \/ \E b \in blind : from[b] < checkpoint]_checkpoint
    <2> SUFFICES ASSUME checkpoint' # checkpoint
                 PROVE  checkpoint' >= checkpoint \/ \E b \in blind : from[b] < checkpoint
      OBVIOUS
    <2>0. /\ ShapeInv /\ LogInv /\ OverlapInv
          /\ \A p \in Projectors : Queue(p) /\ Progress(p)
      BY <1>1 DEF ProjectorInv
    <2>1. PICK p \in Projectors : Step(p)
      <3>1. ~(AppendEvent \/ RefusedBatch \/ Stop \/ StartNew \/ UNCHANGED projectorVars)
        BY <2>0, NobodyBegins
      <3>2. QED
        BY <1>1, <3>1 DEF NextProjector
    <2>2. Marks(p)
      BY <2>0, <2>1, CheckpointKept
    <2>3. /\ checkpoint' = log[event[p]].seq /\ log[event[p]].seq \in Nat
          /\ lastProcessed[p] < log[event[p]].seq /\ from[p] < log[event[p]].seq
          /\ checkpoint \in Nat /\ lastProcessed[p] \in Nat /\ from[p] \in Nat
      BY <2>0, <2>2, EventInHand, NumbersTyped DEF Marks, InHand
    <2>4. CASE p \in blind
      BY <2>3, <2>4
    <2>5. CASE p \notin blind
      <3>1. checkpoint <= lastProcessed[p] \/ \E b \in blind : from[b] < checkpoint
        BY <2>0, <2>2, <2>5 DEF OverlapInv, Busy, Marks
      <3>2. QED
        BY <2>3, <3>1
    <2>6. QED
      BY <2>4, <2>5
  <1>2. QED
    BY ProjectorInvariant, <1>1, PTL DEF SpecProjector, CheckpointMovesForward
=============================================================================
