------------------------ MODULE AggregateRepository ------------------------
(***************************************************************************)
(* Wallet aggregates over the event store: AggregateRepository (pkg/       *)
(* eventstore/aggregate.go) and WalletAggregate (aggregates.go).           *)
(*                                                                         *)
(* Writers load the same wallet, add to its balance or deduct from it, and *)
(* save it.  All amounts are 1.  A writer may drop its aggregate and load  *)
(* it again, or go on with what it has in memory.                          *)
(***************************************************************************)
EXTENDS EventStore

CONSTANTS
  Writers,            \* goroutines that use the wallet
  SnapshotFrequency,  \* snapshotFrequency; 0 for no snapshots
  MaxBatch,           \* bound on the operations between two saves
  MaxEvents,          \* bound on the events
  MaxSequence         \* bound on the sequence numbers

ASSUME RepositoryAssumption ==
  /\ SnapshotFrequency \in Nat
  /\ MaxBatch \in Nat
  /\ MaxEvents \in Nat
  /\ MaxSequence \in Nat

VARIABLES
  snapshot,  \* the wallet's entry of snapshots
  pc,        \* pc[w]: what writer w does with its aggregate
  version,   \* version[w]: Version of its aggregate
  balance,   \* balance[w]: Balance of its aggregate
  pending,   \* pending[w]: UncommittedEvents of its aggregate
  kept       \* whether an aggregate served two operations (auxiliary)

vars == <<storeVars, snapshot, pc, version, balance, pending, kept>>

Change == [before : Nat, after : Nat]
Uncommitted == [version : Nat, data : Change]
NoSnapshot == [version |-> 0, balance |-> 0]

TypeOK ==
  /\ log \in Seq([seq : Nat, version : Nat, data : Change])
  /\ counter \in Nat
  /\ snapshot \in [version : Nat, balance : Nat]
  /\ pc \in [Writers -> {"idle", "loading", "loaded", "used", "snapshot"}]
  /\ version \in [Writers -> Nat]
  /\ balance \in [Writers -> Nat]
  /\ pending \in [Writers -> Seq(Uncommitted)]
  /\ kept \in BOOLEAN

Init ==
  /\ InitStore
  /\ snapshot = NoSnapshot
  /\ pc = [w \in Writers |-> "idle"]
  /\ version = [w \in Writers |-> 0]
  /\ balance = [w \in Writers |-> 0]
  /\ pending = [w \in Writers |-> <<>>]
  /\ kept = FALSE

\* The aggregate of w gets a version and a balance.
Becomes(w, v, b) ==
  /\ version' = [version EXCEPT ![w] = v]
  /\ balance' = [balance EXCEPT ![w] = b]

Goto(w, label) == pc' = [pc EXCEPT ![w] = label]

\* The balance that event i has left.
BalanceAt(i) == IF i = 0 THEN 0 ELSE log[i].data.after

-----------------------------------------------------------------------------
(* Load.                                                                   *)

\* GetSnapshot and LoadFromSnapshot, or the factory's empty aggregate.
LoadSnapshot(w) ==
  /\ pc[w] = "idle"
  /\ Becomes(w, snapshot.version, snapshot.balance)
  /\ Goto(w, "loading")
  /\ UNCHANGED <<storeVars, snapshot, pending, kept>>

\* The events from the version after that of the snapshot; each of them sets the
\* version and the balance.
LoadEvents(w) ==
  /\ pc[w] = "loading"
  /\ IF GetEventsByAggregate(version[w] + 1) # {}
       THEN Becomes(w, CurrentVersion, BalanceAt(CurrentVersion))
       ELSE UNCHANGED <<version, balance>>
  /\ Goto(w, "loaded")
  /\ UNCHANGED <<storeVars, snapshot, pending, kept>>

\* The writer has no use for its aggregate any more.
Discard(w) ==
  /\ pc[w] \in {"loaded", "used"}
  /\ Goto(w, "idle")
  /\ Becomes(w, 0, 0)
  /\ pending' = [pending EXCEPT ![w] = <<>>]
  /\ UNCHANGED <<storeVars, snapshot, kept>>

-----------------------------------------------------------------------------
(* AddBalance and DeductBalance.                                           *)

\* AddUncommittedEvent numbers the event and counts it, and ApplyEvent counts
\* it once more.
Record(w, after) ==
  /\ pc[w] \in {"loaded", "used"}
  /\ Len(pending[w]) < MaxBatch
  /\ CurrentVersion + Len(pending[w]) < MaxEvents
  /\ pending' = [pending EXCEPT ![w] =
       Append(@, [version |-> version[w] + 1,
                  data |-> [before |-> balance[w], after |-> after]])]
  /\ Becomes(w, version[w] + 2, after)
  /\ kept' = (kept \/ pc[w] = "used")
  /\ Goto(w, "used")
  /\ UNCHANGED <<storeVars, snapshot>>

AddBalance(w) == Record(w, balance[w] + 1)

DeductBalance(w) == balance[w] >= 1 /\ Record(w, balance[w] - 1)

-----------------------------------------------------------------------------
(* Save.                                                                   *)

ShouldCreateSnapshot(w) ==
  SnapshotFrequency > 0 /\ version[w] % SnapshotFrequency = 0

\* Mutant of Save: the error of AppendEvents is only printed.
SaveUnchecked(w) ==
  /\ pc[w] = "used"
  /\ pending[w] # <<>>
  /\ counter + Len(pending[w]) <= MaxSequence
  /\ AppendEvents(pending[w]) \/ RefuseEvents(pending[w])
  /\ pending' = [pending EXCEPT ![w] = <<>>]
  /\ Goto(w, IF ShouldCreateSnapshot(w) THEN "snapshot" ELSE "used")
  /\ UNCHANGED <<snapshot, version, balance, kept>>

\* An aggregate that is refused keeps its events.
Save(w) ==
  /\ pc[w] = "used"
  /\ pending[w] # <<>>
  /\ counter + Len(pending[w]) <= MaxSequence
  /\ \/ /\ AppendEvents(pending[w])
        /\ pending' = [pending EXCEPT ![w] = <<>>]
        /\ Goto(w, IF ShouldCreateSnapshot(w) THEN "snapshot" ELSE "used")
     \/ /\ RefuseEvents(pending[w])
        /\ UNCHANGED <<pending, pc>>
  /\ UNCHANGED <<snapshot, version, balance, kept>>

\* What CreateSnapshot of the aggregate keeps and LoadFromSnapshot restores.
SnapshotOf(w) == [version |-> version[w], balance |-> balance[w]]

\* createSnapshot, with the version and the state in memory; it replaces any
\* other.  An error is only printed.
CreateSnapshot(w) ==
  /\ pc[w] = "snapshot"
  /\ \/ snapshot' = SnapshotOf(w)
     \/ UNCHANGED snapshot
  /\ Goto(w, "used")
  /\ UNCHANGED <<storeVars, version, balance, pending, kept>>

Next ==
  \E w \in Writers :
    \/ LoadSnapshot(w) \/ LoadEvents(w) \/ Discard(w)
    \/ AddBalance(w) \/ DeductBalance(w)
    \/ Save(w) \/ CreateSnapshot(w)

Spec == Init /\ [][Next]_vars

-----------------------------------------------------------------------------
(* Properties.                                                             *)

\* Each change of the balance starts from the balance that the event before it
\* has left, as long as aggregates are loaded for every operation and there is
\* no snapshot.  Versions count operations twice in memory, so that an aggregate
\* that goes on after a save fits again once another writer has added an event.
NoLostUpdate ==
  ~kept /\ snapshot = NoSnapshot =>
    \A i \in DOMAIN log : log[i].data.before = BalanceAt(i - 1)

\* As long as aggregates are loaded for every operation, and none is kept after a
\* save, what is loaded is at most one event older than the version it claims: a
\* snapshot carries the version of the event to come, and Load goes on behind
\* it.  An aggregate that is kept claims versions that are still further ahead.
LoadMissesAtMostOne ==
  ~kept =>
    \A w \in Writers : pc[w] = "loaded" =>
      \E v \in {version[w], version[w] - 1} :
        v \in 0..CurrentVersion /\ balance[w] = BalanceAt(v)
=============================================================================
