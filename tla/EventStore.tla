----------------------------- MODULE EventStore -----------------------------
(***************************************************************************)
(* The events of MemoryEventStore (pkg/eventstore/memory_store.go), whose  *)
(* mutex makes each of its operations one step.                            *)
(*                                                                         *)
(* The store is seen from one aggregate.  Events of other aggregates, and  *)
(* batches that were refused half way, only leave gaps in the sequence     *)
(* numbers.                                                                *)
(***************************************************************************)
EXTENDS Naturals, Sequences

VARIABLES
  log,      \* eventsByAggregate: events, with their sequence numbers
  counter   \* sequenceCounter

storeVars == <<log, counter>>

InitStore == log = <<>> /\ counter = 0

\* aggregateVersions.
CurrentVersion == Len(log)

\* An event that names a version names the next one; 0 names none.
Fits(batch, i) == batch[i].version \in {0, CurrentVersion + i}

\* Mutant of AppendEvents: no comparison with the expected version, which an
\* event keeps if it has one.
AppendEventsUnchecked(batch) ==
  /\ log' = log \o [i \in DOMAIN batch |->
                      [seq |-> counter + i, version |-> batch[i].version,
                       data |-> batch[i].data]]
  /\ counter' = counter + Len(batch)

\* Mutant of AppendEvents: no comparison with the expected version, which an
\* event is given in any case.
AppendEventsRenumbered(batch) ==
  /\ log' = log \o [i \in DOMAIN batch |->
                      [seq |-> counter + i, version |-> CurrentVersion + i,
                       data |-> batch[i].data]]
  /\ counter' = counter + Len(batch)

\* AppendEvents, and AppendEvent for a batch of one.
AppendEvents(batch) ==
  /\ \A i \in DOMAIN batch : Fits(batch, i)
  /\ log' = log \o [i \in DOMAIN batch |->
                      [seq |-> counter + i, version |-> CurrentVersion + i,
                       data |-> batch[i].data]]
  /\ counter' = counter + Len(batch)

\* "concurrency conflict": the events before the one that does not fit have
\* taken their sequence numbers, and none is stored.
RefuseEvents(batch) ==
  \E i \in DOMAIN batch :
    /\ ~Fits(batch, i)
    /\ \A j \in 1..(i - 1) : Fits(batch, j)
    /\ counter' = counter + (i - 1)
    /\ UNCHANGED log

\* GetEventsByAggregate, by their versions.
GetEventsByAggregate(fromVersion) == fromVersion..CurrentVersion

\* Versions and sequence numbers order the events alike and the versions have
\* no gap, though refused batches have used up numbers: what a reader has seen
\* last tells it what comes next.
StreamInOrder ==
  /\ \A i \in DOMAIN log : log[i].version = i /\ log[i].seq <= counter
  /\ \A i, j \in DOMAIN log : i < j => log[i].seq < log[j].seq
=============================================================================
