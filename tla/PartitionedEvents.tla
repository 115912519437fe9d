------------------------- MODULE PartitionedEvents -------------------------
(***************************************************************************)
(* PartitionedEventProcessor (pkg/eventstore/concurrency_control.go): each *)
(* user's events go to one of several workers, over a channel of bounded   *)
(* length, so that they are processed one after the other.                 *)
(***************************************************************************)
EXTENDS Integers, SequencesExt

CONSTANTS
  Events,         \* calls of ProcessEvent, each with an event of its own
  CausedBy,       \* CausedBy[e]: the user of event e, or NoUser
  NoUser,
  Hash,           \* Hash[u]: what the loop of getPartitionForUser computes
  NumPartitions,
  Capacity        \* of a channel; the code has 100

Users == {CausedBy[e] : e \in Events} \ {NoUser}

\* The hash is an int that may have overflowed: it can be negative.
ASSUME PartitionAssumption ==
  /\ Hash \in [Users -> Int]
  /\ {NumPartitions, Capacity} \subseteq Nat \ {0}

VARIABLES
  eventChan,  \* eventChan[i]: the channel of worker i
  worker,     \* worker[i]: whether it waits, processes an event or has ended
  inHand,     \* inHand[i]: the event it processes, as a sequence
  stopped,    \* whether the stopChans are closed
  answer,     \* answer[e]: what ProcessEvent has returned
  accepted,   \* the events accepted, in order (aux.)
  processed   \* the events processed, in order (aux.)

eventVars == <<eventChan, worker, inHand, stopped, answer, accepted, processed>>

Partitions == 1..NumPartitions

EventsTypeOK ==
  /\ eventChan \in [Partitions -> Seq(Events)]
  /\ \A i \in Partitions : Len(eventChan[i]) <= Capacity
  /\ worker \in [Partitions -> {"waiting", "processing", "ended"}]
  /\ inHand \in [Partitions -> Seq(Events)]
  /\ \A i \in Partitions : Len(inHand[i]) = 1 <=> worker[i] = "processing"
  /\ stopped \in BOOLEAN
  /\ answer \in [Events -> {"none", "nil", "no user", "not found", "full"}]
  /\ accepted \in Seq(Events) /\ processed \in Seq(Events)

InitEvents ==
  /\ eventChan = [i \in Partitions |-> <<>>]
  /\ worker = [i \in Partitions |-> "waiting"]
  /\ inHand = [i \in Partitions |-> <<>>]
  /\ stopped = FALSE
  /\ answer = [e \in Events |-> "none"]
  /\ accepted = <<>> /\ processed = <<>>

\* The remainder of Go has the sign of the dividend.
Remainder(n, d) == IF n >= 0 THEN n % d ELSE -((-n) % d)

\* Mutant of PartitionForUser: the shortest channel takes the event.
ShortestPartition(user) ==
  CHOOSE i \in Partitions :
    \A j \in Partitions : Len(eventChan[i]) <= Len(eventChan[j])

PartitionForUser(user) == Remainder(Hash[user], NumPartitions) + 1

\* ProcessEvent refuses an event without a user or a partition, or waits for
\* nothing if the channel is full.  It does not ask whether the workers run.
ProcessEvent(e) ==
  /\ answer[e] = "none"
  /\ \/ /\ CausedBy[e] = NoUser
        /\ answer' = [answer EXCEPT ![e] = "no user"]
        /\ UNCHANGED <<eventChan, accepted>>
     \/ /\ CausedBy[e] # NoUser
        /\ PartitionForUser(CausedBy[e]) \notin Partitions
        /\ answer' = [answer EXCEPT ![e] = "not found"]
        /\ UNCHANGED <<eventChan, accepted>>
     \/ /\ CausedBy[e] # NoUser
        /\ LET i == PartitionForUser(CausedBy[e]) IN
           /\ i \in Partitions
           /\ \/ /\ Len(eventChan[i]) < Capacity
                 /\ eventChan' = [eventChan EXCEPT ![i] = Append(@, e)]
                 /\ accepted' = Append(accepted, e)
                 /\ answer' = [answer EXCEPT ![e] = "nil"]
              \/ /\ Len(eventChan[i]) = Capacity
                 /\ answer' = [answer EXCEPT ![e] = "full"]
                 /\ UNCHANGED <<eventChan, accepted>>
  /\ UNCHANGED <<worker, inHand, stopped, processed>>

\* The select of a worker, which may take an event though stopChan is closed.
Take(i) ==
  /\ worker[i] = "waiting"
  /\ eventChan[i] # <<>>
  /\ worker' = [worker EXCEPT ![i] = "processing"]
  /\ inHand' = [inHand EXCEPT ![i] = <<Head(eventChan[i])>>]
  /\ eventChan' = [eventChan EXCEPT ![i] = Tail(@)]
  /\ UNCHANGED <<stopped, answer, accepted, processed>>

\* processEvent returns.
Finish(i) ==
  /\ worker[i] = "processing"
  /\ worker' = [worker EXCEPT ![i] = "waiting"]
  /\ processed' = processed \o inHand[i]
  /\ inHand' = [inHand EXCEPT ![i] = <<>>]
  /\ UNCHANGED <<eventChan, stopped, answer, accepted>>

\* The worker sees that stopChan is closed; what is queued stays there.
End(i) ==
  /\ worker[i] = "waiting"
  /\ stopped
  /\ worker' = [worker EXCEPT ![i] = "ended"]
  /\ UNCHANGED <<eventChan, inHand, stopped, answer, accepted, processed>>

\* Stop, called once: a second call would close the channels again and panic.
StopWorkers ==
  /\ ~stopped
  /\ stopped' = TRUE
  /\ UNCHANGED <<eventChan, worker, inHand, answer, accepted, processed>>

WorkerStep(i) == Take(i) \/ Finish(i) \/ End(i)

NextEvents ==
  \/ \E e \in Events : ProcessEvent(e)
  \/ \E i \in Partitions : WorkerStep(i)
  \/ StopWorkers

SpecEvents == InitEvents /\ [][NextEvents]_eventVars

-----------------------------------------------------------------------------
(* Properties.                                                             *)

\* The events of a user among those of a sequence, in their order.
OfUser(events, user) ==
  LET first[n \in 0..Len(events)] ==   \* among the first n
        IF n = 0 THEN <<>>
        ELSE IF CausedBy[events[n]] = user THEN Append(first[n - 1], events[n])
        ELSE first[n - 1]
  IN first[Len(events)]

\* The comment at ProcessEvent guarantees sequential processing: the events of
\* a user are processed in the order in which they were accepted, without a gap
\* and one at a time, be others refused in between, the workers stopped, or
\* events accepted after that.
UsersInOrder ==
  \A u \in Users :
    /\ \A i, j \in Partitions :
         OfUser(inHand[i], u) # <<>> /\ OfUser(inHand[j], u) # <<>> => i = j
    /\ IsPrefix(OfUser(processed, u), OfUser(accepted, u))
=============================================================================
