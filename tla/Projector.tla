----------------------------- MODULE Projector -----------------------------
(***************************************************************************)
(* The projectors of the read models (pkg/readmodels/store.go) and the     *)
(* subscriptions of the event store that feed them (pkg/eventstore/        *)
(* memory_store.go).                                                       *)
(*                                                                         *)
(* Start reads the checkpoint, handles the events that follow it, then     *)
(* subscribes and leaves a goroutine behind that handles what the channel  *)
(* brings.  Stop closes a channel and waits for nobody: Start, if it is    *)
(* still under way, and the goroutine go on, next to the projector that is *)
(* started after them.  They share the event store, the read models and    *)
(* the checkpoint, which they read and write without a lock of their own.  *)
(***************************************************************************)
EXTENDS EventStore, FiniteSets

CONSTANTS
  MaxLog,       \* bound on the events
  Kinds,        \* Kinds[e]: bound on what event e is about
  MaxNumber,    \* bound on the sequence numbers
  MaxStarts,    \* bound on the projectors that are started
  MaxFaults,    \* bound on the reads and writes that fail
  Capacity,     \* buffer of a channel; the code has 100
  MaxRetries    \* maxRetries; the code has 3

ASSUME ProjectorAssumption ==
  /\ {MaxLog, MaxNumber, MaxFaults, Capacity} \subseteq Nat
  /\ {MaxStarts, MaxRetries} \subseteq Nat \ {0}
  /\ Kinds \in [1..MaxLog -> SUBSET {"wallet", "payment", "other"}]

Numbers == 1..MaxLog

\* Projectors by the order in which they are started.
Projectors == 1..MaxStarts

VARIABLES
  channel,        \* the subscription's buffer: numbers of events
  subscription,   \* "none", "open", or "closed" by the store
  stage,          \* what the projector does
  todo,           \* the events that catchUp has read and not handled yet
  event,          \* the event in hand
  attempt,        \* tries of its handler that have failed
  copy,           \* the read model that its handler has read: counts of events
  lastProcessed,  \* p.lastProcessed
  checkpoint,     \* the stored checkpoint; 0 if there is none
  counted,        \* counted[e]: how often TransactionCount, or the counters of
                  \* the payments, have counted e
  starts,         \* projectors that have been started
  running,        \* isRunning of the last of them
  faults,         \* reads and writes that have failed so far
  unseen,         \* events appended after GetEvents, before Subscribe (aux.)
  from,           \* from[p]: the checkpoint that p has read (aux.)
  blind,          \* projectors that could not read it, or read it while another
                  \* was at work (aux.)
  raced           \* events that were counted while another projector had the
                  \* same read model in hand (aux.)

queueVars == <<channel, subscription, todo>>
handlerVars == <<event, attempt, copy>>
modelVars == <<checkpoint, counted>>
startVars == <<starts, running>>
ghostVars == <<unseen, from, blind, raced>>
projectorVars ==
  <<storeVars, queueVars, stage, handlerVars, lastProcessed, modelVars,
    startVars, faults, ghostVars>>

NoCounts == [e \in Numbers |-> 0]

Reading == {"balance", "status"}
Setting == {"set_balance", "set_status"}
Stages  == {"new", "load", "catch_up", "next", "summary", "checkpoint",
            "subscribe", "live", "stuck", "ended"} \cup Reading \cup Setting

ProjectorTypeOK ==
  /\ channel \in [Projectors -> Seq(Numbers)]
  /\ \A p \in Projectors : Len(channel[p]) <= Capacity
  /\ subscription \in [Projectors -> {"none", "open", "closed"}]
  /\ stage \in [Projectors -> Stages]
  /\ todo \in [Projectors -> Seq(Numbers)]
  /\ event \in [Projectors -> Numbers \cup {0}]
  /\ attempt \in [Projectors -> 0..MaxRetries - 1]
  /\ copy \in [Projectors -> [Numbers -> Nat]]
  /\ lastProcessed \in [Projectors -> 0..MaxNumber]
  /\ checkpoint \in 0..MaxNumber
  /\ counted \in [Numbers -> Nat]
  /\ starts \in Projectors /\ running \in BOOLEAN /\ faults \in 0..MaxFaults
  /\ from \in [Projectors -> 0..MaxNumber]
  /\ unseen \subseteq Numbers /\ blind \subseteq Projectors
  /\ raced \subseteq Numbers

InitProjector ==
  /\ InitStore
  /\ channel = [p \in Projectors |-> <<>>]
  /\ subscription = [p \in Projectors |-> "none"]
  /\ stage = [p \in Projectors |-> IF p = 1 THEN "load" ELSE "new"]
  /\ todo = [p \in Projectors |-> <<>>]
  /\ event = [p \in Projectors |-> 0]
  /\ attempt = [p \in Projectors |-> 0]
  /\ copy = [p \in Projectors |-> NoCounts]
  /\ lastProcessed = [p \in Projectors |-> 0]
  /\ checkpoint = 0
  /\ counted = NoCounts
  /\ starts = 1 /\ running = TRUE
  /\ faults = 0
  /\ from = [p \in Projectors |-> 0]
  /\ unseen = {} /\ blind = {} /\ raced = {}

\* A read or a write of the read model store gives an error.
CallFails == faults < MaxFaults /\ faults' = faults + 1

MoveTo(p, s) == stage' = [stage EXCEPT ![p] = s]

\* The goroutine of Start handles what the channel brings.
Live(p) == subscription[p] # "none"

\* Somebody executes Start or its goroutine.
AtWork(p) == stage[p] \notin {"new", "stuck", "ended"}

-----------------------------------------------------------------------------
(* The event store.                                                        *)

\* Mutant of Notify: an event that finds the channel full is dropped.
NotifyDropping(e) ==
  /\ channel' = [p \in Projectors |->
       IF subscription[p] = "open" /\ Len(channel[p]) < Capacity
         THEN Append(channel[p], e) ELSE channel[p]]
  /\ UNCHANGED subscription

\* notifySubscribers: a subscriber whose channel is full loses it.  The filter
\* is a pointer to lastProcessed, which is less than the number of any new
\* event.
Notify(e) ==
  /\ channel' = [p \in Projectors |->
       IF subscription[p] = "open" /\ Len(channel[p]) < Capacity
         THEN Append(channel[p], e) ELSE channel[p]]
  /\ subscription' = [p \in Projectors |->
       IF subscription[p] = "open" /\ Len(channel[p]) = Capacity
         THEN "closed" ELSE subscription[p]]

\* p has read the events and does not hear of new ones yet.
Deaf(p) == ~Live(p) /\ stage[p] \notin {"new", "load", "catch_up"}

\* AppendEvent, of an event of a wallet or of a payment, or of another, for
\* which there is no handler.
AppendEvent ==
  /\ Len(log) < MaxLog
  /\ counter < MaxNumber
  /\ \E type \in Kinds[Len(log) + 1] :
       AppendEvents(<<[version |-> 0, data |-> type]>>)
  /\ Notify(Len(log) + 1)
  /\ unseen' = IF \E p \in Projectors : Deaf(p)
                 THEN unseen \cup {Len(log) + 1} ELSE unseen
  /\ UNCHANGED <<stage, todo, handlerVars, lastProcessed, modelVars, startVars,
                 faults, from, blind, raced>>

\* A batch whose second event does not fit.
RefusedBatch ==
  /\ counter < MaxNumber
  /\ RefuseEvents(<<[version |-> 0, data |-> "wallet"],
                    [version |-> CurrentVersion + 1, data |-> "wallet"]>>)
  /\ UNCHANGED <<queueVars, stage, handlerVars, lastProcessed, modelVars,
                 startVars, faults, ghostVars>>

-----------------------------------------------------------------------------
(* Start and Stop.                                                         *)

\* Stop: the channel that the goroutine looks at is closed.
Stop ==
  /\ running
  /\ running' = FALSE
  /\ UNCHANGED <<storeVars, queueVars, stage, handlerVars, lastProcessed,
                 modelVars, starts, faults, ghostVars>>

Stopped(p) == p < starts \/ ~running

\* A new projector, after Stop of the one before it.
StartNew ==
  /\ ~running /\ starts < MaxStarts
  /\ starts' = starts + 1 /\ running' = TRUE
  /\ MoveTo(starts + 1, "load")
  /\ UNCHANGED <<storeVars, queueVars, handlerVars, lastProcessed, modelVars,
                 faults, ghostVars>>

\* An error of the read is taken for a checkpoint that does not exist.
LoadCheckpoint(p) ==
  /\ stage[p] = "load"
  /\ \E readable \in BOOLEAN :
       /\ IF readable THEN UNCHANGED faults ELSE CallFails
       /\ LET number == IF readable THEN checkpoint ELSE 0 IN
            /\ lastProcessed' = [lastProcessed EXCEPT ![p] = number]
            /\ from' = [from EXCEPT ![p] = number]
       /\ blind' = IF ~readable \/ \E q \in Projectors \ {p} : AtWork(q)
                     THEN blind \cup {p} ELSE blind
  /\ MoveTo(p, "catch_up")
  /\ UNCHANGED <<storeVars, queueVars, handlerVars, modelVars, startVars,
                 unseen, raced>>

\* Mutant of FromSequence: one too low, not one too high.
FromSequenceInclusive(p) ==
  IF lastProcessed[p] > 0 THEN lastProcessed[p] - 1 ELSE 0

\* Mutant of FromSequence: catchUp starts from the beginning.
FromSequenceZero(p) == 0

\* The number that catchUp asks for.
FromSequence(p) == IF lastProcessed[p] > 0 THEN lastProcessed[p] + 1 ELSE 0

\* matchesFilter, for a filter that has FromSequenceNumber alone.
MatchesFilter(e, number) == log[e].seq > number

\* The loop of GetEvents: the events that match, in their order.
Matching(number) ==
  LET first[n \in 0..Len(log)] ==   \* among the first n
        IF n = 0 THEN <<>>
        ELSE IF MatchesFilter(n, number) THEN Append(first[n - 1], n)
        ELSE first[n - 1]
  IN first[Len(log)]

\* catchUp: GetEvents.
GetEvents(p) ==
  /\ stage[p] = "catch_up"
  /\ todo' = [todo EXCEPT ![p] = Matching(FromSequence(p))]
  /\ MoveTo(p, "next")
  /\ UNCHANGED <<storeVars, channel, subscription, handlerVars, lastProcessed,
                 modelVars, startVars, faults, ghostVars>>

\* The step of processEvent that comes first.
FirstStep(e) ==
  IF log[e].data = "wallet" THEN "balance"
  ELSE IF log[e].data = "payment" THEN "status"
  ELSE "checkpoint"

TakeInHand(p, e) ==
  /\ event' = [event EXCEPT ![p] = e]
  /\ MoveTo(p, FirstStep(e))

\* The loop of catchUp, which does not look whether the projector is stopped.
NextEvent(p) ==
  /\ stage[p] = "next"
  /\ \/ /\ todo[p] # <<>>
        /\ TakeInHand(p, Head(todo[p]))
        /\ todo' = [todo EXCEPT ![p] = Tail(@)]
     \/ /\ todo[p] = <<>>
        /\ MoveTo(p, "subscribe")
        /\ UNCHANGED <<event, todo>>
  /\ UNCHANGED <<storeVars, channel, subscription, attempt, copy, lastProcessed,
                 modelVars, startVars, faults, ghostVars>>

\* Mutant of Subscribe: no filter by number, so that the events are replayed.
SubscribeReplaying(p) ==
  /\ stage[p] = "subscribe"
  /\ subscription' = [subscription EXCEPT ![p] = "open"]
  /\ \E n \in 0..Capacity :
       /\ n <= Len(log)
       /\ channel' = [channel EXCEPT ![p] = [e \in 1..n |-> e]]
  /\ MoveTo(p, "live")
  /\ UNCHANGED <<storeVars, todo, handlerVars, lastProcessed, modelVars,
                 startVars, faults, ghostVars>>

\* Subscribe, with a filter by number: nothing is replayed.
Subscribe(p) ==
  /\ stage[p] = "subscribe"
  /\ subscription' = [subscription EXCEPT ![p] = "open"]
  /\ MoveTo(p, "live")
  /\ UNCHANGED <<storeVars, channel, todo, handlerVars, lastProcessed, modelVars,
                 startVars, faults, ghostVars>>

\* The goroutine of Start.  A closed channel brings nothing for ever.
Receive(p) ==
  /\ stage[p] = "live"
  /\ channel[p] # <<>>
  /\ TakeInHand(p, Head(channel[p]))
  /\ channel' = [channel EXCEPT ![p] = Tail(@)]
  /\ UNCHANGED <<storeVars, subscription, todo, attempt, copy, lastProcessed,
                 modelVars, startVars, faults, ghostVars>>

\* Of a stopped projector and an event both are ready, and select takes either.
End(p) ==
  /\ stage[p] = "live"
  /\ Stopped(p)
  /\ MoveTo(p, "ended")
  /\ UNCHANGED <<storeVars, queueVars, handlerVars, lastProcessed, modelVars,
                 startVars, faults, ghostVars>>

-----------------------------------------------------------------------------
(* processEvent.                                                           *)

\* The handler, or the update of the checkpoint, has given an error.  catchUp
\* ends with it and leaves isRunning set; the goroutine goes on.
Fails(p) == MoveTo(p, IF Live(p) THEN "live" ELSE "stuck")

\* An error of the handler, which is called again from its beginning.
HandlerFails(p) ==
  /\ CallFails
  /\ \/ /\ attempt[p] + 1 < MaxRetries
        /\ attempt' = [attempt EXCEPT ![p] = @ + 1]
        /\ MoveTo(p, FirstStep(event[p]))
     \/ /\ attempt[p] + 1 = MaxRetries
        /\ attempt' = [attempt EXCEPT ![p] = 0]
        /\ Fails(p)

HandlerReturns(p) == attempt' = [attempt EXCEPT ![p] = 0] /\ MoveTo(p, "checkpoint")

\* Two events are counted by one read model.
SameModel(d, e) == {d, e} \subseteq DOMAIN log /\ log[d].data = log[e].data

\* Get of the read model.  An error is taken for a model that does not exist,
\* with counts of 0.
GetModel(p) ==
  /\ stage[p] \in Reading
  /\ \/ /\ copy' = [copy EXCEPT ![p] =
             [e \in Numbers |-> IF SameModel(e, event[p]) THEN counted[e] ELSE 0]]
        /\ UNCHANGED faults
     \/ CallFails /\ copy' = [copy EXCEPT ![p] = NoCounts]
  /\ MoveTo(p, IF stage[p] = "balance" THEN "set_balance" ELSE "set_status")
  /\ UNCHANGED <<storeVars, queueVars, event, attempt, lastProcessed, modelVars,
                 startVars, ghostVars>>

\* Another projector is between Get and Set of the read model of e.
InUse(p, e) ==
  \E q \in Projectors \ {p} : stage[q] \in Setting /\ SameModel(e, event[q])

\* Set of the read model, which counts the event in hand.  A payment's event has
\* no other step; a wallet's balance is followed by its summary.
SetModel(p) ==
  /\ stage[p] \in Setting
  /\ copy' = [copy EXCEPT ![p] = NoCounts]
  /\ \/ /\ counted' = [e \in Numbers |->
             IF e = event[p] THEN copy[p][e] + 1
             ELSE IF SameModel(e, event[p]) THEN copy[p][e]
             ELSE counted[e]]
        /\ raced' = IF InUse(p, event[p]) THEN raced \cup {event[p]} ELSE raced
        /\ IF stage[p] = "set_balance" THEN MoveTo(p, "summary") /\ UNCHANGED attempt
           ELSE HandlerReturns(p)
        /\ UNCHANGED faults
     \/ HandlerFails(p) /\ UNCHANGED <<counted, raced>>
  /\ UNCHANGED <<storeVars, queueVars, event, lastProcessed, checkpoint, startVars,
                 unseen, from, blind>>

\* updateWalletSummary, on whose error the balance has been counted.
SetSummary(p) ==
  /\ stage[p] = "summary"
  /\ \/ HandlerReturns(p) /\ UNCHANGED faults
     \/ HandlerFails(p)
  /\ UNCHANGED <<storeVars, queueVars, event, copy, lastProcessed, modelVars,
                 startVars, ghostVars>>

\* updateCheckpoint sets lastProcessed before it writes.
UpdateCheckpoint(p) ==
  /\ stage[p] = "checkpoint"
  /\ lastProcessed' = [lastProcessed EXCEPT ![p] = log[event[p]].seq]
  /\ \/ /\ checkpoint' = log[event[p]].seq
        /\ MoveTo(p, IF Live(p) THEN "live" ELSE "next")
        /\ UNCHANGED faults
     \/ CallFails /\ Fails(p) /\ UNCHANGED checkpoint
  /\ UNCHANGED <<storeVars, queueVars, handlerVars, counted, startVars, ghostVars>>

-----------------------------------------------------------------------------
Step(p) ==
  \/ LoadCheckpoint(p) \/ GetEvents(p) \/ NextEvent(p) \/ Subscribe(p)
  \/ Receive(p) \/ End(p)
  \/ GetModel(p) \/ SetModel(p) \/ SetSummary(p) \/ UpdateCheckpoint(p)

NextProjector ==
  \/ AppendEvent \/ RefusedBatch \/ Stop \/ StartNew
  \/ \E p \in Projectors : Step(p)

SpecProjector == InitProjector /\ [][NextProjector]_projectorVars

-----------------------------------------------------------------------------
(* Properties.                                                             *)

\* e comes behind the checkpoint that a projector has read blindly.
BehindBlind(e) == \E b \in blind : from[b] < log[e].seq

\* An event that some projector has passed was counted, but for three ways to
\* lose it, none of them a fault: it was appended between GetEvents and
\* Subscribe, it is the first one after a checkpoint that a projector has
\* resumed from, or another projector that had read the same read model has
\* written it back.  A full channel ends the subscription and leaves no hole, and
\* a projector that is stopped at any step loses nothing that it has in hand.
LossesAreKnown ==
  faults = 0 =>
    \A p \in Projectors, e \in DOMAIN log :
      /\ log[e].seq <= lastProcessed[p]
      /\ log[e].data # "other"
      /\ counted[e] = 0
      => \/ e \in unseen \cup raced
         \/ \E q \in Projectors : from[q] # 0 /\ log[e].seq = from[q] + 1

\* Without failed calls an event is counted twice only if it comes behind the
\* checkpoint that a projector read while another was at work, stopped or not:
\* projectors that follow one another, a stop at any step, and catching up next
\* to the channel do not count an event twice.
CountedTwiceByOverlap ==
  faults = 0 => \A e \in DOMAIN log : counted[e] > 1 => BehindBlind(e)

\* p has been given e: it is in hand, or behind p and not behind its start.
Given(p, e) ==
  /\ from[p] < log[e].seq
  /\ log[e].seq <= lastProcessed[p] \/ event[p] = e

\* Whatever fails and whoever works at the same time, an event is counted once
\* by each projector that was given it, and once more at most for each call that
\* failed.  The handler begins anew with each retry, each start hands out the
\* events anew, and a projector may write back what it read long ago, but none
\* of these multiplies another.
CountsAreExplained ==
  \A e \in DOMAIN log :
    counted[e] <= Cardinality({p \in Projectors : Given(p, e)}) + faults

\* The checkpoint goes back only in front of a projector that has read it
\* blindly: a projector that starts when the one before it has ended, and can
\* read the checkpoint, moves it forward over stops and failed writes, though
\* channel and catchUp hand out events by different rules.
CheckpointMovesForward ==
  [][checkpoint' >= checkpoint \/ \E b \in blind : from[b] < checkpoint]_checkpoint
=============================================================================
