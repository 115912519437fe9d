------------------------------ MODULE EventBus ------------------------------
(***************************************************************************)
(* The event bus: KafkaPublisher and KafkaSubscriber (internal/events) on  *)
(* one topic, as cmd/main.go and Orchestrator.Start (internal/saga/        *)
(* orchestrator.go) use them.                                              *)
(*                                                                         *)
(* main registers the handlers of the metrics, then calls Start of the     *)
(* subscriber in one goroutine and Start of the orchestrator in another,   *)
(* which registers two more handlers and calls Start of the same           *)
(* subscriber again: two loops take messages from one reader, and the      *)
(* first may look at the map of handlers while the second goroutine        *)
(* writes it.                                                              *)
(*                                                                         *)
(* The broker and the reader of the Kafka library are external: a reader   *)
(* hands out the messages of the topic in order, each once in a session,   *)
(* and a session begins behind the offset that was committed last.         *)
(***************************************************************************)
EXTENDS Integers, Sequences, FiniteSets

CONSTANTS
  Kinds,        \* kinds of messages that others may write to the topic
  MaxMessages,  \* bound on the messages of the topic
  MaxStarts,    \* bound on the starts of the process
  MaxRebalances,  \* bound on the sessions that replace a running one
  MaxFaults     \* bound on the commits that fail

Loops == {"main", "saga"}
Handlers == {"metrics", "saga"}

\* Three payment events, an event without handlers, a message without the
\* header event_type, and a payment event that cannot be decoded.
AllKinds == {"initiated", "completed", "failed", "plain", "headless", "garbled"}

ASSUME BusAssumption ==
  /\ Kinds \subseteq AllKinds
  /\ MaxMessages \in Nat /\ MaxRebalances \in Nat /\ MaxFaults \in Nat
  /\ MaxStarts \in Nat \ {0}

VARIABLES
  topic,      \* the kinds of the messages, in the order of their offsets
  committed,  \* the message whose offset was committed last; 0 if none
  position,   \* the message that the reader has handed out last
  joined,     \* whether the reader has a session
  closed,     \* whether the context was cancelled and Stop was called
  pc,         \* pc[l]: what loop l does
  held,       \* held[l]: the message it has in hand; 0 if none
  todo,       \* todo[l]: the handlers it has still to call
  setup,      \* what Orchestrator.Start does
  known,      \* kinds for which the orchestrator's handler is in the map
  starts, rebalances, faults,  \* how many so far
  handled,    \* handled[h][m]: how often handler h was called for message m
  skipped,    \* messages that a session without an offset passed over (aux.)
  dropped,    \* messages whose ReadMessage gave an error (aux.)
  cut,        \* messages in the hands of a loop as its process ended (aux.)
  early,      \* messages looked up before the orchestrator's handler (aux.)
  repeatable  \* messages behind a commit that went back, or not committed
              \* as a session of a running process ended (aux.)

brokerVars == <<topic, committed, position, joined, rebalances>>
loopVars == <<pc, held, todo>>
setupVars == <<setup, known>>
auxVars == <<skipped, dropped, cut, early, repeatable>>
vars == <<brokerVars, closed, loopVars, setupVars, starts, faults, handled,
          auxVars>>

Messages == 1..MaxMessages

Labels == {"off", "select", "fetch", "commit", "lookup", "handle", "ended"}

Todos == {<<>>, <<"metrics">>, <<"saga">>, <<"metrics", "saga">>}

TypeOK ==
  /\ topic \in Seq(AllKinds) /\ Len(topic) <= MaxMessages
  /\ committed \in 0..Len(topic)
  /\ position \in 0..Len(topic)
  /\ joined \in BOOLEAN /\ closed \in BOOLEAN
  /\ pc \in [Loops -> Labels]
  /\ held \in [Loops -> 0..Len(topic)]
  /\ todo \in [Loops -> Todos]
  /\ setup \in {"new", "adding_initiated", "adding_failed", "recovering",
                "failed", "done", "down"}
  /\ known \subseteq AllKinds
  /\ starts \in 1..MaxStarts /\ rebalances \in 0..MaxRebalances
  /\ faults \in 0..MaxFaults
  /\ handled \in [Handlers -> [Messages -> Nat]]
  /\ skipped \cup dropped \cup cut \cup early \cup repeatable \subseteq Messages

\* main has made the subscriber and registered the handlers of the metrics.
Idle == [l \in Loops |-> "off"]
Empty == [l \in Loops |-> 0]

Init ==
  /\ topic = <<>> /\ committed = 0 /\ position = 0
  /\ joined = FALSE /\ closed = FALSE
  /\ pc = Idle /\ held = Empty /\ todo = [l \in Loops |-> <<>>]
  /\ setup = "new" /\ known = {}
  /\ starts = 1 /\ rebalances = 0 /\ faults = 0
  /\ handled = [h \in Handlers |-> [m \in Messages |-> 0]]
  /\ skipped = {} /\ dropped = {} /\ cut = {} /\ early = {} /\ repeatable = {}

Goto(l, label) == pc' = [pc EXCEPT ![l] = label]

\* Loop l has nothing in hand any more.
PutDown(l) ==
  /\ held' = [held EXCEPT ![l] = 0]
  /\ todo' = [todo EXCEPT ![l] = <<>>]
  /\ Goto(l, "select")

-----------------------------------------------------------------------------
(* Publishing.                                                             *)

\* What the services publish: a BaseEvent, one with metadata that JSON cannot
\* write, or an event that embeds one.
Forms == {"plain", "unwritable", "embedding"}

\* Batches of up to two of them.
Batches == UNION {[1..n -> Forms] : n \in 1..2}

\* Publish and PublishBatch assert the type BaseEvent, which an event that
\* embeds a BaseEvent has not: it is refused, and the batch with it.
Accepted(batch) == \A i \in DOMAIN batch : batch[i] # "embedding"

\* What cannot be marshalled is an error of Publish, and left out of a batch.
Marshalled(batch) ==
  [i \in 1..Cardinality({j \in DOMAIN batch : batch[j] = "plain"}) |-> "plain"]

\* An error of WriteMessages, or a refusal, is logged at most.
Publish(batch) ==
  /\ Accepted(batch)
  /\ Marshalled(batch) # <<>>
  /\ Len(topic) + Len(Marshalled(batch)) <= MaxMessages
  /\ topic' = topic \o Marshalled(batch)
  /\ UNCHANGED <<committed, position, joined, rebalances, closed, loopVars,
                 setupVars, starts, faults, handled, auxVars>>

\* Another program writes to the topic.
ForeignMessage(kind) ==
  /\ Len(topic) < MaxMessages
  /\ topic' = Append(topic, kind)
  /\ UNCHANGED <<committed, position, joined, rebalances, closed, loopVars,
                 setupVars, starts, faults, handled, auxVars>>

-----------------------------------------------------------------------------
(* The reader.                                                             *)

\* StartOffset is LastOffset: it counts if the group has committed nothing.
FirstPosition == IF committed = 0 THEN Len(topic) ELSE committed

\* A session of the consumer group begins: the first one, or another one
\* after a rebalance.  What was handed out and not committed comes again.
Join ==
  /\ ~closed
  /\ \/ ~joined /\ UNCHANGED rebalances
     \/ joined /\ rebalances < MaxRebalances /\ rebalances' = rebalances + 1
  /\ joined' = TRUE
  /\ position' = FirstPosition
  /\ skipped' = skipped \cup (position + 1)..FirstPosition
  /\ repeatable' = repeatable \cup
       (IF joined THEN (FirstPosition + 1)..position ELSE {})
  /\ UNCHANGED <<topic, committed, closed, loopVars, setupVars, starts, faults,
                 handled, dropped, cut, early>>

\* ReadMessage, first half: FetchMessage.
Fetch(l) ==
  /\ pc[l] = "fetch"
  /\ ~closed /\ joined
  /\ position < Len(topic)
  /\ position' = position + 1
  /\ held' = [held EXCEPT ![l] = position + 1]
  /\ Goto(l, "commit")
  /\ UNCHANGED <<topic, committed, joined, rebalances, closed, todo, setupVars,
                 starts, faults, handled, auxVars>>

\* FetchMessage gives an error when the reader or the context is closed.
FetchFails(l) ==
  /\ pc[l] = "fetch"
  /\ closed
  /\ Goto(l, "select")
  /\ UNCHANGED <<brokerVars, closed, held, todo, setupVars, starts, faults,
                 handled, auxVars>>

\* Mutant of Store: the offset of the message itself is stored.
StoreOffsetItself(l) ==
  /\ committed' = held[l] - 1
  /\ repeatable' = repeatable \cup (held[l] + 1)..committed

\* The broker stores the offset behind the message, be it lower than the one
\* it had.
Store(l) ==
  /\ committed' = held[l]
  /\ repeatable' = repeatable \cup (held[l] + 1)..committed

\* Mutant of Commit: an error ends the loop.
CommitOrEnd(l) ==
  /\ pc[l] = "commit"
  /\ \/ /\ Store(l)
        /\ Goto(l, "lookup")
        /\ UNCHANGED <<held, todo, faults, dropped>>
     \/ /\ closed \/ faults < MaxFaults
        /\ faults' = IF closed THEN faults ELSE faults + 1
        /\ dropped' = dropped \cup {held[l]}
        /\ held' = [held EXCEPT ![l] = 0]
        /\ Goto(l, "ended")
        /\ UNCHANGED <<committed, repeatable, todo>>
  /\ UNCHANGED <<topic, position, joined, rebalances, closed, setupVars, starts,
                 handled, skipped, cut, early>>

\* Second half: CommitMessages.  On an error the loop goes on without the
\* message; the broker may have stored the offset all the same.
Commit(l) ==
  /\ pc[l] = "commit"
  /\ \/ /\ Store(l)
        /\ Goto(l, "lookup")
        /\ UNCHANGED <<held, todo, faults, dropped>>
     \/ /\ closed \/ faults < MaxFaults
        /\ faults' = IF closed THEN faults ELSE faults + 1
        /\ Store(l) \/ UNCHANGED <<committed, repeatable>>
        /\ dropped' = dropped \cup {held[l]}
        /\ PutDown(l)
  /\ UNCHANGED <<topic, position, joined, rebalances, closed, setupVars, starts,
                 handled, skipped, cut, early>>

-----------------------------------------------------------------------------
(* processMessage.                                                         *)

\* Kinds for which main has registered a handler.
MetricsKinds == {"initiated", "completed", "failed", "garbled"}

\* The handlers in the map, in the order in which they were registered.
HandlersFor(kind) ==
  (IF kind \in MetricsKinds THEN <<"metrics">> ELSE <<>>)
    \o (IF kind \in known THEN <<"saga">> ELSE <<>>)

\* Handlers that are called for a message once all are in the map.
Due(kind) ==
  (IF kind \in {"initiated", "completed", "failed"} THEN {"metrics"} ELSE {})
    \cup (IF kind \in {"initiated", "failed"} THEN {"saga"} ELSE {})

\* The header is looked for, then the handlers in the map, then the event is
\* decoded.  The slice of handlers is the one that was in the map.
Lookup(l) ==
  /\ pc[l] = "lookup"
  /\ LET kind == topic[held[l]] IN
       \/ /\ kind \notin {"headless", "garbled"} /\ HandlersFor(kind) # <<>>
          /\ todo' = [todo EXCEPT ![l] = HandlersFor(kind)]
          /\ Goto(l, "handle")
          /\ early' = IF "saga" \in Due(kind) /\ kind \notin known
                        THEN early \cup {held[l]} ELSE early
          /\ UNCHANGED held
       \/ /\ kind \in {"headless", "garbled"} \/ HandlersFor(kind) = <<>>
          /\ PutDown(l)
          /\ UNCHANGED early
  /\ UNCHANGED <<brokerVars, closed, setupVars, starts, faults, handled,
                 skipped, dropped, cut, repeatable>>

\* Mutant of Handle: the error of a handler ends the message.
HandleUntilError(l) ==
  /\ pc[l] = "handle"
  /\ handled' = [handled EXCEPT ![Head(todo[l])][held[l]] = @ + 1]
  /\ \/ /\ Len(todo[l]) > 1
        /\ todo' = [todo EXCEPT ![l] = Tail(@)]
        /\ UNCHANGED <<pc, held>>
     \/ PutDown(l)
  /\ UNCHANGED <<brokerVars, closed, setupVars, starts, faults, auxVars>>

\* One handler is called.  Its error is logged, and the next one is called.
Handle(l) ==
  /\ pc[l] = "handle"
  /\ handled' = [handled EXCEPT ![Head(todo[l])][held[l]] = @ + 1]
  /\ \/ /\ Len(todo[l]) > 1
        /\ todo' = [todo EXCEPT ![l] = Tail(@)]
        /\ UNCHANGED <<pc, held>>
     \/ /\ Len(todo[l]) = 1
        /\ PutDown(l)
  /\ UNCHANGED <<brokerVars, closed, setupVars, starts, faults, auxVars>>

-----------------------------------------------------------------------------
(* The loop of Start.                                                      *)

Select(l) ==
  /\ pc[l] = "select"
  /\ Goto(l, IF closed THEN "ended" ELSE "fetch")
  /\ UNCHANGED <<brokerVars, closed, held, todo, setupVars, starts, faults,
                 handled, auxVars>>

\* The goroutine of main.
StartMain ==
  /\ setup # "down"
  /\ pc["main"] = "off"
  /\ Goto("main", "select")
  /\ UNCHANGED <<brokerVars, closed, held, todo, setupVars, starts, faults,
                 handled, auxVars>>

\* Orchestrator.Start: a call of Subscribe begins to write the map, or has
\* written it; the recovery may fail.
StartSaga ==
  /\ \/ /\ setup = "new" /\ setup' = "adding_initiated"
        /\ UNCHANGED <<known, pc>>
     \/ /\ setup = "adding_initiated" /\ setup' = "adding_failed"
        /\ known' = {"initiated"}
        /\ UNCHANGED pc
     \/ /\ setup = "adding_failed" /\ setup' = "recovering"
        /\ known' = {"initiated", "failed"}
        /\ UNCHANGED pc
     \/ /\ setup = "recovering" /\ setup' = "done"
        /\ Goto("saga", "select")
        /\ UNCHANGED known
     \/ /\ setup = "recovering" /\ setup' = "failed"
        /\ UNCHANGED <<known, pc>>
  /\ UNCHANGED <<brokerVars, closed, held, todo, starts, faults, handled,
                 auxVars>>

\* The deferred calls of main.
Stop ==
  /\ setup # "down" /\ ~closed
  /\ closed' = TRUE
  /\ UNCHANGED <<brokerVars, loopVars, setupVars, starts, faults, handled,
                 auxVars>>

-----------------------------------------------------------------------------
(* The process.                                                            *)

\* It is gone, with what the loops have in hand.
Gone ==
  /\ setup' = "down" /\ known' = {}
  /\ joined' = FALSE
  /\ pc' = Idle /\ held' = Empty /\ todo' = [l \in Loops |-> <<>>]
  /\ cut' = cut \cup ({held[l] : l \in Loops} \ {0})
  /\ UNCHANGED <<topic, committed, position, rebalances, closed, starts, faults,
                 handled, skipped, dropped, early, repeatable>>

\* main returns and waits for nobody, or the process is killed.
Exit == setup # "down" /\ Gone

\* The runtime finds the map read while it is written: a fatal error.
MapRace(l) ==
  /\ pc[l] = "lookup"
  /\ topic[held[l]] # "headless"
  /\ setup \in {"adding_initiated", "adding_failed"}
  /\ Gone

Restart ==
  /\ setup = "down"
  /\ starts < MaxStarts
  /\ starts' = starts + 1
  /\ setup' = "new"
  /\ closed' = FALSE
  /\ UNCHANGED <<brokerVars, loopVars, known, faults, handled, auxVars>>

Step(l) ==
  \/ Fetch(l) \/ FetchFails(l) \/ Commit(l) \/ Lookup(l) \/ Handle(l)
  \/ Select(l)

Next ==
  \/ \E batch \in Batches : Publish(batch)
  \/ \E kind \in Kinds : ForeignMessage(kind)
  \/ Join
  \/ \E l \in Loops : Step(l) \/ MapRace(l)
  \/ StartMain \/ StartSaga \/ Stop \/ Exit \/ Restart

Spec == Init /\ [][Next]_vars

\* Goroutines run, statements return, and the reader gets a session; whether
\* anything is written or stops is left open.
FairBus ==
  /\ \A l \in Loops : WF_vars(Step(l))
  /\ WF_vars(StartMain)
  /\ WF_vars(Join /\ ~joined)

FairSpec == Spec /\ FairBus

-----------------------------------------------------------------------------
(* Properties.                                                             *)

InHand(m) == \E l \in Loops : held[l] = m

\* A message that the reader has passed reaches every handler, whichever of
\* the two loops took it, but for four ways to lose it: the first session
\* began behind it, its commit failed, its process ended, and, for the
\* orchestrator, the loop looked before the handler was there.
LossesAreKnown ==
  \A m \in 1..position : \A h \in Due(topic[m]) :
    handled[h][m] = 0 =>
      \/ InHand(m)
      \/ m \in skipped \cup dropped \cup cut
      \/ h = "saga" /\ m \in early

\* The offset is committed before the handlers run, so that no message should
\* be handled twice.  It may be, and only if a commit of one loop took back
\* that of the other, or a session ended between a fetch and its commit; a
\* stop of the process alone repeats nothing.
RepeatsAreKnown ==
  \A h \in Handlers, m \in Messages : handled[h][m] > 1 => m \in repeatable

\* While nobody stops the process, every message on the topic is handled in the
\* end, by every handler, if it is not lost in one of those ways: no commit that
\* fails, no rebalance and no handler stops both loops.  After Stop they end: a
\* loop that waits for a message gets an error and looks at the channel again.
LoopsServeUntilStop ==
  /\ \A m \in Messages, h \in Handlers :
       m <= Len(topic) /\ h \in Due(topic[m]) ~>
         \/ handled[h][m] > 0
         \/ m \in skipped \cup dropped \cup cut
         \/ h = "saga" /\ m \in early
         \/ closed \/ setup = "down"
  /\ closed ~> setup = "down" \/ \A l \in Loops : pc[l] \in {"off", "ended"}
=============================================================================
