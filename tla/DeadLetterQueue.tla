--------------------------- MODULE DeadLetterQueue ---------------------------
(***************************************************************************)
(* DeadLetterQueue (pkg/eventstore/error_handling.go): the events that     *)
(* somebody could not process, in memory and in a storage that outlives    *)
(* the process.                                                            *)
(*                                                                         *)
(* One mutex covers each operation, the call of the storage included.      *)
(* RetryFromDLQ keeps it while the processor runs, so that it is two       *)
(* steps and holds everybody else up in between.  Senders, processors and  *)
(* the storage are external.                                               *)
(***************************************************************************)
EXTENDS Naturals, Sequences, SequencesExt

CONSTANTS
  Events,   \* events that may be sent, by their IDs
  MaxSize   \* dlq.maxSize

ASSUME QueueAssumption == MaxSize \in Nat \ {0}

VARIABLES
  queue,     \* dlq.events: IDs, oldest first
  storage,   \* IDs in the storage
  retrying,  \* the events that RetryFromDLQ works at, one at most
  owed,      \* events sent and not processed since (auxiliary)
  refused    \* events whose last sender was told of an error (auxiliary)

queueVars == <<queue, storage, retrying, owed, refused>>

QueueTypeOK ==
  /\ queue \in Seq(Events) /\ Len(queue) <= MaxSize
  /\ storage \subseteq Events
  /\ retrying \subseteq Events
  /\ owed \subseteq Events
  /\ refused \subseteq Events

InitQueue ==
  /\ queue = <<>>
  /\ storage = {}
  /\ retrying = {}
  /\ owed = {}
  /\ refused = {}

Unlocked == retrying = {}

Queued(e) == \E i \in DOMAIN queue : queue[i] = e

\* An event that is new is added, and the oldest one dropped if there are too
\* many; one that is there stays where it is.
WithLetter(e) ==
  IF Queued(e) THEN queue
  ELSE IF Len(queue) < MaxSize THEN Append(queue, e)
  ELSE Append(Tail(queue), e)

\* The storage fails, before or after the write, or does not; if it does, the
\* sender gets the error.
SendToDLQ(e) ==
  /\ Unlocked
  /\ queue' = WithLetter(e)
  /\ owed' = owed \cup {e}
  /\ \/ storage' = storage \cup {e} /\ refused' = refused \ {e}
     \/ storage' \in {storage, storage \cup {e}} /\ refused' = refused \cup {e}
  /\ UNCHANGED retrying

\* RetryFromDLQ finds the event and calls the processor.
StartRetry(e) ==
  /\ Unlocked
  /\ Queued(e)
  /\ retrying' = {e}
  /\ UNCHANGED <<queue, storage, owed, refused>>

\* Mutant of EndRetry: the event is removed before the processor's error is
\* looked at.
EndRetryUnchecked(e) ==
  /\ retrying = {e}
  /\ retrying' = {}
  /\ \E i \in DOMAIN queue : queue[i] = e /\ queue' = RemoveAt(queue, i)
  /\ storage' = storage \ {e}
  /\ owed' \in {owed, owed \ {e}}
  /\ UNCHANGED refused

\* The processor has returned.  An event that it has processed leaves the
\* queue, and the storage if that does not fail; an error changes nothing.
EndRetry(e) ==
  /\ retrying = {e}
  /\ retrying' = {}
  /\ \/ /\ \E i \in DOMAIN queue : queue[i] = e /\ queue' = RemoveAt(queue, i)
        /\ storage' \in {storage, storage \ {e}}
        /\ owed' = owed \ {e}
     \/ UNCHANGED <<queue, storage, owed>>
  /\ UNCHANGED refused

\* The process stops and starts again.  Nothing reads the storage.
ForgetQueue ==
  /\ queue' = <<>>
  /\ retrying' = {}
  /\ UNCHANGED <<storage, owed, refused>>

-----------------------------------------------------------------------------
(* Properties.                                                             *)

\* An event that somebody could not process is kept until it is processed: it
\* is in the storage, though the queue may have dropped it or the process have
\* stopped, unless its sender was told that it is not.  What is in the queue
\* waits for its processing, once.
LettersAreKept ==
  /\ \A e \in owed : e \in storage \/ e \in refused
  /\ \A i, j \in DOMAIN queue : queue[i] \in owed /\ (queue[i] = queue[j] => i = j)
=============================================================================
