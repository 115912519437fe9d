-------------------------- MODULE SagaOrchestrator --------------------------
(***************************************************************************)
(* One payment saga: StartPaymentSaga, executeSaga, compensateSaga and     *)
(* RecoverPendingSagas (internal/saga/orchestrator.go) over its row of the *)
(* sagas table (pkg/database/repositories.go), and the handler of          *)
(* ProcessPayment that starts it (internal/services/payment/service.go).   *)
(*                                                                         *)
(* A run is a goroutine that executes or compensates the saga: run 0 is    *)
(* the one StartPaymentSaga leaves behind, run k the one that the recovery *)
(* of the k-th start of the process leaves behind.  Each run has a copy of *)
(* the saga of its own; they meet in the row alone.                        *)
(***************************************************************************)
EXTENDS Integers, FiniteSets

CONSTANTS
  MaxRetries,         \* MaxRetries[s]: attempts at step s after the first one
  Executors,          \* services that have a registered executor
  Faults,             \* "err": a statement or a compensation fails
                      \* "lost": it is done, and its caller gets an error
  MaxFaults,          \* bound on the faults
  MaxStarts           \* bound on the starts of the process

Validate == 1
Deduct   == 2
Charge   == 3
SetPaid  == 4
Steps    == 1..4

Service == [s \in Steps |-> CASE s \in {Validate, Deduct} -> "wallet"
                              [] s = Charge -> "gateway"
                              [] s = SetPaid -> "payment"]

\* Steps with a CompensateAction: refund_balance and mark_failed.
Compensable == {Deduct, SetPaid}

Runs == 0..MaxStarts

ASSUME SagaAssumption ==
  /\ MaxRetries \in [Steps -> Nat]
  /\ Executors \subseteq {"wallet", "gateway", "payment"}
  /\ Faults \subseteq {"err", "lost"}
  /\ MaxStarts \in Nat \ {0}
  /\ MaxFaults \in Nat

VARIABLES
  row,      \* the row of the saga: state, steps[s].status, current_step
  status,   \* payments.status
  handler,  \* what ProcessPayment does next
  starts,   \* starts of the process so far
  due,      \* whether the recovery of this start is still to be made
  pc,       \* pc[g]: what run g does next
  steps,    \* steps[g]: the statuses of the steps in the copy of g
  at,       \* at[g]: the step in hand, saga.CurrentStep + 1 while executing
  attempt,  \* attempt[g]: the attempt at that step
  record,   \* record[g]: the step of an unfinished UpdateStepStatus, or 0
  fetched,  \* fetched[g]: the row it has read and changed, or NoRow
  done,     \* done[s]: how often the action of step s has taken effect
  undone,   \* undone[s]: the same of its compensation
  faults,   \* faults so far
  left,     \* left[s]: effects that nobody will take back (aux.)
  overlap   \* whether recovery took up a saga that was being executed (aux.)

processVars == <<handler, starts, due>>
runVars     == <<pc, steps, at, attempt, record, fetched>>
ghostVars   == <<left, overlap>>
vars        == <<row, status, processVars, runVars, done, undone, faults, ghostVars>>

StepStatuses == {"pending", "executing", "completed", "failed", "compensated"}
SagaStates   == {"none", "started", "in_progress", "completed", "failed",
                 "compensated"}
SagaRow      == [state : SagaStates, steps : [Steps -> StepStatuses],
                 current : Nat]

Terminal == {"completed", "compensated"}
Active   == {"begin", "step", "attempt", "fail", "undo"}

RunsTypeOK ==
  /\ row \in SagaRow
  /\ status \in {"pending", "processing", "completed", "failed"}
  /\ handler \in {"new", "mark", "reject", "done", "dead"}
  /\ starts \in 1..MaxStarts
  /\ due \in BOOLEAN
  /\ pc \in [Runs -> {"none", "done", "dead"} \cup Active]
  /\ steps \in [Runs -> [Steps -> StepStatuses]]
  /\ at \in [Runs -> 0..5]
  /\ attempt \in [Runs -> Nat]
  /\ record \in [Runs -> {0} \cup Steps]
  /\ fetched \in [Runs -> SagaRow]
  /\ done \in [Steps -> Nat]
  /\ undone \in [Steps -> Nat]

TypeOK ==
  /\ RunsTypeOK
  /\ faults \in 0..MaxFaults
  /\ left \in [Steps -> Nat]
  /\ overlap \in BOOLEAN

AllPending == [s \in Steps |-> "pending"]
NoRow      == [state |-> "none", steps |-> AllPending, current |-> 0]

\* The process has been started; the payment is in its table.
Init ==
  /\ row = NoRow
  /\ status = "pending"
  /\ handler = "new"
  /\ starts = 1
  /\ due = TRUE
  /\ pc = [g \in Runs |-> "none"]
  /\ steps = [g \in Runs |-> AllPending]
  /\ at = [g \in Runs |-> 1]
  /\ attempt = [g \in Runs |-> 0]
  /\ record = [g \in Runs |-> 0]
  /\ fetched = [g \in Runs |-> NoRow]
  /\ done = [s \in Steps |-> 0]
  /\ undone = [s \in Steps |-> 0]
  /\ faults = 0
  /\ left = [s \in Steps |-> 0]
  /\ overlap = FALSE

-----------------------------------------------------------------------------
(* Statements.                                                             *)

\* A statement or a call of an executor ends with one of these faults.
Fault(kinds) ==
  /\ kinds \cap Faults # {}
  /\ faults < MaxFaults
  /\ faults' = faults + 1

\* UpdateSagaState; no caller looks at its error.
UpdateSagaState(s) ==
  \/ row' = [row EXCEPT !.state = s] /\ UNCHANGED faults
  \/ Fault({"err", "lost"}) /\ UNCHANGED row

\* UpdateStatus of the payments table; no caller looks at its error.
UpdateStatus(s) ==
  \/ status' = s /\ UNCHANGED faults
  \/ Fault({"err", "lost"}) /\ UNCHANGED status

\* Run g is at "label" and has no UpdateStepStatus to finish first.
Ready(g, label) == pc[g] = label /\ record[g] = 0

Goto(g, label) == pc' = [pc EXCEPT ![g] = label]

\* The step in hand gets a status in the copy of g; UpdateStepStatus begins.
SetStep(g, s) ==
  /\ steps' = [steps EXCEPT ![g][at[g]] = s]
  /\ record' = [record EXCEPT ![g] = at[g]]

EndRecord(g) ==
  /\ record' = [record EXCEPT ![g] = 0]
  /\ fetched' = [fetched EXCEPT ![g] = NoRow]

\* UpdateStepStatus, first half: GetSaga, and the change to what was read.
GetSaga(g) ==
  /\ record[g] # 0
  /\ fetched[g] = NoRow
  /\ \/ /\ fetched' = [fetched EXCEPT ![g] =
                         [row EXCEPT !.steps[record[g]] = steps[g][record[g]]]]
        /\ UNCHANGED <<record, faults>>
     \/ Fault({"err", "lost"}) /\ EndRecord(g)
  /\ UNCHANGED <<row, status, processVars, pc, steps, at, attempt, done, undone,
                 ghostVars>>

\* Second half: SaveSaga writes the whole row as it was read.
SaveSaga(g) ==
  /\ fetched[g] # NoRow
  /\ \/ row' = fetched[g] /\ UNCHANGED faults
     \/ Fault({"err", "lost"}) /\ UNCHANGED row
  /\ EndRecord(g)
  /\ UNCHANGED <<status, processVars, pc, steps, at, attempt, done, undone,
                 ghostVars>>

-----------------------------------------------------------------------------
(* executeSaga and executeStep.                                            *)

Begin(g) ==
  /\ Ready(g, "begin")
  /\ UpdateSagaState("in_progress")
  /\ Goto(g, "step")
  /\ UNCHANGED <<status, processVars, steps, at, attempt, record, fetched,
                 done, undone, ghostVars>>

\* Mutant of StartStep: the step is recorded as completed before it is made.
StartStepAsCompleted(g) ==
  /\ Ready(g, "step")
  /\ at[g] \in Steps
  /\ \/ /\ Service[at[g]] \in Executors
        /\ SetStep(g, "completed")
        /\ Goto(g, "attempt")
     \/ /\ Service[at[g]] \notin Executors
        /\ Goto(g, "fail")
        /\ UNCHANGED <<steps, record>>
  /\ UNCHANGED <<row, status, processVars, at, attempt, fetched, done, undone,
                 faults, ghostVars>>

StartStep(g) ==
  /\ Ready(g, "step")
  /\ at[g] \in Steps
  /\ \/ /\ Service[at[g]] \in Executors
        /\ SetStep(g, "executing")
        /\ Goto(g, "attempt")
     \/ /\ Service[at[g]] \notin Executors
        /\ Goto(g, "fail")
        /\ UNCHANGED <<steps, record>>
  /\ UNCHANGED <<row, status, processVars, at, attempt, fetched, done, undone,
                 faults, ghostVars>>

\* Run g has executed step s, was told so, and has not passed it on its way back.
Holds(g, s) == IF pc[g] = "undo" THEN s <= at[g] ELSE s < at[g]

\* An effect of step s that no run holds any more.
Leave(s) == left' = [left EXCEPT ![s] = @ + 1]

\* What the action of a step does to the world.
TakesEffect(s) ==
  /\ done' = [done EXCEPT ![s] = @ + 1]
  /\ status' = IF s = SetPaid THEN "completed" ELSE status

\* One attempt; after a success saga.CurrentStep++, in the copy alone.  The
\* executor may always refuse.
Execute(g) ==
  /\ Ready(g, "attempt")
  /\ \/ /\ TakesEffect(at[g])
        /\ SetStep(g, "completed")
        /\ at' = [at EXCEPT ![g] = @ + 1]
        /\ attempt' = [attempt EXCEPT ![g] = 0]
        /\ Goto(g, "step")
        /\ UNCHANGED <<faults, left>>
     \/ /\ \/ UNCHANGED <<done, status, faults, left>>
           \/ Fault({"lost"}) /\ TakesEffect(at[g]) /\ Leave(at[g])
        /\ \/ /\ attempt[g] < MaxRetries[at[g]]
              /\ attempt' = [attempt EXCEPT ![g] = @ + 1]
              /\ UNCHANGED <<steps, record, pc>>
           \/ /\ attempt[g] = MaxRetries[at[g]]
              /\ SetStep(g, "failed")
              /\ Goto(g, "fail")
              /\ attempt' = [attempt EXCEPT ![g] = 0]
        /\ UNCHANGED at
  /\ UNCHANGED <<row, processVars, fetched, undone, overlap>>

Finish(g) ==
  /\ Ready(g, "step")
  /\ at[g] \notin Steps
  /\ UpdateSagaState("completed")
  /\ Goto(g, "done")
  /\ UNCHANGED <<status, processVars, steps, at, attempt, record, fetched,
                 done, undone, ghostVars>>

-----------------------------------------------------------------------------
(* compensateSaga.                                                         *)

\* The step in hand is the one that failed; those before it are next.
Fail(g) ==
  /\ Ready(g, "fail")
  /\ UpdateSagaState("failed")
  /\ at' = [at EXCEPT ![g] = @ - 1]
  /\ Goto(g, "undo")
  /\ UNCHANGED <<status, processVars, steps, attempt, record, fetched,
                 done, undone, ghostVars>>

\* Mutant of ToUndo: the test of the status is the wrong way round.
ToUndoInverted(g) ==
  /\ steps[g][at[g]] # "completed"
  /\ at[g] \in Compensable
  /\ Service[at[g]] \in Executors

ToUndo(g) ==
  /\ steps[g][at[g]] = "completed"
  /\ at[g] \in Compensable
  /\ Service[at[g]] \in Executors

\* What the compensation of a step does to the world.
UndoTakesEffect(s) ==
  /\ undone' = [undone EXCEPT ![s] = @ + 1]
  /\ status' = IF s = SetPaid THEN "failed" ELSE status

\* A step that has no compensation is passed over, and its effect stays.
PassOver(s) == IF s \in Compensable THEN UNCHANGED left ELSE Leave(s)

\* Mutant of Undo: a compensation that fails is made again.
UndoWithRetry(g) ==
  /\ Ready(g, "undo")
  /\ at[g] # 0
  /\ \/ /\ ToUndo(g)
        /\ UndoTakesEffect(at[g])
        /\ SetStep(g, "compensated")
        /\ at' = [at EXCEPT ![g] = @ - 1]
        /\ UNCHANGED <<faults, left>>
     \/ /\ ~ToUndo(g)
        /\ at' = [at EXCEPT ![g] = @ - 1]
        /\ PassOver(at[g])
        /\ UNCHANGED <<undone, status, steps, record, faults>>
     \/ /\ ToUndo(g) /\ Fault({"lost"})
        /\ UndoTakesEffect(at[g])
        /\ UNCHANGED <<at, steps, record, left>>
  /\ UNCHANGED <<row, processVars, pc, attempt, fetched, done, overlap>>

\* A compensation that fails is logged and left.
Undo(g) ==
  /\ Ready(g, "undo")
  /\ at[g] # 0
  /\ \/ /\ ToUndo(g)
        /\ UndoTakesEffect(at[g])
        /\ SetStep(g, "compensated")
        /\ UNCHANGED <<faults, left>>
     \/ /\ \/ /\ ~ToUndo(g) /\ PassOver(at[g])
              /\ UNCHANGED <<undone, status, faults>>
           \/ /\ ToUndo(g) /\ Fault({"err"}) /\ Leave(at[g])
              /\ UNCHANGED <<undone, status>>
           \/ /\ ToUndo(g) /\ Fault({"lost"}) /\ UndoTakesEffect(at[g])
              /\ UNCHANGED left
        /\ UNCHANGED <<steps, record>>
  /\ at' = [at EXCEPT ![g] = @ - 1]
  /\ UNCHANGED <<row, processVars, pc, attempt, fetched, done, overlap>>

\* The saga is "compensated", whatever became of the compensations.
Close(g) ==
  /\ Ready(g, "undo")
  /\ at[g] = 0
  /\ UpdateSagaState("compensated")
  /\ Goto(g, "done")
  /\ UNCHANGED <<status, processVars, steps, at, attempt, record, fetched,
                 done, undone, ghostVars>>

-----------------------------------------------------------------------------
(* The handler of ProcessPayment.                                          *)

\* Mutant of StartPaymentSaga: the goroutine is started whatever SaveSaga says.
StartPaymentSagaAnyway ==
  /\ handler = "new"
  /\ \/ /\ row' = [NoRow EXCEPT !.state = "started"] /\ handler' = "mark"
        /\ UNCHANGED faults
     \/ Fault({"err", "lost"}) /\ UNCHANGED row /\ handler' = "reject"
  /\ Goto(0, "begin")
  /\ UNCHANGED <<status, starts, due, steps, at, attempt, record, fetched,
                 done, undone, ghostVars>>

\* StartPaymentSaga: SaveSaga, and the goroutine if that went well.
StartPaymentSaga ==
  /\ handler = "new"
  /\ \/ /\ row' = [NoRow EXCEPT !.state = "started"]
        /\ Goto(0, "begin")
        /\ handler' = "mark"
        /\ UNCHANGED faults
     \/ /\ \/ Fault({"err"}) /\ UNCHANGED row
           \/ Fault({"lost"}) /\ row' = [NoRow EXCEPT !.state = "started"]
        /\ handler' = "reject"
        /\ UNCHANGED pc
  /\ UNCHANGED <<status, starts, due, steps, at, attempt, record, fetched,
                 done, undone, ghostVars>>

\* The saga was started, or it was not: the payment row gets its status, the
\* client its answer.
Answer ==
  /\ \/ handler = "mark" /\ UpdateStatus("processing")
     \/ handler = "reject" /\ UpdateStatus("failed")
  /\ handler' = "done"
  /\ UNCHANGED <<row, starts, due, runVars, done, undone, ghostVars>>

-----------------------------------------------------------------------------
(* Stops and starts of the process.                                        *)

\* Mutant of Recoverable: only compensations are taken up again.
RecoverableWhenFailed == row.state = "failed"

\* Sagas in state "started" are read as well, and left.
Recoverable == row.state \in {"in_progress", "failed"}

\* Mutant of ResumeLabel: whatever is pending is executed.
ResumeByExecuting == "begin"

ResumeLabel == IF row.state = "in_progress" THEN "begin" ELSE "fail"

\* Mutant of ResumeStep: the first step that the row does not know of.
ResumeStepUntouched ==
  CHOOSE k \in 1..5 :
    /\ k = 5 \/ row.steps[k] = "pending"
    /\ \A j \in Steps : j < k => row.steps[j] # "pending"

\* saga.CurrentStep of the row, and one for the step in hand.
ResumeStep == row.current + 1

\* RecoverPendingSagas, in a goroutine of Start, next to the HTTP server: a run
\* with a copy of the row.
Recover ==
  /\ due
  /\ due' = FALSE
  /\ \/ /\ Recoverable
        /\ Goto(starts, ResumeLabel)
        /\ steps' = [steps EXCEPT ![starts] = row.steps]
        /\ at' = [at EXCEPT ![starts] = ResumeStep]
        /\ overlap' = \E g \in Runs : pc[g] \in Active
        /\ UNCHANGED faults
     \/ /\ \/ ~Recoverable /\ UNCHANGED faults
           \/ Fault({"err", "lost"})
        /\ UNCHANGED <<pc, steps, at, overlap>>
  /\ UNCHANGED <<row, status, handler, starts, attempt, record, fetched,
                 done, undone, left>>

\* The process stops and is started again: the copies are gone, and with them
\* what the unfinished runs knew of their effects.
Crash ==
  /\ starts < MaxStarts
  /\ starts' = starts + 1
  /\ due' = TRUE
  /\ handler' = IF handler \in {"mark", "reject"} THEN "dead" ELSE handler
  /\ pc' = [g \in Runs |-> IF pc[g] \in Active THEN "dead" ELSE pc[g]]
  /\ steps' = [g \in Runs |-> AllPending]
  /\ at' = [g \in Runs |-> IF pc[g] \in Active THEN 1 ELSE at[g]]
  /\ attempt' = [g \in Runs |-> 0]
  /\ record' = [g \in Runs |-> 0]
  /\ fetched' = [g \in Runs |-> NoRow]
  /\ left' = [s \in Steps |->
                left[s] + Cardinality({g \in Runs : pc[g] \in Active /\ Holds(g, s)})]
  /\ overlap' = FALSE
  /\ UNCHANGED <<row, status, done, undone, faults>>

RunStep(g) ==
  \/ GetSaga(g) \/ SaveSaga(g)
  \/ Begin(g) \/ StartStep(g) \/ Execute(g) \/ Finish(g)
  \/ Fail(g) \/ Undo(g) \/ Close(g)

Next ==
  \/ \E g \in Runs : RunStep(g)
  \/ StartPaymentSaga \/ Answer \/ Recover \/ Crash

Spec == Init /\ [][Next]_vars

\* Goroutines that can run do so in the end, statements and executors return,
\* and a process that was started reads the pending sagas.
FairSpec ==
  /\ Spec
  /\ \A g \in Runs : WF_vars(RunStep(g))
  /\ WF_vars(Answer)
  /\ WF_vars(Recover)

-----------------------------------------------------------------------------
(* Properties.                                                             *)

\* No action takes effect before the one that comes before it: nobody is
\* charged whose wallet was not debited, however often the saga is executed
\* and from whatever copy.
StepsInOrder ==
  \A s \in Steps \ {Validate} : done[s] > 0 => done[s - 1] > 0

\* No more is paid back than was taken, though two runs may compensate the
\* same saga and each of them believes in its own copy.
NeverUndoneTwice == \A s \in Steps : undone[s] <= done[s]

\* The row never claims what did not happen, whatever stale copy of it an
\* UpdateStepStatus writes back: recovery and support read nothing else.
RowIsTrue ==
  /\ \A s \in Steps :
       /\ row.steps[s] = "completed" => done[s] > 0
       /\ row.steps[s] = "compensated" => undone[s] > 0
  /\ row.state = "completed" => \A s \in Steps : done[s] > 0

\* The handler and the runs write the row of the payment without looking at it.
\* A failed payment was not debited, not even if its saga was stored and its
\* client got an error, or its last step was compensated.  A payment whose last
\* step stands says so, or the handler was late and has put it back to
\* processing; it never says anything worse.
PaymentTellsTruth ==
  /\ status = "failed" => (\A s \in Steps : done[s] = 0) \/ undone[SetPaid] > 0
  /\ done[SetPaid] > 0 /\ undone[SetPaid] = 0 =>
       \/ status = "completed"
       \/ status = "processing" /\ handler = "done"

\* Nothing that a saga took gets out of sight, whichever runs execute and
\* compensate it, side by side or after one another.  Each effect of a step was
\* taken back, or belongs to a run that has completed the saga or can still take
\* it back, or was left, and there are four ways to leave one: the executor's
\* answer was lost, the compensation failed, the step has none, or the process
\* stopped.  The charge has none: a saga that fails at its last step gives the
\* wallet its money back and keeps that of the card.
EffectsAreAccountedFor ==
  \A s \in Steps :
    done[s] = undone[s] + left[s] + Cardinality({g \in Runs : Holds(g, s)})

\* The state of a saga goes forward only, over restarts and over the stale rows
\* that UpdateStepStatus writes back, unless recovery has taken it up from under
\* a run of this process: then the rows of the two undo each other, but a saga
\* that has begun never looks as if it had not, so that the next recovery finds
\* it.
Before(s, t) ==
  \/ s = "none"
  \/ s = "started" /\ t # "none"
  \/ s = "in_progress" /\ t \in {"failed", "completed", "compensated"}
  \/ s = "failed" /\ t = "compensated"
StateMovesForward ==
  [][row'.state # row.state =>
       \/ Before(row.state, row'.state)
       \/ overlap /\ row'.state \notin {"none", "started"}]_row

\* A saga whose execution has begun is brought to an end that is final: by the
\* process that executes it or by the recovery of the next start, though the
\* two may run at the same time and each overwrites the row of the other.
BegunSagasEnd ==
  row.state \in {"in_progress", "failed"} ~> [](row.state \in Terminal)

-----------------------------------------------------------------------------
(* What the documents and comments promise and the code does not do.       *)

\* README.md:38, "automatic compensation for failed operations": a compensated
\* saga that no run executes any more has paid back what it took.  A recovered
\* run knows nothing of what the run before it took: current_step is 0, before
\* which there is no step.
CompensatedMeansRefunded ==
  row.state = "compensated" /\ (\A g \in Runs : pc[g] \notin Active) =>
    done[Deduct] <= undone[Deduct]
=============================================================================
