----------------------- MODULE SagaOrchestratorProofs -----------------------
(***************************************************************************)
(* Proofs about SagaOrchestrator, for any number of restarts, any number   *)
(* of retries, any executors and every fault.                              *)
(***************************************************************************)
EXTENDS SagaOrchestrator, FiniteSetTheorems, TLAPS

(***************************************************************************)
(* The inductive invariant.  Copies of the saga, in goroutines, in a half  *)
(* done UpdateStepStatus and in the row, may be out of date, but all of    *)
(* them speak of things that did happen.  A run has executed every step    *)
(* before the one in hand, because current_step in the row never moves.    *)
(***************************************************************************)
TrueOf(st) ==
  \A s \in Steps :
    /\ st[s] = "completed" => done[s] > 0
    /\ st[s] = "compensated" => undone[s] > 0

TrueRow(r) ==
  /\ TrueOf(r.steps)
  /\ r.state = "completed" => \A s \in Steps : done[s] > 0
  /\ r.current = 0

CopiesAreTrue ==
  /\ TrueRow(row)
  /\ \A g \in Runs : TrueOf(steps[g]) /\ TrueRow(fetched[g])

StepInHand(g) ==
  /\ g = 0 /\ handler = "new" => pc[g] = "none"
  /\ pc[g] = "none" => at[g] = 1
  /\ pc[g] \in {"begin", "step", "fail"} => at[g] >= 1
  /\ pc[g] = "attempt" => at[g] \in Steps
  /\ pc[g] = "undo" => at[g] <= 4
  /\ pc[g] \in {"begin", "step", "attempt"} =>
       \A s \in Steps : s < at[g] => done[s] > 0

IInv ==
  /\ RunsTypeOK
  /\ StepsInOrder
  /\ CopiesAreTrue
  /\ \A g \in Runs : StepInHand(g)

-----------------------------------------------------------------------------
(* The world moves forward: what was true of a copy stays true.            *)

LEMMA TypedEffects ==
  ASSUME RunsTypeOK, NEW s \in Steps
  PROVE  /\ TakesEffect(s) =>
              /\ done' \in [Steps -> Nat]
              /\ \A t \in Steps : done'[t] = IF t = s THEN done[t] + 1 ELSE done[t]
              /\ status' \in {"pending", "processing", "completed", "failed"}
         /\ UndoTakesEffect(s) =>
              /\ undone' \in [Steps -> Nat]
              /\ \A t \in Steps : undone'[t] = IF t = s THEN undone[t] + 1 ELSE undone[t]
              /\ status' \in {"pending", "processing", "completed", "failed"}
  <1>1. /\ done \in [Steps -> Nat] /\ undone \in [Steps -> Nat]
        /\ status \in {"pending", "processing", "completed", "failed"}
    BY DEF RunsTypeOK
  <1>2. ASSUME TakesEffect(s)
        PROVE  /\ done' \in [Steps -> Nat]
               /\ \A t \in Steps : done'[t] = IF t = s THEN done[t] + 1 ELSE done[t]
               /\ status' \in {"pending", "processing", "completed", "failed"}
    BY <1>1, <1>2 DEF TakesEffect
  <1>3. ASSUME UndoTakesEffect(s)
        PROVE  /\ undone' \in [Steps -> Nat]
               /\ \A t \in Steps : undone'[t] = IF t = s THEN undone[t] + 1 ELSE undone[t]
               /\ status' \in {"pending", "processing", "completed", "failed"}
    BY <1>1, <1>3 DEF UndoTakesEffect
  <1>4. QED
    BY <1>2, <1>3

\* Nothing that was done is forgotten.
Grows ==
  /\ done' \in [Steps -> Nat] /\ undone' \in [Steps -> Nat]
  /\ \A s \in Steps : done'[s] >= done[s] /\ undone'[s] >= undone[s]

\* It is enough to look at the row and at the copies of one run.
LEMMA TruthStays ==
  ASSUME RunsTypeOK, CopiesAreTrue, Grows, NEW g \in Runs,
         \A h \in Runs : h # g => steps'[h] = steps[h] /\ fetched'[h] = fetched[h],
         row' = row \/ TrueRow(row)',
         steps'[g] = steps[g] \/ TrueOf(steps[g])',
         fetched'[g] = fetched[g] \/ TrueRow(fetched[g])'
  PROVE  CopiesAreTrue'
  <1>1. ASSUME NEW st, TrueOf(st)
        PROVE  \A s \in Steps :
                 /\ st[s] = "completed" => done'[s] > 0
                 /\ st[s] = "compensated" => undone'[s] > 0
    BY <1>1 DEF TrueOf, Grows, RunsTypeOK
  <1>2. ASSUME NEW r, TrueRow(r), r.state = "completed"
        PROVE  \A s \in Steps : done'[s] > 0
    BY <1>2 DEF TrueRow, Grows, RunsTypeOK
  <1>3. TrueRow(row)'
    <2>1. CASE row' = row
      BY <1>1, <1>2, <2>1 DEF CopiesAreTrue, TrueRow, TrueOf
    <2>2. QED
      BY <2>1
  <1>4. ASSUME NEW h \in Runs
        PROVE  TrueOf(steps[h])' /\ TrueRow(fetched[h])'
    <2>1. CASE steps'[h] = steps[h]
      <3>1. TrueOf(steps[h])'
        BY <1>1, <2>1 DEF CopiesAreTrue, TrueOf
      <3>2. QED
        BY <1>1, <1>2, <3>1 DEF CopiesAreTrue, TrueRow, TrueOf
    <2>2. QED
      BY <1>1, <1>2, <2>1 DEF CopiesAreTrue, TrueRow, TrueOf
  <1>5. QED
    BY <1>3, <1>4 DEF CopiesAreTrue

\* The runs other than g are where they were.
OthersStay(g) ==
  \A h \in Runs : h # g =>
    /\ pc'[h] = pc[h] /\ at'[h] = at[h]
    /\ steps'[h] = steps[h] /\ fetched'[h] = fetched[h]

\* A step of one run, or of the handler or the recovery that starts it.
LEMMA LocalStepIInv ==
  ASSUME IInv, RunsTypeOK', Grows, NEW g \in Runs, OthersStay(g), StepsInOrder',
         handler' = handler \/ handler' # "new",
         row' = row \/ TrueRow(row)',
         steps'[g] = steps[g] \/ TrueOf(steps[g])',
         fetched'[g] = fetched[g] \/ TrueRow(fetched[g])',
         StepInHand(g)'
  PROVE  IInv'
  <1>1. CopiesAreTrue'
    BY TruthStays DEF IInv, OthersStay
  <1>2. ASSUME NEW h \in Runs, h # g PROVE StepInHand(h)'
    <2>1. StepInHand(h) /\ pc'[h] = pc[h] /\ at'[h] = at[h]
      BY <1>2 DEF IInv, OthersStay
    <2>2. \A s \in Steps : done[s] > 0 => done'[s] > 0
      BY DEF Grows, IInv, RunsTypeOK
    <2>3. QED
      BY <2>1, <2>2 DEF StepInHand
  <1>3. QED
    BY <1>1, <1>2 DEF IInv

\* Steps that have no effect on the world.
LEMMA QuietStepIInv ==
  ASSUME IInv, RunsTypeOK', UNCHANGED <<done, undone>>, NEW g \in Runs, OthersStay(g),
         handler' = handler \/ handler' # "new",
         row' = row \/ TrueRow(row)',
         steps'[g] = steps[g] \/ TrueOf(steps[g])',
         fetched'[g] = fetched[g] \/ TrueRow(fetched[g])',
         StepInHand(g)'
  PROVE  IInv'
  <1>1. Grows
    BY DEF Grows, IInv, RunsTypeOK
  <1>2. StepsInOrder'
    BY DEF IInv, StepsInOrder
  <1>3. QED
    BY <1>1, <1>2, LocalStepIInv

LEMMA InitIInv == Init => IInv
  <1> SUFFICES ASSUME Init PROVE IInv
    OBVIOUS
  <1> USE DEF Init
  <1>1. AllPending \in [Steps -> StepStatuses] /\ NoRow \in SagaRow
    BY DEF AllPending, StepStatuses, NoRow, SagaRow, SagaStates
  <1>2. RunsTypeOK
    BY <1>1, SagaAssumption DEF RunsTypeOK, Steps
  <1>3. TrueOf(AllPending) /\ TrueRow(NoRow)
    BY DEF TrueOf, TrueRow, AllPending, NoRow
  <1>4. QED
    BY <1>2, <1>3 DEF IInv, StepsInOrder, CopiesAreTrue, StepInHand

-----------------------------------------------------------------------------
(* UpdateStepStatus and UpdateSagaState.                                   *)

\* The state of the row, but for "completed", says nothing of the steps.
LEMMA StateUpdateIsTrue ==
  ASSUME IInv, NEW s \in SagaStates,
         s = "completed" => \A t \in Steps : done[t] > 0,
         UpdateSagaState(s), UNCHANGED <<done, undone>>
  PROVE  row' \in SagaRow /\ (row' = row \/ TrueRow(row)')
  <1>1. row \in SagaRow /\ TrueRow(row)
    BY DEF IInv, RunsTypeOK, CopiesAreTrue
  <1>2. CASE row' = [row EXCEPT !.state = s]
    <2>1. row'.state = s /\ row'.steps = row.steps /\ row'.current = row.current
      BY <1>1, <1>2 DEF SagaRow
    <2>2. row' \in SagaRow
      BY <1>1, <1>2 DEF SagaRow
    <2>3. TrueRow(row)'
      BY <1>1, <2>1 DEF TrueRow, TrueOf
    <2>4. QED
      BY <2>2, <2>3
  <1>3. QED
    BY <1>1, <1>2 DEF UpdateSagaState

LEMMA GetSagaIInv ==
  ASSUME IInv, NEW g \in Runs, GetSaga(g)
  PROVE  IInv'
  <1> USE DEF GetSaga, processVars
  <1>1. /\ RunsTypeOK /\ TrueRow(row) /\ TrueOf(steps[g]) /\ row \in SagaRow
        /\ record[g] \in Steps /\ steps[g] \in [Steps -> StepStatuses]
    BY DEF IInv, CopiesAreTrue, RunsTypeOK
  <1>2. NoRow \in SagaRow /\ TrueRow(NoRow)
    BY DEF AllPending, StepStatuses, NoRow, SagaRow, SagaStates, TrueRow, TrueOf
  <1> DEFINE r == [row EXCEPT !.steps[record[g]] = steps[g][record[g]]]
  <1>3. r \in SagaRow /\ TrueRow(r)
    <2>1. /\ r.state = row.state /\ r.current = row.current
          /\ r.steps = [row.steps EXCEPT ![record[g]] = steps[g][record[g]]]
          /\ r \in SagaRow
      BY <1>1 DEF SagaRow
    <2>2. TrueOf(r.steps)
      BY <1>1, <2>1 DEF TrueRow, TrueOf, SagaRow
    <2>3. QED
      BY <1>1, <2>1, <2>2 DEF TrueRow
  <1>4. \/ fetched' = [fetched EXCEPT ![g] = r] /\ record' = record
        \/ fetched' = [fetched EXCEPT ![g] = NoRow]
           /\ record' = [record EXCEPT ![g] = 0]
    BY DEF EndRecord
  <1> HIDE DEF r
  <1>5. PICK f \in SagaRow : TrueRow(f) /\ fetched' = [fetched EXCEPT ![g] = f]
    BY <1>2, <1>3, <1>4
  <1>6. RunsTypeOK'
    BY <1>1, <1>4, <1>5 DEF RunsTypeOK
  <1>7. fetched'[g] = f /\ OthersStay(g)
    BY <1>1, <1>5 DEF RunsTypeOK, OthersStay
  <1>8. TrueRow(fetched[g])'
    BY <1>5, <1>7 DEF TrueRow, TrueOf
  <1>9. StepInHand(g)'
    BY DEF IInv, StepInHand
  <1>10. QED
    BY <1>6, <1>7, <1>8, <1>9, QuietStepIInv

LEMMA SaveSagaIInv ==
  ASSUME IInv, NEW g \in Runs, SaveSaga(g)
  PROVE  IInv'
  <1> USE DEF SaveSaga, processVars, EndRecord
  <1>1. RunsTypeOK /\ TrueRow(fetched[g]) /\ fetched[g] \in SagaRow /\ row \in SagaRow
    BY DEF IInv, CopiesAreTrue, RunsTypeOK
  <1>2. NoRow \in SagaRow /\ TrueRow(NoRow)
    BY DEF AllPending, StepStatuses, NoRow, SagaRow, SagaStates, TrueRow, TrueOf
  <1>3. RunsTypeOK'
    BY <1>1, <1>2 DEF RunsTypeOK
  <1>4. fetched'[g] = NoRow /\ OthersStay(g)
    BY <1>1 DEF RunsTypeOK, OthersStay
  <1>5. TrueRow(fetched[g])'
    BY <1>2, <1>4 DEF TrueRow, TrueOf
  <1>6. row' = row \/ TrueRow(row)'
    <2>1. CASE row' = fetched[g]
      BY <1>1, <2>1 DEF TrueRow, TrueOf
    <2>2. QED
      BY <2>1
  <1>7. StepInHand(g)'
    BY DEF IInv, StepInHand
  <1>8. QED
    BY <1>3, <1>4, <1>5, <1>6, <1>7, QuietStepIInv

-----------------------------------------------------------------------------
(* executeSaga and executeStep.                                            *)

\* Steps of g that leave the steps of its copy and UpdateStepStatus alone.
LEMMA GotoTyped ==
  ASSUME RunsTypeOK, NEW g \in Runs, NEW l \in {"done"} \cup Active, Goto(g, l)
  PROVE  /\ pc' \in [Runs -> {"none", "done", "dead"} \cup Active]
         /\ pc'[g] = l
         /\ \A h \in Runs : h # g => pc'[h] = pc[h]
  BY DEF RunsTypeOK, Goto

LEMMA BeginIInv ==
  ASSUME IInv, NEW g \in Runs, Begin(g)
  PROVE  IInv'
  <1> USE DEF Begin, Ready, processVars
  <1>1. RunsTypeOK /\ StepInHand(g)
    BY DEF IInv
  <1>2. row' \in SagaRow /\ (row' = row \/ TrueRow(row)')
    BY StateUpdateIsTrue DEF SagaStates
  <1>3. /\ pc' \in [Runs -> {"none", "done", "dead"} \cup Active]
        /\ pc'[g] = "step" /\ \A h \in Runs : h # g => pc'[h] = pc[h]
    BY <1>1, GotoTyped DEF Active
  <1>4. RunsTypeOK'
    BY <1>1, <1>2, <1>3 DEF RunsTypeOK
  <1>5. StepInHand(g)' /\ OthersStay(g)
    BY <1>1, <1>3 DEF StepInHand, OthersStay
  <1>6. QED
    BY <1>2, <1>4, <1>5, QuietStepIInv

\* The copy of g after a step has got a status.
LEMMA SetStepTyped ==
  ASSUME RunsTypeOK, NEW g \in Runs, at[g] \in Steps, NEW s \in StepStatuses,
         SetStep(g, s)
  PROVE  /\ steps' \in [Runs -> [Steps -> StepStatuses]]
         /\ record' \in [Runs -> {0} \cup Steps]
         /\ \A h \in Runs : h # g => steps'[h] = steps[h]
         /\ \A t \in Steps : steps'[g][t] = IF t = at[g] THEN s ELSE steps[g][t]
  BY DEF RunsTypeOK, SetStep

LEMMA StartStepIInv ==
  ASSUME IInv, NEW g \in Runs, StartStep(g)
  PROVE  IInv'
  <1> USE DEF StartStep, Ready, processVars
  <1>1. RunsTypeOK /\ StepInHand(g) /\ TrueOf(steps[g]) /\ at[g] \in Steps
    BY DEF IInv, CopiesAreTrue
  <1>2. PICK l \in {"attempt", "fail"} : Goto(g, l)
    OBVIOUS
  <1>3. /\ pc' \in [Runs -> {"none", "done", "dead"} \cup Active]
        /\ pc'[g] = l /\ \A h \in Runs : h # g => pc'[h] = pc[h]
    BY <1>1, <1>2, GotoTyped DEF Active
  <1>4. /\ steps' \in [Runs -> [Steps -> StepStatuses]]
        /\ record' \in [Runs -> {0} \cup Steps]
        /\ \A h \in Runs : h # g => steps'[h] = steps[h]
        /\ TrueOf(steps[g])'
    <2>1. CASE SetStep(g, "executing")
      BY <1>1, <2>1, SetStepTyped DEF StepStatuses, TrueOf
    <2>2. CASE UNCHANGED <<steps, record>>
      BY <1>1, <2>2 DEF RunsTypeOK, TrueOf
    <2>3. QED
      BY <2>1, <2>2
  <1>5. RunsTypeOK'
    BY <1>1, <1>3, <1>4 DEF RunsTypeOK
  <1>6. StepInHand(g)' /\ OthersStay(g)
    BY <1>1, <1>3, <1>4 DEF StepInHand, OthersStay, Steps
  <1>7. QED
    BY <1>4, <1>5, <1>6, QuietStepIInv

\* The attempt has its effect or not; the copy of g follows if it is told so.
LEMMA ExecuteIInv ==
  ASSUME IInv, NEW g \in Runs, Execute(g)
  PROVE  IInv'
  <1> USE DEF Ready, processVars
  <1> DEFINE a == at[g]
  <1>1. /\ RunsTypeOK /\ StepInHand(g) /\ TrueOf(steps[g]) /\ StepsInOrder
        /\ a \in Steps /\ pc[g] = "attempt"
        /\ UNCHANGED <<row, processVars, fetched, undone>>
    BY DEF IInv, CopiesAreTrue, Execute, StepInHand
  <1>2. /\ done' \in [Steps -> Nat]
        /\ status' \in {"pending", "processing", "completed", "failed"}
        /\ \/ \A t \in Steps : done'[t] = IF t = a THEN done[t] + 1 ELSE done[t]
           \/ done' = done
    <2>1. done \in [Steps -> Nat] /\ status \in {"pending", "processing", "completed", "failed"}
      BY <1>1 DEF RunsTypeOK
    <2>2. TakesEffect(a) \/ UNCHANGED <<done, status>>
      BY DEF Execute
    <2>3. QED
      BY <1>1, <2>1, <2>2, TypedEffects
  <1>3. Grows
    BY <1>1, <1>2 DEF Grows, RunsTypeOK
  <1>4. StepsInOrder'
    <2> SUFFICES ASSUME NEW t \in Steps \ {Validate}, done'[t] > 0
                 PROVE  done'[t - 1] > 0
      BY DEF StepsInOrder
    <2>1. t - 1 \in Steps
      BY DEF Steps, Validate
    <2>2. CASE t = a
      <3>1. done[t - 1] > 0
        BY <1>1, <2>1, <2>2 DEF StepInHand, Steps
      <3>2. QED
        BY <1>1, <1>3, <2>1, <3>1 DEF Grows, RunsTypeOK
    <2>3. CASE t # a
      <3>1. done[t - 1] > 0
        BY <1>1, <1>2, <2>1, <2>3 DEF StepsInOrder
      <3>2. QED
        BY <1>1, <1>3, <2>1, <3>1 DEF Grows, RunsTypeOK
    <2>4. QED
      BY <2>2, <2>3
  <1>5. CASE /\ TakesEffect(a) /\ SetStep(g, "completed") /\ Goto(g, "step")
             /\ at' = [at EXCEPT ![g] = @ + 1]
             /\ attempt' = [attempt EXCEPT ![g] = 0]
    <2>1. /\ pc' \in [Runs -> {"none", "done", "dead"} \cup Active]
          /\ pc'[g] = "step" /\ \A h \in Runs : h # g => pc'[h] = pc[h]
      BY <1>1, <1>5, GotoTyped DEF Active
    <2>2. /\ steps' \in [Runs -> [Steps -> StepStatuses]]
          /\ record' \in [Runs -> {0} \cup Steps]
          /\ \A h \in Runs : h # g => steps'[h] = steps[h]
          /\ \A t \in Steps : steps'[g][t] = IF t = a THEN "completed" ELSE steps[g][t]
      BY <1>1, <1>5, SetStepTyped DEF StepStatuses
    <2>3. \A t \in Steps : done'[t] = IF t = a THEN done[t] + 1 ELSE done[t]
      BY <1>1, <1>5, TypedEffects
    <2>4. /\ at' \in [Runs -> 0..5] /\ at'[g] = a + 1
          /\ attempt' \in [Runs -> Nat]
          /\ \A h \in Runs : h # g => at'[h] = at[h]
      BY <1>1, <1>5 DEF RunsTypeOK, Steps
    <2>5. RunsTypeOK'
      BY <1>1, <1>2, <2>1, <2>2, <2>4 DEF RunsTypeOK
    <2>6. done'[a] > 0
      BY <1>1, <2>3 DEF RunsTypeOK
    <2>7. TrueOf(steps[g])'
      <3> SUFFICES ASSUME NEW t \in Steps
                   PROVE  /\ steps'[g][t] = "completed" => done'[t] > 0
                          /\ steps'[g][t] = "compensated" => undone'[t] > 0
        BY DEF TrueOf
      <3>1. CASE t = a
        BY <1>1, <2>2, <2>6, <3>1
      <3>2. CASE t # a
        BY <1>1, <2>2, <2>3, <3>2 DEF TrueOf
      <3>3. QED
        BY <3>1, <3>2
    <2>8. StepInHand(g)'
      <3>1. \A t \in Steps : t < a + 1 => done'[t] > 0
        BY <1>1, <2>3, <2>6 DEF StepInHand, Steps, RunsTypeOK
      <3>2. QED
        BY <1>1, <2>1, <2>4, <3>1 DEF StepInHand, Steps
    <2>9. OthersStay(g)
      BY <1>1, <2>1, <2>2, <2>4 DEF OthersStay
    <2>10. QED
      BY <1>1, <1>3, <1>4, <2>5, <2>7, <2>8, <2>9, LocalStepIInv
  <1>6. CASE /\ \/ /\ attempt' = [attempt EXCEPT ![g] = @ + 1]
                   /\ UNCHANGED <<steps, record, pc>>
                \/ /\ SetStep(g, "failed")
                   /\ Goto(g, "fail")
                   /\ attempt' = [attempt EXCEPT ![g] = 0]
             /\ UNCHANGED at
    <2>1. attempt' \in [Runs -> Nat]
      <3>1. attempt \in [Runs -> Nat]
        BY <1>1 DEF RunsTypeOK
      <3>2. PICK n \in Nat : attempt' = [attempt EXCEPT ![g] = n]
        BY <1>6, <3>1
      <3>3. QED
        BY <3>1, <3>2
    <2>2. /\ pc' \in [Runs -> {"none", "done", "dead"} \cup Active]
          /\ pc'[g] \in {"attempt", "fail"}
          /\ \A h \in Runs : h # g => pc'[h] = pc[h]
      <3>1. CASE UNCHANGED pc
        BY <1>1, <3>1 DEF RunsTypeOK
      <3>2. CASE Goto(g, "fail")
        BY <1>1, <3>2, GotoTyped DEF Active
      <3>3. QED
        BY <1>6, <3>1, <3>2
    <2>3. /\ steps' \in [Runs -> [Steps -> StepStatuses]]
          /\ record' \in [Runs -> {0} \cup Steps]
          /\ \A h \in Runs : h # g => steps'[h] = steps[h]
          /\ steps'[g] = steps[g] \/ TrueOf(steps[g])'
      <3>1. CASE UNCHANGED <<steps, record>>
        BY <1>1, <3>1 DEF RunsTypeOK
      <3>2. CASE SetStep(g, "failed")
        <4>1. /\ steps' \in [Runs -> [Steps -> StepStatuses]]
              /\ record' \in [Runs -> {0} \cup Steps]
              /\ \A h \in Runs : h # g => steps'[h] = steps[h]
              /\ \A t \in Steps : steps'[g][t] = IF t = a THEN "failed" ELSE steps[g][t]
          BY <1>1, <3>2, SetStepTyped DEF StepStatuses
        <4>2. \A t \in Steps : done[t] > 0 => done'[t] > 0
          BY <1>1, <1>3 DEF Grows, RunsTypeOK
        <4>3. QED
          BY <1>1, <4>1, <4>2 DEF TrueOf
      <3>3. QED
        BY <1>6, <3>1, <3>2
    <2>4. RunsTypeOK'
      BY <1>1, <1>2, <1>6, <2>1, <2>2, <2>3 DEF RunsTypeOK
    <2>5. StepInHand(g)'
      <3>1. \A t \in Steps : done[t] > 0 => done'[t] > 0
        BY <1>1, <1>3 DEF Grows, RunsTypeOK
      <3>2. QED
        BY <1>1, <1>6, <2>2, <3>1 DEF StepInHand, Steps
    <2>6. OthersStay(g)
      BY <1>1, <1>6, <2>2, <2>3 DEF OthersStay
    <2>7. QED
      BY <1>1, <1>3, <1>4, <2>3, <2>4, <2>5, <2>6, LocalStepIInv
  <1>7. QED
    BY <1>5, <1>6 DEF Execute

LEMMA FinishIInv ==
  ASSUME IInv, NEW g \in Runs, Finish(g)
  PROVE  IInv'
  <1> USE DEF Finish, Ready, processVars
  <1>1. RunsTypeOK /\ StepInHand(g)
    BY DEF IInv
  <1>2. \A t \in Steps : done[t] > 0
    <2>1. at[g] = 5
      BY <1>1 DEF StepInHand, RunsTypeOK, Steps
    <2>2. QED
      BY <1>1, <2>1 DEF StepInHand, Steps
  <1>3. row' \in SagaRow /\ (row' = row \/ TrueRow(row)')
    BY <1>2, StateUpdateIsTrue DEF SagaStates
  <1>4. /\ pc' \in [Runs -> {"none", "done", "dead"} \cup Active]
        /\ pc'[g] = "done" /\ \A h \in Runs : h # g => pc'[h] = pc[h]
    BY <1>1, GotoTyped
  <1>5. RunsTypeOK'
    BY <1>1, <1>3, <1>4 DEF RunsTypeOK
  <1>6. StepInHand(g)' /\ OthersStay(g)
    BY <1>1, <1>4 DEF StepInHand, OthersStay
  <1>7. QED
    BY <1>3, <1>5, <1>6, QuietStepIInv

-----------------------------------------------------------------------------
(* compensateSaga.                                                         *)

LEMMA FailIInv ==
  ASSUME IInv, NEW g \in Runs, Fail(g)
  PROVE  IInv'
  <1> USE DEF Fail, Ready, processVars
  <1>1. RunsTypeOK /\ StepInHand(g)
    BY DEF IInv
  <1>2. row' \in SagaRow /\ (row' = row \/ TrueRow(row)')
    BY StateUpdateIsTrue DEF SagaStates
  <1>3. /\ pc' \in [Runs -> {"none", "done", "dead"} \cup Active]
        /\ pc'[g] = "undo" /\ \A h \in Runs : h # g => pc'[h] = pc[h]
    BY <1>1, GotoTyped DEF Active
  <1>4. /\ at' \in [Runs -> 0..5] /\ at'[g] <= 4
        /\ \A h \in Runs : h # g => at'[h] = at[h]
    BY <1>1 DEF RunsTypeOK, StepInHand
  <1>5. RunsTypeOK'
    BY <1>1, <1>2, <1>3, <1>4 DEF RunsTypeOK
  <1>6. StepInHand(g)' /\ OthersStay(g)
    BY <1>1, <1>3, <1>4 DEF StepInHand, OthersStay
  <1>7. QED
    BY <1>2, <1>5, <1>6, QuietStepIInv

LEMMA UndoIInv ==
  ASSUME IInv, NEW g \in Runs, Undo(g)
  PROVE  IInv'
  <1> USE DEF Ready, processVars
  <1> DEFINE a == at[g]
  <1>1. /\ RunsTypeOK /\ StepInHand(g) /\ TrueOf(steps[g]) /\ StepsInOrder
        /\ pc[g] = "undo" /\ at' = [at EXCEPT ![g] = @ - 1]
        /\ UNCHANGED <<row, processVars, pc, attempt, fetched, done>>
    BY DEF IInv, CopiesAreTrue, Undo
  <1>2. a \in Steps
    BY <1>1 DEF Undo, StepInHand, RunsTypeOK, Steps
  <1>3. /\ undone' \in [Steps -> Nat]
        /\ status' \in {"pending", "processing", "completed", "failed"}
        /\ \/ \A t \in Steps : undone'[t] = IF t = a THEN undone[t] + 1 ELSE undone[t]
           \/ undone' = undone
    <2>1. undone \in [Steps -> Nat] /\ status \in {"pending", "processing", "completed", "failed"}
      BY <1>1 DEF RunsTypeOK
    <2>2. UndoTakesEffect(a) \/ UNCHANGED <<undone, status>>
      BY DEF Undo
    <2>3. QED
      BY <1>1, <1>2, <2>1, <2>2, TypedEffects
  <1>4. Grows
    BY <1>1, <1>3 DEF Grows, RunsTypeOK
  <1>5. StepsInOrder'
    BY <1>1 DEF StepsInOrder
  <1>6. /\ at' \in [Runs -> 0..5] /\ at'[g] <= 4
        /\ \A h \in Runs : h # g => at'[h] = at[h]
    BY <1>1, <1>2 DEF RunsTypeOK, Steps
  <1>7. /\ steps' \in [Runs -> [Steps -> StepStatuses]]
        /\ record' \in [Runs -> {0} \cup Steps]
        /\ \A h \in Runs : h # g => steps'[h] = steps[h]
        /\ steps'[g] = steps[g] \/ TrueOf(steps[g])'
    <2>1. CASE UNCHANGED <<steps, record>>
      BY <1>1, <2>1 DEF RunsTypeOK
    <2>2. CASE UndoTakesEffect(a) /\ SetStep(g, "compensated")
      <3>1. /\ steps' \in [Runs -> [Steps -> StepStatuses]]
            /\ record' \in [Runs -> {0} \cup Steps]
            /\ \A h \in Runs : h # g => steps'[h] = steps[h]
            /\ \A t \in Steps : steps'[g][t] = IF t = a THEN "compensated" ELSE steps[g][t]
        BY <1>1, <1>2, <2>2, SetStepTyped DEF StepStatuses
      <3>2. undone'[a] > 0
        BY <1>1, <1>2, <2>2, TypedEffects DEF RunsTypeOK
      <3>3. \A t \in Steps : undone[t] > 0 => undone'[t] > 0
        BY <1>1, <1>4 DEF Grows, RunsTypeOK
      <3>4. QED
        BY <1>1, <3>1, <3>2, <3>3 DEF TrueOf
    <2>3. QED
      BY <2>1, <2>2 DEF Undo
  <1>8. RunsTypeOK'
    BY <1>1, <1>3, <1>6, <1>7 DEF RunsTypeOK
  <1>9. StepInHand(g)' /\ OthersStay(g)
    BY <1>1, <1>6, <1>7 DEF StepInHand, OthersStay
  <1>10. QED
    BY <1>1, <1>4, <1>5, <1>7, <1>8, <1>9, LocalStepIInv

LEMMA CloseIInv ==
  ASSUME IInv, NEW g \in Runs, Close(g)
  PROVE  IInv'
  <1> USE DEF Close, Ready, processVars
  <1>1. RunsTypeOK /\ StepInHand(g)
    BY DEF IInv
  <1>2. row' \in SagaRow /\ (row' = row \/ TrueRow(row)')
    BY StateUpdateIsTrue DEF SagaStates
  <1>3. /\ pc' \in [Runs -> {"none", "done", "dead"} \cup Active]
        /\ pc'[g] = "done" /\ \A h \in Runs : h # g => pc'[h] = pc[h]
    BY <1>1, GotoTyped
  <1>4. RunsTypeOK'
    BY <1>1, <1>2, <1>3 DEF RunsTypeOK
  <1>5. StepInHand(g)' /\ OthersStay(g)
    BY <1>1, <1>3 DEF StepInHand, OthersStay
  <1>6. QED
    BY <1>2, <1>4, <1>5, QuietStepIInv

-----------------------------------------------------------------------------
(* The handler, and the starts of the process.                             *)

LEMMA StartPaymentSagaIInv ==
  ASSUME IInv, StartPaymentSaga
  PROVE  IInv'
  <1> USE DEF StartPaymentSaga
  <1>1. /\ 0 \in Runs /\ RunsTypeOK /\ StepInHand(0)
        /\ row \in SagaRow /\ pc[0] = "none" /\ at[0] = 1
    <2>1. 0 \in Runs
      BY SagaAssumption DEF Runs
    <2>2. RunsTypeOK /\ StepInHand(0)
      BY <2>1 DEF IInv
    <2>3. row \in SagaRow /\ pc[0] = "none" /\ at[0] = 1
      BY <2>2 DEF RunsTypeOK, StepInHand
    <2>4. QED
      BY <2>1, <2>2, <2>3
  <1> DEFINE r == [NoRow EXCEPT !.state = "started"]
  <1>2. r \in SagaRow /\ TrueRow(r)
    BY DEF AllPending, StepStatuses, NoRow, SagaRow, SagaStates, TrueRow, TrueOf
  <1>3. row' \in SagaRow /\ (row' = row \/ TrueRow(row)')
    <2>1. row' = row \/ row' = r
      OBVIOUS
    <2>2. row' = r => TrueRow(row)'
      BY <1>2 DEF TrueRow, TrueOf
    <2>3. QED
      BY <1>1, <1>2, <2>1, <2>2
  <1>4. /\ pc' \in [Runs -> {"none", "done", "dead"} \cup Active]
        /\ pc' = pc \/ (handler = "new" /\ pc'[0] = "begin")
        /\ \A h \in Runs : h # 0 => pc'[h] = pc[h]
    <2>1. CASE Goto(0, "begin")
      BY <1>1, <2>1, GotoTyped DEF Active
    <2>2. CASE UNCHANGED pc
      BY <1>1, <2>2 DEF RunsTypeOK
    <2>3. QED
      BY <2>1, <2>2
  <1>5. RunsTypeOK'
    BY <1>1, <1>3, <1>4 DEF RunsTypeOK
  <1>6. StepInHand(0)'
    BY <1>1, <1>4 DEF StepInHand, Steps
  <1>7. OthersStay(0)
    BY <1>4 DEF OthersStay
  <1>8. QED
    BY <1>1, <1>3, <1>5, <1>6, <1>7, QuietStepIInv

LEMMA AnswerIInv ==
  ASSUME IInv, Answer
  PROVE  IInv'
  <1> USE DEF Answer, runVars
  <1>1. 0 \in Runs /\ RunsTypeOK /\ StepInHand(0)
    BY SagaAssumption DEF IInv, Runs
  <1>2. status' \in {"pending", "processing", "completed", "failed"}
    BY <1>1 DEF UpdateStatus, RunsTypeOK
  <1>3. RunsTypeOK'
    BY <1>1, <1>2 DEF RunsTypeOK
  <1>4. StepInHand(0)' /\ OthersStay(0)
    BY <1>1 DEF StepInHand, OthersStay
  <1>5. QED
    BY <1>1, <1>3, <1>4, QuietStepIInv

\* The recovered copy is the row, whose current_step has always been 0.
LEMMA RecoverIInv ==
  ASSUME IInv, Recover
  PROVE  IInv'
  <1>1. RunsTypeOK /\ starts \in Runs \ {0} /\ StepInHand(starts)
    <2>1. starts \in Runs \ {0}
      BY SagaAssumption DEF IInv, RunsTypeOK, Runs
    <2>2. QED
      BY <2>1 DEF IInv
  <1>2. row \in SagaRow /\ TrueRow(row)
    BY <1>1 DEF IInv, RunsTypeOK, CopiesAreTrue
  <1>3. UNCHANGED <<row, status, handler, starts, attempt, record, fetched, done, undone>>
    BY DEF Recover
  <1> USE DEF Recoverable, ResumeLabel, ResumeStep
  <1>4. CASE UNCHANGED <<pc, steps, at>>
    <2>1. RunsTypeOK'
      BY <1>1, <1>3, <1>4 DEF RunsTypeOK, Recover
    <2>2. StepInHand(starts)' /\ OthersStay(starts)
      BY <1>1, <1>3, <1>4 DEF StepInHand, OthersStay
    <2>3. QED
      BY <1>1, <1>3, <1>4, <2>1, <2>2, QuietStepIInv
  <1>5. CASE /\ Goto(starts, ResumeLabel)
             /\ steps' = [steps EXCEPT ![starts] = row.steps]
             /\ at' = [at EXCEPT ![starts] = ResumeStep]
    <2>1. /\ steps' \in [Runs -> [Steps -> StepStatuses]]
          /\ steps'[starts] = row.steps
          /\ \A h \in Runs : h # starts => steps'[h] = steps[h]
      <3>1. steps \in [Runs -> [Steps -> StepStatuses]] /\ row.steps \in [Steps -> StepStatuses]
        BY <1>1, <1>2 DEF RunsTypeOK, SagaRow
      <3>2. QED
        BY <1>1, <1>5, <3>1
    <2>2. /\ at' \in [Runs -> 0..5]
          /\ at'[starts] = 1
          /\ \A h \in Runs : h # starts => at'[h] = at[h]
      <3>1. at \in [Runs -> 0..5] /\ row.current = 0
        BY <1>1, <1>2 DEF RunsTypeOK, TrueRow
      <3>2. QED
        BY <1>1, <1>5, <3>1
    <2>3. /\ pc' \in [Runs -> {"none", "done", "dead"} \cup Active]
          /\ pc'[starts] \in {"begin", "fail"}
          /\ \A h \in Runs : h # starts => pc'[h] = pc[h]
      <3>1. PICK l \in {"begin", "fail"} : Goto(starts, l)
        BY <1>5
      <3>2. QED
        BY <1>1, <3>1, GotoTyped DEF Active
    <2>4. RunsTypeOK'
      BY <1>1, <1>3, <2>1, <2>2, <2>3 DEF RunsTypeOK, Recover
    <2>5. TrueOf(steps'[starts])
      BY <1>2, <2>1 DEF TrueRow
    <2>6. TrueOf(steps[starts])'
      BY <1>3, <2>5 DEF TrueOf
    <2>7. StepInHand(starts)'
      BY <1>1, <1>3, <2>2, <2>3 DEF StepInHand, Steps
    <2>8. OthersStay(starts)
      BY <1>3, <2>1, <2>2, <2>3 DEF OthersStay
    <2>9. QED
      BY <1>1, <1>3, <2>4, <2>6, <2>7, <2>8, QuietStepIInv
  <1>6. QED
    BY <1>4, <1>5 DEF Recover

\* The goroutines are gone; what they did and the row remain.
LEMMA CrashIInv ==
  ASSUME IInv, Crash
  PROVE  IInv'
  <1> USE DEF Crash
  <1>1. RunsTypeOK /\ TrueRow(row) /\ StepsInOrder
    BY DEF IInv, CopiesAreTrue
  <1>2. AllPending \in [Steps -> StepStatuses] /\ NoRow \in SagaRow
    BY DEF AllPending, StepStatuses, NoRow, SagaRow, SagaStates
  <1>3. /\ pc' \in [Runs -> {"none", "done", "dead"} \cup Active]
        /\ \A g \in Runs : pc'[g] = IF pc[g] \in Active THEN "dead" ELSE pc[g]
    BY <1>1 DEF RunsTypeOK
  <1>4. RunsTypeOK'
    <2>1. starts' \in 1..MaxStarts
      BY <1>1, SagaAssumption DEF RunsTypeOK
    <2>2. handler' \in {"new", "mark", "reject", "done", "dead"}
      BY <1>1 DEF RunsTypeOK
    <2>3. at' \in [Runs -> 0..5] /\ record' \in [Runs -> {0} \cup Steps]
          /\ steps' \in [Runs -> [Steps -> StepStatuses]]
          /\ fetched' \in [Runs -> SagaRow] /\ attempt' \in [Runs -> Nat]
      BY <1>1, <1>2 DEF RunsTypeOK, Steps
    <2>4. QED
      BY <1>1, <1>3, <2>1, <2>2, <2>3 DEF RunsTypeOK
  <1>5. StepsInOrder'
    BY <1>1 DEF StepsInOrder
  <1>6. TrueOf(AllPending)' /\ TrueRow(NoRow)'
    BY DEF TrueOf, TrueRow, AllPending, NoRow
  <1>7. CopiesAreTrue'
    <2>1. TrueRow(row)'
      BY <1>1 DEF TrueRow, TrueOf
    <2>2. ASSUME NEW g \in Runs PROVE TrueOf(steps[g])' /\ TrueRow(fetched[g])'
      BY <1>6 DEF TrueOf, TrueRow
    <2>3. QED
      BY <2>1, <2>2 DEF CopiesAreTrue
  <1>8. ASSUME NEW g \in Runs PROVE StepInHand(g)'
    <2>1. StepInHand(g)
      BY DEF IInv
    <2>2. at'[g] \in {1, at[g]} /\ pc'[g] \notin Active
      BY <1>3 DEF Active
    <2>3. handler' = "new" => handler = "new"
      OBVIOUS
    <2>4. pc[g] = "none" => pc'[g] = "none"
      BY <1>3 DEF Active
    <2>5. QED
      BY <2>1, <2>2, <2>3, <2>4 DEF StepInHand, Active
  <1>9. QED
    BY <1>4, <1>5, <1>7, <1>8 DEF IInv

-----------------------------------------------------------------------------
LEMMA StutterIInv ==
  ASSUME IInv, UNCHANGED vars
  PROVE  IInv'
  <1> USE DEF vars, processVars, runVars
  <1>1. RunsTypeOK'
    BY DEF IInv, RunsTypeOK
  <1>2. 0 \in Runs /\ StepInHand(0)
    BY SagaAssumption DEF IInv, Runs
  <1>3. StepInHand(0)' /\ OthersStay(0)
    BY <1>2 DEF StepInHand, OthersStay
  <1>4. QED
    BY <1>1, <1>2, <1>3, QuietStepIInv

LEMMA NextIInv ==
  ASSUME IInv, [Next]_vars
  PROVE  IInv'
  <1>1. ASSUME NEW g \in Runs, RunStep(g) PROVE IInv'
    BY <1>1, GetSagaIInv, SaveSagaIInv, BeginIInv, StartStepIInv, ExecuteIInv,
       FinishIInv, FailIInv, UndoIInv, CloseIInv DEF RunStep
  <1>2. CASE StartPaymentSaga
    BY <1>2, StartPaymentSagaIInv
  <1>3. CASE Answer
    BY <1>3, AnswerIInv
  <1>4. CASE Recover
    BY <1>4, RecoverIInv
  <1>5. CASE Crash
    BY <1>5, CrashIInv
  <1>6. CASE UNCHANGED vars
    BY <1>6, StutterIInv
  <1>7. QED
    BY <1>1, <1>2, <1>3, <1>4, <1>5, <1>6 DEF Next

\* The invariant holds along every behaviour of executeSaga, compensateSaga
\* and RecoverPendingSagas, however many runs share the saga.
THEOREM SagaInvariant == Spec => []IInv
  BY InitIInv, NextIInv, PTL DEF Spec

\* executeSaga, started from any copy by any recovery, performs no action
\* whose predecessor has never been performed.
THEOREM ActionsInOrder == Spec => []StepsInOrder
  <1>1. IInv => StepsInOrder
    BY DEF IInv
  <1>2. QED
    BY <1>1, SagaInvariant, PTL

\* UpdateStepStatus writes whole rows back, some of them stale, and none of
\* them claims an action or a compensation that did not take effect.
THEOREM RowNeverLies == Spec => []RowIsTrue
  <1>1. IInv => RowIsTrue
    BY DEF IInv, CopiesAreTrue, TrueRow, TrueOf, RowIsTrue
  <1>2. QED
    BY <1>1, SagaInvariant, PTL

-----------------------------------------------------------------------------
(***************************************************************************)
(* The row of the payment.  Until StartPaymentSaga has answered nil there  *)
(* is no run, and a row that it may have left all the same is not          *)
(* recovered, so that a rejected payment stays untouched for good.         *)
(***************************************************************************)
Untouched ==
  /\ row.state \in {"none", "started"}
  /\ \A g \in Runs : pc[g] = "none" /\ record[g] = 0 /\ fetched[g] = NoRow
  /\ \A s \in Steps : done[s] = 0

PaymentInv ==
  /\ pc[0] = "none" => Untouched
  /\ handler \in {"new", "reject"} => pc[0] = "none"
  /\ handler = "new" => status = "pending"
  /\ status = "failed" => pc[0] = "none" \/ undone[SetPaid] > 0
  /\ done[SetPaid] > 0 /\ undone[SetPaid] = 0 =>
       \/ status = "completed"
       \/ status = "processing" /\ handler = "done"

\* A run that moves was begun, and goes on to be one that was begun.
LEMMA BegunStaysBegun ==
  ASSUME RunsTypeOK, PaymentInv, NEW g \in Runs, RunStep(g)
  PROVE  pc[0] # "none" /\ pc'[0] # "none" /\ handler' = handler
  <1>1. 0 \in Runs /\ pc \in [Runs -> {"none", "done", "dead"} \cup Active]
    BY SagaAssumption DEF Runs, RunsTypeOK
  <1>2. pc[g] # "none" \/ record[g] # 0 \/ fetched[g] # NoRow
    BY DEF RunStep, GetSaga, SaveSaga, Begin, StartStep, Execute, Finish, Fail,
       Undo, Close, Ready
  <1>3. pc[0] # "none"
    BY <1>2 DEF PaymentInv, Untouched
  <1>4. pc' = pc \/ \E l \in {"done"} \cup Active : Goto(g, l)
    BY DEF RunStep, GetSaga, SaveSaga, Begin, StartStep, Execute, Finish, Fail,
       Undo, Close, Active
  <1>5. pc'[0] # "none"
    BY <1>1, <1>3, <1>4 DEF Goto, Active
  <1>6. handler' = handler
    BY DEF RunStep, GetSaga, SaveSaga, Begin, StartStep, Execute, Finish, Fail,
       Undo, Close, processVars
  <1>7. QED
    BY <1>3, <1>5, <1>6

\* What a run may do to the payment: nothing, an action, or a compensation.
LEMMA EffectsOfRuns ==
  ASSUME RunsTypeOK, IInv, NEW g \in Runs, RunStep(g)
  PROVE  \/ UNCHANGED <<status, done, undone>>
         \/ \E s \in Steps : TakesEffect(s) /\ undone' = undone
         \/ \E s \in Steps : UndoTakesEffect(s) /\ done' = done
  <1>1. CASE Execute(g)
    <2>1. at[g] \in Steps
      BY <1>1 DEF IInv, StepInHand, Execute, Ready
    <2>2. QED
      BY <1>1, <2>1 DEF Execute
  <1>2. CASE Undo(g)
    <2>1. at[g] \in Steps
      BY <1>2 DEF IInv, StepInHand, Undo, Ready, RunsTypeOK, Steps
    <2>2. QED
      BY <1>2, <2>1 DEF Undo
  <1>3. CASE GetSaga(g) \/ SaveSaga(g) \/ Begin(g) \/ StartStep(g) \/ Finish(g)
             \/ Fail(g) \/ Close(g)
    BY <1>3 DEF GetSaga, SaveSaga, Begin, StartStep, Finish, Fail, Close
  <1>4. QED
    BY <1>1, <1>2, <1>3 DEF RunStep

LEMMA RunStepPaymentInv ==
  ASSUME IInv, PaymentInv, NEW g \in Runs, RunStep(g)
  PROVE  PaymentInv'
  <1>1. RunsTypeOK /\ SetPaid \in Steps
    BY DEF IInv, SetPaid, Steps
  <1>2. done \in [Steps -> Nat] /\ undone \in [Steps -> Nat]
    BY <1>1 DEF RunsTypeOK
  <1>3. pc[0] # "none" /\ pc'[0] # "none" /\ handler' = handler
    BY <1>1, BegunStaysBegun
  <1>4. /\ status = "failed" => undone[SetPaid] > 0
        /\ handler \notin {"new", "reject"}
    BY <1>3 DEF PaymentInv
  <1>5. CASE UNCHANGED <<status, done, undone>>
    BY <1>3, <1>4, <1>5 DEF PaymentInv
  <1>6. ASSUME NEW s \in Steps, TakesEffect(s), undone' = undone PROVE PaymentInv'
    <2>1. CASE s = SetPaid
      BY <1>3, <1>4, <1>6, <2>1 DEF PaymentInv, TakesEffect
    <2>2. CASE s # SetPaid
      <3>1. done'[SetPaid] = done[SetPaid] /\ status' = status
        BY <1>1, <1>2, <1>6, <2>2 DEF TakesEffect
      <3>2. QED
        BY <1>3, <1>4, <1>6, <3>1 DEF PaymentInv
    <2>3. QED
      BY <2>1, <2>2
  <1>7. ASSUME NEW s \in Steps, UndoTakesEffect(s), done' = done PROVE PaymentInv'
    <2>1. CASE s = SetPaid
      <3>1. undone'[SetPaid] > 0
        BY <1>1, <1>2, <1>7, <2>1 DEF UndoTakesEffect
      <3>2. QED
        BY <1>3, <1>4, <3>1 DEF PaymentInv
    <2>2. CASE s # SetPaid
      <3>1. undone'[SetPaid] = undone[SetPaid] /\ status' = status
        BY <1>1, <1>2, <1>7, <2>2 DEF UndoTakesEffect
      <3>2. QED
        BY <1>3, <1>4, <1>7, <3>1 DEF PaymentInv
    <2>3. QED
      BY <2>1, <2>2
  <1>8. QED
    BY <1>1, <1>5, <1>6, <1>7, EffectsOfRuns

LEMMA StartPaymentInv ==
  ASSUME IInv, PaymentInv, StartPaymentSaga
  PROVE  PaymentInv'
  <1>1. /\ 0 \in Runs /\ pc \in [Runs -> {"none", "done", "dead"} \cup Active]
        /\ SetPaid \in Steps
    BY SagaAssumption DEF IInv, RunsTypeOK, Runs, SetPaid, Steps
  <1>2. /\ Untouched /\ status = "pending"
        /\ UNCHANGED <<status, steps, at, record, fetched, done, undone>>
    BY DEF PaymentInv, StartPaymentSaga
  <1>3. CASE Goto(0, "begin") /\ handler' = "mark"
    <2>1. pc'[0] = "begin"
      BY <1>1, <1>3 DEF Goto
    <2>2. QED
      BY <1>1, <1>2, <1>3, <2>1 DEF PaymentInv, Untouched
  <1>4. CASE UNCHANGED pc /\ handler' = "reject"
    <2>1. row' = row \/ row' = [NoRow EXCEPT !.state = "started"]
      BY DEF StartPaymentSaga
    <2>2. row'.state \in {"none", "started"}
      BY <1>2, <2>1 DEF Untouched, NoRow
    <2>3. QED
      BY <1>1, <1>2, <1>4, <2>2 DEF PaymentInv, Untouched
  <1>5. QED
    BY <1>3, <1>4 DEF StartPaymentSaga

LEMMA NextPaymentInv ==
  ASSUME IInv, PaymentInv, [Next]_vars
  PROVE  PaymentInv'
  <1>0. /\ 0 \in Runs /\ SetPaid \in Steps
        /\ pc \in [Runs -> {"none", "done", "dead"} \cup Active]
    BY SagaAssumption DEF IInv, RunsTypeOK, Runs, SetPaid, Steps
  <1>1. ASSUME NEW g \in Runs, RunStep(g) PROVE PaymentInv'
    BY <1>1, RunStepPaymentInv
  <1>2. CASE StartPaymentSaga
    BY <1>2, StartPaymentInv
  <1>3. CASE Answer
    <2>1. /\ UNCHANGED <<row, pc, record, fetched, done, undone>>
          /\ handler' = "done"
      BY <1>3 DEF Answer, runVars
    <2>2. Untouched => Untouched'
      BY <2>1 DEF Untouched
    <2>3. CASE handler = "mark"
      <3>1. status' = "processing" \/ status' = status
        BY <1>3, <2>3 DEF Answer, UpdateStatus
      <3>2. QED
        BY <2>1, <2>2, <2>3, <3>1 DEF PaymentInv
    <2>4. CASE handler = "reject"
      <3>1. Untouched /\ pc[0] = "none"
        BY <2>4 DEF PaymentInv
      <3>2. QED
        BY <1>0, <2>1, <2>2, <3>1 DEF PaymentInv, Untouched
    <2>5. QED
      BY <1>3, <2>3, <2>4 DEF Answer
  <1>4. CASE Recover
    <2>1. UNCHANGED <<row, status, handler, record, fetched, done, undone>>
      BY <1>4 DEF Recover
    <2>2. CASE UNCHANGED pc
      BY <2>1, <2>2 DEF PaymentInv, Untouched
    <2>3. CASE Recoverable /\ Goto(starts, ResumeLabel)
      <3>1. pc[0] # "none"
        BY <2>3 DEF PaymentInv, Untouched, Recoverable
      <3>2. pc'[0] # "none"
        BY <1>0, <2>3, <3>1 DEF Goto, ResumeLabel
      <3>3. QED
        BY <2>1, <3>1, <3>2 DEF PaymentInv
    <2>4. QED
      BY <1>4, <2>2, <2>3 DEF Recover
  <1>5. CASE Crash
    <2>1. /\ UNCHANGED <<row, status, done, undone>>
          /\ \A g \in Runs : /\ pc'[g] = "none" <=> pc[g] = "none"
                             /\ record'[g] = 0 /\ fetched'[g] = NoRow
          /\ handler' \in {"new", "reject"} => handler' = handler
          /\ handler = "done" => handler' = "done"
      BY <1>0, <1>5 DEF Crash, Active
    <2>2. QED
      BY <1>0, <2>1 DEF PaymentInv, Untouched
  <1>6. CASE UNCHANGED vars
    BY <1>6 DEF PaymentInv, Untouched, vars, processVars, runVars
  <1>7. QED
    BY <1>1, <1>2, <1>3, <1>4, <1>5, <1>6 DEF Next

\* What the runs, the handler and the row of the payment know of each other.
LEMMA PaymentInvariant == Spec => []PaymentInv
  <1>1. Init => PaymentInv
    <2> SUFFICES ASSUME Init PROVE PaymentInv
      OBVIOUS
    <2>1. row.state = "none"
      BY DEF Init, NoRow
    <2>2. \A g \in Runs : pc[g] = "none" /\ record[g] = 0 /\ fetched[g] = NoRow
      BY Zenon DEF Init
    <2>3. \A s \in Steps : done[s] = 0
      BY DEF Init
    <2>4. SetPaid \in Steps /\ 0 \in Runs /\ status = "pending"
      BY SagaAssumption DEF Init, SetPaid, Steps, Runs
    <2>5. QED
      BY <2>1, <2>2, <2>3, <2>4 DEF PaymentInv, Untouched
  <1>2. QED
    BY <1>1, NextPaymentInv, SagaInvariant, PTL DEF Spec

\* The handler of ProcessPayment and the runs of the saga write the status of
\* the payment without looking at it; whatever the order, a failed payment was
\* not debited or was compensated, and a paid one shows at worst processing.
THEOREM PaymentIsTrue == Spec => []PaymentTellsTruth
  <1>1. PaymentInv => PaymentTellsTruth
    BY DEF PaymentInv, Untouched, PaymentTellsTruth
  <1>2. QED
    BY <1>1, PaymentInvariant, PTL

-----------------------------------------------------------------------------
(***************************************************************************)
(* Compensations are counted.  A run compensates what it has executed      *)
(* itself: a recovered run begins at the first step, whatever its copy     *)
(* says of the others.  Each success gives one run one compensation to     *)
(* make, which it makes, or leaves, once.                                  *)
(***************************************************************************)
Owes(g, s) ==
  /\ steps[g][s] = "completed"
  /\ s < at[g] \/ (pc[g] = "undo" /\ s = at[g])

Owing(s) == {g \in Runs : Owes(g, s)}

Settled(s) == undone[s] + Cardinality(Owing(s)) <= done[s]

LEMMA OwingIsFinite ==
  \A s : IsFiniteSet(Owing(s)) /\ Cardinality(Owing(s)) \in Nat
  <1> TAKE s
  <1>1. IsFiniteSet(Runs)
    BY SagaAssumption, FS_Interval DEF Runs
  <1>2. Owing(s) \subseteq Runs
    BY DEF Owing
  <1>3. IsFiniteSet(Owing(s))
    BY <1>1, <1>2, FS_Subset
  <1>4. QED
    BY <1>3, FS_CardinalityType

\* When no run gets anything to compensate, there is no more of it.
LEMMA NothingNewIsOwed ==
  ASSUME RunsTypeOK, NEW s \in Steps, Settled(s), undone'[s] = undone[s],
         done'[s] \in Nat, done[s] <= done'[s],
         \A g \in Runs : Owes(g, s)' => Owes(g, s)
  PROVE  Settled(s)'
  <1>1. Owing(s)' \subseteq Owing(s)
    BY DEF Owing
  <1>2. /\ Cardinality(Owing(s)') <= Cardinality(Owing(s))
        /\ Cardinality(Owing(s)) \in Nat /\ Cardinality(Owing(s)') \in Nat
    BY <1>1, OwingIsFinite, FS_Subset, FS_CardinalityType
  <1>3. undone[s] \in Nat /\ done[s] \in Nat
    BY DEF RunsTypeOK
  <1>4. QED
    BY <1>2, <1>3 DEF Settled

\* One success more, and one run more that may have to take it back.
LEMMA SuccessIsOwed ==
  ASSUME RunsTypeOK, NEW s \in Steps, Settled(s), undone'[s] = undone[s],
         done'[s] = done[s] + 1, NEW g \in Runs,
         \A h \in Runs : h # g => (Owes(h, s)' => Owes(h, s))
  PROVE  Settled(s)'
  <1>1. Owing(s)' \subseteq Owing(s) \cup {g}
    BY DEF Owing
  <1>2. /\ IsFiniteSet(Owing(s) \cup {g})
        /\ Cardinality(Owing(s) \cup {g}) <= Cardinality(Owing(s)) + 1
        /\ Cardinality(Owing(s) \cup {g}) \in Nat
    <2>1. IsFiniteSet(Owing(s)) /\ Cardinality(Owing(s)) \in Nat
      BY OwingIsFinite
    <2>2. /\ IsFiniteSet(Owing(s) \cup {g})
          /\ Cardinality(Owing(s) \cup {g}) =
               IF g \in Owing(s) THEN Cardinality(Owing(s)) ELSE Cardinality(Owing(s)) + 1
      BY <2>1, FS_AddElement, Zenon
    <2>3. QED
      BY <2>1, <2>2
  <1>3. /\ Cardinality(Owing(s)') <= Cardinality(Owing(s) \cup {g})
        /\ Cardinality(Owing(s)') \in Nat /\ Cardinality(Owing(s)) \in Nat
    BY <1>1, <1>2, OwingIsFinite, FS_Subset, FS_CardinalityType
  <1>4. undone[s] \in Nat /\ done[s] \in Nat
    BY DEF RunsTypeOK
  <1>5. QED
    BY <1>2, <1>3, <1>4 DEF Settled

\* One compensation more, and one run less that has it to make.
LEMMA CompensationWasOwed ==
  ASSUME RunsTypeOK, NEW s \in Steps, Settled(s), undone'[s] = undone[s] + 1,
         done'[s] = done[s], NEW g \in Runs, Owes(g, s), ~Owes(g, s)',
         \A h \in Runs : h # g => (Owes(h, s)' => Owes(h, s))
  PROVE  Settled(s)'
  <1>1. Owing(s)' \subseteq Owing(s) \ {g} /\ g \in Owing(s)
    BY DEF Owing
  <1>2. /\ IsFiniteSet(Owing(s) \ {g})
        /\ Cardinality(Owing(s) \ {g}) = Cardinality(Owing(s)) - 1
    BY <1>1, OwingIsFinite, FS_RemoveElement
  <1>3. /\ Cardinality(Owing(s)') <= Cardinality(Owing(s) \ {g})
        /\ Cardinality(Owing(s)') \in Nat /\ Cardinality(Owing(s)) \in Nat
    BY <1>1, <1>2, OwingIsFinite, FS_Subset, FS_CardinalityType
  <1>4. undone[s] \in Nat /\ done[s] \in Nat
    BY DEF RunsTypeOK
  <1>5. QED
    BY <1>2, <1>3, <1>4 DEF Settled

\* What a step of run g does to what it owes.
LEMMA OwedByRun ==
  ASSUME IInv, NEW g \in Runs, RunStep(g), NEW s \in Steps
  PROVE  \/ /\ undone'[s] = undone[s] /\ done[s] <= done'[s] /\ done'[s] \in Nat
            /\ Owes(g, s)' => Owes(g, s)
         \/ undone'[s] = undone[s] /\ done'[s] = done[s] + 1
         \/ /\ undone'[s] = undone[s] + 1 /\ done'[s] = done[s]
            /\ Owes(g, s) /\ ~Owes(g, s)'
  <1>1. /\ done[s] \in Nat /\ undone[s] \in Nat /\ at[g] \in 0..5 /\ s \in 1..4
        /\ DOMAIN pc = Runs /\ DOMAIN at = Runs
        /\ done \in [Steps -> Nat] /\ undone \in [Steps -> Nat]
        /\ steps \in [Runs -> [Steps -> StepStatuses]]
    BY DEF IInv, RunsTypeOK, Steps
  <1>2. CASE GetSaga(g) \/ SaveSaga(g)
    BY <1>1, <1>2 DEF GetSaga, SaveSaga, Owes
  <1>3. CASE Begin(g) \/ Finish(g) \/ Close(g)
    <2>1. /\ UNCHANGED <<steps, at, done, undone>>
          /\ pc'[g] \in {"step", "done"}
      BY <1>1, <1>3 DEF Begin, Finish, Close, Goto
    <2>2. QED
      BY <1>1, <2>1 DEF Owes
  <1>4. CASE StartStep(g)
    <2>1. /\ UNCHANGED <<at, done, undone>> /\ pc[g] = "step"
          /\ pc'[g] \in {"attempt", "fail"}
          /\ \A t \in Steps : t < at[g] => steps'[g][t] = steps[g][t]
      BY <1>1, <1>4 DEF StartStep, Goto, Ready, SetStep, Steps
    <2>2. QED
      BY <1>1, <2>1 DEF Owes
  <1>5. CASE Execute(g)
    <2>1. pc[g] = "attempt" /\ at[g] \in Steps /\ undone' = undone
      BY <1>5 DEF IInv, StepInHand, Execute, Ready
    <2>2. CASE /\ TakesEffect(at[g]) /\ SetStep(g, "completed")
               /\ at' = [at EXCEPT ![g] = @ + 1]
               /\ Goto(g, "step")
      <3>1. CASE s = at[g]
        BY <1>1, <2>1, <2>2, <3>1 DEF TakesEffect
      <3>2. CASE s # at[g]
        <4>1. /\ done'[s] = done[s] /\ steps'[g][s] = steps[g][s]
              /\ at'[g] = at[g] + 1 /\ pc'[g] = "step"
          BY <1>1, <2>1, <2>2, <3>2 DEF TakesEffect, SetStep, Goto
        <4>2. QED
          BY <1>1, <2>1, <3>2, <4>1 DEF Owes
      <3>3. QED
        BY <3>1, <3>2
    <2>3. CASE /\ UNCHANGED done \/ TakesEffect(at[g])
               /\ UNCHANGED at
               /\ \/ UNCHANGED <<steps, pc>>
                  \/ SetStep(g, "failed") /\ Goto(g, "fail")
      <3>1. done'[s] \in {done[s], done[s] + 1}
        BY <1>1, <2>1, <2>3 DEF TakesEffect
      <3>2. pc'[g] \in {"attempt", "fail"}
        BY <1>1, <2>1, <2>3 DEF Goto
      <3>3. s < at[g] => steps'[g][s] = steps[g][s]
        BY <1>1, <2>1, <2>3 DEF SetStep
      <3>4. QED
        BY <1>1, <2>1, <2>3, <3>1, <3>2, <3>3 DEF Owes
    <2>4. QED
      BY <1>5, <2>2, <2>3 DEF Execute
  <1>6. CASE Fail(g)
    <2>1. /\ UNCHANGED <<steps, done, undone>> /\ pc'[g] = "undo"
          /\ at'[g] = at[g] - 1
      BY <1>1, <1>6 DEF Fail, Goto
    <2>2. QED
      BY <1>1, <2>1 DEF Owes
  <1>7. CASE Undo(g)
    <2>1. /\ pc[g] = "undo" /\ pc' = pc /\ at[g] # 0 /\ done' = done
          /\ at'[g] = at[g] - 1
      BY <1>1, <1>7 DEF Undo, Ready
    <2>2. at[g] \in Steps
      BY <1>1, <2>1 DEF IInv, StepInHand, Steps
    <2>3. \A t \in Steps : t # at[g] => steps'[g][t] = steps[g][t]
      BY <1>1, <1>7, <2>2 DEF Undo, SetStep
    <2>4. CASE s # at[g]
      <3>1. undone'[s] = undone[s]
        BY <1>1, <1>7, <2>2, <2>4 DEF Undo, UndoTakesEffect
      <3>2. QED
        BY <1>1, <2>1, <2>3, <2>4, <3>1 DEF Owes
    <2>5. CASE s = at[g]
      <3>1. ~Owes(g, s)'
        BY <1>1, <2>1, <2>5 DEF Owes
      <3>2. CASE undone' = undone
        BY <1>1, <2>1, <3>1, <3>2
      <3>3. CASE ToUndo(g) /\ UndoTakesEffect(at[g])
        <4>1. Owes(g, s)
          BY <2>1, <2>5, <3>3 DEF ToUndo, Owes
        <4>2. undone'[s] = undone[s] + 1
          BY <1>1, <2>5, <3>3 DEF UndoTakesEffect
        <4>3. QED
          BY <2>1, <3>1, <4>1, <4>2
      <3>4. QED
        BY <1>7, <3>2, <3>3 DEF Undo
    <2>6. QED
      BY <2>4, <2>5
  <1>8. QED
    BY <1>2, <1>3, <1>4, <1>5, <1>6, <1>7 DEF RunStep

\* The other runs owe what they owed.
LEMMA OthersOwe ==
  ASSUME RunsTypeOK, NEW g \in Runs, RunStep(g), NEW h \in Runs, h # g, NEW s \in Steps
  PROVE  Owes(h, s)' => Owes(h, s)
  <1>1. pc'[h] = pc[h] /\ at'[h] = at[h] /\ steps'[h] = steps[h]
    BY DEF RunStep, GetSaga, SaveSaga, Begin, StartStep, Execute, Finish, Fail,
           Undo, Close, Goto, SetStep, RunsTypeOK
  <1>2. QED
    BY <1>1 DEF Owes

LEMMA NextSettled ==
  ASSUME IInv, [Next]_vars, NEW s \in Steps, Settled(s)
  PROVE  Settled(s)'
  <1>1. RunsTypeOK /\ done[s] \in Nat /\ s \in 1..4
    BY DEF IInv, RunsTypeOK, Steps
  <1>2. ASSUME NEW g \in Runs, RunStep(g) PROVE Settled(s)'
    <2>1. \A h \in Runs : h # g => (Owes(h, s)' => Owes(h, s))
      BY <1>1, <1>2, OthersOwe
    <2>2. CASE /\ undone'[s] = undone[s] /\ done[s] <= done'[s] /\ done'[s] \in Nat
               /\ Owes(g, s)' => Owes(g, s)
      BY <1>1, <2>1, <2>2, NothingNewIsOwed
    <2>3. CASE undone'[s] = undone[s] /\ done'[s] = done[s] + 1
      BY <1>1, <2>1, <2>3, SuccessIsOwed
    <2>4. CASE /\ undone'[s] = undone[s] + 1 /\ done'[s] = done[s]
               /\ Owes(g, s) /\ ~Owes(g, s)'
      BY <1>1, <2>1, <2>4, CompensationWasOwed
    <2>5. QED
      BY <1>2, <2>2, <2>3, <2>4, OwedByRun
  <1>3. ASSUME UNCHANGED <<done, undone>>,
               \A g \in Runs : Owes(g, s)' => Owes(g, s)
        PROVE  Settled(s)'
    BY <1>1, <1>3, NothingNewIsOwed
  <1>4. CASE StartPaymentSaga
    <2>1. /\ UNCHANGED <<steps, at, done, undone>>
          /\ \A g \in Runs : pc'[g] = "undo" => pc[g] = "undo"
      BY <1>1, <1>4 DEF StartPaymentSaga, Goto, RunsTypeOK
    <2>2. QED
      BY <1>3, <2>1 DEF Owes
  <1>5. CASE Answer \/ UNCHANGED vars
    <2>1. UNCHANGED <<steps, at, pc, done, undone>>
      BY <1>5 DEF Answer, vars, runVars
    <2>2. QED
      BY <1>3, <2>1 DEF Owes
  <1>6. CASE Recover
    <2>1. /\ UNCHANGED <<done, undone>> /\ starts \in Runs
      BY <1>1, <1>6 DEF Recover, RunsTypeOK, Runs
    <2>2. CASE UNCHANGED <<pc, steps, at>>
      BY <1>3, <2>1, <2>2 DEF Owes
    <2>3. CASE /\ Goto(starts, ResumeLabel)
               /\ steps' = [steps EXCEPT ![starts] = row.steps]
               /\ at' = [at EXCEPT ![starts] = ResumeStep]
      <3>1. ResumeStep = 1 /\ ResumeLabel # "undo"
        BY DEF IInv, CopiesAreTrue, TrueRow, ResumeStep, ResumeLabel
      <3>2. PICK k \in Runs : k = starts
        BY <2>1
      <3>3. ~Owes(k, s)'
        <4>1. at'[k] = 1 /\ pc'[k] # "undo"
          BY <1>1, <2>3, <3>1, <3>2 DEF Goto, RunsTypeOK
        <4>2. QED
          BY <1>1, <4>1 DEF Owes
      <3>4. \A g \in Runs : g # k =>
              pc'[g] = pc[g] /\ at'[g] = at[g] /\ steps'[g] = steps[g]
        BY <1>1, <2>3, <3>2 DEF Goto, RunsTypeOK
      <3>5. QED
        BY <1>3, <2>1, <3>3, <3>4 DEF Owes
    <2>4. QED
      BY <1>6, <2>2, <2>3 DEF Recover
  <1>7. CASE Crash
    <2>1. /\ UNCHANGED <<done, undone>>
          /\ \A g \in Runs : steps'[g][s] = "pending"
      BY <1>7 DEF Crash, AllPending
    <2>2. QED
      BY <1>3, <2>1 DEF Owes
  <1>8. QED
    BY <1>2, <1>4, <1>5, <1>6, <1>7 DEF Next

\* However many starts of the process execute and compensate the same saga, no
\* more is paid back than was taken.
THEOREM NothingUndoneTwice == Spec => []NeverUndoneTwice
  <1>1. Init => \A s \in Steps : Settled(s)
    <2> SUFFICES ASSUME Init, NEW s \in Steps PROVE Settled(s)
      OBVIOUS
    <2>1. done[s] = 0 /\ undone[s] = 0
      BY DEF Init
    <2>2. \A g \in Runs : steps[g][s] = "pending"
      BY DEF Init, AllPending
    <2>3. Owing(s) = {}
      BY <2>2 DEF Owing, Owes
    <2>4. QED
      BY <2>1, <2>3, FS_EmptySet DEF Settled
  <1>2. IInv /\ (\A s \in Steps : Settled(s)) /\ [Next]_vars
        => (\A s \in Steps : Settled(s))'
    BY NextSettled
  <1>3. IInv /\ (\A s \in Steps : Settled(s)) => NeverUndoneTwice
    <2> SUFFICES ASSUME IInv, NEW s \in Steps, Settled(s)
                 PROVE  undone[s] <= done[s]
      BY DEF NeverUndoneTwice
    <2>1. undone[s] \in Nat /\ done[s] \in Nat
      BY DEF IInv, RunsTypeOK
    <2>2. QED
      BY <2>1, OwingIsFinite DEF Settled
  <1>4. QED
    BY <1>1, <1>2, <1>3, SagaInvariant, PTL DEF Spec

-----------------------------------------------------------------------------
(***************************************************************************)
(* The account of the effects.  Each one that was not taken back or left   *)
(* has one run that holds it, whose copy says that it was made: so that a  *)
(* compensation is passed over only where there is none.                   *)
(***************************************************************************)
Held(g) ==
  /\ pc[g] \in Active =>
       \A s \in Steps : Holds(g, s) =>
         steps[g][s] = "completed" /\ Service[s] \in Executors
  /\ pc[g] = "attempt" => Service[at[g]] \in Executors
  /\ pc[g] = "dead" => at[g] = 1
  /\ g > starts \/ (due /\ g = starts) => pc[g] = "none"

Holders(s) == {g \in Runs : Holds(g, s)}

Account(s) == done[s] = undone[s] + left[s] + Cardinality(Holders(s))

AccountInv ==
  /\ left \in [Steps -> Nat]
  /\ faults \in 0..MaxFaults
  /\ overlap \in BOOLEAN
  /\ \A g \in Runs : Held(g)
  /\ \A s \in Steps : Account(s)

LEMMA HoldersAreFinite ==
  \A s : IsFiniteSet(Holders(s)) /\ Cardinality(Holders(s)) \in Nat
  <1> TAKE s
  <1>1. IsFiniteSet(Runs)
    BY SagaAssumption, FS_Interval DEF Runs
  <1>2. Holders(s) \subseteq Runs
    BY DEF Holders
  <1>3. IsFiniteSet(Holders(s))
    BY <1>1, <1>2, FS_Subset
  <1>4. QED
    BY <1>3, FS_CardinalityType

\* What a step may do to the account of one effect.
Entry(s) ==
  \/ /\ \A h \in Runs : Holds(h, s)' <=> Holds(h, s)
     /\ \/ done'[s] = done[s] /\ undone'[s] = undone[s] /\ left'[s] = left[s]
        \/ done'[s] = done[s] + 1 /\ undone'[s] = undone[s] /\ left'[s] = left[s] + 1
  \/ \E g \in Runs :
       /\ \A h \in Runs : h # g => (Holds(h, s)' <=> Holds(h, s))
       /\ \/ /\ ~Holds(g, s) /\ Holds(g, s)'
             /\ done'[s] = done[s] + 1 /\ undone'[s] = undone[s] /\ left'[s] = left[s]
          \/ /\ Holds(g, s) /\ ~Holds(g, s)' /\ done'[s] = done[s]
             /\ \/ undone'[s] = undone[s] + 1 /\ left'[s] = left[s]
                \/ undone'[s] = undone[s] /\ left'[s] = left[s] + 1

LEMMA AccountStep ==
  ASSUME RunsTypeOK, AccountInv, NEW s \in Steps, Entry(s)
  PROVE  Account(s)'
  <1>1. /\ done[s] \in Nat /\ undone[s] \in Nat /\ left[s] \in Nat
        /\ Account(s) /\ IsFiniteSet(Holders(s)) /\ Cardinality(Holders(s)) \in Nat
    BY HoldersAreFinite DEF RunsTypeOK, AccountInv
  <1>2. CASE \A h \in Runs : Holds(h, s)' <=> Holds(h, s)
    <2>1. Holders(s)' = Holders(s)
      BY <1>2 DEF Holders
    <2>2. CASE done'[s] = done[s] /\ undone'[s] = undone[s] /\ left'[s] = left[s]
      BY <1>1, <2>1, <2>2 DEF Account
    <2>3. CASE done'[s] = done[s] + 1 /\ undone'[s] = undone[s] /\ left'[s] = left[s] + 1
      BY <1>1, <2>1, <2>3 DEF Account
    <2>4. QED
      BY <1>2, <2>2, <2>3 DEF Entry
  <1>3. ASSUME NEW g \in Runs, ~Holds(g, s), Holds(g, s)',
               \A h \in Runs : h # g => (Holds(h, s)' <=> Holds(h, s)),
               done'[s] = done[s] + 1, undone'[s] = undone[s], left'[s] = left[s]
        PROVE  Account(s)'
    <2>1. Holders(s)' = Holders(s) \cup {g} /\ g \notin Holders(s)
      BY <1>3 DEF Holders
    <2>2. Cardinality(Holders(s)') = Cardinality(Holders(s)) + 1
      BY <1>1, <2>1, FS_AddElement
    <2>3. QED
      BY <1>1, <1>3, <2>2 DEF Account
  <1>4. ASSUME NEW g \in Runs, Holds(g, s), ~Holds(g, s)',
               \A h \in Runs : h # g => (Holds(h, s)' <=> Holds(h, s)),
               done'[s] = done[s],
               \/ undone'[s] = undone[s] + 1 /\ left'[s] = left[s]
               \/ undone'[s] = undone[s] /\ left'[s] = left[s] + 1
        PROVE  Account(s)'
    <2>1. Holders(s)' = Holders(s) \ {g} /\ g \in Holders(s)
      BY <1>4 DEF Holders
    <2>2. Cardinality(Holders(s)') = Cardinality(Holders(s)) - 1
      BY <1>1, <2>1, FS_RemoveElement
    <2>3. QED
      BY <1>1, <1>4, <2>2 DEF Account
  <1>5. QED
    BY <1>2, <1>3, <1>4 DEF Entry

\* The other runs hold what they held.
LEMMA OthersHold ==
  ASSUME RunsTypeOK, NEW g \in Runs, RunStep(g), NEW h \in Runs, h # g
  PROVE  /\ \A s \in Steps : Holds(h, s)' <=> Holds(h, s)
         /\ Held(h) => Held(h)'
  <1>1. pc'[h] = pc[h] /\ at'[h] = at[h] /\ steps'[h] = steps[h]
        /\ UNCHANGED <<starts, due>>
    BY DEF RunStep, GetSaga, SaveSaga, Begin, StartStep, Execute, Finish, Fail,
           Undo, Close, Goto, SetStep, processVars, RunsTypeOK
  <1>2. \A s \in Steps : Holds(h, s)' <=> Holds(h, s)
    BY <1>1 DEF Holds
  <1>3. QED
    BY <1>1, <1>2 DEF Held

LEMMA LeaveEffect ==
  ASSUME left \in [Steps -> Nat], NEW a \in Steps, Leave(a)
  PROVE  /\ left' \in [Steps -> Nat]
         /\ \A t \in Steps : left'[t] = IF t = a THEN left[t] + 1 ELSE left[t]
  BY DEF Leave

\* A step of g is one entry in the account, and g goes on to hold what its copy
\* says.
Booked(g) ==
  /\ Held(g)' /\ left' \in [Steps -> Nat]
  /\ \A s \in Steps : Entry(s)

LEMMA QuietStepIsBooked ==
  ASSUME RunsTypeOK, AccountInv, NEW g \in Runs, RunStep(g), Held(g)',
         UNCHANGED <<done, undone, left>>,
         \A s \in Steps : Holds(g, s)' <=> Holds(g, s)
  PROVE  Booked(g)
  <1>1. \A s \in Steps, h \in Runs : Holds(h, s)' <=> Holds(h, s)
    BY OthersHold
  <1>2. \A s \in Steps : Entry(s)
    BY <1>1 DEF Entry
  <1>3. QED
    BY <1>2 DEF Booked, AccountInv

LEMMA ExecuteIsBooked ==
  ASSUME IInv, AccountInv, NEW g \in Runs, Execute(g)
  PROVE  Booked(g)
  <1> DEFINE a == at[g]
  <1>1. /\ RunsTypeOK /\ a \in Steps /\ pc[g] = "attempt" /\ RunStep(g)
        /\ undone' = undone /\ UNCHANGED <<starts, due>>
        /\ g \in Runs /\ Service[a] \in Executors
    BY DEF IInv, StepInHand, Execute, Ready, RunStep, AccountInv, Held, processVars
  <1>2. /\ DOMAIN pc = Runs /\ DOMAIN at = Runs /\ Steps = 1..4 /\ starts \in Nat
        /\ steps \in [Runs -> [Steps -> StepStatuses]]
        /\ done \in [Steps -> Nat] /\ left \in [Steps -> Nat]
    BY <1>1 DEF RunsTypeOK, Steps, AccountInv
  <1>3. \A t \in Steps : Holds(g, t) <=> t < a
    BY <1>1 DEF Holds
  <1>4. \A s \in Steps, h \in Runs : h # g => (Holds(h, s)' <=> Holds(h, s))
    BY <1>1, OthersHold
  <1>5. \A t \in Steps : t < a => steps[g][t] = "completed" /\ Service[t] \in Executors
    BY <1>1, <1>3 DEF AccountInv, Held, Active
  <1>6. CASE /\ TakesEffect(a) /\ SetStep(g, "completed") /\ left' = left
             /\ at' = [at EXCEPT ![g] = @ + 1] /\ Goto(g, "step")
    <2>1. /\ pc'[g] = "step" /\ at'[g] = a + 1
          /\ \A t \in Steps : steps'[g][t] = IF t = a THEN "completed" ELSE steps[g][t]
          /\ \A t \in Steps : done'[t] = IF t = a THEN done[t] + 1 ELSE done[t]
      BY <1>1, <1>2, <1>6 DEF TakesEffect, SetStep, Goto
    <2>2. \A t \in Steps : Holds(g, t)' <=> t < a + 1
      BY <2>1 DEF Holds
    <2>3. \A t \in Steps : Holds(g, t)' <=> Holds(g, t) \/ t = a
      BY <1>1, <1>2, <1>3, <2>2
    <2>4. Held(g)'
      BY <1>1, <1>3, <1>5, <2>1, <2>3 DEF Held, AccountInv, Active
    <2>5. ASSUME NEW t \in Steps PROVE Entry(t)
      <3>1. CASE t = a
        <4>1. ~Holds(g, t) /\ Holds(g, t)'
          BY <1>1, <1>2, <1>3, <2>3, <3>1
        <4>2. done'[t] = done[t] + 1 /\ undone'[t] = undone[t] /\ left'[t] = left[t]
          BY <1>1, <1>6, <2>1, <3>1
        <4>3. QED
          BY <1>4, <4>1, <4>2 DEF Entry
      <3>2. CASE t # a
        <4>1. done'[t] = done[t] /\ undone'[t] = undone[t] /\ left'[t] = left[t]
          BY <1>1, <1>6, <2>1, <3>2
        <4>2. QED
          BY <1>4, <2>3, <3>2, <4>1 DEF Entry
      <3>3. QED
        BY <3>1, <3>2
    <2>6. QED
      BY <1>2, <1>6, <2>4, <2>5 DEF Booked
  <1>7. CASE /\ UNCHANGED at
             /\ UNCHANGED <<done, left>> \/ (TakesEffect(a) /\ Leave(a))
             /\ UNCHANGED <<steps, pc>> \/ (SetStep(g, "failed") /\ Goto(g, "fail"))
    <2>1. /\ pc'[g] \in {"attempt", "fail"} /\ at'[g] = a
          /\ \A t \in Steps : t # a => steps'[g][t] = steps[g][t]
      BY <1>1, <1>2, <1>7 DEF SetStep, Goto
    <2>2. \A t \in Steps : Holds(g, t)' <=> t < a
      BY <2>1 DEF Holds
    <2>3. Held(g)'
      BY <1>1, <1>2, <1>5, <2>1, <2>2 DEF Held, AccountInv, Active
    <2>4. \A s \in Steps, h \in Runs : Holds(h, s)' <=> Holds(h, s)
      BY <1>3, <1>4, <2>2
    <2>5. CASE UNCHANGED <<done, left>>
      BY <1>1, <2>3, <2>5, <1>3, <2>2, QuietStepIsBooked
    <2>6. CASE TakesEffect(a) /\ Leave(a)
      <3>1. /\ left' \in [Steps -> Nat]
            /\ \A t \in Steps : left'[t] = IF t = a THEN left[t] + 1 ELSE left[t]
        BY <1>1, <1>2, <2>6, LeaveEffect
      <3>2. \A t \in Steps : done'[t] = IF t = a THEN done[t] + 1 ELSE done[t]
        BY <1>1, <1>2, <2>6 DEF TakesEffect
      <3>3. ASSUME NEW t \in Steps
            PROVE  \/ done'[t] = done[t] /\ undone'[t] = undone[t] /\ left'[t] = left[t]
                   \/ done'[t] = done[t] + 1 /\ undone'[t] = undone[t] /\ left'[t] = left[t] + 1
        BY <1>1, <3>1, <3>2
      <3>4. \A t \in Steps : Entry(t)
        BY <2>4, <3>3 DEF Entry
      <3>5. QED
        BY <2>3, <3>1, <3>4 DEF Booked
    <2>7. QED
      BY <1>7, <2>5, <2>6
  <1>8. QED
    BY <1>6, <1>7 DEF Execute

\* A compensation ends the holding of its step, whether it is made or not.
LEMMA UndoIsBooked ==
  ASSUME IInv, AccountInv, NEW g \in Runs, Undo(g)
  PROVE  Booked(g)
  <1> DEFINE a == at[g]
  <1>1. /\ RunsTypeOK /\ a \in Steps /\ pc[g] = "undo" /\ RunStep(g) /\ pc' = pc
        /\ done' = done /\ UNCHANGED <<starts, due>>
    BY DEF IInv, RunsTypeOK, StepInHand, Undo, Ready, RunStep, Steps, processVars
  <1>2. /\ DOMAIN at = Runs /\ Steps = 1..4
        /\ steps \in [Runs -> [Steps -> StepStatuses]]
        /\ undone \in [Steps -> Nat] /\ left \in [Steps -> Nat]
    BY <1>1 DEF RunsTypeOK, Steps, AccountInv
  <1>3. /\ at'[g] = a - 1
        /\ \A t \in Steps : t # a => steps'[g][t] = steps[g][t]
    BY <1>1, <1>2 DEF Undo, SetStep
  <1>4. \A t \in Steps : (Holds(g, t) <=> t <= a) /\ (Holds(g, t)' <=> t <= a - 1)
    BY <1>1, <1>3 DEF Holds
  <1>5. Held(g)'
    <2>1. \A t \in Steps : t <= a - 1 => t # a /\ t <= a
      BY <1>1, <1>2
    <2>2. \A t \in Steps : t <= a => steps[g][t] = "completed" /\ Service[t] \in Executors
      BY <1>1, <1>4 DEF AccountInv, Held, Active
    <2>3. QED
      BY <1>1, <1>3, <1>4, <2>1, <2>2 DEF Held, AccountInv, Active
  <1>6. \A s \in Steps, h \in Runs : h # g => (Holds(h, s)' <=> Holds(h, s))
    BY <1>1, OthersHold
  <1>7. steps[g][a] = "completed" /\ Service[a] \in Executors
    BY <1>1, <1>2, <1>4 DEF AccountInv, Held, Active
  <1>8. \/ UndoTakesEffect(a) /\ left' = left
        \/ undone' = undone /\ Leave(a)
    BY <1>7 DEF Undo, ToUndo, PassOver
  <1>9. /\ left' \in [Steps -> Nat]
        /\ \A t \in Steps : t # a => undone'[t] = undone[t] /\ left'[t] = left[t]
        /\ \/ undone'[a] = undone[a] + 1 /\ left'[a] = left[a]
           \/ undone'[a] = undone[a] /\ left'[a] = left[a] + 1
    <2>1. CASE UndoTakesEffect(a) /\ left' = left
      BY <1>1, <1>2, <2>1 DEF UndoTakesEffect
    <2>2. CASE undone' = undone /\ Leave(a)
      BY <1>1, <1>2, <2>2, LeaveEffect
    <2>3. QED
      BY <1>8, <2>1, <2>2
  <1>10. ASSUME NEW t \in Steps PROVE Entry(t)
    <2>1. CASE t = a
      <3>1. Holds(g, t) /\ ~Holds(g, t)'
        BY <1>1, <1>2, <1>4, <2>1
      <3>2. QED
        BY <1>1, <1>6, <1>9, <2>1, <3>1 DEF Entry
    <2>2. CASE t # a
      <3>1. Holds(g, t)' <=> Holds(g, t)
        BY <1>1, <1>2, <1>4, <2>2
      <3>2. QED
        BY <1>1, <1>6, <1>9, <2>2, <3>1 DEF Entry
    <2>3. QED
      BY <2>1, <2>2
  <1>11. QED
    BY <1>5, <1>9, <1>10 DEF Booked

LEMMA RunStepIsBooked ==
  ASSUME IInv, AccountInv, NEW g \in Runs, RunStep(g)
  PROVE  Booked(g)
  <1>1. /\ RunsTypeOK /\ Held(g) /\ StepInHand(g) /\ Steps = 1..4
        /\ DOMAIN pc = Runs /\ DOMAIN at = Runs /\ at[g] \in 0..5
        /\ steps \in [Runs -> [Steps -> StepStatuses]]
    BY DEF IInv, AccountInv, RunsTypeOK, Steps
  <1>2. UNCHANGED <<starts, due>>
    BY DEF RunStep, GetSaga, SaveSaga, Begin, StartStep, Execute, Finish, Fail,
           Undo, Close, processVars
  <1>3. CASE GetSaga(g) \/ SaveSaga(g)
    <2>1. UNCHANGED <<pc, at, steps, done, undone, left>>
      BY <1>3 DEF GetSaga, SaveSaga, ghostVars
    <2>2. Held(g)' /\ \A s \in Steps : Holds(g, s)' <=> Holds(g, s)
      BY <1>1, <1>2, <2>1 DEF Held, Holds
    <2>3. QED
      BY <1>1, <2>1, <2>2, QuietStepIsBooked
  <1>4. CASE Begin(g) \/ StartStep(g) \/ Finish(g)
    <2>1. /\ UNCHANGED <<at, done, undone, left>> /\ pc[g] \in {"begin", "step"}
          /\ pc'[g] \in {"step", "attempt", "fail", "done"}
          /\ pc'[g] = "attempt" => Service[at[g]] \in Executors
          /\ \A t \in Steps : t < at[g] => steps'[g][t] = steps[g][t]
      BY <1>1, <1>4 DEF Begin, StartStep, Finish, Ready, Goto, SetStep, ghostVars
    <2>2. \A s \in Steps : (Holds(g, s) <=> s < at[g]) /\ (Holds(g, s)' <=> s < at[g])
      BY <2>1 DEF Holds
    <2>3. Held(g)'
      BY <1>1, <1>2, <2>1, <2>2 DEF Held, Active
    <2>4. QED
      BY <1>1, <2>1, <2>2, <2>3, QuietStepIsBooked
  <1>5. CASE Fail(g)
    <2>1. /\ UNCHANGED <<steps, done, undone, left>> /\ pc[g] = "fail"
          /\ pc'[g] = "undo" /\ at'[g] = at[g] - 1
      BY <1>1, <1>5 DEF Fail, Ready, Goto, ghostVars
    <2>2. \A s \in Steps : (Holds(g, s) <=> s < at[g]) /\ (Holds(g, s)' <=> s <= at[g] - 1)
      BY <2>1 DEF Holds
    <2>3. \A s \in Steps : Holds(g, s)' <=> Holds(g, s)
      BY <1>1, <2>2
    <2>4. Held(g)'
      BY <1>1, <1>2, <2>1, <2>3 DEF Held, Active
    <2>5. QED
      BY <1>1, <2>1, <2>3, <2>4, QuietStepIsBooked
  <1>6. CASE Close(g)
    <2>1. /\ UNCHANGED <<steps, at, done, undone, left>> /\ pc[g] = "undo"
          /\ pc'[g] = "done" /\ at[g] = 0
      BY <1>1, <1>6 DEF Close, Ready, Goto, ghostVars
    <2>2. \A s \in Steps : ~Holds(g, s) /\ ~Holds(g, s)'
      BY <1>1, <2>1 DEF Holds
    <2>3. Held(g)'
      BY <1>1, <1>2, <2>1, <2>2 DEF Held, Active
    <2>4. QED
      BY <1>1, <2>1, <2>2, <2>3, QuietStepIsBooked
  <1>7. QED
    BY <1>3, <1>4, <1>5, <1>6, ExecuteIsBooked, UndoIsBooked DEF RunStep

\* Steps of the handler and of the recovery: nobody's holding changes.
LEMMA OtherStepIsBooked ==
  ASSUME RunsTypeOK, AccountInv, UNCHANGED <<done, undone, left>>,
         faults' \in 0..MaxFaults, overlap' \in BOOLEAN,
         \A g \in Runs : Held(g)',
         \A g \in Runs, s \in Steps : Holds(g, s)' <=> Holds(g, s)
  PROVE  AccountInv'
  <1>1. \A s \in Steps : Account(s)'
    BY AccountStep DEF Entry
  <1>2. QED
    BY <1>1 DEF AccountInv

\* The process stops: what its unfinished runs held is left, and nobody else's
\* holding is touched.
LEMMA CrashIsBooked ==
  ASSUME IInv, AccountInv, Crash
  PROVE  AccountInv'
  <1>1. /\ RunsTypeOK /\ UNCHANGED <<done, undone, faults>> /\ overlap' = FALSE
        /\ starts \in Nat /\ starts' = starts + 1 /\ due' = TRUE
        /\ \A g \in Runs :
             /\ pc'[g] = IF pc[g] \in Active THEN "dead" ELSE pc[g]
             /\ at'[g] = IF pc[g] \in Active THEN 1 ELSE at[g]
    BY DEF IInv, RunsTypeOK, Crash
  <1> DEFINE lost(s) == {g \in Runs : pc[g] \in Active /\ Holds(g, s)}
  <1>2. \A s \in Steps : left'[s] = left[s] + Cardinality(lost(s))
    BY DEF Crash
  <1>3. \A s \in Steps : lost(s) \subseteq Holders(s)
    BY DEF Holders
  <1>4. \A s \in Steps : /\ IsFiniteSet(lost(s)) /\ Cardinality(lost(s)) \in Nat
                         /\ Cardinality(Holders(s)) \in Nat
    BY <1>3, HoldersAreFinite, FS_Subset, FS_CardinalityType
  <1>5. ASSUME NEW s \in Steps PROVE Holders(s)' = Holders(s) \ lost(s)
    <2>1. ASSUME NEW g \in Runs, pc[g] \in Active
          PROVE  ~Holds(g, s)'
      BY <1>1, <2>1 DEF Holds, Steps
    <2>2. ASSUME NEW g \in Runs, pc[g] \notin Active
          PROVE  Holds(g, s)' <=> Holds(g, s)
      BY <1>1, <2>2 DEF Holds, Active
    <2>3. QED
      BY <2>1, <2>2 DEF Holders
  <1>6. left' = [s \in Steps |-> left[s] + Cardinality(lost(s))]
    BY DEF Crash
  <1> HIDE DEF lost
  <1>7. left' \in [Steps -> Nat]
    <2>1. \A s \in Steps : left[s] \in Nat /\ left[s] + Cardinality(lost(s)) \in Nat
      BY <1>4 DEF AccountInv
    <2>2. QED
      BY <1>6, <2>1
  <1>8. ASSUME NEW s \in Steps PROVE Account(s)'
    <2>1. Holders(s) \cap lost(s) = lost(s)
      BY <1>3
    <2>2. IsFiniteSet(Holders(s))
      BY HoldersAreFinite
    <2>3. Cardinality(Holders(s) \ lost(s)) =
            Cardinality(Holders(s)) - Cardinality(lost(s))
      BY <2>1, <2>2, FS_Difference
    <2>4. Cardinality(Holders(s)') = Cardinality(Holders(s)) - Cardinality(lost(s))
      BY <1>5, <2>3
    <2>5. /\ done[s] \in Nat /\ undone[s] \in Nat /\ left[s] \in Nat
          /\ Account(s) /\ done'[s] = done[s] /\ undone'[s] = undone[s]
      BY <1>1 DEF RunsTypeOK, AccountInv
    <2>6. QED
      BY <1>2, <1>4, <2>4, <2>5 DEF Account
  <1>9. ASSUME NEW g \in Runs PROVE Held(g)'
    <2>1. g \in Nat /\ pc'[g] \notin Active
      BY <1>1 DEF Runs, Active
    <2>2. pc'[g] = "dead" => at'[g] = 1
      BY <1>1 DEF AccountInv, Held
    <2>3. g >= starts + 1 => pc'[g] = "none"
      BY <1>1, <2>1 DEF AccountInv, Held, Active
    <2>4. QED
      BY <1>1, <2>1, <2>2, <2>3 DEF Held, Active
  <1>10. QED
    BY <1>1, <1>7, <1>8, <1>9 DEF AccountInv

LEMMA NextAccount ==
  ASSUME IInv, AccountInv, [Next]_vars
  PROVE  AccountInv'
  <1>1. /\ RunsTypeOK /\ 0 \in Runs /\ starts \in Runs /\ starts \in 1..MaxStarts
        /\ DOMAIN pc = Runs /\ DOMAIN at = Runs /\ DOMAIN steps = Runs
        /\ \A g \in Runs : Held(g) /\ StepInHand(g) /\ g \in Nat
    BY SagaAssumption DEF IInv, RunsTypeOK, Runs, AccountInv
  <1>2. overlap' \in BOOLEAN
    <2>1. overlap \in BOOLEAN
      BY DEF AccountInv
    <2>2. \/ overlap' = overlap \/ overlap' = FALSE
          \/ overlap' = \E g \in Runs : pc[g] \in Active
      BY DEF Next, RunStep, GetSaga, SaveSaga, Begin, StartStep, Execute, Finish,
             Fail, Undo, Close, StartPaymentSaga, Answer, Recover, Crash,
             ghostVars, vars
    <2>3. QED
      BY <2>1, <2>2
  <1>3. faults' \in 0..MaxFaults
    <2>1. \/ faults' = faults
          \/ faults < MaxFaults /\ faults' = faults + 1
      BY DEF Next, RunStep, GetSaga, SaveSaga, Begin, StartStep, Execute, Finish,
             Fail, Undo, Close, StartPaymentSaga, Answer, Recover, Crash, Fault,
             UpdateSagaState, UpdateStatus, vars
    <2>2. faults \in 0..MaxFaults /\ MaxFaults \in Nat
      BY SagaAssumption DEF AccountInv
    <2>3. QED
      BY <2>1, <2>2
  <1>4. ASSUME NEW g \in Runs, RunStep(g) PROVE AccountInv'
    <2>1. Booked(g)
      BY <1>4, RunStepIsBooked
    <2>2. \A h \in Runs : h # g => Held(h)'
      BY <1>1, <1>4, OthersHold
    <2>3. \A s \in Steps : Account(s)'
      BY <1>1, <2>1, AccountStep DEF Booked
    <2>4. QED
      BY <1>2, <1>3, <2>1, <2>2, <2>3 DEF AccountInv, Booked
  <1>5. CASE StartPaymentSaga
    <2>1. /\ UNCHANGED <<starts, due, steps, at, done, undone, left>>
          /\ pc[0] = "none" /\ at[0] = 1
          /\ pc' = pc \/ Goto(0, "begin")
      BY <1>1, <1>5 DEF StartPaymentSaga, StepInHand, ghostVars
    <2>2. \A g \in Runs : pc'[g] = pc[g] \/ (g = 0 /\ pc'[g] = "begin")
      BY <1>1, <2>1 DEF Goto
    <2>3. \A g \in Runs, s \in Steps : Holds(g, s)' <=> Holds(g, s)
      BY <2>1, <2>2 DEF Holds
    <2>4. ASSUME NEW g \in Runs PROVE Held(g)'
      <3>1. CASE pc'[g] = pc[g]
        BY <1>1, <2>1, <2>3, <3>1 DEF Held
      <3>2. CASE g = 0 /\ pc'[g] = "begin"
        <4>1. \A s \in Steps : ~Holds(g, s)'
          BY <2>1, <3>2 DEF Holds, Steps
        <4>2. ~(g > starts) /\ g # starts
          BY <1>1, <3>2
        <4>3. QED
          BY <2>1, <3>2, <4>1, <4>2 DEF Held
      <3>3. QED
        BY <2>2, <3>1, <3>2
    <2>5. QED
      BY <1>1, <1>2, <1>3, <2>1, <2>3, <2>4, OtherStepIsBooked
  <1>6. CASE Answer \/ UNCHANGED vars
    <2>1. UNCHANGED <<starts, due, pc, steps, at, done, undone, left>>
      BY <1>6 DEF Answer, runVars, processVars, ghostVars, vars
    <2>2. \A g \in Runs, s \in Steps : Holds(g, s)' <=> Holds(g, s)
      BY <2>1 DEF Holds
    <2>3. \A g \in Runs : Held(g)'
      BY <1>1, <2>1, <2>2 DEF Held
    <2>4. QED
      BY <1>1, <1>2, <1>3, <2>1, <2>2, <2>3, OtherStepIsBooked
  <1>7. CASE Recover
    <2>1. /\ UNCHANGED <<starts, done, undone, left>> /\ due /\ due' = FALSE
      BY <1>7 DEF Recover
    <2>2. pc[starts] = "none" /\ at[starts] = 1
      BY <1>1, <2>1 DEF Held, StepInHand
    <2>3. \A g \in Runs : g # starts => pc'[g] = pc[g] /\ at'[g] = at[g] /\ steps'[g] = steps[g]
      BY <1>1, <1>7 DEF Recover, Goto
    <2>4. \/ UNCHANGED <<pc, at, steps>>
          \/ pc'[starts] \in {"begin", "fail"} /\ at'[starts] = 1
      <3>1. row.current = 0
        BY DEF IInv, CopiesAreTrue, TrueRow
      <3>2. ResumeStep = 1 /\ ResumeLabel \in {"begin", "fail"}
        BY <3>1 DEF ResumeLabel, ResumeStep
      <3>3. CASE Goto(starts, ResumeLabel) /\ at' = [at EXCEPT ![starts] = ResumeStep]
        BY <1>1, <3>2, <3>3 DEF Goto
      <3>4. QED
        BY <1>7, <3>3 DEF Recover
    <2>5. \A s \in Steps : ~Holds(starts, s) /\ ~Holds(starts, s)'
      BY <2>1, <2>2, <2>4 DEF Holds, Steps
    <2>6. \A g \in Runs, s \in Steps : Holds(g, s)' <=> Holds(g, s)
      BY <2>1, <2>3, <2>5 DEF Holds
    <2>7. ASSUME NEW g \in Runs PROVE Held(g)'
      <3>1. CASE g # starts
        BY <1>1, <2>1, <2>3, <2>6, <3>1 DEF Held
      <3>2. CASE g = starts
        <4>1. pc'[g] \in {"none", "begin", "fail"}
          BY <2>2, <2>4, <3>2
        <4>2. QED
          BY <1>1, <2>1, <2>5, <3>2, <4>1 DEF Held
      <3>3. QED
        BY <3>1, <3>2
    <2>8. QED
      BY <1>1, <1>2, <1>3, <2>1, <2>6, <2>7, OtherStepIsBooked
  <1>8. CASE Crash
    BY <1>8, CrashIsBooked
  <1>9. QED
    BY <1>4, <1>5, <1>6, <1>7, <1>8 DEF Next

LEMMA AccountInvariant == Spec => []AccountInv
  <1>1. Init => AccountInv
    <2> SUFFICES ASSUME Init PROVE AccountInv
      OBVIOUS
    <2>1. \A g \in Runs : pc[g] = "none" /\ at[g] = 1
      BY Zenon DEF Init
    <2>2. \A g \in Runs, s \in Steps : ~Holds(g, s)
      BY <2>1 DEF Holds, Steps
    <2>3. \A s \in Steps : Holders(s) = {} /\ done[s] = 0 /\ undone[s] = 0 /\ left[s] = 0
      BY <2>2 DEF Holders, Init
    <2>4. \A s \in Steps : Account(s)
      BY <2>3, FS_EmptySet DEF Account
    <2>5. \A g \in Runs : Held(g)
      BY <2>1, <2>2 DEF Held, Active
    <2>6. left \in [Steps -> Nat] /\ faults \in 0..MaxFaults
      BY SagaAssumption DEF Init
    <2>7. overlap \in BOOLEAN
      BY DEF Init
    <2>8. QED
      BY <2>4, <2>5, <2>6, <2>7 DEF AccountInv
  <1>2. QED
    BY <1>1, NextAccount, SagaInvariant, PTL DEF Spec

\* The variables keep their types: a run never leaves its four steps
\* (executeSaga's loop over saga.Steps, compensateSaga's way back).
THEOREM TypeCorrect == Spec => []TypeOK
  <1>1. IInv /\ AccountInv => TypeOK
    BY DEF IInv, AccountInv, TypeOK
  <1>2. QED
    BY <1>1, SagaInvariant, AccountInvariant, PTL

\* Whichever runs StartPaymentSaga and RecoverPendingSagas leave behind, and
\* whenever the process stops: each effect of an action was compensated, is in
\* the hands of one run, or was left in one of the four known ways.
THEOREM SagaEffectsAreAccountedFor == Spec => []EffectsAreAccountedFor
  <1>1. AccountInv => EffectsAreAccountedFor
    BY DEF AccountInv, Account, Holders, EffectsAreAccountedFor
  <1>2. QED
    BY <1>1, AccountInvariant, PTL

-----------------------------------------------------------------------------
(***************************************************************************)
(* The state of the row.  Until the recovery takes up a saga that is being *)
(* executed, one run alone is alive, and what its UpdateStepStatus writes  *)
(* back has the state that the row still has.  From then on the rows that  *)
(* the two write back are rows of a saga that had begun.                   *)
(***************************************************************************)
Begun(r) == r.state \notin {"none", "started"}

RecordFits(g) ==
  /\ pc[g] \notin Active => record[g] = 0
  /\ record[g] = 0 => fetched[g] = NoRow
  /\ fetched[g] # NoRow => IF overlap THEN Begun(fetched[g]) ELSE fetched[g].state = row.state

StateFits(g) ==
  /\ pc[g] \in {"begin", "step", "attempt"} => row.state \in {"started", "in_progress"}
  /\ pc[g] \in {"fail", "undo"} => row.state \in {"started", "in_progress", "failed"}

OneRun ==
  /\ \A g, h \in Runs : pc[g] \in Active /\ pc[h] \in Active => g = h
  /\ \A g \in Runs : StateFits(g)

RunsFit ==
  /\ IF overlap THEN Begun(row) /\ ~due ELSE OneRun
  /\ \A g \in Runs : RecordFits(g)

Forward ==
  row'.state # row.state =>
    \/ Before(row.state, row'.state)
    \/ overlap /\ row'.state \notin {"none", "started"}

\* It is enough to look at the run that moves.
LEMMA MovingRunFits ==
  ASSUME RunsFit, NEW g \in Runs, pc[g] \in Active, UNCHANGED <<due, overlap>>,
         \A h \in Runs : h # g => /\ pc'[h] = pc[h] /\ record'[h] = record[h]
                                  /\ fetched'[h] = fetched[h],
         RecordFits(g)', IF overlap THEN Begun(row)' ELSE StateFits(g)'
  PROVE  RunsFit'
  <1>1. CASE overlap
    <2>1. \A h \in Runs : h # g => RecordFits(h)'
      BY <1>1 DEF RunsFit, RecordFits, Begun
    <2>2. QED
      BY <1>1, <2>1 DEF RunsFit
  <1>2. CASE ~overlap
    <2>1. ASSUME NEW h \in Runs, h # g
          PROVE  pc'[h] \notin Active /\ RecordFits(h)' /\ StateFits(h)'
      <3>1. /\ pc[h] \notin Active /\ pc'[h] = pc[h]
            /\ record'[h] = record[h] /\ fetched'[h] = fetched[h]
        BY <1>2, <2>1 DEF RunsFit, OneRun
      <3>2. record[h] = 0 /\ fetched[h] = NoRow
        BY <3>1 DEF RunsFit, RecordFits
      <3>3. QED
        BY <3>1, <3>2 DEF RecordFits, StateFits, Active
    <2>2. QED
      BY <1>2, <2>1 DEF RunsFit, OneRun
  <1>3. QED
    BY <1>1, <1>2

\* What a step of g does to the row, and what it keeps of it.
LEMMA RunStepGoesForward ==
  ASSUME IInv, RunsFit, NEW g \in Runs, RunStep(g)
  PROVE  RunsFit' /\ Forward
  <1>1. /\ RunsTypeOK /\ RecordFits(g) /\ DOMAIN pc = Runs
        /\ DOMAIN record = Runs /\ DOMAIN fetched = Runs /\ row \in SagaRow
        /\ overlap => Begun(row)
        /\ ~overlap => StateFits(g)
    BY DEF IInv, RunsFit, OneRun, RunsTypeOK
  <1>2. pc[g] \in Active /\ UNCHANGED <<due, overlap>>
    BY <1>1 DEF RunStep, RecordFits, GetSaga, SaveSaga, Begin, StartStep, Execute,
       Finish, Fail, Undo, Close, Ready, Active, processVars, ghostVars
  <1>3. \A h \in Runs : h # g => /\ pc'[h] = pc[h] /\ record'[h] = record[h]
                                 /\ fetched'[h] = fetched[h]
    BY <1>1 DEF RunStep, GetSaga, SaveSaga, Begin, StartStep, Execute, Finish, Fail,
       Undo, Close, Goto, SetStep, EndRecord
  <1>4. ASSUME RecordFits(g)', Forward,
               IF overlap THEN Begun(row)' ELSE StateFits(g)'
        PROVE  RunsFit' /\ Forward
    BY <1>2, <1>3, <1>4, MovingRunFits
  <1>5. CASE GetSaga(g)
    <2>1. /\ UNCHANGED <<row, pc>> /\ record[g] # 0
          /\ \/ record'[g] = record[g] /\ fetched'[g].state = row.state
             \/ record'[g] = 0 /\ fetched'[g] = NoRow
      BY <1>1, <1>5 DEF GetSaga, EndRecord, SagaRow
    <2>2. RecordFits(g)'
      BY <1>1, <1>2, <2>1 DEF RecordFits, Begun
    <2>3. QED
      BY <1>1, <1>4, <2>1, <2>2 DEF StateFits, Forward, Begun
  <1>6. CASE SaveSaga(g)
    <2>1. /\ UNCHANGED pc /\ record'[g] = 0 /\ fetched'[g] = NoRow
          /\ row' \in {row, fetched[g]} /\ fetched[g] # NoRow
      BY <1>1, <1>6 DEF SaveSaga, EndRecord
    <2>2. CASE overlap
      <3>1. Begun(fetched[g]) /\ Begun(row)
        BY <1>1, <2>1, <2>2 DEF RecordFits
      <3>2. Begun(row)'
        BY <2>1, <3>1 DEF Begun
      <3>3. QED
        BY <1>2, <1>4, <2>1, <2>2, <3>2 DEF RecordFits, Forward, Begun
    <2>3. CASE ~overlap
      <3>1. row'.state = row.state
        BY <1>1, <2>1, <2>3 DEF RecordFits
      <3>2. QED
        BY <1>1, <1>2, <1>4, <2>1, <2>3, <3>1 DEF RecordFits, StateFits, Forward
    <2>4. QED
      BY <2>2, <2>3
  <1>7. CASE Begin(g)
    <2>1. /\ pc[g] = "begin" /\ pc'[g] = "step" /\ record'[g] = 0 /\ fetched'[g] = NoRow
          /\ row'.state \in {row.state, "in_progress"}
      BY <1>1, <1>7 DEF Begin, Ready, Goto, UpdateSagaState, SagaRow, RecordFits
    <2>2. QED
      BY <1>1, <1>4, <2>1 DEF RecordFits, StateFits, Forward, Before, Begun, Active
  <1>8. CASE StartStep(g) \/ Execute(g)
    <2>1. /\ UNCHANGED row /\ pc[g] \in {"step", "attempt"}
          /\ pc'[g] \in {"step", "attempt", "fail"} /\ fetched'[g] = NoRow
      BY <1>1, <1>8 DEF StartStep, Execute, Ready, Goto, RecordFits
    <2>2. QED
      BY <1>1, <1>4, <2>1 DEF RecordFits, StateFits, Forward, Begun, Active
  <1>9. CASE Finish(g) \/ Close(g)
    <2>1. /\ pc[g] \in {"step", "undo"} /\ pc'[g] = "done"
          /\ record'[g] = 0 /\ fetched'[g] = NoRow
      BY <1>1, <1>9 DEF Finish, Close, Ready, Goto, RecordFits
    <2>2. \/ row'.state = row.state
          \/ row'.state = "completed" /\ pc[g] = "step"
          \/ row'.state = "compensated"
      BY <1>1, <1>9 DEF Finish, Close, Ready, UpdateSagaState, SagaRow
    <2>3. Forward /\ (overlap => Begun(row)')
      BY <1>1, <2>1, <2>2 DEF StateFits, Forward, Before, Begun
    <2>4. QED
      BY <1>4, <2>1, <2>3 DEF RecordFits, StateFits, Active
  <1>10. CASE Fail(g)
    <2>1. /\ pc[g] = "fail" /\ pc'[g] = "undo" /\ record'[g] = 0 /\ fetched'[g] = NoRow
          /\ row'.state \in {row.state, "failed"}
      BY <1>1, <1>10 DEF Fail, Ready, Goto, UpdateSagaState, SagaRow, RecordFits
    <2>2. QED
      BY <1>1, <1>4, <2>1 DEF RecordFits, StateFits, Forward, Before, Begun, Active
  <1>11. CASE Undo(g)
    <2>1. /\ UNCHANGED <<row, pc>> /\ pc[g] = "undo" /\ fetched'[g] = NoRow
      BY <1>1, <1>11 DEF Undo, Ready, RecordFits
    <2>2. QED
      BY <1>1, <1>4, <2>1 DEF RecordFits, StateFits, Forward, Begun, Active
  <1>12. QED
    BY <1>5, <1>6, <1>7, <1>8, <1>9, <1>10, <1>11 DEF RunStep

LEMMA NextGoesForward ==
  ASSUME IInv, PaymentInv, RunsFit, [Next]_vars
  PROVE  RunsFit' /\ Forward
  <1>1. /\ RunsTypeOK /\ 0 \in Runs /\ DOMAIN pc = Runs
        /\ \A g \in Runs : pc[g] \in {"none", "done", "dead"} \cup Active
    BY SagaAssumption DEF IInv, RunsTypeOK, Runs
  <1>2. ASSUME NEW g \in Runs, RunStep(g) PROVE RunsFit' /\ Forward
    BY <1>2, RunStepGoesForward
  <1>3. CASE StartPaymentSaga
    <2>1. /\ UNCHANGED <<due, record, fetched, overlap>>
          /\ pc' = pc \/ (Goto(0, "begin") /\ row'.state = "started")
          /\ row'.state \in {row.state, "started"}
      BY <1>3 DEF StartPaymentSaga, NoRow, ghostVars
    <2>2. /\ row.state \in {"none", "started"}
          /\ \A g \in Runs : pc[g] = "none" /\ record[g] = 0 /\ fetched[g] = NoRow
      <3>1. pc[0] = "none"
        BY <1>1, <1>3 DEF IInv, StepInHand, StartPaymentSaga
      <3>2. QED
        BY <3>1 DEF PaymentInv, Untouched
    <2>3. ~overlap /\ Forward
      BY <2>1, <2>2 DEF Forward, Before, RunsFit, Begun
    <2>4. \A g \in Runs : pc'[g] = "none" \/ (g = 0 /\ pc'[g] = "begin" /\ row'.state = "started")
      BY <1>1, <2>1, <2>2 DEF Goto
    <2>5. OneRun'
      BY <2>4 DEF OneRun, StateFits, Active
    <2>6. \A g \in Runs : RecordFits(g)'
      BY <2>1, <2>2 DEF RecordFits
    <2>7. QED
      BY <2>1, <2>3, <2>5, <2>6 DEF RunsFit
  <1>4. CASE Answer \/ UNCHANGED vars
    <2>1. UNCHANGED <<row, due, overlap, runVars>>
      BY <1>4 DEF Answer, vars, processVars, ghostVars
    <2>2. QED
      BY <2>1 DEF runVars, RunsFit, OneRun, RecordFits, StateFits, Forward, Begun
  <1>5. CASE Recover
    <2>1. /\ due /\ ~due' /\ UNCHANGED <<row, record, fetched>> /\ Forward
      BY <1>5 DEF Recover, Forward
    <2>2. ~overlap /\ OneRun
      BY <2>1 DEF RunsFit
    <2>3. CASE UNCHANGED <<pc, overlap>>
      BY <2>1, <2>2, <2>3 DEF RunsFit, OneRun, RecordFits, StateFits
    <2>4. CASE /\ Recoverable /\ Goto(starts, ResumeLabel)
               /\ overlap' = \E g \in Runs : pc[g] \in Active
      <3>1. PICK k \in Runs : k = starts
        BY <1>1 DEF RunsTypeOK, Runs
      <3>2. /\ \A g \in Runs : g # k => pc'[g] = pc[g]
            /\ \/ pc'[k] = "begin" /\ row.state = "in_progress"
               \/ pc'[k] = "fail" /\ row.state = "failed"
        BY <1>1, <2>4, <3>1 DEF Goto, ResumeLabel, Recoverable
      <3>3. CASE \E g \in Runs : pc[g] \in Active
        <4>1. overlap' /\ Begun(row)'
          BY <2>1, <2>4, <3>3 DEF Recoverable, Begun
        <4>2. ASSUME NEW g \in Runs PROVE RecordFits(g)'
          <5>1. fetched[g] # NoRow => fetched[g].state = row.state
            BY <2>2 DEF RunsFit, RecordFits
          <5>2. fetched'[g] # NoRow => Begun(fetched[g])'
            BY <2>1, <2>4, <5>1 DEF Recoverable, Begun
          <5>3. pc'[g] \notin Active => pc[g] \notin Active
            BY <3>2 DEF Active
          <5>4. QED
            BY <2>1, <4>1, <5>2, <5>3 DEF RunsFit, RecordFits
        <4>3. QED
          BY <2>1, <4>1, <4>2 DEF RunsFit
      <3>4. CASE ~\E g \in Runs : pc[g] \in Active
        <4>1. ~overlap'
          BY <2>4, <3>4
        <4>2. \A g, h \in Runs : pc'[g] \in Active /\ pc'[h] \in Active => g = h
          BY <3>2, <3>4
        <4>3. \A g \in Runs : StateFits(g)'
          BY <2>1, <3>2, <3>4 DEF StateFits, Active
        <4>4. \A g \in Runs : RecordFits(g)'
          BY <2>1, <3>4 DEF RunsFit, RecordFits
        <4>5. QED
          BY <4>1, <4>2, <4>3, <4>4, <2>1 DEF RunsFit, OneRun
      <3>5. QED
        BY <3>3, <3>4
    <2>5. QED
      BY <1>5, <2>3, <2>4 DEF Recover
  <1>6. CASE Crash
    <2>1. /\ UNCHANGED row /\ overlap' = FALSE
          /\ \A g \in Runs : /\ pc'[g] \notin Active
                             /\ record'[g] = 0 /\ fetched'[g] = NoRow
      BY <1>6 DEF Crash, Active
    <2>2. QED
      BY <2>1 DEF RunsFit, OneRun, RecordFits, StateFits, Active, Forward
  <1>7. QED
    BY <1>2, <1>3, <1>4, <1>5, <1>6 DEF Next

\* Over any number of restarts and with every fault: the state of a saga goes
\* forward only, unless RecoverPendingSagas has taken it up from under a run of
\* its own process, whose UpdateStepStatus may write an older row back; and
\* then it stays one of a saga that has begun, which the next recovery reads.
THEOREM SagaMovesForward == Spec => StateMovesForward
  <1>1. Init => RunsFit
    <2> SUFFICES ASSUME Init PROVE RunsFit
      OBVIOUS
    <2>1. \A g \in Runs : pc[g] = "none" /\ record[g] = 0 /\ fetched[g] = NoRow
      BY Zenon DEF Init
    <2>2. ~overlap
      BY DEF Init
    <2>3. QED
      BY <2>1, <2>2 DEF RunsFit, OneRun, RecordFits, StateFits, Active
  <1>2. IInv /\ PaymentInv /\ RunsFit /\ [Next]_vars => RunsFit' /\ [Forward]_row
    BY NextGoesForward
  <1>3. Spec => [][Forward]_row
    BY <1>1, <1>2, SagaInvariant, PaymentInvariant, PTL DEF Spec
  <1>4. QED
    BY <1>3 DEF StateMovesForward, Forward
=============================================================================
