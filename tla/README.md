# Verification of the payment service

TLA+ models of the payment service in `internal/` and `pkg/`, the TLC runs that
check them on small instances, and TLAPS proofs of what matters most for every
instance.  `tlc -config <run>.cfg <MC module>` repeats a run, `tlapm <M>.tla`
checks the proofs of a proof module.  Line numbers are those of the repository.

## 1. The system

One Go process (`cmd/main.go`) serves HTTP requests, each in a goroutine.
PostgreSQL holds its tables; Kafka carries events, on which the metrics depend
and no payment does.
Beside the process there is an event-sourcing library in `pkg/`, used by the
tests and made for a later version of the service.

| Part | State | Operations | Meets others through |
|---|---|---|---|
| Wallet service, `internal/services/wallet/service.go` | tables `wallets` (balance, version) and `transactions` | ValidateBalance, DeductBalance, RefundBalance: one to three SQL statements each, no database transaction | the rows; calls from payments and saga executors |
| Payment service, `internal/services/payment/service.go` | table `payments` (status); one handler and one goroutine per payment | ProcessPayment, with or without a saga | calls of wallet, gateway, orchestrator |
| Saga orchestrator, `internal/saga/orchestrator.go` | table `sagas`, one copy of the saga per goroutine | StartPaymentSaga, executeSaga, compensateSaga, RecoverPendingSagas | the row; executors |
| Gateway service with its circuit breaker, `internal/services/gateway/service.go` | state, currentFailures, lastFailureTime in memory, without a lock | ProcessPayment, CanExecute, OnSuccess, OnFailure, ResetCircuitBreaker | the goroutines of all payments share the breaker |
| Event publisher and subscriber, `internal/events/` | a Kafka topic, the committed offset, the map of handlers | Publish, PublishBatch, Subscribe, Start (called twice), Stop | every service publishes and ignores errors; two read loops call the handlers |
| Metrics and alerts, `internal/services/metrics/service.go` | tables `metrics` and `alerts`, rules with LastFired in memory | RecordX, AddAlertRule, CheckAlerts | handlers of events, requests, one ticker |
| In-memory event store, `pkg/eventstore/memory_store.go` | events by aggregate, versions, sequence counter, snapshots, subscriptions | AppendEvent(s), GetEvents, snapshots, Subscribe | one mutex; channels of subscribers |
| SQL event store, `pkg/eventstore/postgres_store.go` | the same in tables | the same | unused |
| Aggregates and repository, `pkg/eventstore/aggregate.go`, `aggregates.go` | version, state and uncommitted events in memory | Load, Save, snapshots; AddBalance, DeductBalance, payment life cycle | the event store |
| User locks and concurrent wallet, `pkg/eventstore/concurrency_control.go` | lock per user, balance with version, partitions | LockUser, DeductFunds, RefundFunds, CheckBalance, ProcessEvent | goroutines that outlive their callers |
| Compensation, retries, dead letters, `pkg/eventstore/error_handling.go` | queue of failed events, compensations | ExecuteWithRetry, SendToDLQ, RetryFromDLQ, CompensatePaymentFailure | event store, services |
| Read models, `pkg/readmodels/store.go` | balances, summaries, checkpoint, lastProcessed | Start, catchUp, processEvent, Stop | subscription of the event store |
| HTTP handlers, `pkg/server/handlers.go`, health checks | none | decode, validate, call a service | the services |
| Process, `cmd/main.go` | none | start, recovery in a goroutine next to the server, stop | all |
| Configuration, logging, Redis, connection, migration, observability, demos | none that a service reads | | |

What is hard here, and what makes each part correct:

- **Wallet.** DeductBalance reads a row, inserts an audit row and writes a
  balance computed from the row it read; only the version in the WHERE clause
  orders two calls.  Correct: no update is lost, no balance is negative, each
  call counts at most once, and its answer is true unless it was lost.
- **Payments.** Eleven statements from two goroutines, most of whose errors are
  dropped; a stop of the process may come between any two.  Correct: whoever is
  charged was debited, a refund follows a debit, the status never contradicts
  the outcome, and (with a database that answers) each payment ends.
- **Sagas.** UpdateStepStatus reads the whole row and writes it back; recovery
  runs next to the requests; current_step is never saved.  Correct: actions in
  order, a row that does not lie, no compensation without an action, no effect
  that nobody answers for, sagas that end.
- **Breaker.** Loads and stores of all goroutines race.  Correct: it opens for
  failures only, does what it should when nothing races, and closes again.
- **Aggregates.** The version is counted twice per operation, and snapshots and
  events are read in two calls.  Correct: the expected version protects each
  change, a load gives the state of the version it claims.
- **Read models.** Catching up and the live channel follow different rules, the
  checkpoint is written after the handler, and a projector outlives its Stop.
  Correct: an event is neither lost nor counted twice, the checkpoint goes
  forward; where the code falls short of that, the cause is known.
- **Compensation.** A refund is three calls, and every retry starts with the
  first; a queue of bounded length drops what it can not hold. Correct: no
  event without its refund, a claim to be completed is true, no dead letter
  disappears without a word.
- **Locks.**  A caller that times out leaves behind a goroutine that wants the
  lock.  Correct: exclusion, no overdraft, calls that end.
- **Partitions.**  Channels of bounded length, workers that stop with events
  still queued, a hash that overflows.  Correct: what is accepted of a user is
  processed in its order.
- **Events.**  Two loops read from one reader, commit before they handle, and
  look into a map that another goroutine still fills.  Correct: an event reaches
  every handler unless it was lost in a known way, it is not handled twice
  without a reason, and the loops serve until they are stopped.
- **Alerts.**  LastFired is tested before three calls and set after them; one
  goroutine serves all rules, under one context of 30 seconds per check.
  Correct: alerts of a rule keep their distance, and a breach that lasts is
  reported.

PROJECT.json lists these hazards at their lines, with the properties that
watch them.

## 2. Modules

| Module | Models | Composes |
|---|---|---|
| `AtomicWallet` | the wallet its callers rely on: each call is one step | |
| `WalletService` | the three operations, statement by statement | implements `AtomicWallet` |
| `PaymentService` | ProcessPayment without a saga, as main runs it | `Wallet == INSTANCE WalletService` |
| `SagaOrchestrator` | one saga: request, runs, row, recovery | |
| `CircuitBreaker` | each load and store of the breaker | |
| `EventStore` | append, versions and sequence numbers of one aggregate | |
| `AggregateRepository` | writers that load, change, save and snapshot a wallet aggregate | extends `EventStore` |
| `Projector` | projectors side by side: checkpoint, catchUp, subscription, handlers, Stop | extends `EventStore` |
| `ConcurrentWallet` | lock manager and the three strategies | implements `AtomicWallet` |
| `PartitionedEvents` | PartitionedEventProcessor and its workers | |
| `EventBus` | publisher, the two read loops and their registrations, on one topic | |
| `MetricsService` | metrics, alert rules and the checker | |
| `DeadLetterQueue` | queue, storage and retries of dead letters | |
| `Compensation` | CompensatePaymentFailure with its retries, next to the queue | extends `DeadLetterQueue` |
| `...Proofs` | theorems about the module of that name; `ConcurrentWalletProofs` also about `PartitionedEvents`, `EventBusProofs` also about `MetricsService`; `EventStoreProofs` about `AggregateRepository` and `Projector` | |
| `MC...` | values of the constants for TLC | |

Operators called "Mutant of X" stand before X.  They are X with a plausible
mistake; no specification uses them.  Each property is violated when X is
replaced by one of them, which shows that the property watches that code.

### State and actions against the code

**WalletService.**  `balance`, `version` are the row, `txns` the rows of
`transactions`, `seen[c]` the local variable `wallet` of call `c`, `call[c]`
the next statement.  Actions: `Invoke`; `GetWallet` (the SELECT, and the
balance test that follows without another statement); `CreateTransaction`;
`UpdateBalance` (service.go:170 with repositories.go:99).  A statement may fail
("err") or succeed with its answer lost ("lost").  `Stop` ends all calls.
`history` is auxiliary: the updates in order, each with the base it was
computed from.

**PaymentService.**  `flow[p]` is the place in ProcessPayment: in the handler
`save`, `validating`, `deducting`, `reject`, `accept`; in the goroutine
`gateway`, `refunding`, `fail`, `complete`.  Each wallet operation is a call of
`WalletService` with the name `<<p, op>>`; the payment waits until it has
returned.  `UpdateStatus` writes whatever the row holds, and its errors change
nothing (payment/service.go:188, 202, 210, 230, 238).  The gateway is a choice
between charged and not charged: the code simulates it with random numbers.
`Crash` ends everything that runs; main does not look at the payments again.

**SagaOrchestrator.**  `row` is the row of `sagas`; `steps[g]`, `at[g]`,
`attempt[g]` are the copy of run `g`.  Run 0 is the goroutine of
StartPaymentSaga, run k that of the recovery of the k-th start.
UpdateStepStatus is two steps, `GetSaga` and `SaveSaga`, and any other run may
come between.  The steps are validate_balance (`Validate`), deduct_balance
(`Deduct`), process_payment (`Charge`) and update_status (`SetPaid`).  Executors are not in the repository
(main registers none and never calls SetSagaOrchestrator), so that an executor
is external: it may act and answer, refuse, or act and lose its answer.
`Recover` runs next to the requests, as main.go:124-139 starts it, so that a
saga may have two runs in one process; `overlap` says that it has.
`done`/`undone` count what took effect, and `left` (auxiliary) the effects that
no run will take back any more: of an action whose answer was lost (`Execute`),
of a compensation that failed or does not exist (`Undo`), and of a run that a
stop has ended (`Crash`).  `Holds(g, s)` says that run `g` was told of the
success of step `s` and has not passed it on its way back.

**CircuitBreaker.**  One step per load or store of `state`, `currentFailures`,
`lastFailureTime` (gateway/service.go:73-107).  The counter saturates at
`MaxFailures`, where the code makes no difference any more.  `rested` says
whether resetTimeout has passed.  A race on these fields is taken as an
interleaving of loads and stores; Go promises this much for word-sized values
and no more for lastFailureTime, a struct, whose torn reads are not modelled.  `errors`, `streak` and `alone` are auxiliary.

**EventStore, AggregateRepository.**  A mutex makes an operation of the store
one step.  `RefuseEvents` uses up the sequence numbers of the events before the
one that does not fit (memory_store.go:143-154).  `Record` raises the version by
two, once in AddUncommittedEvent and once in ApplyEvent.  Amounts are 1.  `kept`
is auxiliary: some aggregate served two operations.

**Projector.**  Projectors are numbered in the order of their starts; `stage[p]`
follows Start, catchUp, processEvent and updateCheckpoint of projector `p`, and
`todo[p]` is what GetEvents returned, whose loop is the recursive function of
`Matching`.  `Stop` changes isRunning alone: catchUp goes on to its end and
subscribes, and the goroutine chooses between the closed stopChan (`End`) and an
event that waits (`Receive`), which select may take as often as there is one.
`StartNew` is the Start of a new projector over the same stores, so that the two
work side by side.  Each read and each write of the read model store is a step
and may fail: `GetModel` takes a copy of the counts, `SetModel` writes it back
with the event in hand added, and what another projector wrote in between is
lost.  `counted[e]` says how often the model of the balance, or that of the
payments, has counted event `e`; the events of one kind share a model.  `Notify`
closes the subscription when the channel is full, and the projector reads on
from the closed channel.  `unseen`, `from`, `blind` and `raced` are auxiliary:
the events appended before a subscription, the checkpoint each projector has
read, the projectors that could not read it or read it while another was at
work, and the events counted while another projector had the same model in hand.

**ConcurrentWallet.**  One user, one balance; `lockMap` is the map entry,
`acquirer[c]` the goroutine that LockUser starts and which is left behind by
`Timeout`.  RWMutex is modelled by exclusion alone; that a waiting writer keeps
new readers out is left out, so that the model allows more orders than Go does.
For `AtomicWallet`, the calls applied are the deductions and refunds that have
returned without an error, and a check is a validation of nothing.

**PartitionedEvents.**  `eventChan[i]`, `worker[i]` and `inHand[i]` are the
channel of worker `i`, its place in start, and the event it processes.
`ProcessEvent` is one step, with its three refusals; `Hash[u]` is whatever the
loop of getPartitionForUser leaves in an int, negative after an overflow, and
the remainder has Go's sign, so that a user may have no partition.  A select
with two ready cases is a choice: a worker may go on after Stop (`Take`) or end
with events still queued (`End`).  `accepted` and `processed` are auxiliary.

**EventBus.**  `topic` holds the kinds of the messages of one partition.
`position` and `committed` belong to the group's session: ReadMessage is
`Fetch`, which hands out the next message, and `Commit`, which stores its
offset, may fail, and may take back what the other loop has stored.  `Join`
begins a session at the stored offset, or at the end of the topic if there is
none (subscriber.go:40).  `Lookup` and `Handle` are processMessage.
`StartMain` and `StartSaga` are the goroutines of main.go:118 and :125; the
latter writes the map in two steps, and a `Lookup` at that time may be the
fatal error of the runtime (`MapRace`).  `Publish` accepts BaseEvents alone
(publisher.go:46), and of a batch leaves out, without an error, those that JSON
cannot write (:103); others reach the topic as messages of other programs.
`skipped`, `dropped`, `cut`, `early` and `repeatable` are auxiliary and name the
ways in which an event is lost or repeated.  `Stop` and `Exit` are the deferred
calls of main and the end of the process, for which nobody waits.

**MetricsService.**  `checker` is the place in evaluateAlertRule of the one
goroutine that startMetricsChecker runs; `rules` is the copy of the enabled
rules (all are), which it takes in any order.  Of a metric's points only the
last one matters and is kept with its age; `lastFired`, `stored` and
`published` are ages as well.  Ages grow with `TimePasses` and stop at `Old`,
beyond every duration.  Every call may fail, before or after it took effect;
those of `Broken` rules fail as often as they like.  `expired` is the context of
a check (main.go:279), which all its rules share: it ends by itself (`TimeIsUp`)
or because a call hung until then (`Fault`), and all later calls of the check
fail at once.  GetMetrics does not look at rows.Err (repositories.go:200), so that
a read that is cut short gives an older value, or none.  An error of Publish is
logged, and LastFired is set all the same.

**DeadLetterQueue.** The mutex makes SendToDLQ, storage included, one step;
RetryFromDLQ is two, `StartRetry` and `EndRetry`, because the processor runs in
between and everybody else waits for it (`Unlocked`). A call of the storage may
fail before or after it took effect. `owed` and `refused` are auxiliary: what
still has to be processed, and whose sender was told of an error.

**Compensation.** `pc[p]` follows CompensatePaymentFailure of payment `p`:
`next` is its loop, `refund`, `store`, `publish` the three calls of
executeRefundFunds, `cancel` the simulated call of the gateway. `todo[p]` is
what is left of CompletedSteps, which nothing in the repository fills in and
which is a constant here. A call that fails, before or after it took effect,
leads by `AttemptFails` to the next attempt, from `refund`, or to `failed`; the
waiting time between attempts is left out. What follows `failed` is `SendNil`:
err is declared again at error_handling.go:530, so that line 545 hands nil to
SendToDLQ, which calls its Error method. `Restart` forgets queue and records and
leaves what ran `dead`; no code resumes it.

## 3. Runs

`pass`: the properties hold in every behaviour of the instance.  `violation`: a
document says what the code does not do, and TLC shows how.

| Run | Instance | Question |
|---|---|---|
| `wallet_faults` | 5 calls on 2 wallets, 4 of them on one whose balance covers either debit alone; every fault; stops | Are interleaved calls one atomic step each: no lost update, no overdraft, at most once with a record? |
| `payment_faults` | 2 payments of 1 and 2 from a wallet of 3; every fault; crashes | Do charge, debit, refund, status and balance agree whatever fails? |
| `payment_settles` | 3 payments of 1, 2 and 1 from a wallet of 3, which does not cover all; no fault; fairness | Does each end, is an error free of cost, and what does a lost refund need? |
| `saga_concurrent` | recovery next to the request, one restart, no fault; fairness | Does the row stay true and does a saga that has begun end, though two runs overwrite each other's row? |
| `saga_restarts` | one restart, one retry of the debit, a fault of either kind; recovery may take up the saga of a request | Actions in order, each effect accounted for, nothing undone twice, a state that goes forward, a payment whose status is true to the saga? |
| `saga_recovery` (violation) | one restart, no fault | README.md:38, automatic compensation: has a compensated saga paid back what it took?  A recovered run starts at current_step 0. |
| `breaker_races` | 3 goroutines, threshold 2, outages, resets; fairness | Does the breaker open for failures only, settle in the textbook's state and recover? |
| `aggregates` | 2 writers (symmetric), batches of 2, 5 events, snapshot every 4 versions | Is the stream in order, no change lost, and no load more than one event behind? |
| `projector` | 3 events, channels of 1, 2 projectors side by side, a failing call, 2 tries | Which events can be lost or counted twice, do retries, starts and stale copies multiply, and when does the checkpoint go back? |
| `user_locks` | 3 deductions, a refund and a check, each strategy, 2 tries; fairness. 6 events of 4 users over 2 partitions with channels of 1 | Exclusion, calls that are atomic steps, conflicts that have winners, calls that end? Each user's events in order? |
| `event_bus` | 2 messages, 2 starts, a rebalance, a failing commit; fairness. 2 rules on one metric, with durations of 1, one of them failing as often as it likes, a context that they share | Which events are lost or repeated, do the loops serve until they are stopped, do alerts keep their distance, is a lasting breach reported? |
| `compensation` | 2 sagas, one refund each before or after another step; one retry, 2 failing calls each, restarts; a queue of 1 for 2 events | Do wallet, event store and bus agree but for calls that failed, and is no dead letter lost without a word? |

`user_locks` and `event_bus` each explore two modules that share no variable:
the first state chooses which of them moves (`moving`), and the other stays as
it is, because interleaving them would add states and no behaviour.  In the
code an event makes the metrics record a value; `MetricsService` lets any value
be recorded at any time, which covers whatever the bus delivers.

Type invariants are proved for every instance and are not repeated in the
runs.

**Why the bounds are enough.**  The hazards are between two actors, or between
one and a restart.  A version conflict needs two calls of a wallet; a third and
a fourth let a conflict be followed by a success, a refund make room for a
debit, and the second wallet shows that wallets do not disturb each other.  The
amounts are such that some calls fit and all together do not.  Two runs of a saga
with one restart give every pair of stale copies, and crashes may come at every
step of each.  Three goroutines let one increment of the breaker be lost to
another while a third closes it; with a threshold of two, one failure is too few.
Five events and a frequency of four reach a snapshot and the events after it;
a channel of one overflows at the second event, and a third is behind it; with
two projectors each can overtake, and overwrite, the other at every step, and one
failing call may be the read of a checkpoint, of a model, or a write. One retry and two failures let a
refund fail at each of its calls, be repeated, and fail for good; a queue of one
drops a letter as soon as there is a second.  Two messages give each loop one,
so that commits overtake each other; one rebalance, one failing commit and one
restart give each way to lose or repeat an event.  Ages up to 2 tell a point and
an alert within a duration of 1 from those that are older.  One retry is left to the
debit alone in `saga_restarts`, which keeps the run small; a saga that lacks an
executor is covered by the proofs, which hold for any executors and retries.  The bounds on events, sequence
numbers, starts and failing calls are guards named `Max...` in the modules; the
actions that they stop are those of the environment (a new event, a new start,
a failure), never a step of the component that has begun.

`CHECK_DEADLOCK FALSE` stands where a finite number of calls or events come to
an end.  The breaker, the repository and the queue never stop, and TLC checks that.

**Fairness.**  Weak fairness of the steps of each goroutine: the Go scheduler
runs each goroutine that can run, a statement returns (with an error if need be)
and so does a call of the gateway, which waits half a second at most
(gateway/service.go, callGatewayAPI).  For the breaker, time passes.  For sagas, the
recovery of a start is made, which main starts unconditionally.  For the bus,
the goroutine of main starts and the reader gets its first session; another
session is never owed.  For the alerts, the checker runs and time passes.  Nothing is
assumed of the environment: requests, faults, stops, outages, resets, timeouts
and new events may come or not.  `Recovers` has its assumptions in its
statement: a gateway that stays up and payments that keep coming.
`BreachesAreReported` has a metric that stays in breach, a rule whose calls
do not fail for ever, and checks that from some time on do not use up their 30
seconds: a rule whose calls hang in every check does keep the rules after it
from their alerts.

### Deviations

The violation is listed under "findings" with its line.  These were met as well
while the models were written; no run is devoted to them:

- payment/service.go:227 calls RefundBalance once and drops its error: where
  README.md:53 has "Automatic fund reversion", a refund that meets another
  update of the wallet is refused, and the payment has failed and keeps the
  money.  `LostRefundHasCompetitor` shows that without a fault nothing else
  loses a refund.
- publisher.go:46 asserts the type BaseEvent, which a struct that embeds a
  BaseEvent has not (its error text wants one that does): every event of the
  payments, wallets and gateway is refused and no handler ever sees one of
  them, where docs/event-architecture-specification.md:82 names the consumers
  of payment events.  Alerts are plain and pass.
- publisher.go:31 balances by bytes, so that a key does not name a partition;
  docs/concurrent-payments-flow.md:41 and :423 count on it for the order.
- subscriber.go:72 commits before the handlers run;
  docs/event-architecture-specification.md:494 has "At-Least-Once Delivery".
  `LossesAreKnown` lists the ways to lose an event.
- main.go:119 and orchestrator.go:416 start the same subscriber twice, and
  orchestrator.go:408 writes its map while the first loop may read it.
- Alert rules are kept in memory alone and are gone after a restart;
  handlers.go:396 encodes a rule that the checker may be writing.  A duration
  that is not positive is accepted and never alerts.
- concurrency_control.go:707 gives no partition for a hash that has overflowed;
  Stop leaves accepted events in the channels, and a second Stop panics.
- postgres_store.go:196-201 and :290-295 lock the rows of an aggregate function,
  which PostgreSQL refuses: nothing can be appended to the SQL event store.

- wallet/service.go:164 and :170 write the audit row and the balance in two
  statements, so that a failure in between leaves a row of a debit that was
  never made; docs/concurrent-payments-flow.md:421 speaks of ACID transactions.
- wallet/service.go:170 does not retry a version conflict;
  docs/concurrent-payments-flow.md:305 has three attempts.
- payment/service.go:215: a stop of the process leaves a debited payment as it
  is for good; docs/system-recovery-flow.md:575 promises automatic recovery.
- payment/service.go:175 may overwrite what the saga it has just started wrote:
  a completed payment that stays in processing (:173).
- orchestrator.go:240 counts current_step in memory only;
  docs/event-architecture-specification.md:879 continues from a checkpoint.
- orchestrator.go:384 reads sagas in state started and leaves them; :883 of the
  same document recovers active sagas.
- orchestrator.go:287 retries an action that may have been done; :904 promises
  retries without side effects.
- orchestrator.go:331 passes over the charge, which has no compensation, and
  begins before the step that failed, so that `mark_failed` (:173) is never
  called: a saga that fails at update_status ends as compensated, with the
  wallet refunded and the card charged.  `EffectsAreAccountedFor` counts that
  charge among what was left.
- main.go:126 starts the recovery next to the server: a saga that is being
  served may be executed a second time, which orchestrator.go:370 does not mean
  by "after a restart".
- gateway/service.go:99 loses increments, :94 lets a late success close an open
  breaker, and :84 admits every caller in half open, where
  docs/error-handling-strategy.md:414 admits three.
- aggregate.go:125 makes a snapshot of the aggregate in memory, whose version
  counts operations twice (:82 and aggregates.go:322): it is that of an event to
  come, and Load starts behind it. The state that is loaded is then not
  "Estado actual del agregado" (docs/even-store.md:246); `LoadMissesAtMostOne`
  shows that one event is missing at most.
- error_handling.go:607 and :612: a refund whose event could not be stored or
  published is made again with the next attempt;
  docs/error-handling-strategy.md:380 wants compensations to be idempotent.
  `RefundsAreExplained` shows what is left: no more refunds than the published
  ones, the failed calls and an interrupted attempt.
- error_handling.go:545 sends a nil error where :520 says that a step that fails
  for good goes to the dead letter queue: SendToDLQ panics at :227, the step is
  not queued, and the record stays in progress.
- error_handling.go:261 drops the oldest letter from the queue; it stays in the
  storage, whose Retrieve nobody calls, also after a restart.
- readmodels/store.go:256 asks for the events after lastProcessed + 1 with a
  filter that excludes its bound: the first event after a checkpoint is lost.
  Events between GetEvents and Subscribe are lost too (:205).
- readmodels/store.go:240: Stop returns while Start or the goroutine goes on.  A
  projector that is started next handles the same events, so that they are
  counted twice (`CountedTwiceByOverlap`), or one of the two overwrites the count
  of the other; the checkpoint may go back (`CheckpointMovesForward`).
  `LossesAreKnown` shows that, as long as no call fails, there is no fourth way
  to lose an event.
- main.go:279 gives all rules of a check one context of 30 seconds, so that a
  rule whose calls hang costs the others their check; repositories.go:200 takes a
  read that was cut short for a complete one; metrics/service.go:390 logs an
  alert that could not be published, and LastFired keeps it from being tried
  again before the duration is over.
- publisher.go:103 leaves an event that cannot be marshalled out of its batch and
  reports success; Publish (:52) gives an error for the same event.
- aggregates.go:68 completes a payment in status "processing" alone, which
  nothing sets: no payment aggregate is ever completed.  :93 lets a failed
  payment fail again, and the read model (readmodels/store.go:534) then takes
  another payment of the user from those that are pending.
- concurrency_control.go:84-91: after a timeout the goroutine left behind takes
  the lock and nobody releases it.  `CallsEnd` says what holds until then.

## 4. Proofs

Each theorem holds for every value of the constants under the assumption named
in the module (`WalletAssumption`, `PaymentAssumption`, `SagaAssumption`, `BreakerAssumption`,
`RepositoryAssumption`, `ProjectorAssumption`, `QueueAssumption`, `CompensationAssumption`,
`ConcurrentWalletAssumption`, `PartitionAssumption`, `BusAssumption`, `MetricsAssumption`): types of the parameters, positive
amounts, balances that are not negative at first.  The number of calls,
payments, goroutines, restarts and retries is not bounded.

- **WalletServiceProofs.**  The invariant that is proved inductive adds to the
  properties what each call knows: the version it has read is not newer than
  the row's, and the balance it has read is the one the row had at that version
  (`SeenIsPast`); a call in flight has not been applied yet (`NotYetApplied`).
  An update whose version matches therefore computes with the present balance,
  which gives `NoLostUpdate`, and a debit that passed its test still passes,
  which gives `NeverOverdrawn`.  `WalletIsAtomic` shows that the statements
  implement `AtomicWallet`: the update of the row is the atomic step, all other
  steps answer or stutter.
- **PaymentServiceProofs.**  `PaymentsUseTheWallet`: every behaviour of the
  payments is one of the wallet service, so that its invariant comes for free.
  On top of it the invariant relates `flow[p]` to the calls of `p`: which were
  made, which have returned, and when the gateway has charged.
  `LostRefundsLostARace` needs three facts more, for a database that answers: a
  credit is refused only after its row was replaced (`RefusedCredits`, of the
  wallet), it had read that row after the debit of its own payment was written
  (`DebitIsSeen`), and a payment that failed has had the answer to its credit,
  or no debit (`FailureAsked`).  `BalancesAreExplained` follows the one step in
  which an update of a row adds its payment to `OpenPayments`, or removes it,
  and needs of the sum over a set only what one more member does to it.
- **CircuitBreakerProofs.**  `NeverOpensEarly` is not inductive, because the
  counter may be written from old copies.  `CountsFollowErrors`: the counter and
  every loaded copy are at most the number of errors, and whoever is about to
  open the breaker has seen the threshold.  `TextbookWhenAlone` rests on
  `OneAtATime`: what the fields hold follows from the label of the one payment
  under way (`Fits`), so that `SettledState` is what is left when it is over.
- **SagaOrchestratorProofs.**  Every copy of the saga (in a run, in a half done
  UpdateStepStatus, in the row) speaks of what took effect (`CopiesAreTrue`),
  and the step in hand has all steps before it done while the run executes
  (`StepInHand`), for which the row's current_step must stay 0.  Four more
  invariants rest on this one.  `PaymentInv`: before run 0 begins nothing has
  happened to the saga or its payment.  `Settled`: a success gives at most one
  run a compensation to make, so that the compensations made, and the runs that
  still owe one (`Owing`, counted with Cardinality), are never more than the
  successes.  `AccountInv` makes `EffectsAreAccountedFor` inductive: a step of a
  run moves one effect between the four terms of the sum, a stop moves those of
  all runs at once, and what a run holds is completed in its copy (`Held`), so
  that only a step without a compensation is passed over.  `RunsFit`: without
  `overlap` one run is alive at most, and the row that its UpdateStepStatus has
  read still has the present state; with it, no copy of a row is older than the
  beginning of the saga.
- **EventStoreProofs.**  A writer's aggregate equals the event of its
  version (`ExactWithoutSnapshot`) or one event before it (`ClaimsHold`), it has
  one uncommitted event if it was used once (`OneOperation`), and then its
  version and balance follow from the event (`UsedAggregates`).
  `NoUpdateIsLost` and `LoadsMissAtMostOne` are about aggregates that are loaded
  for every operation, as their left sides say: one that is kept after a save
  may overwrite what another writer has added (aggregates.go:322).
  For the projectors `ProjectorInv` has a part for each projector and one for all
  of them.  `Queue(p)`: what waits, in todo or in the channel but never in both,
  is in order and behind the event in hand.  `Progress(p)`: all of it has numbers
  above lastProcessed.  `OverlapInv`: of two projectors at work one is blind, and
  a checkpoint is not ahead of a projector that can see, which makes
  `CheckpointMovesForward` a matter of one step.  `CountInv`: what is counted, in
  the models and in every copy of them, is bounded by the projectors that have
  been given the event and the calls that failed.  `TwiceInv`: without failed
  calls, an event that two projectors have been given is behind a blind one.
  `LossInv`: an event that is not counted, and not lost in one of the three ways,
  is in hand, waits, or came after the channel was closed and is behind
  everything in it (`Late`), so that lastProcessed never passes it.
- **CompensationProofs.** Within an attempt the wallet is one ahead of the
  store, then the store one ahead of the bus (`OneAhead`); a debit that the loop
  has passed has its event published (`LookedAt`). For the queue, `LetterAdded`
  and `LetterRemoved` say what the two changes of the slice do, and with them
  `LettersAreKept` is inductive.
- **ConcurrentWalletProofs.**  `LockInv`: a goroutine that waits for a lock, or
  has it, has the one in the map, and whoever works under a lock holds it.
  `BalanceInv`: a call that has read the version the wallet still has was right
  to find its balance enough, whatever the others did since.  `WinnersInv`: the
  version counts the calls that have succeeded, and a call with k conflicts
  knows of as many.  `ConcurrentWalletIsAtomic` maps the wallet to
  `AtomicWallet`: the step that changes the balance is the atomic one, which by
  `BalanceInv` finds enough of it also where the test was made earlier; a
  refusal, a timeout or the last conflict answers, once only by the same
  `Tried` that `WinnersInv` rests on; all other steps stutter.  For the partitions, `FlowInv`: the events accepted of a user
  are those processed, followed by the one in the hand of the user's worker,
  followed by those in its channel, and no other worker has any of them.
- **EventBusProofs.**  `BusInv`: a loop has a message in hand from Fetch until it
  is put down, none before the first session, and the orchestrator's loop runs
  only after its handlers are registered.  `LossInv` strengthens
  `LossesAreKnown`: a message in hand must still be on its way to the very
  handler it is owed to (`Brings`).  `RepeatInv`: a message that is not in
  `repeatable` is `Fresh`, in one hand at most, behind the committed offset
  before a handler is called for it, and never called for again.  For the
  alerts, `Ordered`: neither the event nor the row of a rule is younger than its
  LastFired, unless the checker is about to set it or a row was written without
  its knowledge.

The invariants were model-checked before they were proved, and each property of
a run that is not a liveness property is proved.  Only TLC covers liveness
(`EveryPaymentSettles`, `BegunSagasEnd`, `Recovers`, `CallsEnd`,
`LoopsServeUntilStop`, `BreachesAreReported`), which needs ENABLED, and the
violation.

Where a proof is an induction over data, it takes a smallest counterexample
instead: of the numbers for which a recursive function is not defined, or does
not have the value claimed, there is a smallest one (`SmallestNumber`), which
is not the first and whose predecessor is none.  So `MatchingEvents` gets what
the loop of GetEvents returns, `OfUserHead` that choosing the events of a user
commutes with taking the head of a channel, and the sums over the payments of a
wallet what one more payment does, by way of a smallest set.  The loops are
recursive functions in the models for this reason.

## 5. Not modelled

- **SQL event store.**  No program or test uses it, and the query with which each
  append begins is refused by PostgreSQL, so that a model would have one
  behaviour: every append fails.
- **The payment aggregate and PaymentSagaOrchestrator** (`aggregates.go`,
  `payment_saga.go`).  No program uses them; they append one event per call to
  the store, whose appends are modelled.  The aggregate's deviations are above.
- **Several partitions of the topic, compaction, loss of the broker.**  External;
  main has one topic and one group, and order is promised in a partition only.
- **Prometheus counters, severities of alerts.**  Nothing reads them back.
- **LoadVersion, queries, GetTransactionHistory.**  They only read.
- **A projector that is started again after its own Stop.**  Its stopChan is
  closed, so that its goroutine ends when it is next chosen; the service makes
  one projector and starts it once, and the models start a new one instead.
- **The steps in the record of a compensation** (updateCompensationStep), which
  nothing reads back.
- **SetBalance of the concurrent wallet**, which tests call before anything
  else; `InitialBalance` stands for what it leaves.
- **HTTP, health, configuration, logging, Redis, migration, demos.**  Input and
  output; the validation of a request gives the assumptions on the inputs.
- **The end of a process** is a stop at any statement: main's shutdown waits for
  the server but for no goroutine (main.go:141-157).

## 6. Plan

1. *(done)* `WalletService`, `AtomicWallet`, `PaymentService`,
   `SagaOrchestrator`, `CircuitBreaker` and their proofs: the program that main
   runs.
2. *(done)* `EventStore`, `AggregateRepository` with proofs, `Projector`,
   `ConcurrentWallet`.
3. *(done)* `DeadLetterQueue`, `Compensation` with proofs.
4. *(done)* `PartitionedEvents`; `EventBus` and `MetricsService`, with proofs of
   what can be lost, repeated or announced too early; the proofs of
   `ConcurrentWallet`; the payment events of the `Projector`.
5. *(done)* Proofs that a saga is not undone twice, moves forward and accounts
   for its effects, that a refund is lost to a competitor only, and that the
   breaker is settled when payments come one at a time.
6. *(done)* Proofs for projectors that work side by side; that each user's events are processed in
    order; that the balances are accounted for by the payments; that the
   concurrent wallet is atomic for its callers.
7. The payment aggregate over `AggregateRepository`, once a program uses it: what
   a payment that fails twice does to the read model.

Bounds of the runs to come: two actors and a fault each, queues of two, so that
each run stays within some minutes; where a new module asks the question of an
old run again with more parts, it takes the place of that run.
