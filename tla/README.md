# FinanceSys in TLA+

FinanceSys collects market commentary, extracts recommendations from it with language
models, evaluates them against market data, and trades a simulation account on the
strength of them. This directory holds TLA+ specifications of its core, TLC
configurations that check them on small instances, and proofs of what matters most for
every instance. The reference is always the code; where a comment or a document says
something else, a run shows the difference.

## 1. Inventory

### 1.1 Trading (`internal/trading`, `tools/eastmoney_bridge`, `trading_agent`)

| Component | State | Operations | Hard behaviour |
|---|---|---|---|
| Execution lane (`worker.go`, `service.go` evaluateIntent/persistDecision, `execution_safety.go`) | `trading_intents` status, execution status, claim; `trading_orders` | claim, evaluate, decide, create the order, call the Bridge, record the answer, retry, expire | leases that end while their owner works; a decision taken on reads older than the transaction; a call whose answer is lost |
| Order state machine (`domain/state.go`, `events.go` mergeOrderEvent) | the order row | fold one event | events duplicated, late, reordered |
| Bridge event ingestion (`events.go` applyBridgeEvent) | `trading_order_events`, `trading_fills` | record once, store the fill, merge | the same fact under two hashes |
| Bridge API (`bridge_api/server.py`, migrations) | `bridge_commands`, `runtime_state`, signed nonces | enqueue PLACE/CANCEL, kill switch, queries, probe | idempotency keys against uniqueness of the order's commands; switch read long before the order leaves |
| Callback outbox (`bridge_api/outbox.py`) | `bridge_callback_outbox` | claim, post, retry with back-off | a stop between claim and answer |
| Runner (`gm_runner/strategy.py`) | one command at a time, the provider's ids | execute, bind the provider's id, report, restart, snapshot | a stop inside `order_volume`; a callback before the id is known |
| Reconciliation (`reconciliation_worker.go`, `events.go` performReconciliation, `reconciliation_confirmation.go`) | `trading_reconciliation_runs` with lease, attempts; mutex of the process | queue, claim, lock out execution, snapshot, recover, compare, retry valuation differences, halt, finish | takeover of an expired run; a halt of two latches in two databases; stale owner |
| Kill switches (`SetKillSwitch`, `_fail_closed`, Bridge route) | `trading_runtime_controls`, `runtime_state` | on (and cancel all open orders), off | two writes in two databases |
| Session (`session.go`, `trading_daily_sessions`) | day status, fee check | preflight, cancel at fixed times, end of day | a day closed by a stale worker |
| Position cycles and exits (`lifecycle.go`, `exit.go`) | `trading_position_cycles`, exit intents | follow fills, decide exits | a fill older than the cycle, an exit sold twice |
| Commissions, policy, instruments, rules, ledger comparison | none or one profile row | pure computations | rounding, boundaries |
| Decision runs (`StartRun`, `tools.go`, `trading_agent`) | `trading_runs`, `trading_intents` | start, call the agent, submit an intent, fail | one run at a time; tools called after the run ended |
| UAT, board acceptance, dashboard | stored rows | checks and queries | none |

The parts meet in four places: rows of the server's database (between lanes and between
processes), `TradingRuntimeControls.Lock` (one transaction at a time per account), signed
HTTP calls from the server to the Bridge API, and callbacks from the Bridge's outbox back
to the server. Bridge API and Runner share the Bridge's own database.

### 1.2 Research (`internal/service`, `internal/dal`, `agent`)

| Component | State | Operations | Hard behaviour |
|---|---|---|---|
| Scheduled tasks (`automatic_scheduler.go`, `scheduled_task.go`) | `scheduled_task_runs` with lease and attempts | enqueue when due, claim, execute, skip, fail | two processes, expired leases, unfenced finishes |
| Market data sync, recommendation evaluation | run queues | queue, claim, process | a run left RUNNING, restarts |
| Document ingestion and retry, OpenList | `documents`, `parse_runs`, `recommendation_events`, external files | ingest once per content, parse, replace results, retry | duplicates, half-finished replacement |
| Processing pools | counting semaphores | acquire, release | two pools taken in order |
| Resolution, target recovery, candidates, security master | reference rows | resolve, recover, refresh | versions |
| Evaluation arithmetic, statistics, reports, HTTP, configuration, frontend | none | pure or read-only | boundaries |
| Deployment (`start_prod.py`), log rotation (`service_runtime.py`) | processes, files | build, start, roll back, rotate | failure of a step |

## 2. Plan and state of the plan

Modules in the order of consequence; that money is at risk at most once comes first.

| # | Module | Models | Composes | Abstract specification | State |
|---|---|---|---|---|---|
| 1 | `OrderLifecycle` | the order's states and the merge of events, as pure operators | | | done, proved |
| 2 | `OrderDispatch` | execution lanes, Bridge, Runner, outbox, ledger, switches, reconciliation as the orders see it | `OrderLifecycle` | `SingleExposure` | done, proved |
| 3 | `ReconciliationRuns` | the queue of reconciliation runs, confirmation, halt, end of day | | `SerialQueue` | done, proved |
| 4 | `ScheduledTasks` | queueing by key, lanes, claims and ends of scheduled tasks, the daily batch | | | done, proved |
| 5 | `DocumentPipeline` | documents, their analyses and retries, replacement of results, OpenList articles, the pool of the models | | | done, proved |
| 6 | `PositionCycles` | cycles and exit intents over the ledger's fills, several exit monitors | `OrderLifecycle` | | done, proved |
| 7 | `ResearchRuns` | queues of market data and evaluation runs | `RecommendationWindow` | | done, proved |
| 8 | `RecommendationWindow` | what a recommendation was worth over a window, as pure operators | | | done |
| 9 | `DecisionRuns` | a decision run, the tools its agent calls, its intents | | | done, proved |
| 10 | `SecurityMaster` | refreshes of securities and names, look-up of names | | | done, proved |
| 11 | `TradingBook` | ledger against account, fees, boards, creation of orders | `OrderPolicy` | | done, proved |
| 12 | `OrderPolicy` | instruments, sizes, risk checks, as pure operators | | | done |
| 13 | `PerformanceReports` | evaluations, the date repair, and the reports that count them | | | done, proved |
| 14 | `Parts` | decision runs, security master and reports side by side | `DecisionRuns`, `SecurityMaster`, `PerformanceReports` | | done, proved |
| | `BridgeCommands` | the Bridge's commands other than PLACE_ORDER | | | not modelled: cancels and the kill route are steps of 2 and 3, queries change nothing |
| | `Deployment` | the deployment's steps and its roll-back | | | not modelled: one sequential script over external services |

Nothing of the plan is left open; section 14 lists what was never part of it.

## 3. The order path

### 3.1 Modules and code

`OrderLifecycle` has the transition table of `domain/state.go` (`orderTransitions`) and
`mergeOrderEvent` of `events.go` as operators on a row `[status, filled, lastAt]`. An
event's time decides whether its status counts; its volumes are merged whenever it comes.

`OrderDispatch` is the path itself. How state corresponds to code:

| Variable | Code |
|---|---|
| `intentStatus`, `execStatus`, `claim` | columns of `trading_intents`; `claim[i].live` is "the deadline is ahead" |
| `pc`, `job`, `placing` | where `ExecuteNextReadyIntent` / `evaluateIntent` / `persistDecision` of a process are, and what they hold |
| `row`, `fills`, `applied` | `trading_orders`, `trading_fills`, `trading_order_events` |
| `request`, `reply` | a signed HTTP call and its answer on the network |
| `cmd`, `outbox` | `bridge_commands` (PLACE_ORDER), `bridge_callback_outbox` |
| `runner` | the position of `_execute_command` / `_place_order` in the Runner |
| `prov`, `history` | the order at the provider and every fact it can report (external) |
| `dbKill`, `bridgeKill`, `killOp` | the two switches and an operator's call between them |
| `recon` | the RUNNING reconciliation row, its owner's activity lock and its snapshot |
| `submissions`, `sentUnderKill`, `switches`, `faults` | history and bounds; read by no guard except the bounds |

One action per transaction or external call: a transaction that begins with
`TradingRuntimeControls.Lock` is one step, because the lock serialises it against the
others; what the code reads before it (`PassGate`, `Approve`) is a step of its own, so
every check may be stale when the transaction runs. `ReceiveReply` may take the
time-out branch whether or not an answer is there, and the request then stays on its way:
the order can be placed long after the caller has given up. `Crash` forgets a process's
lanes and nothing else.

Abstractions: orders in DRY_RUN and SHADOW mode (no call leaves the server), prices, lot
sizes and amounts are left out; the verdict of the policy, the session windows and the
market data are inputs (`Approve`, `RejectDecision`, `Defer`); the order in which intents
are claimed (SELL first, then time) is an arbitrary choice; callbacks leave the outbox in
any order, since each row backs off on its own; the day has been opened, hence both
switches begin open. After a takeover the former owner of the reconciliation is
forgotten here; module `ReconciliationRuns` keeps it.

### 3.2 Runs

| Run | Bounds | Checks | Shows |
|---|---|---|---|
| `order_lanes` | 2 processes, 2 intents, 2 orders of one lot, 1 switch change, no fault | `OneExposure`, `IntentMatchesOrder`, `BoundedKillLeak`, `ImplementsSingleExposure` | two processes with expired claims and late requests never have two orders at risk; each latch lets at most one order past |
| `order_events` | 2 processes, each with both lanes, 1 order of one lot, 1 fault | `LedgerIsTruthful`, `SubmittedOnce`, `OutcomesAreFinal`, `NoOrderDuringReconciliation` | fills with crashes, losses, duplicates and restarts; the RUNNING row stays a barrier through takeover and crash |
| `order_outcome` | 1 process, 1 order of two lots, snapshots that hash otherwise than callbacks, fair lanes | `OutcomeReachesLedger`, `LedgerIsTruthful` | callbacks that never come are made up for by reconciliation; a fact seen twice under two hashes counts once |

Two processes are enough for any race of two holders of a claim, and two orders for any
pair that could be at risk together: `OneExposure` and `IntentMatchesOrder` speak of pairs.
Two lots (`order_outcome`) give partial fills that are reported late; every mixture of more
lots, faults and processes is what the theorems are for. In `order_lanes` the constraint
`SwitchedAlone` lets a switch change only while one process alone has an intent in hand and
its claim is on time: what a switch does to one lane, and what two lanes do to each other,
are separate questions there, and `KillLeaksOnce` proves the answer for both together.
Symmetry is used only where no liveness is checked.

`BoundedKillLeak` counts per latch. With both latches changing hands (one is opened while
the other is closed) each may let its one order past, so a common bound would be two.

`OutcomeReachesLedger` has a premise: the command is DONE and the Bridge knows the
provider's id. Without it the code gives no such promise: an UNKNOWN event carries the
Runner's clock (`strategy.py:497`), and if that is later than the provider's CANCELED the
true outcome is older than `lastAt` and is ignored by every later recovery.

### 3.3 Fairness

Weak fairness for the steps of an execution lane after its claim, and for the start, the
lock, the recovery steps and the end of a reconciliation: `RunExecutionWorker` and
`RunReconciliationWorker` are loops with tickers that end only with the process. None is
assumed for callbacks, the Bridge, the Runner, the provider, operators or faults.

### 3.4 Proved

`OrderDispatch_proofs`, for all values of the constants, from `DispatchAssumption` (a
positive volume, natural bounds, the "no" values outside their sets). Its first part is
about the rules of the merge: a mergeable row stays a row, a row that is over stays over,
volumes do not shrink, and the merged volume and status are those of the row or of the
event. Then two inductive invariants:

* `Invariance`: `Spec => []IndInv`. `IntentMatchesOrder` and `SubmittedOnce` are not
  inductive: a lane between `CreateOrder` and `SendPlaceOrder` must be the only one to
  know its order (`LanesOK`), the Bridge must know only orders that have a row and nothing
  may exist of an order it has no command for (`BridgeOK`), and a command that is queued or
  being checked must not have been submitted (`RunnerOK`). `OneOpenOrder` is the
  conjunct that the re-read under the lock preserves.
* `LedgerInvariance`: `Spec => []LedgerInv`, which adds what is true of everything that is
  on its way. Facts in the outbox, in a snapshot or in the Runner's hands are of the
  provider's history (`FactsOK`, `RunnerKnows`, `ProviderOK`, `HistoryOK`); an order that is
  under way is open in the ledger and silent at the provider (`RequestsOK`,
  `UnderwayIsOpen`, `UnderwayIsSilent`); a stored fill is a set of lots of the history that
  no other stored fill has (`FillsOK`), so that stored volumes cannot add up to more than the
  provider executed, which is where duplicated and reordered callbacks would show
  (`RowsOK`); and what a switch has let past is what was past its check (`KillsOK`, by way of
  the orders `Pending` behind a closed switch).
* From these: `TypesHold`, `OneOrderPerIntent`, `OneOrderOpen`, `NoDoubleSubmission`,
  `TruthfulLedger`, `OneOrderAtRisk`, `KillLeaksOnce`, `FinalOutcomes` and
  `ReconciliationIsBarrier`; every safety property of the three runs.
* `Implementation`: `Spec => ImplementsSingleExposure`. `CreateOrder` is `Open`, the event
  or reply that ends a row is `Close`, everything else stutters.

Model-checked only: `OutcomeReachesLedger` (liveness).

## 4. Reconciliation runs

### 4.1 Module and code

`ReconciliationRuns` has the rows of `trading_reconciliation_runs` (`runs`), the lane of
each process (`lane`), the day's row (`session`) and the two switches. `Claim` is
`TradingReconciliationRunDML.Claim` under the account lock, `Owns` the condition of
`UpdateClaim` (RUNNING, token, deadline ahead). A lane runs `performReconciliation`:
`Compare` takes a fresh snapshot and computes the differences, `Checkpoint` stores the
attempt under the claim, `SyncPositionCycles` ends the good path, `HaltDb` and
`HaltBridge` are the two writes of `haltForReconciliation`, `PerformFails` is every error
return, `End` the fenced last write, `CloseTradingDay` what an EOD lane does afterwards
with or without its claim. `FAILED` is written only when both latches were confirmed;
else the run keeps RUNNING, blocks every order, and is taken up again after its lease.

A lane remembers which latches it has set (`safe`) and whether it already is in
`failReconciliation` (`error`). `LeaseEnds` under an owner at work is counted as a fault:
the owner's context ends ten seconds before its lease, so it needs a stopped clock or
process; the end of an abandoned lease is not.

Abstractions: the differences found are an input of `Compare` (none, valuation only,
fault); a snapshot is the time it was taken; the individual checks of the preflight and
of the cancellation are inputs; the process mutex `accountActivity` is part of
`PerformFails` here (RECONCILIATION_BUSY) and modelled in `OrderDispatch`; one trading
day; one operator call at a time. `Service.Reconcile` (`events.go:202`) is called only by
tests and is not modelled.

`SerialQueue` is what the rest of the system may rely on: runs are created in order, end
once, and end in order.

### 4.2 Runs

| Run | Bounds | Checks | Shows |
|---|---|---|---|
| `runs` | 2 processes, 2 runs (PREFLIGHT or EOD), 2 snapshots, 1 attempt, 1 fault, 1 switch change, fair lanes | `SuccessIsConfirmed`, `FailedMeansHalted`, `ClosedAfterReconciliation`, `EndedRunsStay`, `ImplementsSerialQueue`, `EveryRunEnds` | an expired run is finished before a newer one begins; late owners change nothing; success rests on a new and clean snapshot, failure on closed latches, the closed day on a successful EOD; a run behind an abandoned one ends too |
| `runs_fault_retried` (violation) | 1 run, 1 crash | `FaultsAreNotRetried` | see the finding below |

Two runs give every order of claim, expiry and end between an older and a newer one; the
EOD path has the steps of the other kinds (CHECK compares, CANCEL cancels) one after the
other, and PREFLIGHT the step of its own. Leases end under living owners without a fault,
so one fault still gives a crash, a failing halt or a lost answer after a takeover. One
attempt is the last attempt too; retries are in the violation run and in the theorems.

Fairness: the lane's steps, the claim, and the end of an abandoned lease (time passes).
None is assumed for switch changes and faults.

### 4.3 Finding

`reconciliation_confirmation.go:38` says that a fault is never retried. The evidence is
stored before the halt (`events.go:351`, `:376`); a process that stops in between
leaves a RUNNING run whose stored attempts contain the fault. The next owner reads the
attempts for their versions only, compares again and may end the run SUCCEEDED, with
the fault in its own evidence and no switch closed.

No property says that reconciliation comes before the switches are opened, as
`tools/eastmoney_bridge/README.md:10-12` does: `SetKillSwitch` looks at no run, the Bridge's
route asks for account and token only, and the model's steps do the same.

### 4.4 Proved

`ReconciliationRuns_proofs`, for all values of the constants, from `RunsAssumption`:

* `Invariance`: `Spec => []IndInv`. `FailedMeansHalted` needs to know what an owner has
  done so far (`HaltToCome`: a latch counted as safe is closed unless an operator marked
  the run); `SuccessIsConfirmed` needs what a lane remembers (`SuccessToCome`) and that
  evidence rises in every lane and row (`EvidenceRises`), owner or not;
  `OneAfterTheOther` needs that ids are given out without gaps (`InOrder`); `LaneRuns`
  keeps kinds apart.
* The argument has three lemmas on what a step does to the runs (`RunsCauses`,
  `RunsStep`: it creates, claims or writes one), to a lane (`WorkMoves`, `LanesStep`) and
  to the switches (`SwitchesStep`: only operators open, and they mark every run under way);
  each conjunct follows from these without looking at the actions again.
* `SerialRuns`, `FailureHalts`, `SuccessConfirmed`, `EndedForGood`, and
  `QueueImplementation`: `Spec => ImplementsSerialQueue`.
* `DayClosedAfterSuccess`: the day is closed without a fence, so it needs to be known that
  whoever is about to close it has seen its own run SUCCEEDED, or that the run had ended
  (`CloseStands`).

Model-checked only: `EveryRunEnds` (liveness).

## 5. Scheduled tasks

### 5.1 Module and code

`ScheduledTasks` has the rows of `scheduled_task_runs` by type and key (`rows`), and for
every process its configuration (`version`), its enqueue lane (`poll`) and its general and
trading lanes (`lane`). `EnqueueDueTasks` is the beginning of a poll of `enqueueDueTasks`:
clock and configuration are read once. `Enqueue` is one `CreateIfAbsent` of it, in the
code's order, and `EnqueueFails` the error that drops the rest. `FindNextDue` and `Claim`
are the two statements of `ClaimNextDue`: a read of the earliest row that can be claimed,
and an update that looks at the row again; they are separate steps, because another process
comes between them. `Execute` is `execute` up to the handler, with
`openListScheduledRunSkipReason` for the batch; `Finish` is its end, `skip` or `fail`, all
of which write the row by its id. `ClaimFails` and `FinishFails` are statements that fail
or whose answer is lost, `Crash` stops a process, `Reload` gives it a newer configuration.

The ten task types are six: those that share their key and their due time share a name
(`DAILY`: security master, stock prices, evaluation; `CANCEL`: the two cancellations and
the pre-open decision; the exit monitor is never queued). Times are readings of one clock;
a day, a start minute, a claim and an interval are numbers of readings. Rows due at the
same time are taken in any order, where the code takes the lower id. A handler is its
outcome. The `CANCEL_*` and pre-open handlers' own checks, `tick` (which nothing calls) and
the limit of a hundred tasks between two polls change nothing here and are left out, as is
a scheduler switched off (its lanes only wait).

### 5.2 Run

| Run | Bounds | Checks | Shows |
|---|---|---|---|
| `tasks` | 2 processes, the batch, 2 configurations with different start times, 4 readings of the clock, start minute of 3 and claim of 1 reading, 1 fault, fair lanes | `OneBatchPerDay`, `ExclusiveClaims`, `EndsOnce`, `EveryTaskEnds` | a batch that crashed or is slow is claimed again inside its minute and not begun again; two lanes that read the same row do not both get it; a task whose process stopped, or whose end was not written, is taken up and ends |

A claim shorter than the start minute is what makes the attempt count matter, and
`validate.go` allows it; with a claim as long as the minute the window alone keeps a second
batch away, and then no batch begins on a task that has ended (`NoLateBatch`, a theorem).
With a short claim a lane that is suspended between its claim and the check may begin the
batch after another lane has ended the task as SKIPPED: still only one batch on that day,
which is what the README promises.

The run stays within one day and has the one type with rules of its own: a type changes
a row's key and due time and nothing else. What a day that passes between queueing and
execution, or any other type, could change is covered by the theorems below.

Fairness: lanes poll for ever and handlers return; the clock goes on. A task counts as
`Late`, and is not asked to end, if its claim would end after the last reading of the
model's clock.

What the model shows and nothing in the repository states: only a task that was claimed
once has a final row; after a second claim the two owners may overwrite each other's end.
And the trading handlers use the clock, not the task's date, so a task left from yesterday
acts on today; the hazards in `PROJECT.json` name the lines.

### 5.3 Proved

`ScheduledTasks_proofs`, for all values of the constants, from `TasksAssumption`:

* `TasksInvariance`: `Spec => []IndInv`. `OneBatchPerDay` needs `BatchSpent`: where a batch
  has begun, no lane has the first claim of the day's task before it. That needs
  `Succession` (lanes that hold a task hold different claims of it, in their order and a
  timeout apart), which needs `Holders` (the row was claimed at least as often and as late
  as any of its lanes) and `Journal` (attempts count claims).
* Steps that only let a lane go or find a row keep the invariant for one reason (`LetGo`);
  the update of a claim (`ClaimInv`), the check before the handler (`ExecuteInv`) and the
  unfenced end (`FinishInv`) have a lemma each.
* `BatchOncePerDay`, `ClaimsExclusive`, `FirstEndIsFinal`, `NoLateBatch`.

Model-checked only: `EveryTaskEnds` (liveness).

## 6. Documents

### 6.1 Module and code

`DocumentPipeline` has a call per upload, analysis, retry (`document_retry.go`) and OpenList
article (`processOpenListArticle`), each with the step it is at; `doc` and `row` are the status columns of `documents` and
`external_document_ingestions`, `run` the latest resolution run of a document, `plans` and
`events` the results, `active` the set of documents under analysis in a process's memory,
`slots` its semaphore of the language models. A statement is a step; the replacement of
the results is one step because it is one transaction. Calls of one process exclude each
other on a document, calls of two processes do not, except that a retry claims the
document in its row. `Crash` ends all calls of a process.

Abstractions: one blogger and institution, so an event's key is its target and date; what
a model answers is an input; parsing, OCR and chunking are one outcome; an article
has one document as its content. `SUPERSEDED` is a status the code never writes.

### 6.2 Run

| Run | Bounds | Checks | Shows |
|---|---|---|---|
| `documents` | 2 processes, 2 calls (one of them the article's), 1 document, 2 targets (one a sector), 2 dates, 1 slot, 1 fault, fair calls | `NoStaleEvents`, `SucceededHasOutcome`, `NothingHalfDone`, `RetryRepeatsOnlyFailures`, `ArticlesSettle` | results follow the last analysis, retries repeat only failures, nothing is left half done and every article that batches still list settles |

Two calls are any pair that overlaps on a document; two targets of which one is a sector are
the two ways events are written; the dates differ when an article's date becomes known
late. Fairness: a call goes on, and the daily batch comes back to an article that has not
settled *while its day is in the look-back* (`TakeRecent`: `openlist/client.go:152-170` lists
the days of the last `scan_lookback_days`). An article may leave it at any time
(`LeaveLookback`, without fairness), and `ArticlesSettle` then promises nothing of it: one
that was interrupted in its last batch stays as it is until an operator's `full_scan`, which
`TakeArticle` allows at any time and nothing makes happen, or a retry if its document failed.

### 6.3 Proved

`DocumentPipeline_proofs`, for any number of processes, calls, documents and faults, from
`DocumentsAssumption`. `IndInv` adds to the properties what a call knows of its document
(`CallsOK`), that a document with an outcome has been settled (`OutcomesSettled`) and that
the stored plans are those of the last commit (`PlansCommitted`): `ResultsFollowAnalysis`,
`SucceededArticlesHaveOutcome`, `NothingIsLeftHalfDone`. `RetriesReplaceNothing` needs the
lock as well (`LockInv`): a call at work has locked its document and no other call of the
process has (`LocksHeld`, `LocksExclude`), the row knows of every success
(`SuccessKnown`), and a retry that is past its look at it has seen none (`RetriesFresh`).

Model-checked only: `ArticlesSettle` (liveness).

## 7. Position cycles

`PositionCycles` has one security. An intent and its order share an id, a cycle has the id
of its BUY. `ApplyReport` folds a callback into the order and recomputes the cycle in the
same transaction (`lifecycle.go`); `ScanLists`, `ScanSnapshot` and `ScanCommits` are the
steps of `ScanExits` in each process; `Fill`, `Cancel` and `NextDay` are the provider,
with shares that cannot be sold on the day they were bought. The lane is two steps: an
evaluation takes a snapshot, compares the ledger and looks at the position (`Evaluate`,
`service.go:352-452`); a later transaction looks again at the intent, by its fence, and
for open orders only, and creates the order (`CreateOrder`, `:513-556`) or defers it.
In between the order that was open may execute, end and be reported, and the monitors go
on. Any number of processes may have an evaluation under way, of one intent each
(`evaluated`): the claims of an intent are those of `OrderDispatch`. The reasons to leave
(prices, highs, holding days) are inputs, and so is whether the provider fills or gives up
an order, or the policy refuses one.

| Run | Bounds | Checks | Shows |
|---|---|---|---|
| `positions` | 2 monitors, one BUY of 2 lots, 6 intents, 1 setback, fair | `CyclesMatchAccount`, `OneExitAtATime`, `ExitsComplete` | cycles equal the account when all reports are in, whatever their order; there is one exit at a time; what must be sold is sold |
| `positions_pyramiding` (violation) | 1 monitor, two BUYs of a lot, 3 intents, no setback | `NeverPyramids` | see the finding |

Two lots give an entry that fills while its first part is already being sold; a setback is
an expiry, refusal, deferral, cancellation or dry scan after which an exit is repeated. Six
intents are more than one BUY, its exits and their repetitions need with one setback, as
`ExitsComplete` would fail where they ran out. Fairness: the EXECUTION and EXIT lanes of
`worker.go` come round, reports arrive, days pass, an order that is not given up is
executed.

Finding: `service.go:383` refuses a BUY of a security that is held ("pyramiding is
disabled"), by the position in the snapshot. Two BUYs of one security that stem from different
recommendations pass the cooldown; the second may be evaluated while the first order is
open and has not executed. If that order then executes, and is reported, before the
second's transaction, no order is open and nothing looks at the position again: the second
BUY is created over the shares of the first. When it executes, its report would open a second
cycle, which `syncPositionCycleAfterEvent` refuses, so the report stays; its order stays
open in the ledger and lets no other be created, exits included, until somebody intervenes.

Proved (`PositionCycles_proofs`, from `PositionsAssumption`), for any number of monitors,
BUYs, lots and setbacks:

- `NoSecondExit`, by an invariant `ExitInv` of rows, live orders and reports: an order that
  can still sell has an open row (`LiveIsOpen`) because only a true end ends a row
  (`EndsAreTrue`), and so `HasActiveExit` sees every exit (`SingleExit`).
- `LedgerMatchesAccount` and `PositionsTyped`, by `BookInv` on top of it. The ledger and the
  account share no variable, so the invariant puts `Holds(b)` between them: what was executed
  of BUY b less what its exits executed. `NothingLost` ties the ledger to it (a volume the
  ledger has not is in a report, and an order stored as ended has all of its volume),
  `CyclesFollow` a cycle to its orders, `OneOwner` the account (one BUY holds all of it) and
  `LiveOwner` the order at the provider (it is the owner's, the only one, and a SELL is of
  no more than can be sold). The snapshot of a decision may be old when its order is
  created, so nothing is concluded from it alone. An order is created when none is open; then
  the ledger has been told everything (`NoOpenOrder`), whatever it was at the snapshot. A BUY
  then is the owner, because nothing is held, or a second one (`Pyramids`), of which nothing
  is stored while another cycle is open (`CreatedBuy`); once it has executed
  (`Pyramiding`) no order can be created, as it stays open. An exit that was decided on is
  covered (`EvaluatedCovered`): no other order is created until its own is, since the cycle
  it sells has the shares, and what is executed meanwhile can only add to them. The same
  lemma gives the property.
- The sums (`SoldOf`, `Frozen`) are folds. `SumIsCount` shows that `SoldOf` is the number of
  lots of a finite set of orders: the function that counts lots satisfies the fold's
  recursion, so the fold does, and on a smallest subset where the two differed it would take
  one step to a smaller one (`WFMin`, on strict inclusion). After that a step changes one
  order's volume and the sum by as much (`CountChanged`).

Model-checked only: `ExitsComplete` (liveness).

## 8. Research runs

`ResearchRuns` has the two queues (`market_data_sync_runs`,
`recommendation_evaluation_runs`), their lanes in each process, stored quotes, missing items
and metrics. Rows are claimed again after a timeout, and verdicts are written by id, by
whoever executes the run: an overtaken lane goes on and writes late. `Associate` is
`associateStockDailyProviderRows`; `Persist` is one transaction of quotes and missing
items; an evaluation reads trading days, metrics and quotes in steps of their own
(`ReadTradingDates`, `ReadMetrics`, `EvaluateEvent`) and computes with `RecommendationWindow`,
which has the arithmetic of `evaluator.go`: elapsed window, base, coverage, statuses, entry
and exit. One calculation version; a day is a trading day if any quote of it is stored.

| Run | Bounds | Checks | Shows |
|---|---|---|---|
| `research` | 2 processes, 1 sync and 1 evaluation row, 2 days, 2 shares (one listed on the last day), a window of 2 days, 1 fault, fair lanes | `SucceededIsComplete`, `ResearchRunsEnd`, `ResultsCatchUp` | a SUCCEEDED sync is complete, every run ends, and one evaluation of complete quotes makes results READY for good although late lanes may have written results of older quotes |

A row is used again once it has ended, so one row is every length of the queue. Fairness: the
lanes of a queue and the time that passes over a forgotten row, for each queue; not for each
process. Nobody has to ask for an evaluation: the scheduler asks for recommendations of the
last `lookback_days` only (`automatic_scheduler.go:205-213`), so a result that is older is
evaluated again only if an operator asks, and `CreateEvaluationRun` has no fairness.
`ResultsCatchUp` therefore speaks of a single evaluation whose range has the result: once it
is queued while all quotes are there and no other evaluation is under way (`NothingAtWork`),
all results become READY and stay READY, or the row says FAILED. The premise is needed: a
lane that read the quotes before they were complete may overwrite what a later one found.

Proved (`ResearchRuns_proofs`): `SuccessIsComplete`, from what a lane has fetched
(`FetchedIsTrue`: what it calls SUCCEEDED has a quote for every security of its day),
what it is at (`LanesAtRuns`) and what ended rows say (`VerdictsKnown`). It stands on
`Persist` being one transaction; with quotes and missing items apart an overtaken lane
breaks it. Model-checked only: the two liveness properties.

## 9. Decision runs, security master, reports

`DecisionRuns`: a run is queued for a moment (`asOf`), claimed under a lease, and decided
by an agent that calls the tools of `tools.go` one after another while clock, configuration
and tables go on; a worker may stop longer than its lease and go on. `NoLookAhead` and
`DecidedOnce` are its promises. The agent's choice is an input: any part of what was found.

What a tool reads and what bounds it:

* a page of recommendations (`ScanCandidates`, `tools.go:20-47`): rows written by `asOf` and
  dated in the look-back, below the cursor, as many as the page holds;
* for each row (`CandidateItem`, `tools.go:47-84`) the security's listing date and the days
  since (`tools.go:58-71`), which the code reads *as they are stored now*. They are the one
  kind of fact, `LISTING`, that `NoLookAhead` excepts, in so many words; so is the portfolio,
  which is the current one and is left out of the facts;
* for each row its plan by id (`tools.go:72-78`), without a bound in the query. It is bounded
  all the same: a plan is created in the transaction of its event (`document.go:543-577`),
  no statement updates the columns read of it, another document that says the same re-stamps
  the event and leaves its plan (`Restate`, `recommendation_event.go:35-51`), and a plan that
  goes takes its event along (the foreign key of `DDL.sql:238`), after which it is not read.
  So a plan is as old as, or older than, the row that names it, and `NoLookAhead` asks it of
  plans without exception; the proof's invariant for it is `PlansKnown`;
* quotes, bars and the blogger's record, each with the bound of its query.

A row carries the tick of the transaction that wrote it; a decision is asked for a moment of
`Moments` that is not in the future.

`SecurityMaster`: refreshes, each as of today or of a date that is asked for (`Begin`,
`security_master_refresh.go:197-212`), fetch seven lists one after another while the provider
changes, take the index of sectors of their date or of a day before it (`FetchSectors`,
lines 161-180), and write in one transaction. A security is active when it is listed, its
listing date is not after and its delisting date not on or before that date (`IsActive`, line
268). Its aliases are its full name and, of a sector, the variants of its name with and
without suffixes (`Aliases`, lines 294-312; the suffixes themselves are the constant
`Variants`, and a sector keeps its type). The look-up is that of `candidate_assembler.go`.

`MasterIsCurrent` is what a document may rely on after a refresh as of today that nothing
disturbed, whatever refreshes of other dates were before. It does not say that the exact name
of a sector always resolves: a variant of one sector may be the name of another, both are then
candidates (neither the exact name nor the confidence of an alias decides) and the mention is
`AMBIGUOUS`. What it says is that a candidate has borne the name or a name of which it is a
variant, and that a name that only one listed security has borne in this sense resolves to it.

`PerformanceReports`: recommendations are written and replaced, evaluations write metrics
with a copy of the date, `repair-recommendation-dates` corrects dates; rankings, summaries,
time series, ledger, export, document list and document report count the same rows, each
with queries of its own. `ReportsAgree` says that they agree. Exports read in one
REPEATABLE READ snapshot with the configuration they began with, hence one step. A
configuration that does not decode or validate leaves the old one in use, so `Reload` takes
the valid ones (`ValidSettings`). A page of a ranking is the sequence in the order of its
keys, the last of which is unique (`FinalKey`); a request sorts by one of four measures and
may ask for a least sample (`Orders`). The "current price" part of a report, price series
and page layouts are left out.

| Run | Bounds | Checks | Shows |
|---|---|---|---|
| `parts` | the three side by side: 2 deciders, 2 runs, 1 write, days of 3 ticks, lease of 1; decisions asked for the moment before a session and in it; 2 refreshers, a share and a sector, 2 names of which one is a variant of the other, refreshes as of today or the first day, a delisting date or none, 2 changes of the provider or of the day; 2 recommendations of 2 bloggers from 2 documents, windows 5 and 10, 2 versions, 4 edits | `NoLookAhead`, `DecidedOnce`, `MasterIsCurrent`, `ReportsAgree` | decisions claimed late and twice see and store nothing they should not; overlapping refreshes leave a current master; reports agree through repairs, rebuilds and configurations |

The three share no state; `Parts` composes them, gives each behaviour to one of them and
leaves the variables of the others as they are. In `MCParts` the sector begins with the name
that has a variant, the share, if it is there, with that variant as its name, and decisions
begin with a recommendation and its plan. Two changes of the provider are a rename and its
return, a listing and its end, or a new day under a refresh; two recommendations are the least
that a ranking or a key can confuse.

Proved, in `Parts_proofs`, of each module and of their composition:

* Decision runs, from `DecisionAssumption`: `NothingFromTheFuture` and
  `DecisionsAreFinal`. What a worker has read was known at its run's moment
  (`BasisKnown`), a plan was known when its row was (`PlansKnown`), its run exists (`RunsExist`), a dry run stays dry (`DryIsShadow`), and
  intents belong to the claim that ended their run (`IntentsHaveRuns`); the lemma on a
  step says that a run keeps its moment and, once over, everything.
* Security master: `CurrentAfterRefresh`, for refreshes of any dates, with the constants'
  types as its hypothesis (`MasterConstants`; the module is an instance in `Parts`). What a
  refresh of today has fetched undisturbed is what the provider has (`CalmIsCurrent`), a
  sector's only status is "listed" (`SectorsListed`), and names and variants in the tables and
  in the indexes of days before have been borne (`NamesBorne`).

* Reports: `ReportsAlwaysAgree`, for any finite sets of recommendations, bloggers, documents
  and windows, any results with integer returns and any number of edits (`ReportsConstants`;
  the module is an instance in `Parts`). The invariant is `ReportsInv`: a recommendation has a key
  of its own (`EventsKept`), only recommendations that are there have metrics (`MetricsKept`),
  a metric has its recommendation's date unless a repair overtook the evaluation
  (`MetricsDated`), the configuration names windows (`Configured`), an evaluation at work
  has loaded rows of the tables (`RunsKnown`), and a planned repair has one update for each
  recommendation and each key and is stale in nothing it leaves alone (`PlanKept`). The last is
  what keeps the keys unique when the plan is applied, and `MetricsDated` what makes a report
  by the recommendation's date and one by the metric's date count the same rows. Given these,
  the equalities of `ReportsAgree` are facts about counts and sums of the same rows: a report's
  numbers are the sums over the bloggers and windows that its rows are parted into
  (`PartsAddUp`, `WindowsAddUp`, `BloggersMakeReport`), and the export has the ranking's rows
  (`ExportRows`; as in the property, unless a repair overtook an evaluation). A page is read
  after the first one was, by a query of its own: both cut the same sequence, because the
  order of a ranking is total and so is kept by one sequence only (`OneOrder`), and the first
  row and the rows after it are all rows (`PagesMeet`).
* The composition: `MasterStaysCurrent` and `ReportsStayInAgreement`, of `PartsSpec` and
  so of the run, since a step of one part changes no variable of another.

## 10. The books

`TradingBook` relates the provider's account (executions, fees, cash, holdings) to the
service's ledger of them: callbacks with or without a fee, derivation of fees
(`commission.go`), comparison (`ledger_reconciliation.go`), import of missing executions,
acceptance of boards (`board_acceptance.go`), one-lot orders (`uat.go`) and the creation of
orders with all checks of `OrderPolicy`, which has `instrument.go`,
`policy/engine.go` and `trading_sizing.go` as operators on integers; the price is any that
`TradingPrice` accepts (`rules/trading.go:22-69`), at or off the last price.

An order is decided on in one step and created in another. `EvaluateIntent` takes the
snapshot, compares and sizes (`service.go:352-450`) and leaves a `decision`; `CreateOrder` is the
transaction of `persistDecision` (`:513-556`), which looks again only for a reconciliation
and an open order. While a decision waits, the order that was open at its snapshot may
execute, be charged, end and be reported, and cash may come in. At most one decision waits:
`accountActivity` lets a process evaluate one intent at a time. It is not shared, so two
processes may each size an order on the same cash; only one of them can be created before
the other finds it open, but after that has executed and is reported the other one is
created on older books. The properties here are about the decisions of one process.

| Run | Bounds | Checks | Shows |
|---|---|---|---|
| `book` | cash 200, a unit of 2 and of 3 shares on two boards, price 9 below a mark of 10, ratios in tenths (70 % of the account, 30 % reserved), fees 0 or 1, 3 orders, 3 executions, 2 days, one deposit of 5 | `FeesAreTrue`, `BoardsProvenFirst`, `DecisionsWithinReserve`, `OrdersOnTrueBooks` | verified fees are the charged ones, a board is traded after it was proven, orders are decided on true books only, and what was decided on is affordable within the reserve when it is created |

Three executions are a pair that proves a board and the order that may follow it, or the
partial executions among which a fee must be told apart. The unit of money is larger than
the code's tolerance of 0.02, so comparisons are for equality; the scheduler's switch may
change between any two steps and is not kept; a one-lot attempt that is refused leaves the
books alone; repairs are enabled as in the example configuration; the exemption of legacy
SH_MAIN rows is left out; the limits are such as `config.Validate` accepts.

What is not claimed: that the reserve stays after the order executed, or that the books are
true when the order is created. A holding that was bought below the last price raises the
account's value and the reserve with it, without an order; a deposit after the snapshot, and the
fees of the order that was open at it, are in the account and not in the decision. The two
properties say what is left: until the creation the cash pays for the decision and the
reserve of its own snapshot, and at the creation every order has ended and is told as it
ended, of which only the last has executed anything since the snapshot.

`TradingBook_proofs`, for all values of the constants, from `PolicyAssumption` and
`BookAssumption` (prices, units and limits are natural numbers, prices and units positive,
0 is no campaign, and the limit on all holdings leaves the reserve its room, which
`validate.go:253` enforces):

* `FeesVerifiedAreTrue`. The provider tells totals only. Amounts are positive, so imported
  executions whose amounts make up the snapshot's total, and which contain the snapshot's,
  are the snapshot's (`CoversAll`); what the verified fees leave of the total is then the
  sum of the unresolved ones (`WhatIsLeft`), which is one execution's, or nothing and so
  nothing for each. A plan written late stays true because an execution's fee never changes
  (`SnapshotIsPast`), whatever callbacks verified meanwhile.
* `TrueBooks` (`OrdersOnTrueBooks`). The comparison sees sums, and the theorem says that
  they hide nothing: an order that is not open has ended with the volume it is told
  (`ToldIsTrue`), so imported volumes that make it up are all its executions (`WholeSum`,
  `NothingMissing`); then every fee is known, and equal cash leaves no room for a deposit
  (`AgreedBooks`). From the decision to the creation only the last order can be open
  (`LastOpens`), so what executes in between is its (`DecisionStands`).
* `BoardsAcceptedFirst` (`BoardsProvenFirst`). A settled pair of rows is a settled pair at
  the provider (`PairProves`), its executions in the order of their days (`DaysInOrder`),
  and since both orders have ended no later step takes it back (`SettledStays`).
* `ReserveStays` (`DecisionsWithinReserve`). A BUY is sized from the cash that is available
  and not reserved, and rounding goes down (`BuyWithinBudget`, `DecidedAffordable`). Until it
  is created no order is; so what is uncommitted, fees given back, can only grow: an execution
  spends what was committed to it (`ExecuteUncommits`), a cancellation gives it back
  (`CancelUncommits`), a deposit adds (`DepositUncommits`), and what the service is told
  moves no cash (`UncommittedStays`).

The inductive invariant `AccountInv` is `BookInv` (these with the types, `NeverOverfilled` and
`BoardsSettled`), `DecisionStands` and `LastOpens`. A sum over a finite set is handled without induction over data: it is the
number of units gained less that of the units lost (`SumIsBalance`: on a smallest subset on
which the fold and the count differed, the fold would take one step to a smaller one), and
the library's theorems on cardinalities do the rest.

## 11. Fairness

Stated per module above: only loops that the code runs for ever (lanes, monitors, batches),
calls that go on once begun, and time. What the code does only within a look-back (articles,
evaluations by the scheduler) is not assumed beyond it. Callbacks, operators, faults, the provider (except
in `positions`, where an order not given up is executed) and the language models have none.

## 12. Running the checks

In this directory, `tlc -workers 2 -config <X>.cfg <MC module>` for the runs of
`PROJECT.json`, `tlapm <M>_proofs.tla` for the proofs. Every cfg says
`CHECK_DEADLOCK FALSE`: intents, runs, days and faults are finite, and a system that has worked
them off may stop. The inductive invariants of the proof modules were checked with TLC on
small instances before they were proved, and are properties of no run: the theorems say
more. Each proof module extends its component (`Parts_proofs` the
composition) and holds its lemmas; a theorem's comment says what it is about.

## 13. What is proved and what is not

Every safety property of the order path, the reconciliation runs, the scheduled tasks, the
documents, the position cycles and exits, the research runs, the decision runs, the
security master, the reports and the account's books is a theorem for all values of the
constants, from the named assumptions of each module; so are both refinements. No safety property of a passing run is only
model-checked.

Left to TLC: the seven liveness properties, since fairness and ENABLED are out of the provers'
reach: `OutcomeReachesLedger` and those named under "model-checked only" in the sections above.
The library's induction theorems cannot be used, as they take an operator as
a parameter; sums are reasoned about by what they count (the lots
of an order's fills in `OrderDispatch`, `SumIsCount` in `PositionCycles`, `SumIsBalance` in
`TradingBook_proofs`, and the same for integers, negative returns included, in
`Parts_proofs`).

## 14. Not modelled

Recovery of targets from a text, the observer's records of resolutions, promotion of sector
events and the initial import of securities, the parsers and OCR, the language models and
the agents' prompts, the trading dashboard, HTTP routing, the parsing and validation of
settings (a new configuration is an input of the modules that read one), the frontend, the
deployment script and log rotation, and of the trading calendar the session windows and the
arithmetic of a clock. Each is listed with its reason under "components" in
`PROJECT.json`.
