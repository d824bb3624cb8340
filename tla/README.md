# CT-OS V4: a formal model of its core logic

CT-OS V4 is a trading coach for A-share investors: a FastAPI and SQLite
backend (`server/`), a web client and a mini-program.  The backend collects
bars of a watchlist, computes their structure (strokes and pivots, by the
third-party `czsc` library) in job queues, reasons about it with a language
model, tells the user in reminders, alerts and a chat, keeps the trades of the
user, and runs a paper coach for T+0 round trips on a base position.  This
directory holds TLA+ models of the parts of the backend whose correctness
depends on the order of steps, the TLC configurations that check them on small
instances, and TLAPS proofs of the results that hold for every instance.

## 1. The system: an inventory

All workers belong to one process that also serves the API (`server/app.py`):
tasks of its event loop, most of whose work runs in a thread pool.  They share
one SQLite file, and one more for each source of bars (the lakes); every
function opens its own connection, so the unit of atomicity is the transaction,
and everything between two transactions of a worker, or around an `await`, may
interleave with any other.

| part | state | operations | what must be true | model |
|---|---|---|---|---|
| **T+0 state machine** (`engines/t0/t0_state_machine.py`, `t0_friction.py`) | state, quantity, prices, stops, target, windows traded today, day's result | `tick()` (open, stop, take profit, cover, lock), `force_sweep()`, the daily reset | one trade per window; a position lies between its stop and its target; the life cycle of its docstring | `T0Friction`, `T0Machine`, `T0StateMachine`, `T0Lifecycle` |
| **T+0 engine, sweeper, ledger, endpoints** (`workers/t0_engine_worker.py`, `t0_sweeper_worker.py`, `engines/t0/t0_paper_service.py`, `api/t0.py`) | an object per symbol in memory, its row in `t0_state_cache`, the fills | the engine's round, the sweep at 14:55, recording a fill under an idempotency key, enable and disable | each decision is one fill, each long one exit; a stop ends the day; the row shows the machine | `T0Engine` |
| T+0 policy, fractals, stroke ratio, 1-minute ticker, backtest | bars of the day | pure functions; a replay drives the same machine | the filters see closed bars only | none |
| **snapshot jobs** (`engines/ai_native/czsc_snapshot_service.py`, `structure_preview_service.py`, `engines/structure/canonical_structure_service.py`, their worker) | `structure_snapshot_jobs`, the snapshots, what each worker and each client has read | enqueue, claim, stale-lock sweep, complete, skip, fail, retry, recover | a job is in one worker's hands; retries end; every job ends; a success has its snapshot | `JobRows`, `SnapshotJobs` |
| **context jobs** (`structure_context_service.py`, `pipeline_ensure_service.py`, their worker) | `ai_structure_context_jobs`, contexts, reasoning runs | the same protocol, fed by finished snapshots, two calls of the language model between commits | a success has its context and branches; a page gets the context of the bars it shows | `JobRows`, `ReasoningRuns`, `ContextJobs` |
| **scenario life cycle** (`scenario_branch_service.py`, `outcome_settlement_service.py`, `scenario_outcome_service.py`, `structure_reminder_service.py`) | branches, reminder links, outcomes | save, settle by worker or by hand, trigger, acknowledge, push | a window is settled once, and in the end; an answer is not lost; a reminder is pushed once | `Scenarios` |
| **unified reasoning** (`unified_reasoning_service.py`, `ai_trigger_service.py`, their worker) | runs, contexts, the trigger log with its cooldown | gate, ask, save in three commits, log | what is logged can be read; every symbol of the board gets its turn | `Reasoning`, `ReasoningRuns` |
| **structure chat** (`structure_chat_service.py`, `api/ai_structure.py`) | sessions, messages | answer in one reply or as a stream | what was seen is what is saved, once, in its session | `StructureChat` |
| **kline lake** (`db/kline_lake.py`, `qfq_normalizer.py`, `tdx_qfq_normalizer.py`, `source_policy.py`) | raw, adjusted and legacy tables of two sources | passes, normalisation, quick and nightly fetches, choice of a source | served bars lie on one base; days that came are served | `KlineLake` |
| **kline synchronisation** (`workers/kline_sync_worker.py`, `tdx_*`, `baostock_service.py`) | marks of the windows | the schedule, passes, forced passes, new symbols | a window is marked only for the day it was synchronised; bars that come get structure | `KlineSync` |
| **the tape of a day** (`intraday_observation_service.py`, `intraday_quote_sampler_worker.py`, `intraday_official_replacement_service.py`, the 1-minute chart of `api/data.py`) | bars in memory, preview rows, official bars | fold a quote, persist, hide, resample | the bars are made of the quotes; nothing is hidden without its replacement | `IntradayTape` |
| **synchronisations by hand** (`api/data.py`, `tdx_daily_sync_service.py`, `scripts/run_tdx_postmarket_sync.py`) | jobs in memory, batches, marks of the day files | daily job, post-market task, refresh of a symbol | no gap behind a mark; no changed level without its job | `ManualSync` |
| **decision engines** (`engines/decision/`) | none; intraday T stages | the level chain, alert rules, T signals | the views of one deduction agree | `LevelChain`, `PriceAlerts`, `PaperReplay` |
| **paper execution** (`engines/execution/`) | account, decisions, fills | a replay bar by bar | the position comes back, the base is kept, the metrics are the cash | `PaperReplay` |
| **trades and positions** (`api/trades.py`, `position_calc.py`, `trade_imports.py`, `csv_importer.py`) | trades, positions, drafts | edits, statements, drafts and their confirmation | the position is the fold of the trades; a draft is one trade | `Desk` |
| **price monitor, pushes** (`workers/price_monitor.py`, `push_service.py`, `push_rules.py`) | alerts of the day, messages | round, alert, push | one push per event; a broken line is told | `PriceAlerts`, `Scenarios` |
| **schema and start** (`db/database.py`, `db/kline_lake.py`, `app.py`) | tables, columns, indexes, lakes | schema, migrations, rebuilds, splits | any older database comes up whole, wherever a start was cut | `ServerStart` |
| structure engines, behaviour coach, auth, watchlist, language model, Kronos, bridges, front ends, scripts | rows or none | external computation, single-row requests, presentation | no protocol | none |

The hard behaviours are these: two workers that hold copies of one object; two
transactions where one was meant; a worker that stops or raises between them; a
lock that expires under its holder; a state that is changed before something
raises; a row reset from a stale read; what was read before an `await` and is
used after it; a mark that runs ahead of its data; a day that ends in the
middle.  `PROJECT.json` lists each hazard at its line with the properties that
watch it.

## 2. The plan

| step | modules | what they are for | state |
|---|---|---|---|
| 1 | `T0Friction`, `T0Machine`, `T0StateMachine`, `T0Lifecycle` | the T+0 machine, and the life cycle it implements | done |
| 2 | `T0Engine` | both workers, the ledger and the endpoints around the machine | done |
| 3 | `T0Proofs` | type, windows, brackets, the refinement of `T0Lifecycle`, the engine's books for every market; the deduction, the paper account | done |
| 4 | `JobRows`, `SnapshotJobs` | the snapshot queue with several workers and clients | done |
| 5 | `JobRowProofs`, `SnapshotJobsProofs` | what each UPDATE makes of a row; snapshots behind successes, one worker per job, bounded attempts | done |
| 6 | `ReasoningRuns`, `ContextJobs` | the chain from bars to contexts | done |
| 7 | `Subsequences`, `Scenarios`, `Reasoning`, `StructureChat` | what is told to the user, and when | done |
| 8 | `KlineSync`, `KlineLake`, `IntradayTape`, `ManualSync` | how bars come, and from which source | done |
| 9 | `Desk`, `PriceAlerts`, `PaperReplay` | trades, alerts, the paper account | done |
| 10 | `ServerStart`, `LevelChain` | migrations; the deduction over three levels | done |
| 11 | policy, fractals, stroke ratio, holding manager, backtest | pure operators against reference definitions | later |
| 12 | `ScenarioProofs` | contexts behind successes, one settlement a window, answers that stay | done |
| 13 | `LakeProofs`, `MarketDataProofs` | one base for the bars of a level; marks without gaps, full days, the tape | done |
| 14 | `DeskProofs`, `ServerProofs` | positions and drafts, alerts; the reasoning's commits, the chat, the start | done |

Abstract specifications: `T0Lifecycle` is one; a queue in which a job is one
attempt after another for `SnapshotJobs`, and a ledger that is a set of
decisions for `T0Engine`, are left for later.

## 3. The modules and the code

### The T+0 coach

**`T0Friction`** is `calculate_friction`, the round trip and the two edge tests
in integers: prices in ticks (0.01 yuan), quantities in lots (100 shares),
money in 1e-5 yuan.  The code's rounding to 1e-4 yuan is the only difference.

**`T0Machine`** has the attributes of class `T0StateMachine` that `serialize()`
writes as one record, the conditions of `tick()` as predicates
(`CanOpenLong`, `CanTakeProfit`, `RiskBreached`...) and the assignments of its
methods as operators from record to record (`OpenedLong`, `StoppedLong`,
`ReduceLocked`...).  A branch that leaves old stops or an old target behind
does so here too.  Fractals, stroke ratios, pivot and policy are arguments of
`tick()` and are inputs here.

**`T0StateMachine`** makes them actions: every branch of `tick()` in the order
of the code, `force_sweep`, and the passing of midnight; the reset on the first
call of a day is part of that call (`AtTick`).  A history variable counts the
closed positions of a window (`round_trips`).  **`T0Lifecycle`** is the
docstring's diagram of the class and "one window, one trade" without a price;
`T0StateMachine` instantiates it with `phase <- machine.state`, `window <-` the
entry of an open position and `completed <- traded_pivot_ids`, and
`KeepsLifecycle` is the refinement.

**`T0Engine`** extends it with the two workers.  `engine` and `sweeper` say
between which database calls each of them is; `cache` is the row of
`t0_state_cache`, with its `state` column apart from its `state_json`;
`ledger` is the bag of idempotency keys of `paper_fills`, whose unique key
`Recorded` keeps; `copy` is the object
the sweeper restored from the row.  `Record` and `Save` may fail, since both
workers log such errors and go on.  `Crash` loses memory and keeps the database.
A fill is "recorded" under the date of the moment its key is built, as in
`record_t0_signal`.

### Snapshots, contexts, scenarios

**`JobRows`** is one row of a job table and what each UPDATE of the services
does to it.  A reset gives the row a new job id.  **`Subsequences`** is what a
comprehension, a query with an order or an upsert leaves of a sequence of rows,
as a function of an index.

**`SnapshotJobs`** is the queue of one symbol, level and profile, one step for
each statement or transaction:

| action | code |
|---|---|
| `Ask`, `Enqueue`, `Leave` | `get_structure_preview` / `prewarm_structure_snapshots`, then the SELECT and the write of `enqueue_snapshot_job` |
| `Start` | `start()` with `recover_failed_snapshot_jobs` |
| `Sweep`, `Claim` / `NothingDue`, `Fetch` | `claim_next_snapshot_job`: the sweep's UPDATE, the BEGIN IMMEDIATE transaction, the read after its commit |
| `CheckInput`, `Compute`, `SaveSnapshot` | `compute_and_persist_structure`: signature and cached snapshot, the second read of the bars, the upsert |
| `Report`, `ReadRetries`, `WriteFailure` | `_complete_job` and `_skip_job`, the SELECT of `_fail_job` and its UPDATE, all by job id alone |
| `Raise`, `Stop` | an exception of a statement (`run_snapshot_job_sync` and `_loop` catch it); the process stops |
| `LockExpires`, `BarsChange` | ten minutes pass over a lock; a synchronisation or another source changes the bars |

Its switches: `Overruns` (a computation may outlast its lock), `Outages` (a
process may lack the czsc package), `StaleResets` (a row may change between a
client's read and its write).  The code is written for several workers (worker
ids, lock times, BEGIN IMMEDIATE, a test in which `test-worker-2` takes back a
job); the compose file starts one backend.

**`ReasoningRuns`** is the table of reasoning runs as contexts and unified
reasonings share it.  **`ContextJobs`** goes on where a snapshot is finished;
a context job is of the set of the newest snapshots of the levels:

| action | code |
|---|---|
| `Ensure`, `Regenerate` | the page's request (`pipeline_ensure_service.py`, `api/ai_structure.py`): snapshots that lack, then a context job, then a status |
| `SnapshotDone(l)`, `SnapshotFails(l)`, `BarsMove(l)` | the snapshot worker with its follow-up enqueue (`AutoEnqueue`), which takes the fresh snapshots only (`FreshSet`), and the lake |
| `ContextStep(w)` | sweep and claim, the context's facts, the first commit, the call of the model, the run, the branches, the report: one step per transaction |
| `StartContextWorker`, `ContextRaises`, `StopContextWorker`, `ContextLockExpires` | recovery at the start, exceptions, stops, stale locks |

`Overruns` as above; `Recent` is how many contexts a page looks through.

**`Scenarios`** has the branches of a context after that:

| action | code |
|---|---|
| `SaveBranch`, `CreateReminder` | the upserts, which make a settled branch ACTIVE again |
| `GetPrices`, `SettleDue` | the outcome worker: read the ACTIVE branches, await prices, settle what is due |
| `SettleByHand` | the endpoint |
| `Scan`, `AutoSettle`, `Push` | the price monitor: trigger a reminder, settle the branch it belongs to, send |
| `ReadAck`, `SettleAck`, `CommitAck` | an acknowledgement: read, settlement in a transaction of its own, the link |
| `Passes`, `StopProcess` | time; a stop or a raising statement |

`Limit` is the LIMIT of the worker's query.  A client may acknowledge at any
time, also between the monitor's two transactions, and several reminders may
refer to one branch.

**`Reasoning`** is the worker and the pages over several symbols: `WorkerTicks`,
`WorkerAsks`, `PageAsks` (the gate with `Cooldown`), `Answers` / `AnswerFails`,
`Extracts`, `SavesRun`, `SavesContext`, `AttachesRun`, `Logged`, `SaveRaises`,
and the world's `BoardChanges`, `NewSnapshot`, `TimePasses`, `ProcessStops`.  The
tables of runs and contexts are sets of rows with at most one for a symbol and
snapshot, since nothing reads their order.

**`StructureChat`** is one user's questions about one symbol, in two requests:
`Asks` and `ReadContext` (the endpoint, the context and its status),
`FindSession` / `WriteSession` (read, then insert or update), `ReadTalk` and
`ReadMemory` (the intent, the follow-up, the warning), `ReadMaterial` (what the
model is given, or a local answer), `Delta`, `Answered`, `NoAnswer`, `SendRest`
(stream), `WriteLog`, `SaveMessage`; `Raises`, `Leaves`; `SaveContext`,
`Reason`, `LoseRun`, `Remember` are others.  A text is a sequence of pieces; a
piece that begins or ends with a stop is one of its own, and `Unstopped` is what
`rstrip` leaves of it.

### Bars

**`KlineSync`** is the worker's clock: `WorkerBegins`, `PassStep(c)` and
`PassRaises(c)` of the worker's or a page's pass, `Clock`, `Publish(f)`, the
watchlist, `StopProcess`.  A pass is at a symbol of `todo` and goes through the
frequencies of the window, `freqs`, the one at `next` first.  `Feeds` says which
source is used (`tdx` or BaoStock), `OnStartup` and `Overnight` name a setting
and a slow pass.

**`KlineLake`** is what the passes read and write for one symbol: `Starts`,
`Bootstrap`, `PassStep`, `RebuildRaises` of TDX callers, `Nightly`, `Quick`,
`ThreadStep` of BaoStock threads, `World` (days and files come, an ex-right day
with them), `LakeStops`.  A bar is its day and the base its price is scaled to.
`Enough` abstracts the 30-bar rule of `source_policy.py`; `Bridge`, several
`Callers` and `Recent` open the cases of section 7.

**`IntradayTape`**: `PageReads` / `NoQuote`, `Take`, `Store`, `Persist`, `Show`
fold a quote into memory, the preview rows and a drawn chart; `StoreOfficial`,
`HideRows` replace them; `Restart`, `MinutePasses`.  `taken` is the history of
the quotes of a minute that the process took; `MadeOf` is the bar they make.
`Requesters` are the sampler and the pages.  `Threads`, `Midday`,
`OutOfOrder` switch on callers in threads, an official sync in the session and
late quotes.

**`ManualSync`**: `StartDaily`, `StartPostmarket` with its readiness,
`BeginSync`, `ReadFile`, `EndFiles`, `SyncRaises` (the transaction of many
files), `CreateBatch`, `ThenTracked`, `SyncTracked`, `PostmarketEnds`,
`DailyEnds`; a request for one symbol: `AskSymbol`, `DayFactor`, `FetchFreq`,
`WriteLocal`, `RebuildAdjusted`, `QueueChanges`, `CloseBatch`; `NextDay`,
`FileWritten`, `ManualRestart`.  `FullTogether`, `Away`, `TailRecords` name what
a mark assumes: `Away` is how many days a file may be ahead of a mark, of a
stored one or of one that the open transaction is about to store.

### Desk, alerts, paper, start, deduction

**`Desk`**: `Buy`, `CheckSale` / `Sell` (a read, then a write), `UpdateTrade`,
`DeleteTrade`, `ImportStatement`, `UploadBatch`, `EditDraft` or `DeleteDraft`
(the SELECT of an edit or a deletion) and `WriteDraft` (its UPDATE or DELETE),
`ReadBatch` / `Confirm` / `ConfirmRaises` (its reads, its transaction, and the
unique index that refuses it) over trades, one position row and the drafts.
The computation of a position is a fold over the set of trades in the order of
their times (`Before`, `Newest`).  `OutOfOrder`, `Statements` switch on trades
with earlier times and statements of the broker.

**`PriceAlerts`** extends it with the monitor: `ReadPositions`,
`GetBatchPrices`, `UpdateAndAlert` (one transaction), `ScanReminders`, `Send`,
`NoPrices`, `RoundFails`, `PriceMoves`, `Midnight`.

**`PaperReplay`**: `Step` is one bar of `paper_replay.py` with features,
decision, risk, fill at the next bar and account; `SaveResult` writes the rows.
The features of a bar name any of the parent legs, so that the context may leave
a leg and come back to it; `ParentOf` starts afresh with every change of the id,
as the code does, and the history `stay` counts these changes.  The metrics pair
the filled fills by their places: `Opening` has the odd ones, `Gain` is what an
even one makes with `LegBefore` it, `NetPnl` their `Total`.  A fill remembers in
`planned` whether it was held for a confirmation, and in `stay` where it fell.

**`ServerStart`** has the schema as a program of statements and one action per
kind: `CreateTable`, `CreateIndex`, `AddColumn`, `AddPreset` / `FillPreset`,
`Rebuild` (a transaction), the lake's `CreateKlines`, `RenameKlines`,
`RecreateKlines`, `RefillKlines`, `SplitTdx`, `SplitBaostock`, then
`DefaultUser`; `Begin`, `Ready`, `Stop`; `Book` uses a database that is up.
`Torn` allows a stop inside the sequences that autocommit.  `FoundTables` and
`FoundCache` say what tables an earlier version may have left.

**`LevelChain`** is `build_level_chain_deduction` as operators over the facts of
a day, a 30-minute and a 5-minute level, and one action (`Deduce`).

**MC modules.**  `MCLanes` runs parts that share nothing in lanes of one run
(coach, three of the replay, chain, start, tape, manual); a lane is chosen at
the start and the others stand still.  `MCT0Engine` (alone, restarts, workers,
faults), `MCScenarios` (contexts, scenarios, answers), `MCReasoning` (worker,
chat), `MCDesk` (books, alerts) and `MCKlineLake` (tdx, baostock) do likewise.
`MCLevelChain`, `MCServerStart`, `MCIntradayTape`, `MCStructureChat`,
`MCSnapshotJobs`, `MCAlikeJobs` and `MCKlineSync` hold values of constants.

## 4. The runs

| run | what it asks | bounds | result |
|---|---|---|---|
| `lanes`, lane coach | `TypeOK`, `OneRoundTripPerWindow`, `WindowsRecorded`, `PositionBracketed`, `KeepsLifecycle` | 2 days, 2 windows and one without an id, a drifting lower edge, a lost pivot, 10 lots, 2 trades a day | hold |
| lanes plain, confirmed, given | `PositionKept`; `PaperSoundInLanes` (`PaperSound`): the metrics are the cash, no stay at a leg has more cycles than its budget, no event opens twice in it | 3 to 5 bars at 2 prices, events of 2 or 3 ages, 2 parent legs that come and go, refusals, 1 or 2 cycles, confirmation of 0 to 2 bars | hold |
| lane chain | `ChainSound`: the views of a deduction agree, a higher price is no worse | all days with staleness, all 30 minutes, all 5 minutes, each with some of the other levels | hold |
| lane start | `StartSound`: a server that is up has today's schema, no row or bar is lost | a new, an early and a drifted database, with and without lakes, 2 stops | hold |
| lane tape | `TapeSound`: memory is the fold of the quotes, the lake shows it, prices were quoted, nothing is hidden for nothing | 2 minutes, 2 prices, sampler and page, 3 quotes, or 2 and a fault or a restart | hold |
| lane manual | `ManualSound`: `RowsUpToMark`, `DoneIsCurrent`, `SuccessIsQueued` | 2 files, 1 tracked symbol, 2 frequencies, 3 days, 2 jobs, 1 break | hold; the run has 814,523 states in all |
| `engine` | lane alone: `BooksOfTheEngineAlone` (`ClosedOnce`, `ClosesRecorded`, `RowShowsMachine`); lane restarts: `LongsInTurnOverRestarts` (`LongsInTurn`); lane workers: `NothingAfterStopByWorkers`; all: `EngineTypeOK`, `SweptOnce` | 2 days, 2 windows; the same, 2 restarts, failing saves; 1 day, all windows, both directions; 2 days, 1 window, 1 restart | hold, 1,863,734 states |
| `attempts` | `JobTypeOK`, `AttemptsBounded`, `OneWorkerPerJob`, `VerdictsStand` | 2 workers, 2 clients (symmetric), 2 signatures, limit 2, 2 job ids, 1 stop or raising statement | hold, 1,102,686 states |
| `outages` | `SuccessHasSnapshot`, `EveryJobEnds` with missing packages and stale resets | 2 workers, 1 client, 1 signature, 3 job ids, 1 fault | hold, 617,802 states |
| `scenarios` | lane contexts: `SuccessHasContext`, `PendingEnds`, `CatchesUpHere`; lane scenarios: `WindowsSettledHere`; lanes scenarios, answers: `OnceAWindow`, `AnswerWithAck`, `PushedOnce` | 2 levels, one with 2 versions, 1 worker, 1 event; 1 branch, 2 windows, 1 reminder, 1 client, 1 settlement by hand, stop or exception; 1 branch, 2 reminders, 2 clients | hold, 437,841 states (114,459 + 249,220 + 74,162) |
| `reasoning` | lane worker: `GeneratedIsThere`, `BoardReasonedHere`; lane chat: `ChatSound` | 2 symbols, 1 page, 3 changes; 2 questions, 2 contexts, 3 events, 1 fault | hold, 1,151,428 states |
| `desk` | lane books: `PositionIsFold`, `OneTradePerDraft`; lane alerts: `PushedOnceADay`, `BrokenIsAlertedHere` | 2 pages, 2 twin drafts, 3 trades, 1 edit; 2 days, 3 prices, 1 fault | hold, 1,142,335 states |
| `sync` | `FullDaySynced`, `BarsReachThere` | 2 symbols, 2 frequencies, 2 days, both sources, 1 event | hold, 886,115 states |
| `lake` | `TdxOnOneBase`, `BaoStockHealsHere`, `PublishedIsServedHere` | 3 days in 2 weeks, 1 ex-right day, 1 fault | hold, 522,167 states |
| `tdx`, `imports`, `tape` | one statement of the source each | the shortest that shows it | violated: section 7 |

`ScenariosSound`, `ReasoningSound`, `DeskSound`, `LakeSound`,
`ChatSound` and the other conjunctions join the type invariant of a module to
its safety invariants; each conjunct has its name, its comment and its mutant.

Why the bounds are enough.

- The T+0 machine has no counter that its branches compare except the windows
  traded, so two windows and two trades reach every pair of branches, on one
  day and over a reset; the prices are one of each region that the guards
  distinguish.  A key of the ledger can only collide with one of the same date
  and count, which two trades and two days produce.
- A retry limit of two (the code's default is three) has a first, a last and a
  forbidden attempt; two workers are the fewest that can share a job; two job
  ids have one reset, three have a reset while an older id is still in a
  worker's hands.
- One fault, event or break can fall between any two statements; a second one
  would restart what the first has left, which the lanes restarts (of the
  engine) and start do.
- Two levels are the fewest of which one can lack; two windows the fewest of
  which one can be settled and the other due; two symbols the fewest that
  compete for the worker's places; two pages and twin drafts the fewest of
  which one can read before the other writes; two reminders and two clients the
  fewest that can answer at one branch at the same time, for one reminder or
  for both.
- A replay of four bars can open, fill, close and open again, and two legs
  can be left and returned to; five give the confirmations room.
- Three days have one before, one of and one after an ex-right day, in two
  weeks; two days have a midnight; three days of files against a tail of two
  have a day that a tail leaves out.
- Two minutes have one that is closed by the next; three quotes have one that
  opens, one that moves and one that begins the next minute.

Every bound is a constant whose comment in the module says "bound"
(`MaxTrades`, `MaxRestarts`, `MaxIds`, `MaxFaults`, `Asked`, `MaxEvents`,
`MaxTime`, `MaxByHand`, `MaxChanges`, `MaxSnapshot`, `MaxEdits`, `MaxDay`,
`MaxMoves`, `MaxDate`, `MaxStops`, `MaxQuotes`, `MaxAsks`, `Bars`,
`MaxToday`, `MaxStarts`, `MaxBreaks`).  Some limits are of the MC modules: in
the lane books a purchase names no edge of a pivot; in the lane alerts one page
makes at most two trades and no edits; in the lane tape a fault or a restart
takes the place of a quote; in the lane confirmed no event has the age of the
limit itself; in the lane manual requests for one symbol come on the first day;
in the lane scenarios the client waits until the monitor is
through with a reminder; in the lane answers nothing stops, fails or is settled
by hand, and the outcome worker is at work on the first day only; in `sync` a
page forces a pass only where the local files are the source, and
the watchlist changes only where BaoStock is.

Properties that name an assumption: `BooksOfTheEngineAlone` holds of the engine
alone and not with the sweeper or a lost pivot; `LongsInTurn` without the
sweeper, for policies that only buy, while inserts succeed and pivots are known;
`SweptOnce` and `NothingAfterStop` while the process stays up; `AttemptsBounded`
and `OneWorkerPerJob` without overruns and stale resets; `CatchesUp` without
overruns; `WindowsSettled` while the ACTIVE branches are fewer than the LIMIT;
`BoardReasoned` while the board is no longer than `PerUser`; `PositionIsFold`
without `OutOfOrder` and `Statements`; `TdxOnOneBase` without the bridge, with
one caller; `StartSound` without `Torn`; `FullDaySynced` without `Overnight`;
`MemoryIsFold` without `Threads`, `Midday` and `OutOfOrder`; `RowsUpToMark`
without `FullTogether` and with no mark, stored or in the open transaction,
further behind its file than the tail. Section 7 says what happens outside of
them.

## 5. Fairness

The T+0 models have none: what is checked of them is safety, and the coach
promises nothing that must happen (no price, no tick).  The same is true of the
replay, the deduction, the tape, the chat, the start and the synchronisations
by hand.  Where there is fairness it is of three kinds: the event loop runs a
worker's loop for ever, which catches what it raises (the compose file has
`restart: unless-stopped`); a thread that was given a step takes it; time
passes.  Faults, stops and raised exceptions have no fairness and a bound: an
endless series of faults ends nothing.

- `FairJobSpec` (`outages`): weak fairness of `Start`, of each worker's steps, of
  `LockExpires` (ten minutes pass; without `Overruns` only once the holder has
  answered or stopped), and of a client's `Ask` and its write.
- `FairSpec` of `MCScenarios`: weak fairness of `Ensure` (an open page asks
  again), of the snapshots' completion, of the context worker and its locks; of
  time, and of the outcome worker's two steps.
- `FairLanesSpec` of `MCReasoning`: weak fairness of the worker's ticks and
  questions and of every step of a request that has begun, but of no answer's
  failure and of no page.
- `FairDeskSpec`: weak fairness of the monitor's steps, none of trades, prices
  or midnight.
- `FairSyncSpec`: weak fairness of the worker's start and beginnings, of each
  caller's step and of the clock.
- `FairLakeSpec`: weak fairness of a step of a pass or thread, of the nightly
  refresh, of the days and BaoStock's publication; strong fairness of a full
  pass of the worker, since short passes of pages may begin in between.

## 6. What is proved

Each theorem is about every value of the constants; its condition, where it has
one, is an assumption of the theorem and named below.  The modules hold the
assumptions on constants, which TLC evaluates in the runs: that bounds are
naturals and quantities and prices positive (`T0QtyAssumption`, `DeskBounds`,
`AlertBounds`, `TapeBounds`, `LakeBounds`, `PaperAssumption`...), that sets of
names do not meet (`NoIdAssumption`, `SyncAssumption`, `UsersAssumption`), that
windows come in an order and reminders have candidates (`WindowsAssumption`,
`RemindersAssumption`), and what an older version has left (`OldRowsAssumption`:
rows of positions are calibrated ones; `StartAssumption`: databases and lakes).

**`T0Proofs`**, the machine, for every set of days, windows and tick arguments,
every quantity:
- `TypeCorrect`: for each operator of `T0Machine` one lemma gives the type of
  what it returns, then one step per branch.
- `WindowsAreRecorded` and `OneWindowOneTrade`.  "At most one trade in a
  window" is not inductive: nothing in it says why the next exit is not of the
  same window.  `WindowsRecorded` is the strengthening: the marks are exactly
  the windows closed, and the window of an open position is not among them.
- `PositionsAreBracketed`.  That a long's target lies above its entry follows
  from the edge test, since friction is positive (`EdgeIsPositive`); that a
  short has no stop and a flat machine no entry must be carried through every
  branch, the daily reset included.
- `LifecycleIsKept`: `Spec => KeepsLifecycle`, the refinement of `T0Lifecycle`.
  The initial states map to its initial states; a branch that opens maps to an
  opening, one that closes to a close, a lock to a lock, the first tick of a
  later day, whatever branch follows its reset, to the start of a day, and
  everything else to a stutter, with `TypeOK` and `WindowsRecorded` telling
  that the abstract guards hold.

The engine, for every market, number of windows and days:
- `EngineTypeCorrect` and `DaysAreSweptOnce` hold with all events of the
  environment.  `EngineInv` treats the ledger as a set of keys of
  which each is there once (`OneEach`), dates them (`Dated`: no key is of a day
  to come, so that a midnight frees the day) and says in `SweepInv` that a sale
  of today is known to the sweeper, by the day's mark or because it is about to
  set it.
- `NothingOpensAfterStop` (`StaysUp`, `NoRace`).  `DayInv` ties today's keys to
  the object: their counts are ones it has reached, a stop among them is what
  it stands locked on.  A restart breaks it, since the row may be older than
  the ledger; so does a midnight between tick and record, because the key takes
  the date of the moment of recording.  The sweeper, failing writes and
  toggles are allowed.
- `LongsAreClosedOnce` (and without the sweeper, `NoSweeper`).  `CloseInv`: no
  key closes the long that is held or whose closing fill is on its way.  The
  sweeper breaks it by selling a copy.
- `ClosesAreRecorded` (`StaysUp`, `NoRace`, `RecordsSucceed`, `PivotsKnown`).
  `HeldOrClosed`: a long of today's ledger is held, or its close is on its way
  or there.  A take-profit without a pivot raises after it has changed the
  object, and an insert that fails is swallowed: both lose the fill, hence the
  two conditions.
- `LongsOpenInTurn` (`NoRace`, `NoSweeper`, `RecordsSucceed`, `PivotsKnown`,
  `LongsOnly`), with any number of restarts on any number of days, failing saves
  and toggles: `EngineSpec => []LongsInTurn`.  A process that stopped between a
  fill and its row trades on from the older row, under counts that are in the
  ledger already.  `TurnInv` says that what the object in memory has counted is
  in the ledger, each long with its opening and, but for the one that is held, a
  close (`Accounted`), up to the fill on its way (`OnItsWay`); and the same of
  the row, because a fill is recorded before the row is written.  So a long that
  is new to the ledger comes behind longs that are booked and closed (`InTurn`),
  and one that was lost from memory is booked under its own key again.
- `RowsShowTheMachine` (`OnlyEngineWrites`: no sweeper, toggle or failing save)
  holds across restarts and midnights.

The deduction, for any sequences of points, prices and centres:
- `DeductionsAreSound`: `ChainSpec => []ChainSound`.  One lemma names the status
  that the branches of the deduction come to (`StatusOf`); the views follow
  branch by branch.  That a rise fails nothing is `NoRiseBreaks`: the boundary
  moves up to the centre's upper edge only where the price is above it already.
  The latest point is a CHOOSE, and that there is one is proved with the
  well-founded order of the naturals (`LeastNatural`).

The paper account, for every quantity, base, budget, fee and sequence of bars,
refusals and features:
- `PositionIsKept`: `PaperSpec => []PositionKept`: a flat replay holds what it
  began with, an open one Qty more or less, and the protected base is not
  sold.  `PositionKept` is inductive because it carries the stage with the
  account: a T is open or planned, not both, and knows its side.  There is a
  lemma for a fill of each side and for each way the stage moves on.
- `ReplaysAreSound`: `PaperSpec => []PaperSound`, which the run states as
  `PaperSoundInLanes`, with the constants of each lane.  `MoneyInv`: the number
  of filled fills is odd exactly while a second leg is owed, the last of them is
  then the first leg, and the cash is the start, the metrics' net profit and
  what that leg brought.  That a further fill adds its gain to the profit and
  changes no other pair is `ProfitGrows`, over sums of any length
  (`SumsAreSums`, by the least counterexample).  `ParentInv`: of the cycles of
  the present stay at a parent leg all but the open one are charged to it, and
  an earlier stay is not added to.  `EventInv`: what the legs filled in this
  stay have used is consumed.  Legs come and go as the features say.  A fill
  that waited for its confirmation is outside of `EventOpensOnce`: section 7
  says why.

**`JobRowProofs`** holds what the two queues share: a lemma for each UPDATE of
`JobRows`.  **`SnapshotJobsProofs`**, for any number of workers, clients and
signatures, any retry limit:
- `TypeCorrectJobs` and `SuccessesHaveSnapshots`, with all switches on or off.
  The inductive invariant `Inv` adds that a worker with a job in hand works on
  a signature, that what it is about to save was computed from bars, that a
  failure has an error code, and that a worker about to report a success has
  the snapshot behind it, since a snapshot is written before it is reported and
  never taken back.
- `AttemptsAreBounded`, `OneWorkerAJob` and the action property
  `VerdictsAreKept` (`Punctual`: no computation outlives its lock, no client
  writes over a row that changed since it read it).  `LockInv` adds `Locks`,
  that the claim of a busy worker is the row's present lock, and `Attempts`,
  that every claim of an id but the running one has been counted.  Neither
  bound is inductive without the lock: a second worker's verdict would count
  for a claim that is not its own, which is what `Overruns` shows.

**`ScenarioProofs`**, for any levels, workers, branches, windows, reminders and
clients.  It begins with lemmas about `Subsequences`: what such a sequence
holds, that it holds it once and in order.
- `ScenariosTyped` (types and `PushedOnce`) and `SettledOnceAWindow`.  One
  settlement a window is not inductive: between the read of the branches and
  the insert stands an await.  `ScenarioInv` says what a pass has in hand: the
  windows it is about to insert have no row of that branch, since nobody else
  inserts into them and the worker does not begin another pass.
- `AcksCarryAnswers`: `ScenarioSpec => AnswerWithAck`, an action property without
  a condition: any number of reminders of one branch, clients that answer at
  once, answers between the monitor's two transactions, stops and failing
  statements.  `AckInv` follows an acknowledgement through its steps: the
  branch that it found is one of the reminder's, and has an outcome of the kind a
  reminder settles by the time the answer is written; the status that the UPDATE
  of the link asks for keeps a second answer out.
- `SuccessesHaveContexts`, whatever overruns its lock: `ContextInv` carries with
  a worker that is about to report a success that its branches are there.
- `ScenariosAreSound` joins them for the two lanes of the run.

**`MarketDataProofs`**, for any files, symbols, frequencies, days, minutes and
prices:
- `ManualTypeCorrect` and `SuccessesAreQueued` without conditions; the second
  with `QueueInv`: only the factors may have been written and not be queued.
- `MarksLeaveNoGap` (`MarksAreNear`: no full synchronisation beside another,
  `Away <= TailRecords`): `ManualSpec => []ManualSound`.  `MarkInv` says of the
  stored rows and of the open transaction alike that there is a row for each
  day up to a mark and that the mark is near its file, that a full job is
  alone, and that the marks have passed what a job remembers and what it has
  done.  The proof has moved the condition: it had been stated for stored marks
  only, which let a job store a mark from a file that had grown on since.
- `SyncTypeCorrect`, and `FullDaysSynced` (`~Overnight`), an action property: a
  step that marks a full window marks the day on which its pass began, and the
  lake has what could be fetched then, but for what failed.  `WorkerInv` says
  it of a pass on its way: each symbol and frequency is done, has failed or is
  still to come.
- `TapeIsSound` (`~Threads`, `~OutOfOrder`, `~Midday`).  The four properties are
  about the time between the steps of a request: `FoldInv` says that the rows
  of the one request that has not stored yet, and memory otherwise, are the
  fold of all quotes taken (which come in order); `TapeLakeInv` that only the
  minute in hand is behind in the lake; `PriceInv` that each bar is within the
  prices of its minute; `HiddenInv` that rows are hidden behind a whole official
  day.

**`LakeProofs`**, for any trading days, weeks and ex-right days:
- `LakeTypeCorrect` whatever overlaps, and `LevelsOnOneBase` (`OnePass`: one
  pass at a time, no bridge).  `BaseInv`: a level has bars of raw days only, and
  a pass about to write holds a factor of one base for every raw day; so each
  level it writes is replaced as a whole, wherever it stops before the next.

**`DeskProofs`**, for any drafts, pages and sizes:
- `DraftsAreBookedOnce`: `DeskSpec => []OneTradePerDraft`.  `BookInv` adds that
  trades have the ids handed out so far, and that what a page has read is of
  distinct drafts and, as long as nothing was edited or deleted, of drafts that
  exist; the unique index is what keeps two pages from booking the same draft,
  and the theorem shows that the status follows.
- `DeskIsSound` (a page is there, `~OutOfOrder`, `~Statements`): the row of
  positions is the fold of the trades and an alert is pushed once a day.  The
  fold is a recursion over finite sets of trades ordered by time; that it is
  one, and that a trade newer than all others is its last step, is proved from
  the least counterexample.  `PositionInv` says how the row follows the trades,
  `AlertInv` that what a round is about to send is recorded and not yet sent.

**`ServerProofs`**, the reasoning, for any watchlist, pages, cooldown and places:
- `GeneratedCanBeRead`: `ReasoningSpec => []ReasoningSound`.  The three commits
  and the log of a request are not one transaction; `SavesInv` says why that is
  well: only one request is between them at a time (no `await` stands there),
  its text is the latest, so that no upsert loses a newer one, and what it has
  passed is in the tables.  A stop or a raising statement ends the request and
  leaves rows that no log speaks of.

The start, for every database and lakes that `StartAssumption` admits:
- `StartsAreSound` (`~Torn`): `StartSpec => []StartSound`.  The program of a
  start is put together of chunks; a lemma for each says which statements it
  has and that they come after what they need.  `StartInv` then says of the
  statement at hand what the code relies on: what stands before it is done
  (`Past`), no table, column or row has gone (`TableInv`), the cached rows have
  their preset once it was filled (`PresetInv`), and the bars of the lakes are
  in `klines`, in the table they are being moved from or in the old lake that
  is still to be split (`LakeInv`).

The chat, for any questions, contexts, words of the model and numbers of
questions, events and faults:
- `ChatsAreSound`: `ChatSpec => []ChatSound`.  `RequestsInv` says of a request at
  work what is its own: an open question that the other request has not
  (`OwnAsk`), a session that exists, since none is deleted (`OwnSession`), the
  context and the subject it has read, which stay true while others add
  messages, contexts and reasonings (`OwnContext`), and its answer
  (`OwnAnswer`).  Of an answer on its way it says that what the client has seen
  and what is left to send fit the text that will be saved (`Fits`): they end
  with it, are it without a warning, and have the disclaimer.  That holds
  although the stream trims a stop from the text it has already sent and may
  send the warned text a second time; the lemmas about pieces say what
  `Trimmed`, `Warned` and `Rest` make of any text.  `MessageInv` says of a saved
  message what nothing takes from it any more.

Four lane properties, `BooksOfTheEngineAlone`, `NothingAfterStopByWorkers`,
`LongsInTurnOverRestarts` and `PaperSoundInLanes`, name the same formulas for the
constants of their lanes, which satisfy the conditions of the theorems.

So each safety property of a run is stated by a theorem, or is one of these four.

Out of the prover's reach for good: liveness under fairness (`EveryJobEnds`,
`PendingEnds`, `CatchesUp`, `WindowsSettled`, `BoardReasoned`,
`BrokenIsAlerted`, `BarsReachStructure`, `BarsReachThere`, `BaoStockHeals`,
`PublishedIsServed`) and ENABLED.  No module uses a RECURSIVE operator; folds
are recursive functions, and what they compute is proved where a theorem needs
it by taking the least case in which it would fail.

## 7. Statements of the source that do not hold

Three have a run whose only property is the statement:

| run | statement | what happens |
|---|---|---|
| `tdx` | `kline_sync_worker.py:756`: after a synchronisation of klines comes the snapshot, then the context; `tests/test_watchlist_data_sync.py:344` reads the result of the pass | `_sync_all_symbols_from_tdx_local` adds to `intraday_replaced` (`:559`) and returns it (`:606`) without ever setting it: every pass raises after its bars are written, no structure job follows, the window is not marked |
| `imports` | `database.py:803`: the migrations are for existing databases; `tests/test_trade_import_migrations.py:66` has one without the import columns | the schema script runs first and its unique index over `import_draft_id` (`database.py:465`) raises "no such column": the server never comes up on such a database |
| `tape` | `intraday_observation_service.py:264`: the rows are persisted so that a restart can go on with the tape | only the row of a quote's own minute is written, as FORMING; after a restart the earlier minutes are taken for unfinished and the closed 5-minute bars lose them |

Others were met while modelling; a switch or constant in brackets shows them.

*T+0 coach.*
- A short is to use only the sellable base (`t0_engine_worker.py:140`); the base
  is read from the positions each time (`:141`) and the day's own paper shorts
  do not lower it.
- A take-profit while the pivot is lost formats `None` after the position was
  closed: the exception loses the fill (`ClosesRecorded` with a lost pivot).
- The sweeper sells a copy, the engine's object still holds the long and sells
  it again under another key (`ClosedOnce` with both workers).
- Fill and row are two transactions.  A restart in between forgets that a stop
  ended the day and may open again (`NothingAfterStop` with restarts); the exit
  decided again may be another one, so that a long is both sold and stopped in
  the ledger (`ClosedOnce` with restarts); and on a symbol that also sells short,
  a short may open under the count of the long that was forgotten, which is then
  never closed (`LongsInTurn` without `LongsOnly`).
- The edge test says "more than twice the friction" (`t0_state_machine.py:733`)
  and takes the friction per share of the configured quantity; a scaled
  position pays the five yuan of commission on fewer shares (`:311`).  The
  early cover that is to "lock the profit" (`:634`) compares prices without
  costs (`:635`) and can book a loss one tick below the sale.
- Nothing keeps the engine from opening after the last sweep
  (`t0_engine_worker.py:81`); the next reset drops that position without a
  fill.  `disable_t0` "resets the cache to IDLE" (`api/t0.py:175`), but only its
  columns (`:176`).  A replay records historical days under today's date and
  meets its own keys (`t0_backtest.py:339`).  The ticker imports a function
  that does not exist (`t0_kline_ticker.py:114`) and swallows the error.

*Snapshots and contexts.*
- "Every job has a retry limit"
  (`AI_NATIVE_V5_OPTIMIZATION_ARCHITECTURE.md:843`): the sweep's increment is
  lost between SELECT and UPDATE of `_fail_job` (`czsc_snapshot_service.py:827`)
  when a computation outlasts its lock (`Overruns`).
- A job SKIPPED as stale is returned as it is when its bars come back
  (`czsc_snapshot_service.py:202`): the page asks for ever and nothing is
  enqueued (`AI_NATIVE_V5_PHASE1_ENGINEERING_PLAN.md:404`).
- Signature and bars are read apart (`canonical_structure_service.py:115`,
  `:133`): a snapshot can be filed under another signature.  A client that has
  read an ended row resets one that is RUNNING by now
  (`czsc_snapshot_service.py:149`, `:178`); between a claim's commit and the
  read after it (`:608`) that gives two workers one job id (`StaleResets`).
- The cutoff of stale context jobs is text in the local time zone
  (`structure_context_service.py:573`) and compared with Shanghai lock times:
  elsewhere a lock expires at once or hours late (`Overruns`).
- A reasoning run goes from SUCCESS to THINK_SUCCESS and may end as FAILED while
  its text was there (`structure_context_service.py:1083` against
  `AI_NATIVE_V5_REASONING_RECOVERY_TASKS.md:261`).

*Scenarios and reasoning.*
- The worker never sets `expired`
  (`AI_NATIVE_V5_OPTIMIZATION_ARCHITECTURE.md:574` against
  `outcome_settlement_service.py:51`); with more ACTIVE branches than the LIMIT
  the later ones are never looked at (`Limit`).  Saving a context anew makes a
  settled branch ACTIVE again, and so does a settlement that was pending when
  another had ended it.
- An answer is on the latest outcome when it is accepted (`AnswerWithAck`) and
  does not always stay there: the answer to another reminder of the same branch
  replaces it, and so does the settlement that a second, refused acknowledgement
  made before it was refused (`structure_reminder_service.py:234`); where the
  reminder is acknowledged between the monitor's two transactions, the monitor
  settles the branch once more behind it (`:584`), and the answer is on an
  outcome that is not the latest.  The memory profile is computed from a read
  that may be stale when two settlements overlap.
- With `PerUser` below the length of the board the later symbols get no turn
  (`v5_unified_reasoning_plan.md:384`).  Two requests pass the gate of one
  cooldown together; the answer for an older snapshot may be saved last and is
  then shown as the latest (`unified_reasoning_service.py:993`); a stop before
  the log loses the log, and with it the cooldown (`ai_trigger_service.py:94`).

*Chat.*
- With an active warning the stream sends the whole warned answer once more:
  `warned_text.replace(answer_text, "", 1)` takes nothing away when the warning
  stands before the disclaimer.  `SeenIsSaved` speaks of the end of what was
  seen.
- Two first questions at a time make two ACTIVE sessions; `latest_context_id` may
  go back; the data status is read after the context and may be of a newer one;
  reminders compare with the price of the snapshot and not of the quote; an
  error, an empty answer or a client that leaves saves no message.

*Desk and alerts.*
- `tests/test_trade_import_api.py:83` has a confirmation that is idempotent.  It
  is so one after the other; of two that overlap, or of a batch whose booked
  draft was edited in between (the PATCH makes a CONFIRMED draft a DRAFT again),
  the later one meets the unique index and raises (`ConfirmRaises`).  An edit or
  a deletion that has read a draft before it was confirmed still writes it
  (`trade_imports.py:124`, `:170`): a booked draft is a DRAFT again, or gone,
  which is why `OneTradePerDraft` speaks of the status only while nothing is
  edited.  After such an edit the whole batch can be confirmed no more, only
  drafts chosen without it.  A duplicate that was uploaded without a symbol is
  BLOCKED (`trade_imports.py:313`) and becomes a DRAFT when it is given one:
  nobody asks for the acknowledgement of `:213`.  Of a batch confirmed in part
  the status stays PENDING unless the rest is confirmed or the last confirmation
  comes after the rest was deleted.  Taking back an acknowledgement has no
  effect.
- `database.py:120` calls a position computed from the trades: a backdated trade
  (`OutOfOrder`) or a statement whose dates are text in another form
  (`Statements`) moves the row by the order of writing; recalculation drops a
  row that was calibrated by hand (`position_calc.py:112`); a row made anew
  loses its `zg`; sales that overlap are clamped at zero; an edit of a sale is
  not validated; statements are not compared with what is booked.
- No code under `src/server` writes `stop_loss_price` or `trailing_stop_price` of
  a position, so the watchdog of `README.md:12` has lines only in rows of
  another origin.  `dedupe_node` and `cooldown_hours` of the rules are not used;
  a second line broken on a day is silent; an alert that was committed is not
  sent if something after it raises.

*Bars.*
- A window is marked with the date after the pass, which over midnight is a day
  that was not synchronised (`Overnight`); a fetch error or a late publication
  marks it all the same (`kline_sync_worker.py:434`).
- With the bridge only rows after the last adjusted day are taken, so that after
  an ex-right day the series stays on two bases (`Bridge`;
  `qfq_normalizer.py:4`). Two overlapping passes leave older factors over newer
  ones (two `Callers`).  A quick BaoStock fetch tears older rows from newer
  ones, and nothing heals it while `BAOSTOCK_AUTO_SYNC` is off, its default
  (`baostock_service.py:386`).
- `adjusted_bars` keeps older rows of a week whose last day moved
  (`kline_lake.py:772` against `:1254`, `OneRowPerWeek`); only the last day is
  derived from minutes, so that a day that was missed leaves a hole
  (`kline_sync_worker.py:545`, `tdx_minute_service.py:322`, `ChainHasEveryDay`);
  a day row derived in the session is not corrected.  Both properties are stated
  in `KlineLake` and checked by no run, since they fail.  `lake_meta.py` deletes
  bars and marks, and leaves `adjusted_bars`.
- The tape: callers in threads lose a quote (`Threads`; the chat runs its loop in
  a pool thread); an official sync at midday hides minutes that it has no bar
  for (`Midday`); a quote after the close shows a hidden row again, over the
  official bar; the first quote after a restart overwrites the open of its
  minute; a late one opens an older minute (`OutOfOrder`); the sampler's sixty
  symbols in the order of their names may leave out holdings.
- Synchronisations by hand: an incremental daily job beside a full one after the
  close writes marks without the older rows (`FullTogether`), a mark further
  behind than `TAIL_RECORDS` leaves a gap (`Away`), also a mark that is born late
  from what the file held when the job read it; a page that reads a lagging
  file writes its derived row over the official one of a day that is marked; the
  refresh of a day factor queues no day structure; a batch stays `running` after
  a stop; and since the pass of `tdx` raises, a run after the close with tracked
  symbols never ends with success.

*Paper replay* (called from its tests only).  A first leg that waits for a
confirmation is never cleared when its parent leg goes; when it comes it does
not look at the parent's direction or budget again and does not use up its own
event.  `paper_intent_{trade_count + 1}` is the same id after a NOT_FILLED, so
INSERT OR IGNORE loses the later fill's row.  A BUY first without sellable
quantity cannot close.  `trade_count` is never reset at midnight.  The risk
check leaves out costs, so the cash may go below zero.  A cycle is charged to
the leg of the moment of closing.  Budget and consumed events last for a stay at
a parent leg and not for the leg: `parent_context_from_features` starts afresh
with every id other than the one before (`intraday_t_strategy.py:280`), and the
id holds start and end of the last stroke (`intraday_t_features.py:218`), so
that a leg that extends, and one that comes back when a broken stroke is taken
away again (A, B, A), has its whole budget and may open with an event it has
used.

*Start* (`Torn`).  The rename of `klines` autocommits: a stop before the refill
loses all bars while their marks stay.  The split of the old lake commits TDX
before BaoStock (`kline_lake.py:301`).  `engine_preset` is added with
autocommit and not filled when a stop comes between (`database.py:1414`).  A
migrated `paper_feature_cache` keeps its former column NOT NULL, so that every
save into it fails (`paper_feature_cache.py:119`).

*Level chain* (used by its tests only).  A first buy that forms below the
centre of the 5 minutes is shown with a boundary that is broken already; a
trigger stays confirmed when a sell point follows on the 5 minutes; the plan for
downward pressure may lead beside a confirmed trigger.

## 8. What is not modelled

Outside for good: the prompts and the language model, `czsc`, Kronos and the
data bridges (external computation), the front ends and scripts other than
`run_tdx_postmarket_sync.py`, endpoints that read or write a single row
(behaviour, auth, watchlist, screening).

Left for later: the T+0 policy, fractals, stroke ratio and backtest; the
position coach and the holding manager; how a context's facts, a card of the
unified reasoning, the views, the hydrators and the bootstrap are put together
(`structure_context_service.py`, `unified_reasoning_service.py`,
`structure_view_service.py` beyond their transactions): read-only assembly, of
which the models keep the name of the result.

Within the modelled parts: priorities and reasons of jobs (they only order
claims, and a claim here takes any due row), `next_run_at` (always the moment
of writing), the status CANCELLED (handled and never set), the account
bookkeeping and the metrics of the T+0 ledger, reading endpoints, the texts of
reasons and answers, the memory profile, fees of trades, prices of bars (a bar
is its day and its base, or the quotes it was made of), the 5000-row limits of
the lake's queries, the formats of files and of HTTP.
