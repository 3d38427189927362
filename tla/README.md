# TLA+ models of the options advisor

The program suggests option structures on NSE indices, lets the user place them
at Zerodha, watches the open trades, and closes them by hand or automatically.
These modules model where a mistake costs money or data: placing, reversing,
booking and closing orders at a broker that answers late, partially, twice or
not at all; the monitor that watches a trade and the live feed that it depends
on; the runs that make suggestions; the morning chain that reviews and settles
open trades; and the weekly move of old rows off the live database. The paths
below are relative to the repository.

## 1. Inventory

### Parts, their state and operations

| Part | Sources | State it keeps | Operations |
|---|---|---|---|
| Leg order | `lifecycle/zerodha_executor.py` (`_place_and_monitor_leg`), `providers/zerodha/order_updates.py`, `order_pricing.py` | one row of `options_broker_orders`, the order at Kite, the loop's locals | insert row, place, poll, reprice, MARKET fallback, cancel, report |
| Entry execution | `execute_suggestion_in_zerodha` and its async form, `_rollback_filled_legs` | per-suggestion lock (process memory), completed legs, broker rows, positions | gate, place legs, roll back, alert, book, attach |
| Close execution | `close_trade_in_zerodha`, `lifecycle/auto_execution/` | per-trade lock (process memory), broker rows, positions, trade status | gate, book an already flat trade, exit legs, reopen, book |
| Execution jobs | `lifecycle/zerodha_execution_job.py` | `options_zerodha_execution_jobs` rows, a counter of active threads | submit, run, finish |
| Trade booking | `lifecycle/trade_executor.py` | suggestion status, trades, legs | `mark_executed`, `close_trade_with_fills`, `supplement_trade` |
| Reversal P&L | `lifecycle/execution_reversal.py`, `engine/reversal_pnl.py` | reversal records | pair fills, record a loss |
| Kite wrapper | `providers/zerodha/execution_facade.py`, `rate_limiter.py` | token bucket, sliding window of order times | acquire, call |
| Live risk monitor | `lifecycle/live_risk_monitor.py` | per-trade alert state: breach, cooldown, confirmation since, milestone reached, peak | tick, reload, dispatch, automatic close |
| Suggestion engine | `lifecycle/suggestion_engine.py`, `intraday_validator.py`, `resuggestion_engine.py`, `opportunity_regen_watcher.py` | suggestions, a cache of their ids, regeneration caps | evaluate, retire, choose, insert, commit; validate at 09:35 |
| Scheduler, end-of-day chain | `scheduler/scheduler.py`, `lifecycle/data_backfill.py`, `download_orchestrator.py`, `exit_orchestrator.py` ... | `options_job_log`, closing prices, trades and legs | run a job, cut it, report, chain, backfill, review, settle, sweep orphans |
| Archive and backup | `lifecycle/archive_export.py`, `sql_backup.py`, `database/archive_repo.py` | hot rows, archive rows, PENDING.json, export and hot backups | mirror, export, back up, acknowledge, delete |
| Websocket runner | `providers/zerodha/ws_runner.py`, `subscription_manager.py`, `ws_runner_control.py` | connection, subscriptions, token, a process-wide singleton | connect, reconnect, expire, resubscribe |
| Event bus, watchdog, fallback | `providers/event_bus.py`, `ws_monitor.py`, `ws_watchdog.py`, `ws_health.py`, `lifecycle/intraday_sl_fallback.py` | last tick, status file, stale flag, streak of unhealthy runs | publish, write status, check, alert, guard |
| Notifications | `notifications/` | notification rows, flags | notify |
| Decision engine | `engine/` | none | pure functions of market data |
| Database, downloaders, dashboard pages, scripts | `database/`, `downloader/`, `dashboard/`, `scripts/`, `simulation/` | tables, caches | queries, fetches, rendering |

### How they interact

Two long-lived processes share one SQL Server database and one Zerodha account:
the dashboard (a threaded web server that also runs the scheduler and its jobs)
and the ws_runner (ticks, risk monitor, automatic closes). A click becomes a
request of the dashboard, either executed in its own thread or turned into a job
with a thread and a row. A tick goes over the event bus of the ws_runner to the
risk monitor, whose alert may start an automatic close, always as a job. Entry
and close lock their target in the memory of one process only; across processes
they see each other through broker rows, job rows and the position. A leg order
is a call of the entry, of the close, or of either one's rollback. The scheduler
judges the feed by a file that the ws_runner writes. A run of the suggestion
engine is a job or a click, each with a connection of its own, and nothing
keeps two of them apart. The steps of the morning chain are jobs too; the review
writes the rows of the trades that the user may be closing at that moment. A
laptop pulls exports off the VM and acknowledges them, every 15 minutes of
trading hours until it succeeds, beside the VM's Friday jobs.

### What is hard

* an answer later than its timeout, a cancel that fails, a reply that is lost,
  an order filled in part;
* a structure half placed when a leg fails, and the reversal of that half
  failing in its turn;
* requests, jobs, a manual recording and an automatic close for the same target;
* check-then-act on the database without a constraint behind it;
* a death between an order and the row that names it, between the last fill and
  the booking, or under a job row;
* the position changed by hand at the broker between two requests;
* state in memory, in a row and in a file, each behind the others, merged by a
  thread that read one of them before it took the lock;
* a job that timed out and whose thread goes on, beside its successor;
* a feed that is silent, refused, half subscribed or dead, and the processes
  that must notice, with nothing between them but the age of a file;
* rows deleted here because they were copied there, with a death, another copy
  or another deletion in between.

### What makes each part correct

* Leg order: it returns, leaves no row in flight, reports no more than was
  filled, and leaves no order working that nobody knows of.
* Entry: never two structures for one suggestion, never an open lot that the
  database has forgotten, never a booked trade that is not held, never a short
  without its hedge outside a rollback.
* Close: never sells below flat, never reopens more than it closed, never books
  a closed trade that is still open or without exit fills.
* Jobs: a row is settled when its thread ends; one job per target.
* Risk monitor: one alert per excursion, milestones and peak that a restart
  does not lose, an automatic close tried again until it is done.
* Suggestions: one card per slot, none offered twice, one direction per run,
  warned when today's session opposes it, every run over in the end.
* Feed: an outage is alerted, the fallback takes over in time, and a new login
  reaches the connection.
* Archive: a hot row is deleted only after a merge that contains it, no leg
  without its trade, no export pending for ever.
* End-of-day chain: a closed trade is the work of one author, an ended one keeps
  its result, no job row stays RUNNING. Rate limiter: never more than the cap in
  any window.

## 2. Modules

| Module | Models | Checked by | Proved in |
|---|---|---|---|
| `LegOrder` | one call of `_place_and_monitor_leg` beside the exchange | `MCLegOrder` | `LegOrder_proofs` |
| `ZerodhaEntry` | every request to open one suggestion | `MCZerodhaEntry` | `ZerodhaEntry_proofs` |
| `ZerodhaClose` | every request to close one trade | `MCZerodhaClose` | `ZerodhaClose_proofs` |
| `Milestones` | the milestone plan and its arithmetic | through `RiskMonitor` | |
| `RiskMonitor` | the monitor of one trade with its threads | `MCRiskMonitor` | `RiskMonitor_proofs` |
| `RowTransfer` | what the archive promises of a row (abstract) | `ArchiveProtocol` implements it | `ArchiveProtocol_proofs` |
| `ArchiveProtocol` | the weekly jobs, the laptop and the acknowledgement | `MCArchiveProtocol` | `ArchiveProtocol_proofs` |
| `Decisions` | how one candidate becomes cards or a sit-out | through `CardChoice` | offers: `SuggestionLife_proofs` |
| `CardChoice` | from all candidates to the cards of one run | through `MCSuggestionLife` | cards: `SuggestionLife_proofs` |
| `SuggestionLife` | runs of the engine, the validator and the user | `MCSuggestionLife` | `SuggestionLife_proofs` |
| `FeedWatch` | the ws_runner's sessions and those who watch the feed | `MCFeedWatch` | `FeedWatch_proofs` |
| `EodChain` | the morning chain, its jobs and the trade they settle | `MCEodChain` | `EodChain_proofs` |

**LegOrder.** `ord` is what the exchange holds, one order per attempt; `row` is
the broker row; `out` is the return value or exception. Each action is the code
between two calls of the broker: `PlaceOrder`, `PlaceRaises`, `MarketFallback`,
`ModifyOrder` and so on for the body of the retry loop, `SeeComplete` ...
`DeadlineUnfilled` for the outcomes of `wait_for_order_terminal`, `Retry` and
`GiveUp...` for the exception handlers. `Fill` and `Kill` are the exchange and
may happen between any two of them. A cancel may fail and be swallowed, a
history may be unreadable, an accepted `place_order` may raise: `lost` remembers
that such a thing happened to a live order, so that the properties can say what
holds without it. REJECTED and CANCELLED are one status. Assumed: Kite reports a
price with every COMPLETE order, and database calls succeed.

**ZerodhaEntry.** Requests (`Attempts`) move through `pc`: preflight and submit
of the async form, the lock, the gate, the legs, the rollback, the booking, the
job's end. `holder` is the lock and its owner's locals are `filled`, `part`,
`undo` and `failed`. Of the database it keeps what later requests read: job rows
(`running`), whether a broker row is in flight, `unbooked` as computed by
`net_unbooked_entry_fills`, the legs with a COMPLETE ROLLBACK row, status and
trades. A leg call is two steps, its row in flight and its result, and the
result is what filled; `LegOrder` has the calls for which that is not so.
`Manuals` are fills recorded by hand; `Lapse` is an ignored or expired
suggestion; `Crash` kills the dashboard, which keeps the database and the
position and loses everything else. The exchange may have filled part of the
order in flight. The circuit breaker, quotes, margins and price bands are the
choice between `Gate` and `Refused`, and between `SendLeg` and `LegRefused`.
`unseen` and `aborted` are history variables: a partial fill that the rollback
skipped or was cut off from, and a rollback ended by an exception.

**ZerodhaClose.** As above for the close, with two processes that have each
their own lock and their own job lock: `Clicks` belong to the dashboard, `Autos`
to the ws_runner. `jobs` is a sequence because `running_for_trade` looks only at
the newest row. `SubmitCheck` and `SubmitInsert` are two steps because nothing
but a process-local lock keeps them together. `SeeFlat` is the branch that books
Kite's own fills; `SeeInventory` is the one-time check that all legs are held.
The legs are numbered in closing order; a position counts lots of the side the
leg was opened on, so that a negative one is new exposure. The user may flatten
by hand in the Kite app and the day may change (Kite lists one day's orders),
both only while no request is past its gate. `overlap` is a history variable: a
request read the account while the other process was trading. Crashes are as
in the entry, per process.

**Milestones, RiskMonitor.** `st` is the monitor's state of one trade, `row`
what the database has of it, `cfg` and `overlay` the milestone settings in the
process and in the database. `Tick` is one evaluation under the lock: the order
of the zones, the trailing milestone, the confirmation, the cooldown and the
one-shots; `out` is what it leaves for the tick thread to do after the lock is
released (`Dispatch`, `PersistPeak`, `PersistPlan`). A reload is two steps, the
read (`ReloadReads`) and the merge under the lock (`ReloadMerges`, by `Merged`),
because ticks run in between. A close is a job that ends with the trade closed
or not. Times are ages that `Pass` advances; `ago` is history: how long ago a
key was announced in this excursion. Spot-based stops, greeks beyond "stressed
or not", and the status file are left out.

**RowTransfer, ArchiveProtocol.** Rows are single values with a table and a
parent. The VM's jobs, the laptop's script and the acknowledgements are one
action per file written, command sent or batch deleted. Nothing orders them: the
laptop's task starts at 09:15, Monday to Friday, and tries every 15 minutes
until 15:45 (`pull-archive-and-merge.ps1:5-9`, :236-254), the weekly archive is
due on Friday at 09:30, the export at 15:36 and the backup at 15:38
(`config.py:151-172`); so any step may come between any two. The laptop starts
an acknowledgement without saying what it has merged; when its connection is
lost (`Unheard`) the acknowledgement goes on, beside the one of the next try
(`Ackers`). The VM may die between any two steps of an export or an
acknowledgement. `Merge` may pass over tables whose rows it cannot count, and
still succeeds.

The abstract specification sees `hot`, `kept` and `exposed`: a row is first kept
on the laptop and may then leave the live database, but for those that an
accident takes out of the promise. `ImplementsTransfer` is `INSTANCE
RowTransfer` with `exposed <- Exposed`, so that every step of the protocol is a
`Keep`, a `Drop` of a kept or exposed row, or a stutter. What is exposed is read
off four history variables: `stray`, rows archived while an acknowledgement was
deleting; `skipped`, rows that a successful merge passed over; `crossed`,
exports that ran while the laptop or an acknowledgement was at work; `emptied`,
exports whose rows were truncated after they were counted. Each of them is
needed: without it TLC finds the loss that section 6 describes.

**Decisions, CardChoice, SuggestionLife.** `Decisions` is the decision of one
candidate over classes of facts: trend, strategy matrix, walls, gates, vetoes,
fallbacks and companions, as `_evaluate_underlying` orders them. `CardChoice` is
the loop over candidates, the cap per strategy and the one card per direction.
`SuggestionLife` takes the resulting plans as data (`Outlooks`; in the instance
they are what `CardChoice` computes of two surveys of three underlyings) and
adds the database: `rows` is committed, `mine` is what a run has written, a
statement waits for rows that another run has written, up to its lock timeout.
`Cut` is the job timeout: the scheduler's thread reports the failure on the
connection that the abandoned thread still uses, so that what it wrote may be
rolled back or committed by the other. `CheckReads` and `CheckWrites` are the
validator. The dashboard serves each request in a thread of its own, and
`mark_executed` reads the card's status first and writes it last, without a
lock or a condition: `desk` has any number of requests that have read and not
yet written. `Choose` is the read, `Confirm` the write, whatever has become of
the card in between, and `Refused` a booking that fails on its other checks or a
row that stays locked. `met` is history: who overlapped whom. How the database
isolates readers is not set by the code; readers here see what is committed.

**FeedWatch.** `runner` is the process and its `KiteWSRunner`: `pc` is where
`_cmd_ws_runner` and the connect loop are, `instance` the singleton; `mon`,
`dog` and `snap` are the monitor, the watchdog and the status file, `streak` the
fallback's file in the other process. The connect loop is one action per return
of a call it makes; `Watch` is the thread that compares the session file with
the token in use; `TokenExpires` and `EnterRaises` are how a refused token ends
a session but keeps the singleton, which the process dies of at the next login
and Docker repairs. Subscriptions are the sets the wish, the manager and the
connection have. Assumed: a closed ticker makes `connect()` return and calls
back no more; an exception in a callback reaches the connect loop; the watchdog
looks at least once per unit of time. The age of the file is not modelled apart
from that of its last tick, which is older and has the lower limit. `feed`,
`told` and `blind` are history.

**EodChain.** One trade and its legs (`row`), the days whose closing prices are
in the database (`fo`), the job rows that say RUNNING (`log`) and three workers
(`work`): the chain's, one started by hand, and the thread that a time limit has
left behind. Of the chain's ten steps it has the two that a review depends on.
`FindDates` ... `AllDates` are `run_or_backfill`, whose attempts may find a
file, none, or an error; `ReadOpen` ... `Commit` are `run_exit_engine`, one
transaction (`mine`) that reads the open trades once, settles leg by leg on the
day of expiry, and otherwise writes ACTIVE; `SettlementFails` is its `except`,
which leaves the legs written so far in the transaction. `Cut` is
`_run_with_timeout`: it closes the connection that worker and job share, the
worker's next statement opens it again, and the report of the failure
(`ReportRollsBack`, `ReportCommits`, `ReportCloses`) rolls back, commits or
loses what the worker has written by then. A row of the job log is the job, the
day and, for a run by hand with a date, a number of its own; without a date it
shares the row of the scheduled run. `Nine` is the 09:00 trigger, `NewDay` the
stop in the afternoon and the start of the next morning, on time or not, `Die` a
death in between; both end in the sweep. `CloseReads` and `CloseWrites` are
`close_trade_with_fills`, and `Void` is the dashboard's void. Readers see what
is committed, writers wait up to the lock timeout. `stale` is history: who has
read the trade open that has ended since.

### Plan

Next, each with its runs; those marked * with proofs.

1. `LegCall` *: the abstract leg call that entry and close assume (a row in
   flight, then one result), which `LegOrder` implements while nothing is lost.
2. `TradeLife` *: entry, booking, `attach_trade_id`, supplement and close of
   one trade composed, with the paper channel.
3. `ExecutionJobs` *: the pool limit over several targets. `RateLimiter` *: the
   sliding window, no window over the cap.
4. `EodChain` with several trades, and calendars, whose legs expire on two days.

## 3. Runs

| Run | Question | Bounds |
|---|---|---|
| `LegOrder_rollback` | does a leg call report, record, clean up and return as its callers rely on? | 2 lots, 3 attempts, market fallback |
| `LegOrder_overfill` (violated) | do the orders of one leg fill at most its quantity? | 1 lot, 4 attempts |
| `ZerodhaEntry_requests` | is an entry never doubled, forgotten, booked but not held, or naked, and does every request end and settle its job? | 3 requests, 1 manual, 2 legs of 2 lots, 1 death |
| `ZerodhaEntry_flatten` (violated) | is a failed entry flattened or named by an alert? | 2 requests, 2 lots |
| `ZerodhaClose_safety` | does a close never oversell, over-reopen or book falsely? | 2 clicks, 1 automatic, 2 legs of 2 lots, 1 death |
| `ZerodhaClose_race` (violated) | does an exit only ever reduce a position? | 1 click, 1 automatic |
| `RiskMonitor_marks` | do peak and milestone pointer survive settings, reloads, days and restarts? | MTM 1, 2, 4; 3 settings; 2 changes or restarts |
| `RiskMonitor_alerts` | one alert per excursion, and is a failed automatic close tried again? | MTM -4, -3, -1, 2; confirmation, cooldown and retry of 1 step |
| `ArchiveProtocol_protocol` | does the protocol implement `RowTransfer`, keep legs with parents and finish what it started? | a trade, its leg and two more trades; 2 exports, 2 acknowledgements at once, 2 deaths or failures |
| `SuggestionLife_runs` | are cards single, new, of one direction per run, warned, and booked for good, and do runs end? | 2 runs of 3 kinds, 2 days, 3 underlyings; 2 in all of: requests, rounds of the validator, 1 timeout or restart |
| `FeedWatch_outages` | is a dead feed alerted and taken over, and does a login reach it? | 2 days of 4 units (session of 3), 2 logins, 1 upset; limits 1, streak 2 |
| `EodChain_mornings` | is a closed trade of one author, an ended trade left alone by whoever could have known, and is no job row left RUNNING? | 3 days, expiry on the 2nd, lookback 1, 2 legs; 1 death or late start, 1 job cut off, 1 step by hand, 1 request of the user |

Why the bounds are enough: two lots are the least with a partial fill that is
neither nothing nor everything; three attempts of a leg are a first, a middle
and a last, which the retry loop treats differently; two legs are a hedge and a
short, the order of which is the subject of `ShortCovered`; a third request can
meet the leftovers of two earlier ones (a reversal by the first is what misleads
the second). In `RiskMonitor` the values lie on both sides of every line and the
durations are the least that differ from zero; marks and alerts are separate
instances because the settings do not enter the alerts of a loss and the clocks
do not enter the marks. In `ArchiveProtocol` two exports let the second replace
the one that the laptop is merging, two acknowledgements are one that the laptop
has lost and one it waits for, two faults are a death and a retry that dies in
its turn; the rows are a trade with its leg and two trades that can be counted
for one another. Two runs are what can overlap; the two surveys of
`SuggestionLife` have cards that lose to another of their strategy, cards that
lose to another of their direction, a condor split into halves, and a card that
the session opposes. Two days in `FeedWatch` let a token expire overnight and
the watchdog's flag survive the night; the streak of 2 is the first at which a
run may be missed. Three days in `EodChain` are a morning that reviews the day
before expiry, one that reviews the day of expiry, and the start that ends it; a
lookback of 1 lets a late file be fetched a day later; with one of each kind of
disturbance a review meets another review, a cut review meets its own report,
and each meets the user. All bounds on counters are constants: `MaxCrashes`,
`MaxDisturbed`, `MaxExports`, `MaxFaults`, `LastRun`, `LastDay`, `MaxFails`,
`MaxTouches`, `MaxEvents`, `MaxLogins`, `MaxUpsets`, `MaxCuts`, `MaxHands`; ages
stop at the largest limit they are compared with. Requests of the close are
symmetric. Deadlock is not checked: all of these systems may stop, if only at
their bounds.

### What the violated runs show

* **LegOrder_overfill.** The 45-second wait ends with a TimeoutError, the order
  completes, and `_kite_order_is_dead` counts COMPLETE among the dead: the retry
  places a second order for the whole quantity.
* **ZerodhaEntry_flatten.** The first attempt fills leg 1, fails on leg 2 and
  reverses leg 1, leaving a COMPLETE ROLLBACK row. The second attempt does the
  same; `rollback_complete_for_leg` finds the first attempt's row and the
  reversal is skipped, with no alert. (The orphan guard still refuses a third
  attempt: `LedgerCovers` holds. For a partial fill it does not, which
  is what `unseen` marks.)
* **ZerodhaClose_race.** Both processes see the full position before either has
  sold a leg. (Even so, each of them sells a leg at most once.)

### Fairness

`LegOrder` assumes weak fairness of the executor as a whole: the thread runs on
and every wait ends at `order_max_wait_sec`. Nothing is assumed of the exchange.
`ZerodhaEntry` assumes weak fairness of each request that was started, because
its thread keeps running; nobody is obliged to click, to crash, to ignore or to
record by hand. `ZerodhaClose` states no fairness; it is checked for safety.
`RiskMonitor`: ticks come while the feed is live, the clock runs, the tick
thread, the reloads and a job's thread go on; whether a close succeeds, and
whether the feed stays live, is nobody's promise (`KeepsTrying` says so).
`ArchiveProtocol`: weak fairness of the export, of the backup, of the laptop,
whose task is started every weekday, and of each acknowledgement, which is a
process that runs on; deaths and failures are bounded, and nobody waits for
anybody, so that no strong fairness is needed. `SuggestionLife`: the thread of a
started run goes on (a lock wait ends at its timeout); nobody is obliged to
start one. `FeedWatch`: the process polls the session file, Docker restarts it,
the threads of a session run, and a `connect()` returns once the runner was
stopped; whether Kite lets anyone connect, and whether ticks come, is not
assumed. `EodChain`: a worker and the report of its failure go on (statements,
downloads and lock waits have timeouts), the chain goes from step to step, and
09:00 and the next morning come; nobody is obliged to start a step by hand, to
be cut off or to close the trade.

## 4. Proofs

For every quantity, retry bound and profile, `LegOrder_proofs` shows all six
safety properties of `LegOrder_rollback`. The inductive invariant `IInv` (at
the end of `LegOrder`) adds to them that orders exist only for attempts already
made (`OrdersShape`), that the order in `order_id` is the one the row names
(`OrderTracked`) and that a running call has no outcome yet (`OutcomeTracked`).
Without `OrderTracked` a report could not be compared with what was filled.

For any sets of requests, any number of legs, any quantity and any number of
deaths, `ZerodhaEntry_proofs` shows `TypeOK`, `NoDoubleEntry`, `LedgerCovers`,
`BookedIsHeld` and `KiteBookedOnce`. The inductive invariant says who is past
the lock (`LockHeld`), what the holder's locals mean at each stage
(`LocalsMeaning`), that a structure stays whole from its last fill on
(`StructureKept`), and, in `LedgerKept`, how `LedgerCovers` reads in the middle
of an attempt: a leg beyond `filled` has nothing unbooked, and the failing leg
has no more open than `part`. The argument for `NoDoubleEntry` is that a request
starts only when nothing is unbooked and no trade exists, so by `LedgerKept`
every leg not named by an alert is flat.

On top of it, `ShortInv` is inductive with `ShortCovered`: a later leg, a short,
is never larger than an earlier one, its hedge. Within an attempt this follows
from the order of the legs and of their reversals (`RollbackOrder`). What could
break it is a reversal that is skipped because an earlier attempt left a
ROLLBACK row, while the hedge's is not; so `ReversalsKept` says that a leg has a
ROLLBACK row only if the legs before it have one or still have an unbooked
fill, and with such a fill no later attempt passes the gate. Legs are counted in
execution order, so that the theorem needs no further assumption on the plan.

For any session hours, limits, streak, number of days, logins and upsets, and
any instruments, `FeedWatch_proofs` shows `TypeOK`, `BlindBounded` and
`OutageAlerted`. The invariant adds that no monitor and no file shows a tick
later than the last (`NoTickInvented`), that every run of the fallback that
guarded nothing in an outage is in its file (`BlindCounted`), and what the
watchdog's flag means (`FiredBeforeTick`, `CheckedMeansFired`): if it is set and
the alert belonged to an earlier outage, a tick has come that the check of this
unit or the next will still see. The argument for `BlindBounded` is that a feed
older than the limit makes every snapshot, whoever wrote it, too old as well, so
each run counts and the streak is never behind. `WatchStale >= 1` is used: with
a limit below the interval of the checks the watchdog could miss the tick
between two outages.

For any number of days, legs, deaths, time limits, steps by hand and requests,
`EodChain_proofs` shows `TypeOK`, `WholeUnlessCut` and `EndStays`. For the first
of these two the invariant says what every worker has written while none was cut
off: nothing but legs it settles and has not left, the trade last and only with
every leg, or ACTIVE; so a commit that closes the trade writes all of its rows.
For the second it says that `stale` contains everyone who has read the
trade open before its present end, and that a transaction of a review of another
day than that of expiry holds no leg, and of the trade nothing but ACTIVE with
the result that is recorded (`Marks`); since a second transaction that holds the
trade has to wait, that is still the recorded result when it commits.

For any sets of requests, any number of legs, any quantity and any number of
deaths, `ZerodhaClose_proofs` shows `TypeOK`, `NeverOverClosed`,
`NeverReopenedTwice`, `ClosedIsFlat` and `ClosedFromFills`. The invariant reads
the holder's locals of each process (`LocalsMeaning`). `NothingOwedTwice` says
that a leg, together with all that either process may still put back of it, is
at most what was opened; it holds even while both processes trade, which is why
`NeverReopenedTwice` needs no exception for `overlap`. `FillsKept` says that
what a process counts as closed was closed by orders at Zerodha. Unless there
was an overlap, one process trades at a time and knows what is left of each leg
(`OneTrader`), and from the moment it books the trade is flat
(`FlatOnceBooked`).

For any finite set of rows, any tables whose order puts legs before their
parents (`OrderAssumption`, what `ordered_specs` and `roots_first_for_export`
give), and any number of exports and deaths, `ArchiveProtocol_proofs` shows
`TypeOK`, `LegHasParent`, `ChunkKept` and, step by step, that the protocol
implements `RowTransfer`. There is no hypothesis on who overlaps whom: any
number of acknowledgements, with deaths anywhere. What has to be carried is that
the counts of a pending export were those of a set of rows which is still
archived, is in the `.bak`, and is on the laptop, or was passed over, once that
has merged it (`CountsKept`), unless the rows were truncated since (`emptied`).
The acknowledgement compares counts only: it deletes when those of the whole
archive are the pending ones, and a subset of a finite set with equal counts is
the whole set, so that all it deletes is on the laptop (`DeletedIsKept`), unless
the name it goes by is not the name that was merged. `OneAtATime` says when that
can be: only if the export ran across the laptop's work (`crossed`).
`FamilyArchived` and `PassedEmpty` carry `LegHasParent` through an interrupted
deletion, for all rows but those archived behind its back (`stray`).

For any values, limits, settings and durations, any number of changes and
restarts, and any set of reloading threads, where the run of the alerts has one,
`RiskMonitor_proofs` shows `TypeOK`, `AlertOncePerBreach`, `PointerNeverBack`
and, when the monitor's writes succeed, `PeakDurable`. The invariant says that
an open trade is watched and was open in every row that a reload has read
(`Watched`), that no such row has a higher peak than the monitor (`PeakKept`),
and that a condition announced and still holding is in the state's breaches
with an age no greater than the announcement's (`BreachKnown`). The attempts to
prove the two action properties showed what the run's instance hid: a closed
trade can be announced again, when a reload that read its row before the close
puts back a state without breaches; and a pointer read between the writes of
pointer and plan may lie past the plan's last level and return to that level.
Both properties now say so.

For any plans, runs, days, timeouts, restarts and requests,
`SuggestionLife_proofs` shows `TypeOK`, `OneCardPerSlot`, `NotOfferedTwice` and
`BookedStaysExecuted`, and, for plans as `CardChoice` makes them (`PlansApart`,
`PlansWarned`), `OneDirectionPerRun` and `FoughtCardIsWarned`. The invariant is
about tables: the committed rows, and for every run the rows it sees, its own
writes laid over them. Any two rows of one of these are `Compatible`, which is
what the properties say of them together with the history of their runs; and the
card that a run is about to insert is compatible with all that it sees
(`Tables`). `Locked` says that what a run has written is its own new rows or
pending rows which nobody else touches before it commits, so that laying them
over the committed rows at a commit yields a table that every other run already
saw piece by piece; `Met` orders the runs and `WrittenLate` says that a run
which still evaluates has written nothing. `BookedStaysExecuted` rests on
`Readers`: a booked card is pending no more, so that nobody who reads it takes
it up, and on `Locked`, which keeps it out of what a run has written. The proof
found that a failed run must keep `cut` in the model, since its committed rows
outlive it.

The two hypotheses on the plans are what `CardChoice` promises; the run, whose
`Outlooks` it computes, checks both properties without them. `ChosenApart`
proves of any sequence of cards that those chosen are one per direction: of two
cards of one direction, one is better or comes earlier, and only the first of
the best is kept. `AttemptsWarn` proves of any facts that each attempt, the
fallbacks and the halves of a condor included, offers its card with the warning
when the session opposes it. What lies between these and the hypotheses is that
`Queue`, which sorts, lists each chosen card once; that is an induction over
data.

The type invariants of `LegOrder`, `ZerodhaEntry`, `FeedWatch` and `EodChain`
are theorems only; those of the other modules are checked by a run too. Every
safety invariant and action property that a passing run checks is also a
theorem. The assumptions are those on the constants, named in each module and
evaluated by every run. Only model-checked: that `Queue` lists each card once;
the liveness properties (`Terminates`, `KeepsTrying`, `PendingClears`, `RunsEnd`
and so on), which the prover cannot handle; and the violated claims.

## 5. Not modelled

`PROJECT.json` gives the reason for each part. Of the parts that are modelled,
left out are: supplements to an open trade, the reversal P&L record, the
comparison of positions after fills (it only warns), margins and price bands
except as a refusal, and trades of the user at the broker while an entry or a
close is running; spot-based stops and the hourly snapshots of the monitor; the
purge of log rows and the restore of a backup; single-card resuggestions and
regeneration hints; order postbacks and tick conversion; the other steps of the
chain, with several trades and expiries in one review, and the circuit breaker;
leg building, pricing, charges and expectations, which are floating-point
functions of market data. Pages, downloads and DDL keep no protocol worth a
model.

The definitions stand for about a sixth of the implementation's lines. Most of
the rest computes, renders or parses: leg building, pricing, indicators and
expectations in `engine/`, the pages and reports of `dashboard/server.py`,
queries, DDL, configuration values, downloads, simulation and scripts. What
does keep a protocol and is left out is named above and in the plan.

## 6. Known behaviours

What the models show of the code, or were written to allow, that a reader might
not expect and that is no property of a run.

Orders:

* A row that a death leaves PENDING or OPEN, and a job row it leaves RUNNING,
  refuse every later request for the target until they are repaired by hand.
* `mark_executed` looks for an earlier trade and then inserts: two callers can
  both look first, two recordings by hand or one beside a booking from fills
  (`trade_executor.py:330`). `KiteBookedOnce` does not speak of them: it is
  about the requests that the entry's lock puts in order.
* With two lots held and one sold, the one left is not less than the one to be
  reopened (`execution_checks.py:338`): a partial exit is taken for one that
  never took effect and is not put back; the alert names it.
* `void_trade` checks nothing and closes no position; a voided trade no longer
  blocks a new entry. `supplement_trade` asks for no status, and two of them may
  overwrite each other; `execute_supplement_in_zerodha` does not ask either.
* A death between `mark_executed` and `attach_trade_id` makes the trade's
  channel "manual": `api_close_trade` then records a paper close while the
  position at Kite stays open.
* The job pool counts its threads under a later lock than it checks its limit.

End of day:

* Only the review of the day of expiry settles a trade. If that day's file is
  late or that morning is missed, a later morning downloads the file and reviews
  its own day only, for which there are no rows of an expired contract: every
  review says SUCCESS and the trade stays ACTIVE, which is what "Fix B"
  (`exit_orchestrator.py:275-282`) was written against.
* A worker that a time limit cut off does not fail at its next statement, as
  `_run_with_timeout` says (`scheduler.py:126-131`), but reconnects
  (`connection.py:170-172`) and goes on: a trade may be committed CLOSED without
  the exit prices of the legs written before the cut. `WholeUnlessCut` is false
  without its condition `cuts = 0`.
* `update_status` and `close_trade` have no condition on the status: a trade
  closed or voided after the review's read becomes ACTIVE again or is settled
  over the user's fills, and `close_trade_with_fills` overwrites a settlement in
  the same way, although it "cannot close again" (`trade_executor.py:666-669`).
  `EndStays` says that nobody else does, and that a review which does so sets
  the status back to ACTIVE but leaves the result and the exit prices, unless it
  is the review of the day of expiry.
* The message of an automatic settlement tells the user to "Review and edit
  fills via 'Close Trade' if your actual broker settlement differs"
  (`exit_orchestrator.py:336-340`). That cannot be done:
  `close_trade_with_fills` refuses a trade that is CLOSED
  (`trade_executor.py:666-669`), as `CloseReads` has it, and of the user's
  requests only a void changes a settled trade.
* `RowsSettle` takes the statements of the report and of the sweep to succeed.
  Where they fail, the error is logged and swallowed (`scheduler.py:313`, :836):
  the row stays RUNNING until the sweep of the next start succeeds.
* A settlement that fails on its second leg commits the exit price of the first
  with the status ACTIVE.
* IV is computed with an older spot when the day's is missing, and not again.

Archive:

"VM hot rows / export files are deleted only after this script has local copies
and merge succeeded" (`pull-archive-and-merge.ps1:2-3`), and `config.py:1238`
says the same. There are four ways to lose a row all the same, each a
counterexample that TLC finds when the exception is taken out of the properties:

* Stray rows: the acknowledgement compares counts once (`archive_export.py:249`)
  and then deletes every live row that is in an archive table by then. What the
  weekly archive adds meanwhile is deleted, and truncated, without a copy; and a
  family added after the legs' table was passed loses its parent first.
* Skipped tables: the merge returns from a table whose COUNT fails
  (`merge_archive_into_local.py:207-208`) and ends with 0; the acknowledgement
  then deletes the rows of that table too.
* Crossed exports: the laptop has merged one export when the next one is written
  and backed up; the acknowledgement, which is not told a name, goes by the new
  PENDING.json and deletes rows that only the new chunk has. Its removal of
  every `.bak` can also leave a new PENDING.json without its chunk.
* Emptied exports: a death between the truncation (`archive_export.py:256`) and
  the removal of PENDING.json (:260), or an export that counted before the
  truncation, leaves a PENDING.json whose rows are gone. No acknowledgement
  meets its counts until the next export replaces it, which needs new rows; and
  if other rows come to meet them they are deleted unmerged.

Risk monitor:

* If the settings change between a reload's rebinding of the plan and its merge,
  the new plan meets the old pointer, against `live_risk_monitor.py:1249-1251`.

Suggestions:

* Soft misses do not get a card: `assemble_suggestion` raises `StrategyVeto`
  whenever `all_passed` is false (`strategy_selector.py:674`), although
  `suggestion_engine.py:83` and :1162 describe cards with soft misses.
* A catalyst makes the matrix pick long volatility with IV over the ceiling,
  which `_enforce_long_vol_entry_gate` then vetoes.
* The id cache is keyed by `id(db)`; an address that is used again gives a stale
  sequence number, and the insert fails the run.
* One card per slot drops the later, possibly better candidate without a trace;
  the cap per strategy holds within one run only.
* The validator (`intraday_validator.py:264`), and a second request that ignores
  the card (`trade_executor.py:321-324`), overwrite EXECUTED with IGNORED when
  they had read the card before it was booked; the trade is there all the same.
  `BookedStaysExecuted` says that nobody else does, and nobody later.
* After a job timeout part of the abandoned thread's writes may be committed; a
  timeout between retiring and inserting loses the replacement.
* No job passes `requires=`, which `scheduler.py:12-13` describes; a rerun by
  hand overwrites the scheduled row (`scheduler.py:213-215`).

Feed:

* `watchdog_check` of the runner is called by nobody: a connection that is
  silent but open is alerted and taken over, and never reconnected.
* `_handle_token_expiry` keeps the singleton, so the next session raises and
  the process dies, where the docstring of `_cmd_ws_runner` has it wait for the
  login; Docker restarts it.
* "Twisted reactor cannot reconnect in-process", and the command continues in
  the same process nevertheless after `process_restart`.
* The controller remembers the app flag before it starts the parts and retries
  nothing (`app_controller.py:73`): a monitor whose first load failed leaves the
  trades unwatched while the feed looks healthy, against
  `intraday_sl_fallback.py:8-9`. A monitor that was stopped and started again
  has no periodic reload, because its stop event is never cleared.
* A failed subscribe is not repeated until the wish changes or the socket
  reconnects; the staleness alert is what reports it.
* Every start within the session alerts at once, before its first tick; a flag
  set in the evening silences the first outage of the next morning if no tick
  came in between; an error of the notifier is swallowed with the flag set.
* `runner.start()` replaces the process's SIGTERM handler.
* A stop that comes between the loop's check and the ticker's build leaves a
  session with the old token which nobody watches until Kite refuses it.
