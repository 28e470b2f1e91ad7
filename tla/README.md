# A verification project for poly-marketmaker

poly-marketmaker runs a market-making strategy on Polymarket for one or more
wallets. A web console starts and stops an engine; the engine scans the markets
for candidates, places resting buys in them, watches for fills, takes the
profit or stops the loss of the positions that come about, and keeps a record
of what it did. There is one process; everything is Python threads over shared
objects, SQLite, and HTTP calls that are slow, may fail, and may come late.

This directory holds TLA+ models of that program, the TLC configurations that
check them on small instances, and TLAPS proofs of what matters most. Paths
such as `engine/manager.py` are relative to the repository.

## 1. The system

| component | source | state it keeps | operations |
|---|---|---|---|
| Engine lifecycle | `engine/manager.py` EngineManager, WalletWorker | `_engine_generation`, `_stop_event`, `engines`, the scanner thread, the placement pool, a monitor thread, event and `running` flag per worker | start_all, start_monitors, start_wallet, stop_all, restart_all, stop_wallet, cancel_all_buy_orders, place_all_orders, test_place_orders, `_scanner_loop`, `_place_round`, `_place_one`, the monitor loop |
| Fill detection | `engine/monitor.py` OrderMonitor, Step 1 | `_after_ts`, `_seen_fill_keys`, `_prime_pending`; trade_history and actions tables | init_watermark, `_prime_seen_keys`, startup_recovery, check_buy_orders, `_handle_fill` |
| Market cooldown and placement pass | `engine/manager.py` place_orders, `engine/monitor.py` check_exit head, `engine/scanner.py` prefilter_for_template | the cooldowns table, the book's open buys, the pass's snapshots | `_handle_fill`, `_renew_position_cooldown`, prefilter_for_template, dropout cancellation, the per-market and per-side loop of place_orders |
| Scans and the pool | `engine/manager.py` start_scan_async ... `_discover` | scan_status, eligible_markets, last_scan_time, `_scan_generation` | start_scan_async, `_run_scan`, scan_markets, `_scan_with_status`, `_discover`, `_should_discover`, `_reset_discovery_cache` |
| Market scanner | `engine/scanner.py`, `categories.py`, `tiers.py` | the pool's entries | discover_candidates (queries by category, gates, `_use_market_level_details`, precise rewards), `_active_templates`, prefilter_for_template, book_eligible |
| Exit logic | `engine/monitor.py` Steps 3 to 5, `take_profit.py`, `liquidation.py`, `resolution.py`, `eligibility.py` | sells on the book, positions, balance | `_exit_prefetch`, check_exit, `_exit_position`, `_market_dump`, check_sell_orders, check_low_balance |
| Buy guards | `blacklist_ops.py`, `resolution.py`, `rewards.py` and their users in `engine/monitor.py`, `manager.py`, `scanner.py`, `web/routes.py` | the blacklist, the pool's rewards | api_add_blacklist, check_resolution, `_check_compliance`, update_market_reward, the looks of place_orders |
| Ladder, sizing, reconciliation | `laddering.py`, `legacy_wall.py`, `order_sizing.py`, `strategy.py` | none | compute_market_single_orders, reconcile_buy_orders |
| Profit ledger | `pnl.py`, `pnl_ledger.py` | daily profit table; per worker `_last_pnl_date`, `_pnl_rebuilding` | rebuild of the daily ledger once a Beijing day, FIFO matching of buys with sells |
| Weekly report | `engine/manager.py` `_maybe_push_weekly`, `notify.py` | last week pushed, `_pushing`, `_push_retry_after` | assemble, send, remember, retry |
| Small helpers | `market_links.py`, `monitor_status.py` | a display buffer | look-ups |
| Exchange client | `api/` | an authenticated session | order, book, trade and position calls |
| Database | `models/` | SQLite tables | reads and writes |
| Web control | `app.py`, `web/routes.py` | sessions, login attempts | pages and control requests, on 8 waitress threads |
| Self-update | `web/update.py` | the state of one update | check_update, start_update, `_run_update` |
| Wallet import | `web/wallet_import.py`, `utils/crypto.py` | none | parsing, encryption |

**How they interact.** A web request runs on a thread of its own and calls
EngineManager, which has no lock. `start_all` starts a WalletWorker per wallet
(each with a monitor thread), runs `startup_recovery` on the request's thread
while those monitors already tick, and starts the scanner loop. The loop
discovers candidates into `eligible_markets`, then submits one placement pass
per wallet to a pool. Manual scans write the same list and the same status.
Monitors and passes of one wallet share the exchange's book and the cooldowns
table: the monitor writes a cooldown, the pass respects it. `stop_all` sets
events, waits 30 s for each thread at the most, and cancels the wallets' buys.
The discovery serves the templates of all wallets at once, and each wallet's
round picks its own markets from what it found. A blacklist entry, a resolution on
UMA and a reward that drops are noticed by the web, the monitor, the pass and
the discovery separately, each from a copy of its own age. The monitor's tick
starts the ledger's rebuild, the scanner loop sends the weekly report, and an update
ends the process under whatever runs in it.

**What is hard.** Threads that outlive the join that waited for them; queued
work that runs after a stop; look-ups that are acted on much later
(`start_wallet`, `place_orders`); fills that are published late, in a batch, or
seen again; a process that dies between handling a fill and marking it; reads
that fail for a tick; snapshots that are minutes old; two writers of one pool
and one status; an installation in several steps that can each fail. `PROJECT.json` lists each such point at its line ("hazards").

**What makes each component correct.**

* Lifecycle: one scanner loop at a time; the registry is the truth about
  monitor threads; nothing begins after a stop; what a stop left behind ends.
* Fill detection: a fill is acted on at most once, is not missed, and history
  is not replayed at a start.
* Cooldown: no more is bought of what is held; after a sell-out the market
  rests for a full cooldown; a market that is no longer wanted loses its buys.
* Scans: the status tells the truth; orders are not placed
  from (and, what is worse, not cancelled because of) half a pool.
* Exit logic: a position always has its sell or its stop; no more is sold than
  held. Ladder: exposure within the limit; what is kept is not placed again.
* Scanner: what the one discovery leaves out or does not look up, no wallet wants.
* Buy guards: from a market that is barred the buys leave, and stay away; a market
  that is barred no more comes back.
* Ledger and report: a week is reported once, and of whole days.
* Self-update: what is on disk is one version; what is launched is a whole package;
  an update does not block the next one.

## 2. The plan

Modules in the order of what goes most wrong when it goes wrong:

1. `EngineLifecycle` - the threads and the calls that start and stop them. Done.
2. `FillLedger`, `FillDetection` - a fill, from its match to its handling; the
   ledger is the abstract specification the detection implements. Done.
3. `MarketCooldown` - the loop from a fill over the cooldown to the next
   placement pass. Done for one pass at a time.
4. `ScanControl` - manual scans, discoveries, the pool and the rounds. Done.
5. `ExitMonitor` - the sells of a wallet against its positions: the low-balance
   step and the exits of a tick, on the list of orders the tick began with,
   restarts and failures between the cancellation of a sell and the next one.
   Done for safety.
6. `Ladder`, `Quoting` - the plan of a market in both placement modes and the
   reconciliation, as operators, and the passes that use them against Step 3
   of the monitor. Done.
7. `ExitPlan`, `ExitPricing` - what an exit asks for a position, from the cost
   replayed from its trades to plan_exit, as operators, and the ticks that use
   them on trades, positions and a book of different age. Done for one position.

8. `SelfUpdate` - an update, from the look at the engine to the restart. Done.
9. `BuyGuards` - blacklist, UMA and reward against discovery, pass, tick and web. Done.
10. `CandidatePool` - the discovery for the templates of all wallets and each
    wallet's prefilter. Done.
11. `ProfitReport` - the ledger's rebuilds and the weekly report. Done.

Not done, of what is worth doing:

12. Two passes of one wallet (a manual place-orders call beside a round): BuyGuards
    takes a set of Passes, its run has one; and the limit on concurrent markets.
13. Liveness of `ExitMonitor` on a smaller instance: a position that cannot be
    sold at once comes on sale.
14. FIFO profit matching, as operators against a reference definition.

The modules are joined at named interfaces and not multiplied out: a placement
pass is an interval in `EngineLifecycle`, a sequence of snapshots and orders in
`MarketCooldown`, a plan and its orders in `Quoting`, the looks that bar a market
in `BuyGuards`, and a reader of the pool in `ScanControl` and `CandidatePool`; a filled buy is one step in `MarketCooldown`, `Quoting` and
`ExitMonitor`, and the whole protocol in `FillDetection`. Their product is beyond
TLC, and each hazard listed lives in one of them.

Abstract specification: `FillLedger`, implemented by `FillDetection`.

Theorems, in order: type correctness of every module; the lifecycle's
generation and registry invariants; the scan status and the pool;
the ledger refinement; the safety of the cooldown, of the exits and of the
plan; the update's installation, and the discovery's soundness. Section 6 says which are
proved.

## 3. The modules

**EngineLifecycle.** State: the fields of EngineManager, one record of arrays
per scanner thread (`loopPc`, `loopGen`, `task`) and per worker object (`home`,
`alive`, `told`, `running`), who put the buys each wallet has resting, and a
program counter per operator thread. Every place at which another thread can
come between two effects of a control call is a step boundary: `start_all` is
CheckWallet / RegisterWorker / LaunchWorker per wallet, then BumpGeneration, ClearStop,
SpawnLoop; `stop_all` is StopAll, JoinLoop (which may time out), then PopWorker,
JoinWorker (which may time out) and CancelBuys per wallet. The loop is LoopTop,
the discovery and its cancellation, PlaceRound, RoundEnds, LoopTail, LoopWakes;
`_place_one` is TaskChecksGeneration, TaskLooksUpWorker, TaskBuys, TaskEnds.
`phase` and `calls` are history: what the last call established, and the bound.
So are `overlapped` and `crossed`: that two requests met in `start_wallet` (or a stop met a
start there), and that two `start_all` drew one generation. They guard no step.
The "timed-out join" that leaves a monitor in the middle of a tick is there; that
such an orphan may place or cancel after its wallet was restarted is part of
FillDetection's GoesDown only in that its knowledge is lost.

**FillLedger / FillDetection.** State: the exchange (`now`, `matched`,
`published`, `open`), the latest record in the database, the OrderMonitor's
fields, and the locals of `check_buy_orders`. The monitor thread's tick and the
control thread's recovery interleave at each network call and each fill. A
match is published some time later; `get_trades(after)` returns all it should
and possibly more; any call may fail; the process may go down between any two
steps and lose all but the database. `acted` counts what the run did to each
fill; `before`, `recovered`, `clean` and `bookThen` are history for the properties.

**MarketCooldown.** State: what the wallet holds, what the Data API shows and
for how long it has been wrong, the open buys, fills not noticed, what is left
of each cooldown, the pass's snapshots and its place in the loop. A monitor tick
is NoticeFill* then RenewCooldowns or RenewalFails; time passes a tick at a
time. A fill whose handler raises before it set the cooldown stays among `unnoticed`. A pass is PassBegins (prefilter), ReadOrders, ReadPositions, CancelDropouts,
then per market EnterMarket or SkipMarket and per side CancelSide and PlaceSide.
Which price a side deserves is left open: each side may be kept, cancelled,
replaced or placed, so the properties hold for any strategy.

**ScanControl.** State: scan_status, the pool as "empty", "partial" or "whole",
whether last_scan_time was ever set, both generations, each manual scan thread and
each scanner loop with its saved `prev_eligible`, and which scan's result the
database holds. scan_markets looks whether its scan is current (CheckResult) and saves
the result (SaveResult) in two steps: nothing keeps them together. Elsewhere `is_current()`
and the assignments it guards are one step.
`cut` and `doubled` are history for the properties.

**ExitMonitor.** State: what is held and what the Data API shows, the resting
sells of each token (how many, and their size), proceeds on their way, and the
fields and locals of a tick: the shared list of open orders, positions, the
estimate of check_low_balance, `_just_dumped`, `_cancelled_sell_ids`. A tick is
TickBegins, then check_low_balance (ReadBalance, ReadForLiquidation, and per
position LiquidateNext, LiquidationCancels, LiquidationSells), then check_exit
(ReadPositions, ReadOrders, and per position SkipPosition, KeepSell,
ReplaceSells with ExitCancels and PlaceSell, or GoToMarket with MarketCancels
and ExitSells). Cancelled, CancelRefused and CancelRaises are the three outcomes of
cancel_orders. Which of these ways a position takes (plan_exit, resolution,
forced exits) is left open, so the properties hold for any pricing.
`excused` and `refused` are history.

**ExitPlan / ExitPricing.** `ExitPlan` is pure: the lots left by the trades
(Replay), whether they are the position's (CostKnown), CostFloor, StopDue and PlanExit.
A trade is of one lot, so a queue of lots is the sequence of their prices and an
average is a sum over a length; what is summed or replayed is a recursive function
of the position in the sequence, so that it can be reasoned about. `ExitPricing` has one position's trades, how many
of them get_trades and the Data API know of, the bids as a sequence of lots, and
our sell. A tick is TickBegins (the list of open orders), ReadPosition and
ReadTrades in either order (check_low_balance may have prefetched), ReadBook, then
Stays or Moves, CancelSell or CancelFails, PlaceSell or SellAtMarket; TickIsCut ends
it anywhere. What crosses the bids trades at once, and a market sale goes down
the book. `reasons`, `clean` and `settled` are history.

**Ladder / Quoting.** `Ladder` is pure: the vetoes both modes and Step 3 share
(InRange, HasCliffBelow, GapTooWide), GapSinglePrices, LegacyPrices, OrderSize,
the capping by what is left of the exposure, and Kept, ToCancel, ToPlace of the
reconciliation. `Quoting` has the books of both sides, other traders' bids and
our own orders together, as everybody reads them; a pass is PassBegins
(book_eligible), ReadOrders, DropBuys when no side is left, PlanOrders, then per
side CancelReplaced and PlaceMissing or PlaceRejected. Step 3 is
Judge, by the book it fetched and the spread it asked for, and later CancelJudged or
CancelFails; the end of a filled order is CancelRemainder. The reward's spread moves
(SpreadMoves); the pool has the one of the last discovery (Rediscovers), and a pass
the copy it began with. `clean` and
`calm` are history: whether anything disturbed the pass, and how many
undisturbed passes confirmed a side. PassSucceeds is a step of a pass whose call is
answered and OnlyStep3Checks the two checks placing does not make; both are of the
properties only.

**SelfUpdate.** State: `STATE.state`, one program counter per request and the
thread it starts, `info` and `oldCommit` as the thread holds them, the package at
`dest`, the clone (`tree`), the installed requirements (`deps`) and what the
process runs. What engine_active looks at are three fields, each with a life of its
own (`engine` is the set of those that are set). Look is the first half of start_update,
Claim the second: GitHub is asked in between; then Spawn, or SpawnFails, which leaves STATE
claimed for no thread. Then, on a server, RevParse, GitFetch, ResetToTag,
PipInstall and RollBack (`_run_git_update`), each done, failed or raised, ResetToTag
maybe half-way; on a desktop StartDownload, EndDownload, Verify or VerifyFails, and Launch
(`_run_update`). A download may end early without an error, a file that two threads
write is "torn", and a release may list the digest of another package, which
parse_release takes when it finds no better. Shutdown is `os._exit`;
Crash and Boot are the machine's. `raced`, `excused` and `stranded` are history.

**BuyGuards.** State: whether a market is blacklisted, in resolution, and pays
its reward; its entry in the pool; the wallet's buys of it, which may be filled in
part; and the copies that a discovery, a placement pass, the tick and the
web's request work from. A discovery is ScanStart, ScanBatch, ScanPrecise and
ScanPublish or ScanFails; a pass PassPick, PassLook, PassGuard, PassPlace, or
PassLeavesOut and PassDrop; a tick TickStart, TickEarly (fills and the UMA guard),
Step3Read and Step3Judge, which writes a dropped reward back; a request
AddToBlacklist and WebCancel. A fault is a call that fails.

**CandidatePool.** State: one market as it is and as the endpoint shows it, the
wallets' templates, and the market's way through discover_candidates: Query (by
category, each of which may miss it), Gate, Details (Gamma may answer or not) and
Price (the precise reward, if it is asked for and answered). `Prefilter` is
prefilter_for_template on the entry, at any later time: Midnight passes, and Edit
changes a template, after which no discovery follows. `_active_templates` merges
templates by their key (`KeyOf`).

**ProfitReport.** State: the Beijing day, how complete each wallet's row of each
day is, the rebuild of each worker of each wallet (Due, StartRebuild or StartRebuildFails,
FetchHistory, WriteRow*, Rebuilt or RebuildFails), and the report of each scanner loop
(Assemble, StartSending or StartSendingFails, Sent, StoreWeek or SendFails, then
BackoffEnds). EngineStarts makes new workers and a new loop; EngineStops forgets them,
but not their threads: a rebuild goes on, and a loop past its last look at the stop
(`past`) still assembles. Crash loses all but the rows and the week, and Boot brings the
process back without the engine, which only the operator starts. A row's numbers are
abstracted to what it was computed from. `spoilt`, `delivered` and `excused` are history.
A worker that is stopped in the middle of a tick may start its rebuild just after the
stop; here it starts it before, and fetches at any later time.

## 4. The runs

| run | instance | question and answer |
|---|---|---|
| engine_lifecycle | 1 wallet, 2 operators, 3 calls, 3 workers | After any three calls, two of them served at once or not, at every interleaving: one current loop (OneCurrentLoop) and an exact registry (RegistryIsExact) but for the two races named below, no pass begins after a stop that was served alone (StoppedEngineStartsNoPass), stale loops end (StaleLoopEnds) and all a stop outlived drains (StopDrains). Holds. |
| fill_detection | 2 fills of one order, 2 seconds | Implements FillLedger (ActsAtMostOnce), no replay after recovery, no cancellation of orders long gone, every fill at or after the watermark is noticed. Holds. |
| market_cooldown | 1 market, 2 outcomes, cooldown 2 ticks, lag 1 | A pass that begins after a fill was noticed buys nothing in the market while it is held (NoBuyWhileHeld); a dropped market loses its buys (DropoutsLeave). Holds. |
| scan_control | 2 manual scans, 3 engine generations | Status stuck only after a cut discovery (StuckOnlyByCut), the loop alone places from whole pools (AutoRoundsUseWholePools). Holds. |
| exit_monitor | 2 positions of 2 and 1 lots, target 2 | A position has one sell (OneSell), and the low-balance step stops at its target across ticks although the balance shows proceeds late (NoOverLiquidation). Holds. |
| exit_pricing | 1 position of up to 2 lots, bought at 1 or 4, 3 books, one move | Resting exits lose no money of their own (LossHasReason: only a market sale, a lot bought more cheaply than an earlier one, or a sell priced on old trades explains a loss); a tick that read the truth leaves all on sale at its cost or more (CleanTickProtects); our own ask moves no exit (NoExitChurn). Holds. |
| exit_loss | maker mode, no stop | Is the stop the only way to a loss? No: bought at 4 and at 1, a position is sold at 3 and at 1, because the dear lot leaves the cost with the first share sold at the average. |
| quoting | 1 market, 2 sides, 5 prices, both modes, 2 spreads, 2 moves of the market, the wallet or the spread | The plan shares one exposure (PlanWithinExposure), an undisturbed pass leaves its plan and nothing else (Converges), and once two passes have settled a side neither a pass (NoChurn) nor Step 3 (ChecksAgree) takes its buys off; when the market stands still and calls are answered, the two do not place and cancel for ever (ComesToRest). Both but for the two checks that placing does not make, and ChecksAgree while the pool's spread is out of date. Holds. |
| self_update | 2 requests, server and desktop, 2 versions | What a server boots is one version with its requirements, but for five named excuses (InstallIsWhole); an installer is launched on a whole package of the release, however early its download ended, unless two requests raced (LaunchIsVerified); STATE does not stay in progress, unless its thread could not be started (UpdateEnds). Holds. |
| buy_guards | 1 token, 2 orders, 1 pass at a time, one trouble at a time, 1 fault | From a blacklisted market, and from one in resolution, the buys leave for good (BlacklistedBuysLeave, UmaBuysLeave); the monitor and the passes do not churn over a low reward (RewardChurnEnds); a market that pays again comes back (GoodMarketReturns). Holds. |
| candidate_pool | 2 wallets, 2 categories; all pairs of templates that differ in categories, in protections, or in gates, with the markets that tell them apart | The union of the templates loses nothing (NothingWantedIsLost), what passes suits its wallet, after midnight and an edit too (PassingMarketSuits), and goes by its precise reward (PassingMarketIsPriced). Holds. |
| profit_report | 1 wallet, 2 starts of the engine, 2 days, 2 weeks, 1 fault | A week is reported once (ReportedOnce), a report after the day's rebuild is of whole days but for rows a stopped worker's thread spoilt (ReportAfterRebuildIsWhole), while the engine runs the ledger catches up (RowsBecomeWhole) and the report gets out (ReportIsSent), both but for a thread that could not be started. Holds. |

The refuted property is one that a docstring of the program states; it is a
finding, quoted with its line in `PROJECT.json`: resting exits can close a
position at a loss with the stop off. LossHasReason names what else may cost money:
a take-profit at the market sweeps a thin book to below the cost ("market"), and a
sell may be priced on trades that are out of date when the Data API is as late as
they are ("stale").

**What the models show besides**, where the code does not do what a reader of
its comments may expect; the properties above are stated around it.

* start_wallet looks a wallet up (`manager.py` 1142) and registers its worker seconds later
  (1167), without a lock; the console is served by 8 threads (`app.py` 86). Two starts at
  once, or a stop between 1167 and 1168, leave a monitor that no stop reaches:
  RegistryIsExact names the wallets where that happened. Two start_all at once may
  draw one generation (869-870), which OneCurrentLoop names.
* A manual scan that is superseded between its check (`manager.py` 1004) and its write
  (1005) overwrites the later scan's result in the database; no property claims an order.
* stop_all cancels the wallets' buys, and a pass in flight places more afterwards
  (`manager.py` 898 says a stop leaves none).
* A stop during a discovery leaves the status at "scanning" (against `manager.py`
  1341), which also blocks unforced scans and updates: StuckOnlyByCut names it.
* A scan beside the loop lets a round be placed from part of a pool (`manager.py`
  1459): AutoRoundsUseWholePools is about the loop alone.
* start_wallet lets the monitor tick before startup_recovery has primed it
  (`monitor.py` 150): NoReplayAfterRecovery is about ticks after recovery.
* A git reset that fails is not rolled back (`update.py` 367-369), though the docstring (343)
  and `deploy/README.md` 73 say that any failure is: when it had moved some files the clone
  is a mixture. The rollback restores the clone, not the requirements: after a pip
  that stopped half-way the old code meets a mixture. Both are among InstallIsWhole's
  excuses.
* An update looks for an engine at work before it asks GitHub, and not again: an engine
  that starts in between ends with the process (`update.py` 399-440). engine_active does
  not see a loop that outlived its stop either, nor a stop that still cancels buys.
  That an update interrupts nothing is therefore no property here.
* When the thread of an update, of a rebuild or of a report cannot be started, `STATE`
  (`update.py` 416-423), `_pnl_rebuilding` (`manager.py` 265-272) or `_pushing`
  (1272-1281) stays set and blocks the next one until a restart. UpdateEnds,
  RowsBecomeWhole and ReportIsSent name it (`stranded`, Stuck, Wedged).
* `_pnl_rebuilding` lets one rebuild run at a time (`manager.py` 259) for one worker: a
  restart of the engine makes a new one, and the old one's thread goes on and may
  overwrite what the new one wrote with what it fetched before. The date is set, so that
  the rows stay so until the next day's rebuild (`spoilt`).
* After a crash the engine stays down until somebody logs in and starts it
  (`app.py` 50-51, `deploy/README.md` 63-64): no report is sent and no row is written.
* A template that is edited, or assigned to a wallet, triggers no discovery.
  A tier that it newly takes holds markets for which Gamma was not asked: until the
  next discovery they pass by the dates of their event and by incomplete tags
  (PassingMarketSuits asks for known ones).
* The weekly report checks only that the ledger is not empty ("count first, then
  report", `manager.py` 1219): one made before the day's rebuild, for instance
  after days without the engine, is of the rows there are. The reward of the
  window's last day is paid the day after, and as a rule the rebuild of the day of
  the report is earlier: it is missing in that week's total and the next one
  does not make up for it.
* Step 3 looks at no buy that is filled in part. When the cancellation of its
  remainder failed, it rests in a blacklisted market until a discovery drops
  the market: the second half of BlacklistedBuysLeave asks for one.

ChecksAgree names the two checks on which placing and Step 3 disagree: the gap in
legacy_wall mode, and the price band, to which Step 3 holds each buy and placing
only the best bid. It names a third disagreement, of data: Step 3 asks for the reward's
spread (`monitor.py` 1390, 1478), placing has it from the pool (`manager.py` 479), which
may be hours old; after the spread shrank Step 3 takes off what each pass places until the
next discovery, which ComesToRest counts on. A market that is held cools down, so no pass looks at it and
the buys on its other side stay; MarketCooldown shows it, as the program has it.

**Bounds.** MaxCalls 3 is the shortest history in which an old loop survives one
restart and meets the loop of a second; MaxWorkers 3 lets each call create a
worker; two operators let any two calls overlap. One wallet suffices there because the loop, the generation and the
event are shared and wallets touch only their own entries; the proofs cover
any number. Two fills of one order within two seconds give same-second fills,
a fill at the watermark, fills out of step with records, and a
partial fill followed by another; the run needs no third. One market with both
outcomes is where held, cooling and placed sides meet; Cooldown 2 with Lag 1 is
the smallest in which a renewal can be missed and the cooldown still cover the
lag. MaxScans 2 lets one scan supersede another, MaxGen 3 is a start, a stop
and a start. Two positions, one of which comes in two lots, let a sale be partial
and one position's sale stand between the other's; Target 2 is reached by one
or two sales. In ExitPricing two lots are enough for an
average, a dear lot before or after a cheap one, and a part sold; the books are
empty, as deep as the position, and thin above a gap. Five prices hold a gap wider than the veto, a level out of range
and a support below it; the books are chosen so that each rule, each veto and
both walls decide; sizes of 1 and 4 are below and above every threshold, and
MaxShares 5 is less than the two sides ask; of the two spreads one takes a level
into the range that the other leaves out. MaxMoves 2 is a move and one back, or a
move of the spread and of the market. In SelfUpdate two requests race at each step, and two
versions are the one installed and one it moves to; a third request would only race
with either. BuyGuards: two orders let one that is
old rest beside one that a pass just placed, or a remainder beside a whole one; one
trouble at a time (AtOnce) is what each property speaks of, and one fault hits each call
in turn; a second pass at a time is beyond 5 minutes. CandidatePool: the union of
templates and the merging of their keys show in two templates; the cases vary one
group of settings at a time, since the gates of different groups are conjuncts. For
any number of wallets, categories and settings all three properties are proved.
ProfitReport: the run begins on the second day and ends on the third, each the first or the
last of a week, so that a report, a retry after midnight and a rebuild across midnight
meet; two starts let a stopped worker's thread and loop meet the next ones; one fault hits
each call, each start of a thread and the process in turn. With two faults
ReportedOnce holds as well (3.8 million states). CandidatePool's run uses symmetry in the
wallets, which no action tells apart, for invariants only; no other run does. No run
uses a state constraint; every bound is a guard on a counter or a set of inputs.

**Deadlock** is not checked: an engine that is stopped, or a process that went
down, may stay so for good, and the bounds let the operator's calls run out.

## 5. Fairness

* EngineLifecycle: weak fairness of each scanner thread, placement task and
  monitor thread. They are OS threads; every network call has a timeout; waits
  are bounded. Nothing is assumed of the operator, of TaskBuys or of
  MonitorCancels.
* FillDetection: weak fairness of the tick and of recovery's two steps; strong
  fairness of RetryPriming and FetchTrades: calls to the exchange may fail any
  number of times, but not for ever. Nothing makes the process come up.
* MarketCooldown: weak fairness of the pass (passes go on), strong fairness of the two
  reads and of the dropout cancellation. None for the world or the monitor.
* SelfUpdate: weak fairness of each thread's next step: GitHub, the download and
  each command have time-outs (`update.py` 89-98, 237, 336). None for
  Boot, the engine or new requests.
* BuyGuards: weak fairness of the tick, of the passes, of a discovery that has begun
  and of the web's cancellation; and that a position is sold some time, after which its
  cooldown ends. That a discovery begins is not assumed; the properties that need
  one say so. Calls fail MaxFaults times.
* ProfitReport: weak fairness, while the engine runs, of its workers' rebuilds and of its
  loop; of each thread that sends, and of the backoff's end. None for the clock, none for
  starts of the engine or of the process: the properties speak of an engine that runs.
* Quoting: weak fairness of the pass and of rediscovery: the loop starts one round after
  another, discovers every few hours, and its calls time out. None for Step 3, the world, or which answer a call has: that calls
  are answered in the end is in ComesToRest's premise.
* ScanControl's run, ExitMonitor, ExitPricing and CandidatePool have no liveness
  property and use no fairness.

## 6. The proofs

Each `X_proofs` module extends `X` and proves its theorems for every value of the
constants that the named assumptions of `X` allow; TLC evaluates those
assumptions in the runs. Two cover two modules each, which share no variable:
`Worker_proofs` is about MarketCooldown and ProfitReport, `Discovery_proofs` about
ScanControl and CandidatePool. A safety theorem has the same three facts each time:
the initial states satisfy the inductive invariant, every action preserves it
(one step per action or group of actions), and it implies the property, or what
the property says of a step. TypeOK is proved first and cited by the rest.

**EngineLifecycle_proofs** (`NoWallet \notin Wallets`, the bounds are naturals).
TypeCorrect, OneCurrentLoopHolds, StartedEngineHasLoopHolds, RegistryIsExactHolds and
StoppedEngineStartsNoPassHolds, each for any number of requests served at once, with the
exceptions the properties name. OneCurrentLoop is not inductive, since a start bumps the generation,
clears the event and spawns the thread in three steps: `GenInv` adds that no live
thread is ahead of the counter, so that the bump makes all of them stale, that one call at
the most holds the current generation, unless two drew the same, and that none is current
while it does. `RegistryInv` adds what a call knows between its look-up and its effect: that a
start about to register displaces no live monitor, and that what it registered stays so
until it has its monitor, unless a race is on record; and that the worker being joined was
told to stop. `StopInv`: what a stop_all that no other request overlaps has not come to is
all that is registered, so that nothing is when it has returned, and a task that looks its
worker up then finds none.

**FillDetection_proofs** (fills belong to orders, at least one second passes).
ImplementsLedger: `Spec => ActsAtMostOnce`, the refinement of FillLedger. `ActInv`
says that a fill that was acted on is seen, or in the handler's hands, and no
longer among those to be handled, which holds through restarts because a
process that goes down forgets both its memory and its count. NothingReplayed
by `PrimedInv`, which carries what was public at the start from recovery to the
tick that began after it, pending or primed. CancelsWhatWasOpen by `BookInv`.
That a fetched batch has a latest fill (`LatestExists`) is the well-foundedness
of the naturals, used through a function and not through an induction theorem.

**Worker_proofs, MarketCooldown** (`0 <= Lag < Cooldown`). CooldownCovers by `RenewInv` and
`CoverInv`: the cooldown a fill sets runs until the Data API shows the position,
and from then on each tick renews it. HeldMarketsNotBought by `PassInv`: what
was held and noticed as the pass began is excluded by the prefilter's cooldown,
or is in the snapshot of positions when its market's turn comes.

**Worker_proofs, ProfitReport** (a week has at least one day). ReportsOnce:
`ReportSpec => []ReportedOnce`, for any number of starts of the engine and wallets. That a week
is delivered once is not inductive. `OfThisWeek`: what is assembled or on its way is
of the week it is. `OneSends`: unless the week may be repeated, a thread that sends
it is the only one, `_pushing` is set, and no loop has another report in hand - a loop looks at
`_pushing` and at the stored week in one step, but sets the first in a later one. `Counted`:
a report that got through is stored, or its thread is about to store it, and
while one is assembled or being sent none has got through. ReportsWholeDays:
`ReportSpec => ReportAfterRebuildIsWhole`. `RewardsArePaid` dates the rewards, and `RowsInv`
follows the rebuild of the engine's own worker: what it fetched is complete if it began
today, and the rows before the one it is to write next show it, so that the date it leaves
at its end means that all the rows do. A thread of an earlier worker writes at any time
(`WriteShows`): what it writes over a complete row is either complete or less, and then
`spoilt` has it.

**Discovery_proofs, ScanControl** (the bounds are naturals). StatusSettles by `StatusInv`:
a status at "scanning" has a scan behind it or a cut discovery. AutoRounds by `PoolInv`: without manual scans and double starts the
generation that discovers is the one that places.

**ExitMonitor_proofs** (every position comes in at least one lot). StopsAtTarget by
`CashInv`: outside the step the liquidation cooldown stands as long as proceeds are
due, and inside it the estimate counts them. OneSellHolds and KeptIsOnSale by
`ListInv`: until a position is decided on, the list of open orders the tick read
at its start still names its sells, but for those filled or cancelled since.

**ExitPricing_proofs** (prices are positive, a book lists the best bid first). Any
number of trades, so that sums over queues of lots have to be reasoned about: Total and Replay
are recursive functions, and what they do with one trade more (`TotalAppend`,
`TotalCons`, `ReplayAppend`) is proved by induction over a set of numbers (`Inductive`,
from the well-foundedness of the naturals). PricingTypeCorrect, with
what the plan relies on: a position whose cost is known has lots, a resting goal has
a price. LossesHaveReasons: `Spec => []LossHasReason`. `MoneyInv` says that
while there is no reason for a loss, nothing was lost yet, the lots left were
bought at rising prices, and what rests can be filled without a loss,
lot by lot. The second is needed because a sell that was priced above the
average of all lots is filled oldest lot first: only when the oldest are the cheapest is
each part of it above its own average (`SaleSums`, `SellOne`). A rest is at least
at the cost rounded up (`CostFloorCovers`, `PlanRests`), which makes it safe to place; a sale to bids
that reach the limit is a sequence of such fills (`BidsTaken`, `SoldSafe`).
OwnAskChurnsNothing and CleanTicksProtect rest on `OwnAskMovesNothing`: a book
with our sell in it asks for the same price again, since the best ask is then
no higher than ours, and ours no lower than the cost. `CleanInv`
carries what an undisturbed tick has read from call to call, in whichever
order; `SettledInv` says of a settled sell that it is for all that is held at the price the plan
asks for, and that a tick, which may have failed to read, knows that or nothing.

**SelfUpdate_proofs** (the version that is installed is one; NoVersion is none).
TypeCorrect, with what each thread relies on as it moves on (`ThreadsAreSet`): beyond
the fetch it has a release, on the way to a rollback a commit to go back to.
LaunchesTheVerified and InstallsWhole rest on `Alone`: unless two requests raced, one at
most is under way, since STATE says so from its claim on. `VerifiedToLaunch` then keeps the
package from its verification to its launch: a digest that fits the package has compared
all of it, whichever file it came from. `InstallInv` says for each step of the git update
which of the clone and the requirements are still those of what runs, and that the
commit to go back to is; a reset that fails leaves them so or is an excuse.

**Discovery_proofs, CandidatePool** (no category is called "all categories", and a market's are
curated ones; thresholds and hours of protection are naturals). MarketsThatPassSuit: `CandidateSpec => []PassingMarketSuits`, for any
wallets, markets, templates and edits. `EntryInv` says where each field of the entry is
from in each phase; `TemplateIsStoodFor`, that the discovery's set has a template
that agrees with each wallet's on all it asks. The tags it found are then
complete in what that template makes and vetoes, or complete altogether, and a
protection is cut to what the template makes. NothingWantedLost and
PassingMarketsArePriced by `KeepInv`: what was dropped although all was learnt, no
template of the discovery wants (`GateKeeps`, `DetailsKeep`, with the least of the
thresholds and of the hours, `LeastExists`), and what was not priced is of no size or
window of theirs.

**Quoting_proofs** (finitely many prices, sizes at least the minimum).
PlansWithinExposure: `SharedExposure` shows it of any two quotes, by the three
limits an order is capped with and the division that turns money into shares
(`MinOfThree`, `QuotientFits`); `PlanOfShares` applies it to the plan in both
orders of the sides; `WalletInv` is all that is needed of the state. PassesConverge: `Spec => Converges`. The
types say that a plan has at most one rung a side and that no two resting orders
have the same id (`QuotingTypeCorrect`), which Step 3's marks on them keep (`MarkedIsDistinct`). `TurnsInv` follows a pass through its turns: before
its turn a side rests as the snapshot shows it, after it as planned, and between
the cancellation and the order nothing rests, or one order is kept and nothing
is to be placed (`Reconciled`). What a cancellation leaves is
a recursive function of the orders, reasoned about as in ExitPricing_proofs. That a
book's highest level exists (`GreatestExists`) is the well-foundedness of strict
subsets of a finite set.

## 7. What is not proved, assumed, or modelled

**Only model-checked.** The liveness properties (StaleLoopEnds, StopDrains,
EveryFillNoticed, DropoutsLeave, ComesToRest, UpdateEnds, RowsBecomeWhole, ReportIsSent,
and all of BuyGuards): liveness under fairness and ENABLED are out of the prover's reach.
Quoting's NoChurn and ChecksAgree compare the ladders of two books, one of them with our
own orders in it, and are checked on the books of the run only. Proved and in no run: the type invariants
of the modules with proofs other than ExitPricing's, StartedEngineHasLoop, SoldOutCoolsDown and
ReportedIsOnSale. The refuted property (LossOnlyByStop) has a counterexample, found by its run.
No module needs RECURSIVE operators, which the provers cannot use: the plan of `Ladder`
is written with sets and maxima, the books of `Quoting` with a fold, its cancellations
and `ExitPlan` with recursive functions.

**Assumed of the outside.**

* The exchange: trades become public in the order of their matches;
  `get_trades(after)` includes trades of that very second, and may
  return more than asked; an order never matches more than its size; a sell
  beyond what is held and not yet on sale is rejected; a list of open orders
  is one consistent reading, including one's own sells.
* The Data API shows a position after `Lag` at most, with Lag below the
  cooldown: `cooldown_minutes` is 20 by default, against a lag of seconds.
* Proceeds of a low-balance sale settle within LIQUIDATE_COOLDOWN_SEC.
* Gamma's tags and dates of a market are its own; those of the rewards endpoint are the
  event's, and its categories a part.
* A rebuild's fetch is one reading of the history; a reward is paid on the day after
  its own, before that day ends; assembling and sending a report take less than an hour.
* An installer that was launched puts a whole package in the program's place, and
  systemd starts the process, without the engine, from what is on disk.
* Python: reads and writes of one dictionary entry or attribute are one step, and so are
  a check of `is_current()` and the assignments in memory that it guards.

**Left out on purpose.** A process that ends (FillDetection's GoesDown) takes its
tick with it; the tick of a monitor that outlived its join is in EngineLifecycle,
without its fills. One placement pass of a wallet at a time in MarketCooldown,
Quoting and BuyGuards' run. That two starts at once may make two workers of a wallet is in
EngineLifecycle; the other modules have one at a time, and ProfitReport the old ones' threads.
The second attempt at the trades that ExitPricing's tick makes after the book
(`monitor.py` 206-213) is left out: it is one more reading, like the first. What NoBuyWhileHeld
says begins when the cooldown was set: of a fill whose handler could not set it
(`monitor.py` 290) it says nothing. Prices in Ladder are exact cents where the code rounds floats to four
digits; prices in ExitPlan are whole ticks of one size, and lots are larger than
the tolerance of its size checks. Trades of one second are replayed as they came
about, since a sell of ours rests longer than a second after the buy it sells.
The books and positions of BuyGuards are choices of the pass and of Step 3. A discovery
of CandidatePool runs to its end (ScanControl has those that do not).

**Not modelled.** The exchange client and the database storage are I/O: what paged and
batched calls return when part of them fails is in the modules that use them, other
failures are the failing alternatives of the models' actions, and the tables
that decide anything are variables. The numbers of the ledger (FIFO matching, sums of
rewards and fees), the category catalogue's counts, refresh_orderbooks, the limit
on concurrent markets and the login limiter are left out; section 2 says which of
them a model would pay for. Wallet import, keys, link and status helpers, deployment and tools keep no state between calls that a
model would say more about than their unit tests do.
