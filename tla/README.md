# A TLA+ model of Acumen

Acumen is a backtester and a live screener for one intraday strategy on NSE
stocks. Every trading day it derives a daily bias per symbol, waits for the
volume profile of 09:15-11:15 (its point of control, the POC), watches the
15-minute candles that follow for a cross of the POC in the direction of the
bias, and follows the one trade of the day to its stop, its target or the 15:15
square-off. The live loop sends alerts to a trader who trades by hand; the
backtester runs the same pure functions over ten years of stored minutes. Around
both lies the machinery that keeps the stores true: a backfill that fetches and
un-adjusts ten years of minutes, a daily store that doubles as the trading
calendar, and a morning job that refreshes everything and judges what the days
before recorded.

The modules describe six parts: the rules of a day, the live loop, the backfill
of the minute store, the backtest with its report, the mornings, and the parity
of live and backtest. Each part has one state machine and a few modules of pure
operators below it.

To check a module: `tlc -config X.cfg M.tla`, with module and configuration as
listed under *Runs*. To check the proofs: `tlapm M.tla`. No module declares a
RECURSIVE operator: where the code loops, the model has a fold or a recursive
function, which the provers can reason about.

## The system

All paths are below `src/src/acumen/`.

| component | files | state and operations | what makes it correct | module |
|---|---|---|---|---|
| signal rules | `signals.py` | candles, POC and side to one `SignalDay` | at most one trade; strict comparisons with an exact POC; the stop from the trigger candle or, on a gap, the last close before it; the stop wins a candle that touches both; an answer given at 12:00 is still the answer at 15:00 | `SignalRules`, `SignalLoop`, `SignalDay`, `OneTrade` |
| live loop | `live_screener.py`, `live_recording.py`, `live_source.py`, `run_screener.py` | per symbol candles, POC, state; alerts raised; `state.json` and the recording | one alert per event, recorded before it is sent; nothing shown that was not announced; resumes after a death | `Screener` |
| gates | `quality_gates.py` | minutes and the daily row to a verdict | a gate that cannot judge never passes; relief only for a pure auction gap | `Gates` |
| corporate actions | `corp_actions.py` | announcements to factors and suppressions | exact factors between two dates | `CorpActions` |
| aggregation, profile | `aggregate.py`, `poc.py` | minutes to candles and to the POC | volume conserved; ties to the higher row; exact fractions | `Candles` |
| daily bias | `bias.py`, `bias_engine.py` | two daily candles and the bias before | rules exclusive and exhaustive; unusable evidence leaves the bias | `Bias`, `Pipeline` |
| signal pipeline, simulator | `signal_engine.py`, `simulate.py` | one stock-day to a ledger row | refusals in order; quantity within the risk; price of each exit | `Pipeline`, `Sizing` |
| portfolio, report, evidence | `portfolio.py`, `report_9b.py`, `pilot_evidence.py`, `trade_evidence.py` | a ledger to statistics, a benchmark and the statements made of every trade | what is computed twice agrees | `Portfolio`, `Report`, `Benchmark`, `Evidence` |
| backtest runner | `backtest.py` | a shard per symbol, progress, ledger, manifest | a run interrupted and resumed writes the ledger of one that was not | `Backtest` |
| parity harness | `parity.py` | none | the live day is the projection of the backtest's | `Parity` |
| vendor adjustment | `vendor_adjustment.py`, `price_recovery.py`, `minute_unadjust.py`, `adjustment_route.py` | a map of factors per symbol | a map explains the days it was measured on; a day is corrected once | `VendorMap`, `MinuteStore` |
| minute store, universe backfill | `minute_store.py`, `minute_backfill.py`, `universe_backfill.py` | month files, a ledger of windows, a map and a record per symbol | the ledger never ahead of the candles; owed work done once; the record true of the store | `MinuteStore`, `UniverseBackfill` |
| SmartAPI client | `smartapi_client.py` | attempts, logins | a failure is never an absence | `SmartApi` |
| recovery reconciliation | `recovery_reconcile.py` | two reports and a store | a loss is never explained away | `Horizon`, `Reconcile` |
| daily store, calendar | `daily_store.py`, `backfill_daily.py`, `bhavcopy.py`, `data_quirks.py`, `calendar.py` | month files; the outcome of every date, which is the calendar | a late file is no holiday; a hole is no holiday | `DailyStore` |
| NSE access, crash-safe writes | `nse_http.py`, `atomic_io.py` | day caches; files | what survives a loss of power | `NseHttp` |
| mornings | `live_refresh.py`, `run_screener.py` | the steps of a morning, the queue of recordings to judge | no recording unjudged unnoticed; the right pair of days | `Recordings`, `Morning` |
| readiness, preflight | `dry_run_readiness.py`, `run_backtest.py` | none; a verdict over files | READY and GO keep their word | `Readiness`, `Preflight` |
| instrument master, universe | `instrument_master.py`, `universe.py` | day caches | served for the right day | in `Morning` |
| Telegram sink, configuration, documents | `telegram_sink.py`, `config.py`, `trader_pack.py`, ... | | | not modelled |

How they meet: the backfill and the morning write the stores; the backtest and
the live loop read them through the same gates, aggregation, profile and rules;
the live loop leaves a recording that a later morning judges against the daily
file; the preflight and the readiness gate look at the stores before a run or a
week; the parity harness feeds one day to both halves.

Hard behaviours: a death between any two writes, and a loss of power that keeps
the later and loses the earlier; a vendor that revises, fails, goes silent, or
adjusts its history from some day on; files published late, under another name,
or wrongly; rules of the program itself that move and re-open what was settled;
re-deriving alerts from state without sending them twice; a run resumed by
another version of the code; answers computed on half a day that the other half
must not take back.

## Modules

### The rules of a day: SignalRules, SignalLoop, SignalDay, OneTrade

A day is a function from the ordinals of the 15-minute candles that traded to
candles; a candle nobody traded in is simply not in its domain. `SignalRules`
says which candle crosses (`Crosses`, `ArmedBefore`), what the trade is (`Stop`,
`Risk`, `Sizable`, `Entry`) and how it ends (`Exit`), and puts them together as
`EvaluateDay`. The POC is carried doubled (`poc2`), because it can sit half a
paisa off the price grid and is compared exactly. The numbers of candles are
constants (8, 9, 23, 24, 25 in the code); only their order is assumed.

`evaluate_day` is handed minutes besides the candles, and takes the first close of
a day without its 11:00 candle from them (`_reference`, the E10 fallback). The
caller hands it the minutes the candles were aggregated from
(`signal_engine.py:371`), so they agree: the last minute before 11:15 closes where
the last candle before 11:15 does, or there is neither (`MinutesAgree`). That is
an assumption of `Reference`, hence of everything that uses `EvaluateDay` on
candles alone, and it is proved of the aggregation: `AggregationAgrees`, for every
sequence of stored bars that belong to the session (`InTime`). `SignalLoop`
does not make it: its days have minutes of their own (`early`), that agree, or
contradict the candles, or are missing.

`SignalLoop` has one action per turn of the code's two loops. `SkipBar`,
`WalkBar`, `TriggerBar` and `NoCross` are the turns and the end of `_walk`;
`OpenTrade` is `_open_trade`, refusals included; `PassBar`, `TouchBar` and
`MarkSquareOff` are the turns and the end of `_exit_event`. `LoopIsRule` says
that where minutes and candles agree the loops end with exactly `EvaluateDay`, so
everything said about the rules is said about the code's control;
`UnsizableContradicts`, that a cross is refused as unsizable only where they do not.

At each boundary one more candle may have closed and `evaluate_day` is called on
the day so far: `SignalDay` has one action, `CloseCandle`, and the answer
`today`. `OneTrade` promises that a day arms, enters with fixed numbers and
leaves, each once; `SignalDay` implements it with the mapping of `today` on
phase and numbers (`OneTradeADay`). This is what lets the live loop treat a
re-evaluation as an update and never as news.

`Parity` puts the live half of `parity.py` on top of the growing day: what the
screener shows at each boundary, what it sends, and what the harness projects
from the answer to the whole day. `LiveIsBacktest` says the two trails are the
same on every day the harness can judge.

### The live loop: Screener

| action | code |
|---|---|
| `Start` | `run_screener.main`, `restore` |
| `OpenSweep`, `SecondPass`, `HitDeadline`, `EndOfPolls` | the control of `sweep` |
| `PollAnswered`, `PollUnanswered`, `PollUnreadable` | `_poll`, `_intake_failed` |
| `Evaluate`, `EvaluateTerminal`, `EvaluationRaises` | `_evaluate`, `_profile`, `_state_from`, `_monotonic`, `_alerts_for`, `_evaluation_failed` |
| `Withhold`, `RecordAlert`, `RememberAlert`, `DeliverAlert`, `SinkRaises`, `WriteFails` | `_deliver`, step by step |
| `SettleBanner`, `CloseSweep` | `_mark_skipped`, `_settle_banner`, `persist` |
| `Crash`, `Tick` | the process dies; time passes |

Time is the number of sweep deadlines passed. The candles of a symbol are
represented by a *reading*: the POC its window gives, whether gate 2 accepts
it, whether the walk is armed, the boundary of the trigger candle, the trade's
terms and the level touched. A poll brings any reading the boundary allows that
extends the one in hand in the way `SignalDay` shows days to grow; anything else
is a revision by the vendor, and revisions are counted. Terms (entry, stop,
target, quantity) and POCs are model values; `ZeroQty` are the terms whose
quantity rounds to zero.

The state read back after a death is `saved` (`state.json`) and `recorded` (the
candle files, with the stamps served twice under one sweep's label). Each write
is whole or absent: that is what `atomic_io.py` promises, and for the
append-only files what a whole line means. A torn last line makes the day
unreadable (`RecordingError`) and is not modelled. Left out, because no property
turns on it: the order of symbols inside a pass (any order is allowed), the
price of a square-off and the wording of a refusal in the identity of an alert,
symbols without a bias, the dashboard, events that are only logged.

### The backfill of the minute store: VendorMap, MinuteStore, SmartApi, UniverseBackfill

A multiplicative factor is the logarithm of it in whole steps, so a product is a
sum. `VendorMap` takes probe days to eras, eras to the cheapest set of factors
that explains them (`ResolvePass`), and bisects for the day an adjustment starts
(`SearchFloor`, with undecided probes and a budget). The price test is exact, the
volume band forgives `VolSlack` steps. The eras of a map are resolved from the
newest to the oldest, each under what the newer ones settled (`Resolved`, whose
`upto` is a function of sets of eras), and the halving of the search is the
recursive function in `Bisect`. `MinuteStore` says what a stored day
holds, which windows are owed, what the gates count (`Tally`) and what the
correction of a stored day does to it (`RebuiltDay`). `SmartApi` is one request:
a script of what its attempts meet, of which the first attempt that decides
anything decides the request (`CallWithRetry`).

`UniverseBackfill` is `process_symbol`, write by write, of one symbol; the
others are the number of them that are quarantined.

| action | code |
|---|---|
| `StartRun`, `Plan` | `run`, scope, `needs_reprocessing` |
| `BuildMapForIngest`, `UseMap` | `_ensure_map`, `persist_map` |
| `RebuildDay` | the in-place un-adjustment of one stored day |
| `FetchWindow`, `WriteMonth` | `backfill_symbol`: a request, then candles, then ledger |
| `GateSymbol`, `Reroute`, `GateAgain` | `gate_symbol`, the one reroute |
| `StartHunt`, `HuntOneRound`, `PromoteEras`, `Harvest`, `JudgeHunt` | the hunt for floors |
| `RecordSymbol`, `FinishPeers` | the row of the run ledger, the ceiling |
| `StartRegate`, `Resettle` | `regate_universe` with price recovery |
| `RulingMoves`, `Die` | a release with a moved ruling; a kill |

`Reconcile` adds the one `Incident`: after a finished run the data directory is
lost, the committed report survives, the same runs build the store anew, and the
new report is compared with the old (`HorizonBoundary`, `Divergences`,
`Classify`). `Horizon` is its arithmetic alone.

### The backtest: Gates, CorpActions, Candles, Bias, Sizing, Pipeline, Portfolio, Backtest, Report, Benchmark, Evidence

Prices are paise and bars are `[t, o, h, l, c, v]`. `Gates`, `CorpActions`,
`Candles` and `Bias` are the pure functions; percentages are cross-multiplied
and row volumes carry a common multiple of the row counts as their denominator
(`Denominator`), so nothing is rounded that the code does not round. `Pipeline` is one symbol-day from the stores to a ledger row,
every refusal in its order. `Portfolio`, `Report`, `Benchmark` and `Evidence`
read the ledger.

`Backtest` is the process: `Launch`, `Scan` and `SaveScan` (the sessions that
were not standard), `Resume`, then per symbol `WriteShard` and `RecordDone` or
`SkipSymbol`, `WriteLedger`, `WriteManifest`; `Die` between any two, and
`MoveHead`, a commit while nothing is in flight.

### The mornings: NseHttp, DailyStore, Recordings, Readiness, Preflight, Morning

A *world* says what the market and NSE did on each day. `NseHttp` says what a
request of several attempts comes to, the first deciding reply (`Fetch`), and
which states of a directory a loss of power may leave (`Survivors`). `DailyStore` holds the outcome of a date, the
sealing rule, the audit and the calendars derived from the ledger. `Recordings`
says which recording is which day's and what judging it takes.

`Morning` runs commands over these files: `StartMorning`, then
`RefreshCalendar`, `RefreshUniverse`, `PlanTopUp`, `AskDate`, `RecordDate`,
`RefreshCorporateActions`, `RefreshMaster`, `QueueRecordings`, `JudgeRecording`,
and `NotReady`, `CannotStart` or `BuildScreener`, `OpenSession`, `TradeDay`; the
manual `Backfill`, `RebuildLedger` and `DryRunReadiness`; and `Interrupt`,
`Die`, `LosePower`, `Damage`, `NextDay`.

### The other modules

`SignalLoopProofs`, `SignalDayProofs` (which has the parity theorem too),
`ScreenerProofs`, `UniverseProofs`, `MorningProofs` and `BacktestProofs` hold the
theorems, `SignalLemmas` and `NumberLemmas` what several of them share. The `MC`
modules give TLC the candles, worlds, symbols and symmetry.

Definitions marked *Slip* are slips of the pen in the code, kept next to
what they vary: a dropped guard, two statements swapped, a reset forgotten. They
take no part in any specification. Each property is violated when one of them
stands in for the right definition, which shows that the property is about the
code and not about the shape of the model.

## Runs

| run | module, configuration | question | bounds |
|---|---|---|---|
| `signal_loop` | `MCSignalLoop`, `MCSignalLoop.cfg` | do the loops compute the rules, and what does it take for a cross to be unsizable? | all days of up to six candles, missing ones included, prices around the POC, both sides, early minutes that close at 9, 10 (the POC), 12 or do not exist |
| `signal_day` | `MCSignalDay`, `MCSignalDay.cfg` | does a growing day yield one trade with fixed numbers, seen on time, and does the live half show what the backtest says? | five kinds of candle, six a day, window of three, two POCs, risk budget 4 |
| `screener_crash` | `MCScreener`, `ScreenerCrash.cfg` | are alerts sent at most once, after being recorded, quoting one POC, and is what is shown announced? | one symbol, two POCs, a death at any step, one revision |
| `screener_revise` | `MCScreener`, `ScreenerRevise.cfg` | what may a feed that changes its mind do to what is announced? | two trades and one of zero quantity, two revisions, one more boundary |
| `screener_fault` | `MCScreener`, `ScreenerFault.cfg` | does it survive one write, evaluation, intake or sink that raises, and a death, and is the day swept to its end? | one fault, one death, no trades (the armed alert and the banner are what fails), the fairness below |
| `screener_pair` | `MCScreener`, `ScreenerPair.cfg` | does one symbol hide another's alerts? | two symbols in every order |
| `universe` | `MCUniverse`, `Universe.cfg` | does the backfill keep its books, whatever dies, fails or moves, and is a rebuilt store told from a lost one? | below |
| `backtest` | `MCBacktest`, `Backtest.cfg` | is the ledger that of one undisturbed run, and does everything read from it agree? | below |
| `morning` | `MCMorning`, `Morning.cfg` | do the stores stay a true calendar, and is no recording forgotten? | below |
| `claim_resumes` | `MCUniverse`, `ClaimResumes.cfg` | a text of the code, see below | as `universe` |
| `claim_queue`, `claim_pending` | `MCMorning`, `ClaimQueue.cfg`, `ClaimPending.cfg` | texts of the code, see below | as `morning` |

**What the properties say.**

- `LoopIsRule`, `UnsizableContradicts`, `PocSplitsTheTrade`, `OneTradeADay`,
  `AnswersOnlyGrow`, `SeenOnTime`: a day is one trade, and no later candle takes
  back an answer; only minutes that contradict the candles make a cross unsizable. `LiveIsBacktest`: shown and sent is what the whole day warrants.
- `SentOnce`, `SentIsRecorded`, `OnePocQuoted`, `SecondThoughtsAreMarked`,
  `ExitFollowsTrigger`, `ShownIsAnnounced`, `OnlyRefusalsWalkBack`, `DayCloses`:
  the trader hears of everything once, in order, with corrections marked; between
  sweeps a shown position has its trigger in the record and a shown exit its own
  alert, or the failure banner stands; what was reached is only taken back by a
  refusal.
- `LedgerIsTrue`, `RebuildIsSafe`, `RecordMatchesStore`, `SelfClearing`: after
  any kill the ledger claims nothing that is not stored and calls no failure an
  absence; rebuilding twice is rebuilding once and costs no usable day; a row
  describes its store (it counts the stored days, `RowCountsItsStore`, and the
  floors it claims are in force, `ClaimsAreInForce`); what re-opens a symbol is done when it was run.
  `DivergencesAreClassed`: what the last window gained is never charged to the
  history, and a loss never explained. It asks that the sealed report counts the
  store it was written over (`SealedCountedIts`), which it does not after a death
  or an unbuildable map.
- `LedgerIsOneRun`, `GatesAreExact`, `BiasIsWarranted`, `VolumeConserved`: the
  ledger is that of one run of one version; nothing raises behind the gates, and
  what the scan takes out of the calendar gives no symbol anything to read; a bias is the last decided one, decided by gated
  minutes, and favours no direction; a profile holds what was traded.
- `BooksAgree`, `ChecksPass`, `BenchmarkIsHeld`: falls, path, closes, columns,
  outliers, and concurrency read two ways agree with their definitions and with
  one another; the checks the program makes of a finished run pass except for the
  two named under *Observations*; the benchmark is what a holder would have seen.
- `LedgerIsSound`, `NeverUnlearned`, `PairIsReal`, `RecordingsAreJudged`,
  `GoIsTheMarket`, `ReadyIsServed`: no session is sealed as a holiday and no
  power cut leaves an outcome without its rows; what was settled stays so; a
  symbol is traded on the bias of the market's last two sessions; the bell is
  rung over a judged yesterday; GO walks the market's calendar; after READY the
  calendar and master steps of an offline command do not fail, and its session is
  not refused for want of the master. No more is promised: a window of corporate
  actions that is not cached or a gap in the ledger stops the command all the same,
  and a live session needs the network (`run_screener.py:409-413`). The sessions
  of `PairIsReal` are those of weekdays; a special one on a listed holiday that
  falls on a weekday is in no world.

**Bounds of the first six.** An alert identity has the symbol in it and symbols
share nothing but the alert memory and the banner, so one symbol shows what one
symbol can do and two show interference. A day of four boundaries has one before
the window where trades are entered, one in it, the square-off and the
post-session poll; the fifth of `screener_revise` lets a trade be entered,
missed and exited at three different boundaries. One death leaves every pair of
disk states reachable. In `signal_day` boundary n is the close of candle n,
11:15 to 15:15, and a poll after the session that announces nothing; every fetch
succeeds and the day passes its gates, since `Screener` has the other days.

**Bounds of `universe`.** Six days, windows of three (`WindowDays`), month files
of four (`MonthDays`), so that the second window lies in two files; runs that
end on day 5 and on day 6 (`RunDates`), three of them (`MaxRuns`) and one kill
(`MaxDeaths`). Nineteen symbols: with and without a split, a dividend, a bonus,
an unparsed event, two events; the vendor agreeing, never adjusting, adjusting
from a later day on, adjusting for an event nobody knows; candles or rows
missing. `ProbeDaysPerEra` and `MinEstimatorDays` 2, `MinCliffDays` 2,
`CliffPercent` 95, `QuarantinePercent` 80, `HuntPercent` 98,
`MinFailurePercent` 10, `HuntRounds` 2 (code: 3), `QuarantineCeiling` 1,
`MaxFloorProbes` 16, `MaxUndecidedSteps` 2, `MaxAttempts` 3 (code: 5),
`MaxRelogins` 1 (code: 2), `SealedWindowStart` 3, `RebuildFetchDate` 6. Failures
of the vendor are not counted. The incident happens once, after a finished run.
Two eras, two windows and two ends are what a floor, a straddled month and a
moved end need; 1.8 million states.

**Deaths and corrections.** `screener_crash` has the deaths and one revision,
`screener_revise` two revisions and no death. That a second alert about one matter
is marked also when the first went out before a restart is what the theorem
`SecondAlertsAreMarked` adds to the run of `SecondThoughtsAreMarked`.

**Bounds of `backtest`.** Sessions of twelve minutes, candles of two, a profile
of two candles, rows of three paise, two missing minutes allowed, budget 70,
cost 7, capital 1000, four days a year, days 3 to 5 walked over days 1 and 2.
Two symbols in 789 worlds: each fault of a stored day (gap, duplicate,
malformed, stray, late, no minutes, no row, high outside, volume short or
empty), each kind of announcement, gap entries, stops and targets in one
candle, a special session, an evening session of a few minutes. In the worlds of
plain days one stored day has a fault at most. Two versions of the code, one
death, two launches.
The stores do not change during the life of a run directory: the digest
covers symbols, dates, configuration, code, factors and master, and not the
stores. A commit happens only while no run is in flight (`run_backtest.py:693`).

**Bounds of `morning`.** Eight days, Wednesday 1 to Wednesday 8 with the weekend
4 and 5, the first morning on Monday 6, two days settled before. `SealAge` 2
(code: 7), `Lookback` 3 (10), `PublicationLag` 2, `MaxAttempts` 2 (4),
`CalendarLead` 2 (30), a settled universe of 2 (204) and one quarantined (6);
three commands, one failed request of the top-up, one death, loss of power or
damaged file, and, when both have happened, two commands (`MaxEvents`). Interrupts
of the top-up are not counted. Three worlds: a
Saturday session with malformed and thin files; a late file under another name
and an unannounced holiday; three holidays with a directory made by hand on a
machine that does not sync directories. Nine machines for the two gates. The
operator starts a morning only on a weekday.

**Fairness.** `screener_fault`, the one run with a liveness property, uses
`FairSpec`: weak fairness of the loop's own step (the loop is a single thread that never waits but for the clock, with
time-outs on every request), of the clock, and, as part of `Start`, of the
operator restarting a dead process, which is what the runbook
(`docs/morning_runbook.md`) asks for. Nothing is assumed of the vendor or of
which symbol answers. No other run assumes fairness.

**Deadlock** is not checked: a day ends (`closed`), the evaluation of a day ends,
and the commands that may be given are counted.

### Where the code does not do what is written of it

Each has a run that expects a violation; the property quotes the line.

| run | what is written | what happens |
|---|---|---|
| `claim_resumes` | "interrupted -- ledger saved; the same command resumes at window granularity" (`universe_backfill.py:2765`) | a run killed after it persisted a settled symbol's new map and before its new windows were fetched: the repeated command finds nothing to re-process and skips the symbol |
| `claim_queue` | "always named, always loud and always left UNVERIFIED, so it stays on this queue" (`live_refresh.py:966-968`) | `verify_recording` writes `verification.json` at 1044 even when the oracle spoke on no symbol, and the queue skips every day that has the file (936) |
| `claim_pending` | "A weekend date simply seals a week later, at no cost" (`bhavcopy.py:223-226`), "An ordinary live morning ... must still start" (`tests/test_chunk14_carried_defects.py:500`) | `live_trading_calendar` counts a pending 404 before a later present date as a gap and refuses (`calendar.py:671, 685`), from the second morning of a week until the weekend seals |

### Observations

Met while modelling; each follows from the modules, none has a run of its own.

*The rules of a day.* A risk of zero or less "is only reachable on an E10-fallback
gap day" (`signals.py:578-580`), and `tests/test_signals.py:677-738` assert
`OUTCOME_UNSIZABLE` there, on days whose 10:59 minute closes elsewhere than
the 10:45 candle, the last one before 11:15. `aggregate_15min` makes no such day
(`AggregationAgrees`), so on the day of a stored or a live symbol an unsizable
cross cannot be reached (`UnsizableContradicts`, `RefusalsContradict`). The
comment and the tests speak of arguments that `evaluate_day` accepts, on which it
does what they say, and that the pipeline never passes to it. The case without any candle before the trigger is called
unreachable "on a whole day" (564-567), which is so. `trader_pack.py:767` calls
`evaluate_day` with candles and no minutes: on a day without its 11:00 candle the
alternate signal of that document has no reference, where the backtest has one.

*The live loop.* A refusal for want of a POC is terminal although "a symbol whose
data arrives late still gets its one honest pass" (`live_screener.py:1396`
against 1305). "Its four numbers must not simply leave the state" (1465), but a
symbol that was skipped or already refused loses them at the next refusal
(1461). An exited trade, too, raises the alert about an unmanaged position
(1471). When a walk-back was refused the alert has the old numbers and the new
trigger's stamp, and goes out again (1785 against 1709). Candles polled twice
under one label by a restart inside a sweep are read back as duplicates
(`live_recording.py:391` against 917) and gate 2 refuses the day. An alert whose
save failed once is recorded and never delivered; the second failure banner of a
day is marked as a correction of the first; after a resume the sweeps already
done are run again without polling anybody, and each reports everybody missed.
Until the first of these sweeps closes, the table may show an exit nobody was
told of: the record of its alert failed, another symbol's alert saved
`state.json` before the banner was raised, and the process died.

*The parity harness.* A day whose first candle comes after 11:15 is waited for
by the live half and refused by the backtest: with no signal on either side
`parity.py:501-504` still reports differing trails, and any day that was judged
but not evaluated counts as a mismatch.

*The backfill.* "window(s) in error -- retried on the next run"
(`universe_backfill.py:1819`): a settled symbol is skipped by the next run. "The
map is left exactly as it was" (2290), though a round of the hunt may have
persisted one. The note of the reroute (1843) is lost in a death. Days freshly
fetched below a floor are divided once too often until the next pass heals them.
A regate marks an unbuildable symbol settled with an empty tally; killed in the
middle of a rebuild it leaves a store half rebuilt (the properties exempt such a
store). A re-processing run killed after the new map was persisted leaves a row
about the older store. What re-opens a terminal symbol is said to be
"self-clearing: once the pass has run, ..." (2645). A quarantined symbol of the
table path that was killed between the map of its reroute and its row may take two
runs: the first finds a map, so it does not reroute but hunts, and if the hunt
makes gate 1 worse its ruling leaves the reroute owed; the second reroutes. Under
the thresholds of `universe` the case does not arise, under a `HuntPercent` of 60
and a `QuarantinePercent` of 30 it does.

*The reconciliation.* A loss inside the sealed scope that later days balance
gives equal counts and no divergence. A rebuilt row of no days over a store that
holds days is classed as fetch horizon, since only the opposite case is blocked
by the cross-check. The note "No day older than the window changed verdict" is
stronger than the interval test: it is exact when every sealed day was gated
and passed (`AccountedIsUnmovedWithoutSlack`). A decrease of the gate measure
can be put down to a new corporate action (`recovery_reconcile.py:689`) although
"every decrease" is said to be unexplained.

*The backtest.* "Any bias pair that spans E is invalid" (`CONTEXT.md:87`), while
`bias_engine.py:278` suppresses the exact dates only. Gap entries on days too
large to size are counted by the manifest (`backtest.py:1429`) and not by the
report (`report_9b.py:311-321`), whose check of rare shapes then fails. The
evidence that every square-off marker is the 15:00 candle fails on a day whose
last candle nobody traded in. The benchmark applies the factor of an event after
a symbol's last close (`report_9b.py:711-756`). The midpoint of a day without
range lies half a tick above its top. The branch for malformed minutes cannot be
reached behind gate 2. Of "a day that is ENTIRELY a
non-standard session" it is said that "gate 1 fails" (`quality_gates.py:475-478`,
likewise `aggregate.py:115-117`). That holds of a day without a row of its own; an
evening session with its own bhavcopy row, as `tests/test_backtest.py:410` and
`REVIEW_9A.md:65` describe it, reconciles and passes. No harm follows: the scan
takes the day out of the calendar, and its window of candles is empty
(`GatesAreExact`).

*The mornings.* A networked run whose calendar fetch failed, followed by an
offline run, reports READY on a stale calendar; the pair of days is right all
the same. READY looks neither at the daily ledger nor at the live calendar, and
vouches for an offline morning only. The preflight's "oracle settled through" is
the last date with any outcome (`run_backtest.py:540`, 616); an error at the end
is caught by the calendar check; after a ledger was rebuilt, its lost 404s make
a NO-GO. `--symbols` replaces the universe after it was checked. A directory
whose name is no date and that has no manifest blocks every morning.

## Proofs

TLC checks the instances above; the theorems hold for every value of the
constants.

| module | theorem | states |
|---|---|---|
| `SignalLoopProofs` | `TypeCorrect` | `Spec => []TypeOK` |
| | `LoopsComputeTheRules` | `Spec => []LoopIsRule` |
| | `RefusalsContradict` | `Spec => []UnsizableContradicts` |
| | `TradesStraddleThePoc` | `Spec => []PocSplitsTheTrade` |
| `SignalDayProofs` | `TypeCorrect` | `Spec => []TypeOK` |
| | `DayIsOneTrade` | `Spec => OneTradeADay`, the refinement of `OneTrade` |
| | `AnswersAreKept` | `Spec => AnswersOnlyGrow` |
| | `NothingIsSeenLate` | `Spec => SeenOnTime` |
| | `LiveShowsTheBacktest` | `ParitySpec => []LiveIsBacktest` |
| `ScreenerProofs` | `TypeCorrect` | `Spec => []TypeOK` |
| | `AtMostOnce` | `Spec => []SentOnce` |
| | `SentAlertsAreRecorded` | `Spec => []SentIsRecorded` |
| | `ExitsFollowTriggers` | `Spec => []ExitFollowsTrigger` |
| | `SecondAlertsAreMarked` | `Spec => []SecondThoughtsAreMarked` |
| | `OnePocInForce` | `Spec => []OnePocQuoted` |
| | `RefusalsAlone` | `Spec => OnlyRefusalsWalkBack` |
| | `AnnouncedBetweenSweeps` | `Spec => []ShownIsAnnounced` |
| `UniverseProofs` | `WindowsAreTrue` | `RecoverySpec => []LedgerIsTrue` |
| | `DivergencesHaveTheirClass` | `RecoverySpec => []DivergencesAreClassed` |
| | `FilesHaveTheirShape` | `RecoverySpec => []TypeOK` |
| | `RebuildsAreSafe` | `RecoverySpec => RebuildIsSafe` |
| | `NothingStaysOwed` | `RecoverySpec => [](SelfClearing \/ Excused(rec))` |
| | `TalliesAreOfTheStore` | `RecoverySpec => []RowCountsItsStore`, half of `RecordMatchesStore` |
| | `ClaimsHaveEvidence` | `RecoverySpec =>` always, a row that claims floors has a map with a floor in force |
| | `UnmovedHistoryIsAccounted` | an unmoved history is accounted for, for counts of every size |
| | `AccountedIsUnmovedWithoutSlack` | and the other way round where every sealed day was gated and passed |
| `MorningProofs` | `TypeCorrect` | `Spec => []TypeOK` |
| | `LedgerIsTrue` | `Spec => []LedgerIsSound` |
| | `PairIsTheMarkets` | `Spec => []PairIsReal` |
| | `NoneGoesUnnoticed` | `Spec => []RecordingsAreJudged` |
| | `GoWalksTheMarket` | `Spec => []GoIsTheMarket` |
| | `SettledStaysSettled` | `Spec => NeverUnlearned` |
| | `ReadyKeepsItsWord` | `Spec => ReadyIsServed` |
| `BacktestProofs` | `AggregationAgrees` | minutes and the candles made of them agree, for every sequence of bars of the session |
| | `LedgerIsThatOfOneRun` | `Spec => []LedgerIsOneRun` |
| | `GatesLetThroughTheUsable` | `Spec => []GatesAreExact` |
| | `BiasesAreWarranted` | `Spec => []BiasIsWarranted` |
| | `VolumesAreConserved` | `Spec => []VolumeConserved` |
| | `RowsHaveTheirShape` | `Spec => []TypeOK` |
| | `RowsAreWhatIsStated` | `Spec => []RowsAreAsStated`, a part of `ChecksPass` |
| | `PathsAreWhatWasMade` | `Spec => []PathsEndAtFill(WalkedLedger)`, a part of `BooksAgree` |
| | `FallsAreTheWorst` | `Spec =>` always, `FallsAreWorst` and `PathMeetsCloses` of a finished ledger, parts of `BooksAgree` |
| | `ColumnsAreOfOneRun` | `Spec =>` always, `ColumnsAddUp` of a finished ledger, a part of `BooksAgree`, and the `curve` of `LedgerHolds`, one of `ChecksPass` |
| | `BenchmarkIsWhatIsHeld` | `Spec => []BenchmarkIsHeld` |

**Assumptions.** Each is named in the module that declares its constants, and
TLC evaluates it on the runs. Of the rules (`GridAssumption` and the ones beside
it): the order of the session's candles, which the code's 8, 9, 23, 24, 25
satisfy; a positive target multiple, whole prices, and candles whose close lies
within their range, which gate 2 ensures before the rules see them. Nothing is
assumed of how many candles or prices there are, or which are missing. Of the
minutes of `SignalLoop` (`MinuteAssumption`) only that they close at whole prices.
Of the
parity harness (`PollAssumption`): a poll after the square-off. Of the screener:
that "none" is not a POC or a trade, that the trades of zero quantity are trades,
that the day has at least three boundaries, and that the bounds on deaths,
revisions and faults are natural numbers; any universe will do. Of the backfill
(`UniverseAssumption`, `MinuteStoreAssumption`, `VendorMapAssumption`): windows,
months and days are positive numbers, the volume estimator needs a day at least, a
run ends no later than the day it is made, a symbol has finitely many candles,
table rows, unparsed events and vendor adjustments, all of them whole numbers;
that "none" is not a window. Two theorems (`NothingStaysOwed`,
`ClaimsHaveEvidence`) have a hypothesis of their own, `NoneIsNeither`: "none" is
not a row and not a map, whatever its fields hold. TLC cannot evaluate it, since
it speaks of all values; its `None` is a model value, of which it is true. Of the mornings (`WorldAssumption`, `StoreAssumption`,
`MorningAssumption`): the market trades on weekdays, and a session on a weekend is
a special one; any worlds, any number of symbols. Of the backtest
(`BacktestAssumption`): the universe is a sequence of symbols, every world has
their stores with a positive tick, a stored minute is six whole numbers
(`StoredBars`) and a daily row five (`StoredRows`), whatever they are; a session's
minutes fit into its candles. Of its benchmark (`BenchmarkAssumption`): a symbol has
finitely many daily rows, no close is negative, and what the parser took out of an
announcement are whole numbers or nothing (`IsAnnouncement`). Of the horizon: that a count has no more passing than gated and no more
gated than stored days.

**The walk.** `LoopInv` says what the running state stands for: before the loop
looks at candle k, `state` is `StateAt(k)`, a function of the candles before k
alone, and none of them crossed. So the candle at which the loop breaks is the
earliest cross (`CrossIsEarliest`), and a loop that runs out ends in
`UncrossedState`. In the second loop, every candle that touches a level is
still ahead. What the loop takes its first close from is read off `early`, and the
invariant compares it with the rule's reference only on days where minutes and
candles agree. Without the first half a loop could have lost an arming close; the
second is why the first hit in the loop is `Earliest(TouchBars)`.

**Why a cross is sizable.** `BeforeTheCross`: the last candle before the first
cross did not close on the trigger side. If it is in the window it would have
been the cross itself, or nothing armed the day before it, and then nothing
armed it between the two either; if it is not, it is the reference, which
armed the day. So the close a gap entry takes as its stop is at the POC or
beyond it, a normal entry's stop is too by the definition of a gap, and the risk
is positive (`CrossSplits`). The argument needs the reference to be the close of
the last candle before the window, which is where the agreement of the minutes
enters: `RefusalsContradict` says that a refusal contradicts it. `AggregationAgrees`
follows the aggregation: stamps rise, so the last minute before 11:15 is the last
of the last candle that begins before then (`EarlyIsByOrdinal`).

**One trade.** `DayStep` compares the answers before and after a candle closes:
the reference is settled at 11:15, a cross stays the first cross with the same
predecessor, a new cross can only be the candle that just closed on a day that
was already armed, and a touch stays the first touch. The one thing that does
change is the provisional square-off mark, and it is not believed before the
15:00 candle has closed, after which it no longer moves.

**Live and backtest.** `ParityInv` says that what is shown is `Read` of the
answer of now, that every captured boundary shows what the projection of today's
answer has for it, and that exactly what is owed was sent. The projection looks
at a whole day and the live half at the day so far, so the induction needs that
the projection of the past does not move when a candle closes
(`ProjectionStays`), which `DayStep` gives, and that a shown state only moves
forward (`ReadSteps`). The harness's count of the alerts it expects is a
recursive function; that the live half's set is the one it comes to is proved
from its recursion equation, by a least index at which the two would differ
(`ExpectedIs`). A day whose first candle comes after 11:15 is the exception, and
the theorem says what happens there too (`HalvesDiffer`).

**The live loop.** `TypeInv` adds to the types what the outbox may hold at each
step of a sweep: alerts of symbols while symbols are evaluated, nothing while
polling. `AtMostOnce` rests on the order record, remember, deliver. `DeliverInv`
says that what was sent is in the saved identities, those are in memory while
the process is up, and an alert about to go out is of an identity not yet sent.
`ExitsFollowTriggers` needs `NumbersInv` (a state labelled
exited has the numbers of its trade, so the same evaluation warrants its
trigger) and `LogInv` (every identity in memory or saved is in the record, and
an exit in the outbox comes right after its trigger or has it in the record
already; after the session nothing goes out). None of
these holds by itself: each action that writes one of the three books is safe
only because of what the others hold.

`SecondAlertsAreMarked`: everything sent has its identity in memory, also after a
restart (`DeliverInv`), so `Superseded` sees every earlier alert when one is
recorded, and the mark stays with the alert until it is delivered (`MarkInv`).
`OnePocInForce`: a death unpins a POC that was in memory only; the reason no
second one is ever quoted is that `RememberAlert` saves the pins with the
identity before the alert goes out, so what was sent quotes a pin that is on disk
and comes back (`PocInv`). `RefusalsAlone` needs that a process that is down
shows nothing (`FreshInv`). `AnnouncedBetweenSweeps` follows a shown state through
the sweep (`ShownInv`): the trigger of a position shown or saved is in the record
or next in line; an exit whose alert is neither recorded nor waiting belongs to a
symbol this sweep has not finished with or has given up, and then the banner is
raised at its end. The attempt to prove it showed the property to be too strong
as it first stood (of the restart under *Observations*).

**The windows.** `StoreInv` is the order of two writes: a window is called
present only when every candle the vendor has for it is stored, which holds
because the month files of a window are written before its line of the ledger,
and stays because a rebuild changes days and takes none away. Which days a
window has must not depend on the run, hence the part about ends.

**The reconciliation.** `RowInv` says that a row with a tally counts days, and
that a day the sealed report has as passing had a daily row to be gated with.
Where the sealed report counted its store and the older days gate as they did,
the boundary's days and the older ones are a partition of both stores
(`CountsAdd`), so the theorem is the horizon's arithmetic once more:
`SlackCoversTheWindow` bounds what the window gave before by the days of the
whole that could not be gated, or failed; what it gives now is counted; the
delta lies between.

**What is owed.** `NeedsReprocessing` has five reasons to un-skip a finished symbol,
and each has to be gone when a run that finished it writes the row. `OwedInv`
follows them from the gate to the record: the row in hand carries the marks of
this release and of this table (`StampInv`), a hunt that falls due is run before
the row is judged (`HuntInv`), a claim of floors comes with a map that has one in
force (`ClaimInv`), and a reroute is owed only where this run may not make it
(`RouteInv`); hence the row on disk is owed nothing (`ClearInv`). The induction
fails at one place, and rightly: `Excused` is the symbol of the table path whose
hunt, under a map that a killed run left, makes gate 1 worse. The theorem says
`SelfClearing` but for that one, and `OnlyTheKilledAreExcused` that it takes a
kill; it is the case of the two runs under *Observations*.

**What a row counts.** `TallyInv`: between the gate and the row nothing moves the
stored days but a rebuild, a recovery or a hunt, each of which gates again, or a
kill, after which the row on disk may be of an older store.

**Maps that may be read.** `TypeOK` and `RebuildIsSafe` rest on `ShapeInv`. Its main
part, `MapsInv`, says of the map on disk, the one in hand and those of a hunt that
they *may be read* (`MayBeRead`): the days that name an era are among the map's own
events, a proved era has a factor for each of them, and no event has two floors.
Probing, the enumeration of combinations, both sides, the refinement of the
measured factors and the resolution of all eras are followed through for every
number of events and probes (`MeasuredIs`, `PassesAreTerms`, `EraIsResolved`,
`RefinedIs`, `ResolvedIs`), then what a hunt, a recovery or a rebuilt map do to it
(`HuntRoundIs`, `AcceptedIsRead`, `CarriedFloorsRead`). `Total`, `Resolved` and
`HuntRound` recurse over the subsets of a finite set; that they have a value at
all is proved by the least size of a subset that would lack one, and what holds of
the value by a minimal counterexample among the subsets (`HasMinimal`). With a map
that may be read, what the rebuild takes out of a day is a pair of numbers, and the
rest is the arithmetic of `BaselineIsUndone`: the side that is judged to be off
becomes exactly raw, so a second pass finds nothing, and a day in order on both
sides was raw by price, so its correction is zero.

**The mornings.** A loss of power may keep any of several states of the
directory, so `StoreInv` is about all of them: in every survivor, a date called
present has its rows, rows are of a date that has a file, a date called 404 has
none, and no recording is judged by a day it is not of. `RecordDate` writes rows before the ledger, and an answer
is the first deciding reply of a request (`FetchDecides`), so a failure settles
nothing. `GoIsTheMarket` follows: a span settled throughout is the market's
calendar. `PairIsReal` needs that the calendar the screener starts with was
derived from such a ledger on the same morning. `JudgeInv` says that at each step
of a morning a recording is judged, still in the queue, or already named as
unjudged; `ReadyInv` that the files READY looked at are still there, since
nothing but a damage, which withdraws the certificate, takes them away; the master
is still held when the session is built, since no step of that day removes it.

**The backtest.** `RunInv`: the progress file names symbols in order, each with
the whole shard of the code the file is stamped with; a shard of another code is
overwritten before it is named again. The scan is a function of the stores,
whoever made it, and a resumed run reads what the first one saved. So the ledger
is the concatenation of whole walks. `GatesLetThroughTheUsable`: a day behind the
gates has no duplicate stamp, no negative volume and no impossible bar, and each
error an engine can raise needs one of these (or an empty window, which the scan
took out of the calendar).

`BiasesAreWarranted`: the series of biases is a recursive function of days, and
that it holds the last decision up to each of them is proved by the least day at
which it would not (`SeriesHoldsTheLastDecision`), whatever was carried or could
not be used in between; on a mirrored pair of days the rules decide the mirrored
bias, so they favour no direction. `VolumesAreConserved`: every row count divides the
`Denominator`, so a candle's volume spread over its rows and added up again is
the candle's; the rows of a profile are the union of the candles' ranges, and the
two sums, by rows and by candles, are exchanged. `RowsHaveTheirShape` takes each verdict of
`SignalRow` to the fields it promises, for whatever the engines answer.

`RowsAreWhatIsStated` rests on the walk of the rules: the cross and the stop come
of candles that passed gate 2 (`CrossIsATrade`), so the stop is on its side of the
entry and the quantity is the largest the budget allows (`SizesAreTight`). A trade
is out at its target, its stop or the close of the last candle it was watched in
(`ExitsWhereItMay`), and until then no candle reached further than the exit, so
what it was worth lies between its extremes. `Sound` carries these facts
(`IsTraded`) from the day to the row, and `RowsWereWalked` to the finished ledger:
every row of it was walked. The candles of a path are enumerated in their order by
`InOrder`, a function over numbers, which is why it can be shown to rise
(`InOrderRises`).

`FallsAreTheWorst`: what a walk along a curve has seen up to a point is the first
of its highest places and a fall that no two of them beat (`IsSeen`), kept from
point to point (`LooksFurther`, `WalkSees`); the rise is the fall of the curve
turned over. The path of candles is a sequence of days put together, and
every point of it is of one day (`FlatIsPlaced`, `EveryPlaceIsOfAPart`). In a day, a
trade is worth nothing before its first mark and its net from its last one on
(`ContributionIs`), so after the last stamp nothing is open and the equity is that
of the close (`PointsAre`, `WholePathCloses`). The path therefore meets the curve of
days in order, and falls at least as far (`FallsAsFar`).

`ColumnsAreOfOneRun`: sums over positions split over disjoint sets (`SumAtAdds`), and
the two sides share the trades of every day, so their curves add up to the whole
one day by day, and a fall of a sum is at most the sum of the falls (`FallsShare`).
A day stands where its rank says (`RanksAreDays`), years follow days, so the days of
the n-th year are a stretch of all the days (`YearsAreSegments`). A year that opens
with the equity of the run follows it to the year's end (`StretchFollows`); the
rest is induction over the years (`BookedYearsChain`). The net of a column is that
of its days (`DaysHoldTheNet`), which is where the curve ends.

`BenchmarkIsWhatIsHeld`: every factor of a table is a ratio of positive numbers
(`TablesAreSound`), whatever was announced, because each kind is only given one
behind its guards. The product over a set of positions is a recursive function;
over two disjoint sets it is the product of the products (`TimesSplit`, by a least
counterexample). So the closes between the first and the last day and the factors
between them telescope (`HeldIsScaled`): what a holder has is the first close and
the factors up to the last one. Factors of one, and those of days without a close,
cancel (`FlatFactorsCancel`), and the cut is that of one integer division
(`SaidIsHeld`). An event after the last close has nothing to cancel with, which
is the exception.

**Only model-checked.**

- Liveness (`DayCloses`) and everything about fairness are out of the prover's
  reach.
- The rest of `BooksAgree` (outliers, and the two readings of open positions) and of
  `ChecksPass` (the report's recount, the outcomes, the closes picked out of the
  path): they compare readings of a ledger that sort it, select from it or fold
  over it with operators of the libraries (`SortSeq`, `SelectSeq`, `FoldLeft`),
  which the provers cannot expand; what a fold returns for every sequence is
  induction over data, and the library's induction theorems take an operator as a
  parameter. That no two rows have one symbol and day (`keys`) needs that no symbol
  is listed twice, which the constants' assumption does not say. A recursive function over
  numbers or over the subsets of a set is not out of reach: a least counterexample
  does it (`HasLeast`, `HasMinimal` in `NumberLemmas`).
- `ClaimsAreInForce`, the other half of `RecordMatchesStore`: that the very floors a
  row names are in force needs that a map built anew from the same vendor finds the
  same floors. What is proved is that a claim never stands without a map that has
  a floor in force (`ClaimsHaveEvidence`).

## What is abstracted, and what is not modelled

*Everywhere:* wording, layout and logging; throttles, back-off, cookies and
cool-downs, which take time and decide no outcome.

*Live loop.* The identity of an exit alert has all of the trade's terms, where
`_alert_key` (`live_screener.py:1803-1806`) takes the kind, the price and the
quantity: two trades of one day that leave at one price with one quantity share
an identity in the code, which then says nothing of the second, and have two in the
model.

*Backfill.* The logarithms in whole steps; rounding and the snap to the tick;
refining a measured price factor (the same in every era); the fetch date of a
window is the day of the run; the other symbols are a number. A login spends an
attempt, a refused login raises at once. The stand-alone `minute_backfill`
command, with its rebuild along the table path, the report and the sweep over
unknown series are not modelled, nor is building a map from the command line. A
row that claims floors its map has lost re-opens the hunt; the count of claims
(`floors_resolved`, `universe_backfill.py:1709`), which is zeroed then while the
dates are kept, is read off the dates. A hunt that fails for good on a vendor
adjustment, the daily store or the master (2293-2298), and is closed with a note,
is not modelled: hunts end, or are interrupted by the vendor and stay open.

*Reconciliation.* The forensics file, written by hand; symbols that are in one
report only; the report's rendering.

*Backtest.* The calendar of a run covers its span, so no day is refused because the
calendar cannot answer for it, nor a symbol because its engine meets such a day
(`backtest.py:876-879`, 924-935); a preflight asks for that, and
`GoIsTheMarket` is about it. A factor is a ratio, where the code's is a decimal of
28 digits: a price that the exact ratio puts half-way between two paise may go the
other way for a factor of rights. Of the evidence packs, that an evaluated day
passed the whole battery (`pilot_evidence.py:1506-1515`) and the count of relieved
days are left out: a row has no gate results, and `WalkDay` evaluates behind the
gates only. A malformed raw daily row, which raises; `cross_source_report`;
percentages, Sharpe, Sortino and growth rates, the retired capital flags; the
report's rendering and its cross-checks against a pilot or a crashed run; the
sampling and the pages of the evidence packs.

*Mornings.* A recording's battery is one verdict per symbol; renames reach the
disk in order unless the world does not sync directories; whether a file lists
the screened symbol is the world's choice; refreshing the universe is served or
fails; a resumed session fetches the whole day again; a recording has one label
per day; a session opened under other code is refused at the manifest, as one that
cannot be read is. `--preflight-only` is a morning without the network that is not
refused one: it writes the recording's directory and manifest and ends before the
bell. A symbol a recording does not hold is absent from its verdict, which is
written all the same. A damaged universe cache and corrupt month files are not
modelled.

*Not modelled at all:* the Telegram client, of which `Screener` has only that a
sink receives or raises: what it adds, a send that timed out and may have
arrived, is not repeated by the loop either; configuration files, read once at
the start; the documents rendered from finished data (`trader_pack.py`,
`points_view.py`, `poc_evidence.py`, `ca_report.py`, `live_dashboard.py`).
