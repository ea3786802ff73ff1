------------------------------ MODULE Pipeline ------------------------------
(***************************************************************************)
(* One symbol-day, from the stores to a ledger row: the gate battery and   *)
(* the pipeline (signal_engine.py), the bias it is given (bias_engine.py,  *)
(* with the gated loader of backtest.py), the simulated trade              *)
(* (simulate.py) and the row (backtest.py).                                *)
(*                                                                         *)
(* A symbol s is what the stores hold of it: s.rows, the raw daily rows    *)
(* by day; s.minutes, the stored bars by day; s.actions, its corporate     *)
(* announcements; s.tick, its tick.  A row of the ledger is a record; a    *)
(* price it does not have is NoRow.                                        *)
(***************************************************************************)
EXTENDS Bias, SignalRules, Sizing

CONSTANT Cost   \* paise a trade costs (config)

ASSUME CostAssumption == Cost \in Nat

Minutes(s, d) == IF d \in DOMAIN s.minutes THEN s.minutes[d] ELSE <<>>

(***************************************************************************)
(* The gate battery of a settled day, on every bar the store holds for it. *)
(***************************************************************************)
FirstOpen(bars) ==
    LET first == Min({bars[i].t : i \in DOMAIN bars})
    IN bars[Min({i \in DOMAIN bars : bars[i].t = first})].o

GatesOf(bars, fold, row) ==
    LET gate1    == VolumeGate(row.v, Volume(bars))
        relieved == AuctionRelief(gate1, fold, row)
        ok       == gate1.passed \/ relieved
    IN [reconciled |-> ok, relieved |-> relieved,
        gate2  |-> IntegrityGate(bars, ok, TRUE).passed,
        gate1p |-> PriceContainment(fold, row.h, row.l)]

GatesWithoutRow(bars) ==
    [reconciled |-> NoRow, relieved |-> FALSE,
     gate2  |-> IntegrityGate(bars, NoRow, TRUE).passed,
     gate1p |-> "no-raw-daily-row"]

GateDay(s, d) ==
    LET bars == Minutes(s, d)
        fold == [o |-> FirstOpen(bars), h |-> High(bars), l |-> Low(bars)]
    IN IF d \in DOMAIN s.rows THEN GatesOf(bars, fold, s.rows[d]) ELSE GatesWithoutRow(bars)

(* Slip: the integrity gate is not asked. *)
RefusalUnchecked(g) ==
    IF g.reconciled = NoRow THEN "gate-1P"
    ELSE IF ~g.reconciled THEN "gate-1"
    ELSE IF g.gate1p # "contained" THEN "gate-1P"
    ELSE "none"

(* Why a settled day is not usable; "none" when it is. *)
Refusal(g) ==
    IF g.reconciled = NoRow THEN "gate-1P"
    ELSE IF ~g.reconciled THEN "gate-1"
    ELSE IF ~g.gate2 THEN "gate-2"
    ELSE IF g.gate1p # "contained" THEN "gate-1P"
    ELSE "none"

(***************************************************************************)
(* Rule 3's minutes: only a day that passes the battery may be read, and   *)
(* every bar of its session must be a possible candle.                     *)
(***************************************************************************)
Loaded(bars, dropped) == [fault |-> "none", bars |-> bars, dropped |-> dropped]
Unusable(fault) == [fault |-> fault, bars |-> <<>>, dropped |-> 0]

LoadMinutes(s, d) ==
    LET bars == InSessionBars(Minutes(s, d))
    IN IF Minutes(s, d) = <<>> THEN Loaded(<<>>, 0)
       ELSE IF Refusal(GateDay(s, d)) # "none" THEN Unusable("minutes-ungated")
       ELSE IF \E i \in DOMAIN bars : ~Sane(bars[i]) THEN Unusable("minutes-malformed")
       ELSE Loaded(bars, DroppedBars(Minutes(s, d)))

(***************************************************************************)
(* The bias of a trading day whose pair is (current, previous), given the  *)
(* last bias; the answer's `last' is what the next day is given.           *)
(***************************************************************************)
DayBias(bias, rule, dropped, last) ==
    [bias |-> bias, rule |-> rule, dropped |-> dropped, last |-> last]

Unresolved(day) == day.rule \in {"minutes-malformed", "minutes-ungated"}

AdjustedRow(row, k) ==
    [o |-> AdjustPrice(row.o, k), h |-> AdjustPrice(row.h, k),
     l |-> AdjustPrice(row.l, k), c |-> AdjustPrice(row.c, k)]

AdjustPrevious(s, table, current, previous) ==
    LET between == FactorsBetween(table.factors, previous, current)
    IN IF between = {} THEN s.rows[previous]
       ELSE AdjustedRow(s.rows[previous], Product(table.factors, between))

(* Slip: evidence that cannot be read ends the carry. *)
JudgePairForgets(p, c, loaded, last) ==
    IF loaded.fault # "none" THEN DayBias(last, loaded.fault, FALSE, "none")
    ELSE LET answer == EvaluatePair(p, c, loaded.bars, last)
         IN DayBias(answer.bias, answer.rule, loaded.dropped > 0, answer.bias)

JudgePair(p, c, loaded, last) ==
    IF loaded.fault # "none" THEN DayBias(last, loaded.fault, FALSE, last)
    ELSE LET answer == EvaluatePair(p, c, loaded.bars, last)
         IN DayBias(answer.bias, answer.rule, loaded.dropped > 0, answer.bias)

BiasFor(s, table, current, previous, last) ==
    IF current \in table.suppressions \/ previous \in table.suppressions
      THEN DayBias(last, "suppressed", FALSE, last)
    ELSE IF current \notin DOMAIN s.rows \/ previous \notin DOMAIN s.rows
      THEN DayBias(last, "no-data", FALSE, last)
    ELSE LET p == AdjustPrevious(s, table, current, previous)
             c == s.rows[current]
         IN JudgePair(p, c, IF NeedsMinutes(p, c) THEN LoadMinutes(s, current) ELSE Loaded(<<>>, 0), last)

(* The days of a set from the earliest on, each by its rank. *)
InOrder(days) ==
    [i \in 1 .. Cardinality(days) |->
        CHOOSE d \in days : Cardinality({e \in days : e <= d}) = i]

(* The series over the days; a pair is the two trading days before the     *)
(* day, and a day is given the last bias of the day before it in days.     *)
Before(trading, d) == Max({x \in trading : x < d})

BiasSeries(s, table, trading, days) ==
    LET series[d \in days] ==
            LET current  == Before(trading, d)
                previous == Before(trading, current)
                earlier  == {e \in days : e < d}
            IN BiasFor(s, table, current, previous,
                       IF earlier = {} THEN "none" ELSE series[Max(earlier)].last)
    IN series

(***************************************************************************)
(* The simulated trade.                                                    *)
(***************************************************************************)
SideOf(bias) == IF bias = "bullish" THEN "long" ELSE IF bias = "bearish" THEN "short" ELSE "none"

GrossPnl(side, qty, price, fill) ==
    IF side = "long" THEN qty * (fill - price) ELSE qty * (price - fill)

(* Slip: the candle it was closed in is left out. *)
MonitoredToExit(bars, entry, exit) == {n \in DOMAIN bars : entry.at < n /\ n < exit.at}

(* The candles a trade is open in, after the one it was entered at. *)
Monitored(bars, entry, exit) == {n \in DOMAIN bars : entry.at < n /\ n <= exit.at}

Excursions(side, qty, bars, entry, exit) ==
    LET days == Monitored(bars, entry, exit)
        top == Max({bars[n].high : n \in days})
        bottom == Min({bars[n].low : n \in days})
        good == IF side = "long" THEN top - entry.price ELSE entry.price - bottom
        bad  == IF side = "long" THEN bottom - entry.price ELSE entry.price - top
    IN IF days = {} THEN [mfe |-> 0, mae |-> 0]
       ELSE [mfe |-> qty * Larger(0, good), mae |-> qty * Min({0, bad})]

(* The path of the open trade: the closes from the entry to the exit, its  *)
(* ends at the entry price and at the fill.                                *)
Mark(at, price) == [at |-> at, price |-> price]

TradePath(bars, entry, exit, fill) ==
    LET open  == {n \in DOMAIN bars : entry.at <= n /\ n <= exit.at}
        order == InOrder(open)
        marks == [i \in DOMAIN order |-> Mark(order[i], bars[order[i]].close)]
        begun == IF marks # <<>> /\ marks[1].at = entry.at THEN marks
                 ELSE <<Mark(entry.at, entry.price)>> \o marks
    IN IF Last(begun).at = exit.at THEN Front(begun) \o <<Mark(exit.at, fill)>>
       ELSE begun \o <<Mark(exit.at, fill)>>

(***************************************************************************)
(* The row.                                                                *)
(***************************************************************************)
NoTrade == [entry |-> NoRow, stop |-> NoRow, fill |-> NoRow, qty |-> 0, gross |-> 0, net |-> 0,
            mfe |-> 0, mae |-> 0, path |-> <<>>]

EmptyRow(d, status, reason) ==
    [symbol |-> NoRow, day |-> d, status |-> status, reason |-> reason,
     bias |-> "none", rule |-> "none", side |-> "none", poc2 |-> NoRow,
     outcome |-> "none", exit |-> "none", dropped |-> FALSE, shapes |-> {}, trade |-> NoTrade]

Traded(side, bars, entry, exit) ==
    LET qty  == PositionSize(Risk(entry.price, entry.stop, side))
        fill == ExitPrice(entry, exit, bars)
        gross == GrossPnl(side, qty, entry.price, fill)
        seen == Excursions(side, qty, bars, entry, exit)
        unsized == [NoTrade EXCEPT !.entry = entry.price, !.stop = entry.stop]
    IN IF qty = 0 THEN unsized
       ELSE [entry |-> entry.price, stop |-> entry.stop, fill |-> fill, qty |-> qty,
             gross |-> gross, net |-> gross - Cost, mfe |-> seen.mfe, mae |-> seen.mae,
             path |-> TradePath(bars, entry, exit, fill)]

(* What is unusual about a simulated day.  A gap entry is one also when it *)
(* was too large to be sized.                                              *)
Shapes(row, answer, trade, bars) ==
    LET entered == answer.outcome = "entered"
        sized   == entered /\ trade.qty > 0
        holds   == [gap         |-> entered /\ IsGap(bars[answer.entry.at], row.side, row.poc2),
                    qtyzero     |-> entered /\ trade.qty = 0,
                    unsizable   |-> answer.outcome = "consumed-unsizable",
                    bothtouched |-> /\ sized /\ answer.exit.kind = "stop"
                                    /\ HitTarget(bars[answer.exit.at], answer.entry, row.side),
                    atentry     |-> /\ sized /\ answer.exit.kind = "square-off"
                                    /\ answer.exit.at = answer.entry.at,
                    fallback    |-> HasReference(bars) /\ ReferenceBar \notin DOMAIN bars]
    IN {shape \in DOMAIN holds : holds[shape]}

SimulatedRow(row, answer, trade, bars) ==
    [row EXCEPT !.outcome = answer.outcome, !.exit = answer.exit.kind, !.trade = trade,
                !.shapes = Shapes(row, answer, trade, bars)]

SimulateDay(row, answer, bars) ==
    SimulatedRow(row, answer,
                 IF answer.outcome # "entered" THEN NoTrade
                 ELSE Traded(row.side, bars, answer.entry, answer.exit),
                 bars)

(* What evaluate_day may take its reference from when the reference candle  *)
(* did not trade.  They are the bars the candles are aggregated from, so    *)
(* EvaluateDay needs only the candles (AggregationAgrees, BacktestProofs).  *)
EarlyCloses(bars) ==
    LET early == Stamped(bars, 0 .. CandleMinutes * ReferenceBar - 1)
    IN [i \in DOMAIN early |-> early[i].c]

(* Slip: a day without a POC counts as evaluated. *)
SignalRowCounted(row, bars, poc2) ==
    IF poc2 = NoRow THEN row
    ELSE SimulateDay([row EXCEPT !.poc2 = poc2],
                     EvaluateDay(Aggregate(bars), row.side, poc2), Aggregate(bars))

(* A day is priced when the gates pass, the bias has a side and the        *)
(* minutes have a POC.                                                     *)
SignalRow(row, bars, poc2) ==
    IF poc2 = NoRow THEN [row EXCEPT !.status = "refused", !.reason = "no-poc"]
    ELSE SimulateDay([row EXCEPT !.poc2 = poc2],
                     EvaluateDay(Aggregate(bars), row.side, poc2), Aggregate(bars))

Evaluate(s, d, day, gates, row) ==
    LET bars == InSessionBars(Minutes(s, d))
        refused(why) == [row EXCEPT !.status = "refused", !.reason = why]
    IN IF Refusal(gates) # "none" THEN refused(Refusal(gates))
       ELSE IF day.rule = "suppressed" THEN refused("suppressed")
       ELSE IF SideOf(day.bias) = "none" THEN refused("no-bias")
       ELSE SignalRow([row EXCEPT !.side = SideOf(day.bias), !.dropped = @ \/ DroppedBars(Minutes(s, d)) > 0],
                      bars, Profile(bars, s.tick, gates.reconciled))

(* walk_day: dropped also says that the pair's own minutes lost a bar.     *)
WalkDay(s, d, day) ==
    LET row == [EmptyRow(d, "evaluated", "evaluated") EXCEPT !.bias = day.bias, !.rule = day.rule,
                                                         !.dropped = day.dropped]
    IN IF Minutes(s, d) = <<>> THEN [row EXCEPT !.status = "refused", !.reason = "no-minutes"]
       ELSE Evaluate(s, d, day, GateDay(s, d), row)

(* What the pipeline raises on instead of answering: bars that the gates   *)
(* let through and the engines behind them do not take.                    *)
WalkRaises(s, d, day) ==
    LET bars == InSessionBars(Minutes(s, d))
    IN /\ Minutes(s, d) # <<>>
       /\ Refusal(GateDay(s, d)) = "none"
       /\ day.rule # "suppressed" /\ SideOf(day.bias) # "none"
       /\ HasDuplicate(bars) \/ ProfileRaises(WindowBars(bars))
=============================================================================
