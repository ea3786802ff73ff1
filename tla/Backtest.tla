------------------------------ MODULE Backtest ------------------------------
(***************************************************************************)
(* The backtest runner, backtest.py and run_backtest.py: a process walks   *)
(* the symbols of a run one by one, writes each symbol's rows as a shard,  *)
(* notes the symbol in the progress file, and at the end concatenates the  *)
(* shards into the ledger and writes the manifest.  The process may die    *)
(* after any of those writes and be started again, under the same or under *)
(* another state of the code.                                              *)
(***************************************************************************)
EXTENDS Portfolio

CONSTANTS
    SymbolOrder,      \* the run's symbols, in order
    Start, End,       \* the span; days are numbers, earlier ones are history
    Worlds,           \* what the stores and the calendar may hold
    Versions,         \* states of the code
    MaxDeaths, MaxLaunches

(* Of a run without a symbol nothing is launched.  NoRow, for a file that  *)
(* is not there, is no progress file.  The candles cover the session.      *)
ASSUME BacktestAssumption ==
    /\ Start \in Nat /\ End \in Nat /\ Start <= End
    /\ MaxDeaths \in Nat /\ MaxLaunches \in Nat \ {0}
    /\ SessionMinutes <= CandleMinutes * SessionBars
    /\ SymbolOrder \in Seq(ToSet(SymbolOrder)) /\ SymbolOrder # <<>>
    /\ NoRow \notin [code : Versions, done : Seq(ToSet(SymbolOrder))]
    /\ \A w \in Worlds :
         /\ DOMAIN w.symbols = ToSet(SymbolOrder)
         /\ \A x \in DOMAIN w.symbols :
              /\ w.symbols[x].tick \in Nat \ {0}
              /\ \A d \in DOMAIN w.symbols[x].minutes : w.symbols[x].minutes[d] \in Seq(StoredBars)
              /\ \A d \in DOMAIN w.symbols[x].rows : w.symbols[x].rows[d] \in StoredRows

VARIABLES
    world,            \* the stores, which nobody writes during a run
    head,             \* the state of the code
    disk,             \* the run directory
    proc,             \* the running process
    launches, deaths

vars == <<world, head, disk, proc, launches, deaths>>

Span == Start .. End

(***************************************************************************)
(* Sessions outside the standard hours: days on which no symbol has a bar  *)
(* inside them and some symbol has one outside.  They leave the calendar.  *)
(***************************************************************************)
HasInside(s, d) == InSessionBars(Minutes(s, d)) # <<>>

NonStandardSessions(w) ==
    LET stored(d) == {w.symbols[x] : x \in {y \in DOMAIN w.symbols : Minutes(w.symbols[y], d) # <<>>}}
    IN {d \in Span : stored(d) # {} /\ \A s \in stored(d) : ~HasInside(s, d)}

Pairable(trading, d) == d \in trading /\ Cardinality({x \in trading : x < d}) >= 2

TableOf(s) == SymbolActions(s.actions, s.rows, s.overrides)

(***************************************************************************)
(* The walk of one symbol: a row for every day of the span that is not     *)
(* closed.                                                                 *)
(***************************************************************************)
BiasDays(trading) ==
    LET pairable == {d \in Span : Pairable(trading, d)}
    IN IF pairable = {} THEN {} ELSE trading \cap (Min(pairable) .. End)

BiasMap(s, trading) == BiasSeries(s, TableOf(s), trading, BiasDays(trading))

RefusedRow(d, reason) == EmptyRow(d, "refused", reason)

(* A bias can be unresolved for a span without a pair, for a day without   *)
(* one, and by either rule that found its minutes unusable: four reasons.  *)
WalkOneDay(s, d, series) ==
    IF d \notin DOMAIN series
      THEN RefusedRow(d, IF DOMAIN series = {} THEN "no-pairable-day" ELSE "no-pair")
    ELSE IF Unresolved(series[d])
      THEN [RefusedRow(d, series[d].rule) EXCEPT !.bias = series[d].bias, !.rule = series[d].rule]
    ELSE WalkDay(s, d, series[d])

WalkDays(s, sessions, walked, series) ==
    [i \in DOMAIN walked |->
        IF walked[i] \in sessions THEN RefusedRow(walked[i], "non-standard-session")
        ELSE WalkOneDay(s, walked[i], series)]

WalkSymbol(w, x, sessions) ==
    LET trading == w.trading \ sessions
        s       == w.symbols[x]
        rows    == WalkDays(s, sessions, InOrder(Span \cap (w.trading \cup sessions)),
                            BiasMap(s, trading))
    IN [i \in DOMAIN rows |-> [rows[i] EXCEPT !.symbol = x]]

(* The walk does not get to its end. *)
WalkStops(w, x, sessions) ==
    LET series == BiasMap(w.symbols[x], w.trading \ sessions)
    IN \E d \in DOMAIN series : /\ ~Unresolved(series[d])
                                /\ WalkRaises(w.symbols[x], d, series[d])

(***************************************************************************)
(* The manifest's counts.                                                  *)
(***************************************************************************)
CountBy(labels) ==
    [k \in Range(labels) |-> Len(SelectSeq(labels, LAMBDA x : x = k))]

Each(rows, label) == [i \in DOMAIN rows |-> rows[i][label]]

(* The rare shapes of a row: those of its simulated day, the rule that     *)
(* decided or could not decide its bias, and bars outside the session.     *)
RareRules == {"rule-3-tie", "rule-3-no-1min-carry", "minutes-malformed", "minutes-ungated"}
RareShapes == {"gap", "qtyzero", "unsizable", "bothtouched", "atentry", "fallback", "dropped"}
                 \cup RareRules

ShapesOf(r) ==
    r.shapes \cup (RareRules \cap {r.rule}) \cup (IF r.dropped THEN {"dropped"} ELSE {})

RareShapeCounts(rows) ==
    [shape \in RareShapes |-> Len(SelectSeq(rows, LAMBDA r : shape \in ShapesOf(r)))]

OutcomeOf(r) == IF r.outcome = "none" THEN r.reason ELSE r.outcome

Manifest(rows) ==
    [walked   |-> Len(rows),
     usable   |-> Len(SelectSeq(rows, LAMBDA r : r.status = "evaluated")),
     signalled |-> Len(SelectSeq(rows, LAMBDA r : r.trade.entry # NoRow)),
     executed |-> Len(Executed(rows)),
     shares   |-> SumOf(rows, LAMBDA r : r.trade.qty),
     gross    |-> SumOf(Executed(rows), LAMBDA r : r.trade.gross),
     net      |-> SumOf(Executed(rows), LAMBDA r : r.trade.net),
     refused  |-> CountBy(Each(SelectSeq(rows, LAMBDA r : r.status = "refused"), "reason")),
     outcomes |-> CountBy([i \in DOMAIN rows |-> OutcomeOf(rows[i])]),
     exits    |-> CountBy(Each(Executed(rows), "exit")),
     shapes   |-> RareShapeCounts(rows)]

(***************************************************************************)
(* The process.                                                            *)
(***************************************************************************)
EmptyDisk ==
    [scan |-> NoRow, progress |-> NoRow, shards |-> [x \in ToSet(SymbolOrder) |-> NoRow],
     ledger |-> NoRow, manifest |-> NoRow]

Off == [pc |-> "off", code |-> NoRow, sessions |-> {}, done |-> <<>>, next |-> 1]

Init ==
    /\ world \in Worlds
    /\ head \in Versions
    /\ disk = EmptyDisk
    /\ proc = Off
    /\ launches = 0 /\ deaths = 0

At(pc) == proc.pc = pc

Goto(pc) == proc' = [proc EXCEPT !.pc = pc]

Launch ==
    /\ At("off") /\ launches < MaxLaunches
    /\ proc' = [Off EXCEPT !.pc = "scan", !.code = head]
    /\ launches' = launches + 1
    /\ UNCHANGED <<world, head, disk, deaths>>

(* A scan made by another state of the code is not read. *)
ScanIsCached == disk.scan # NoRow /\ disk.scan.code = proc.code

Scan ==
    /\ At("scan")
    /\ proc' = [proc EXCEPT
                  !.sessions = IF ScanIsCached THEN disk.scan.days ELSE NonStandardSessions(world),
                  !.pc = IF ScanIsCached THEN "resume" ELSE "save-scan"]
    /\ UNCHANGED <<world, head, disk, launches, deaths>>

SaveScan ==
    /\ At("save-scan")
    /\ disk' = [disk EXCEPT !.scan = [code |-> proc.code, days |-> proc.sessions]]
    /\ Goto("resume")
    /\ UNCHANGED <<world, head, launches, deaths>>

(* A progress file of another run stops the launch. *)
Resume ==
    /\ At("resume")
    /\ proc' = IF disk.progress = NoRow THEN [proc EXCEPT !.pc = "walk"]
               ELSE IF disk.progress.code # proc.code THEN Off
               ELSE [proc EXCEPT !.pc = "walk", !.done = disk.progress.done]
    /\ UNCHANGED <<world, head, disk, launches, deaths>>

Symbol == SymbolOrder[proc.next]

(* Slip: a shard that is there is taken for a finished one. *)
HasShard(x) == disk.shards[x] # NoRow

IsDone(x) == x \in ToSet(proc.done) /\ disk.shards[x] # NoRow

SkipSymbol ==
    /\ At("walk") /\ proc.next <= Len(SymbolOrder)
    /\ IsDone(Symbol)
    /\ proc' = [proc EXCEPT !.next = @ + 1]
    /\ UNCHANGED <<world, head, disk, launches, deaths>>

(* A walk that raises ends the process before its shard is written. *)
WriteShard ==
    /\ At("walk") /\ proc.next <= Len(SymbolOrder)
    /\ ~IsDone(Symbol)
    /\ IF WalkStops(world, Symbol, proc.sessions)
       THEN /\ proc' = [Off EXCEPT !.pc = "raised"]
            /\ UNCHANGED disk
       ELSE /\ disk' = [disk EXCEPT !.shards[Symbol] =
                   [code |-> proc.code, rows |-> WalkSymbol(world, Symbol, proc.sessions)]]
            /\ Goto("record")
    /\ UNCHANGED <<world, head, launches, deaths>>

RecordDone ==
    /\ At("record")
    /\ LET done == Append(proc.done, Symbol)
       IN /\ disk' = [disk EXCEPT !.progress = [code |-> proc.code, done |-> done]]
          /\ proc' = [proc EXCEPT !.done = done, !.next = @ + 1, !.pc = "walk"]
    /\ UNCHANGED <<world, head, launches, deaths>>

LedgerRows ==
    FlattenSeq([i \in DOMAIN SymbolOrder |-> disk.shards[SymbolOrder[i]].rows])

WriteLedger ==
    /\ At("walk") /\ proc.next > Len(SymbolOrder)
    /\ disk' = [disk EXCEPT !.ledger = LedgerRows]
    /\ Goto("manifest")
    /\ UNCHANGED <<world, head, launches, deaths>>

WriteManifest ==
    /\ At("manifest")
    /\ disk' = [disk EXCEPT !.manifest = [code |-> proc.code, totals |-> Manifest(LedgerRows)]]
    /\ proc' = Off
    /\ UNCHANGED <<world, head, launches, deaths>>

Die ==
    /\ ~At("off") /\ ~At("raised") /\ deaths < MaxDeaths
    /\ proc' = Off
    /\ deaths' = deaths + 1
    /\ UNCHANGED <<world, head, disk, launches>>

(* Nobody commits or checks out while a run is in flight. *)
MoveHead ==
    /\ At("off") /\ disk # EmptyDisk
    /\ head' \in Versions \ {head}
    /\ launches < MaxLaunches
    /\ UNCHANGED <<world, disk, proc, launches, deaths>>

Next ==
    \/ Launch \/ Scan \/ SaveScan \/ Resume
    \/ SkipSymbol \/ WriteShard \/ RecordDone
    \/ WriteLedger \/ WriteManifest
    \/ Die \/ MoveHead

Spec == Init /\ [][Next]_vars

-----------------------------------------------------------------------------
PriceOrNone(p) == p = NoRow \/ p \in Int

RowOK(r) ==
    /\ r.day \in Span /\ r.status \in {"evaluated", "refused"}
    /\ r.bias \in {"none", "bullish", "bearish"} /\ r.side \in {"none"} \cup Sides
    /\ r.status = "evaluated" <=> r.reason = "evaluated"
    /\ r.status = "evaluated" <=> r.outcome # "none"
    /\ PriceOrNone(r.poc2) /\ PriceOrNone(r.trade.fill)
    /\ r.trade.qty > 0 => r.outcome = "entered" /\ r.trade.fill # NoRow

(* The rows of a walk have their shape, the process is in a state the      *)
(* runner knows, and a manifest stands for symbols that are all noted.     *)
TypeOK ==
    /\ proc.pc \in {"off", "scan", "save-scan", "resume", "walk", "record", "manifest", "raised"}
    /\ proc.next \in 1 .. Len(SymbolOrder) + 1
    /\ At("record") => \A i \in DOMAIN disk.shards[Symbol].rows : RowOK(disk.shards[Symbol].rows[i])
    /\ disk.manifest # NoRow => ToSet(SymbolOrder) \subseteq ToSet(disk.progress.done)

(* Whatever died and was started again, and whichever code ran before: a   *)
(* ledger holds, for every symbol, the rows of one uninterrupted walk, all *)
(* of them by the code that the manifest names (backtest.py:1103-1184).    *)
LedgerIsOneRun ==
    /\ At("manifest") =>
         disk.ledger = FlattenSeq([i \in DOMAIN SymbolOrder |->
            WalkSymbol(world, SymbolOrder[i], NonStandardSessions(world))])
    /\ disk.ledger # NoRow =>
         \A x \in ToSet(SymbolOrder) : disk.shards[x].code = disk.progress.code
    /\ disk.manifest # NoRow => disk.manifest.code = disk.progress.code
    /\ At("off") /\ disk.manifest # NoRow => disk.manifest.totals = Manifest(disk.ledger)

(* Nothing of the day can be read for a bias or traded on. *)
NothingToUse(s, d) ==
    /\ LoadMinutes(s, d).bars = <<>>
    /\ Profile(InSessionBars(Minutes(s, d)), s.tick, TRUE) = NoRow

(* The gates refuse whatever the engines cannot use: no day behind them    *)
(* makes an engine raise, which would end the walk of the whole universe   *)
(* (aggregate.py:166-171, poc.py:240-248, 460-470).  And a day that the    *)
(* scan takes out of the calendar is one that no symbol loses anything     *)
(* with, though its minutes may pass every gate (backtest.py:273-300).     *)
GatesAreExact ==
    /\ ~At("raised")
    /\ At("walk") =>
         \A d \in proc.sessions : \A x \in DOMAIN world.symbols : NothingToUse(world.symbols[x], d)

-----------------------------------------------------------------------------
(* Before anything was launched twice or walked: the engines themselves.   *)
Untouched == At("scan") /\ launches = 1

ProfileTotal(window, tick) ==
    LET rows == BuildRows(High(window), Low(window), tick)
        d    == Denominator(window)
    IN SumTo(SpreadVolume(window, rows, d), Len(rows)) = d * Volume(window)

(* Row volumes of a profile add up to the window's volume: nothing traded  *)
(* falls between two rows or above the last one (poc.py:296-309, 440-479). *)
VolumeConserved ==
    Untouched =>
        \A x \in DOMAIN world.symbols : \A d \in DOMAIN world.symbols[x].minutes :
            LET s == world.symbols[x]
                window == WindowBars(InSessionBars(Minutes(s, d)))
            IN (window # <<>> /\ ~ProfileRaises(window)) => ProfileTotal(window, s.tick)

(* The rules know no direction: turned upside down, the same pair and the  *)
(* same minutes give the opposite bias, except in the one case that is     *)
(* settled by decree, a minute that breaks both extremes (bias.py:146).    *)
MirrorPair(p, c, minutes) ==
    LET there == EvaluatePair(p, c, minutes, "bullish")
        back  == EvaluatePair(MirrorBar(p), MirrorBar(c),
                              [i \in DOMAIN minutes |-> MirrorBar(minutes[i])], "bearish")
    IN there.rule # "rule-3-tie" =>
         /\ back.bias = MirrorBias(there.bias)
         /\ back.rule = there.rule /\ back.carried = there.carried

BiasIsMirrored ==
    \A x \in DOMAIN world.symbols :
        LET s == world.symbols[x]
        IN \A d, e \in DOMAIN s.rows : MirrorPair(s.rows[e], s.rows[d], InSessionBars(Minutes(s, d)))

-----------------------------------------------------------------------------
(* What has just been walked. *)
JustWalked == disk.shards[Symbol].rows
Stock == world.symbols[Symbol]
Calendar == world.trading \ proc.sessions
PairOf(d) == [current |-> Before(Calendar, d), previous |-> Before(Calendar, Before(Calendar, d))]

(* A bias that minutes decided was decided by a day that passes the whole  *)
(* battery, every bar of it a possible candle (backtest.py:1961-2016).     *)
MinutesWereGated(r) ==
    r.rule \in {"rule-3-outside-bar", "rule-3-tie"} =>
        LET d == PairOf(r.day).current
        IN /\ Refusal(GateDay(Stock, d)) = "none"
           /\ \A b \in ToSet(InSessionBars(Minutes(Stock, d))) : Sane(b)

(* The bias a day's pair decides by itself, if it decides one. *)
Decision(d) ==
    LET table == TableOf(Stock)
        p == PairOf(d).previous
        c == PairOf(d).current
        loaded == LoadMinutes(Stock, c)
        usable == /\ {p, c} \cap table.suppressions = {}
                  /\ {p, c} \subseteq DOMAIN Stock.rows
        before == AdjustPrevious(Stock, table, c, p)
        answer == EvaluatePair(before, Stock.rows[c], loaded.bars, "none")
    IN IF ~usable THEN "none"
       ELSE IF NeedsMinutes(before, Stock.rows[c]) /\ loaded.fault # "none" THEN "none"
       ELSE answer.bias

IsLastDecision(r) ==
    LET deciding == {e \in BiasDays(Calendar) : e <= r.day /\ Decision(e) # "none"}
    IN r.day \in BiasDays(Calendar) =>
         r.bias = IF deciding = {} THEN "none" ELSE Decision(Max(deciding))

(* A bias is the last one that some pair decided, whatever carried, lacked *)
(* a candle, was suppressed or could not be used in between                *)
(* (bias_engine.py:263-366); where minutes decided it the gates had passed *)
(* them; and the rules favour no direction.                                *)
BiasIsWarranted ==
    /\ Untouched => BiasIsMirrored
    /\ At("record") =>
         \A r \in ToSet(JustWalked) : MinutesWereGated(r) /\ IsLastDecision(r)

-----------------------------------------------------------------------------
(* Of the books, which Report.tla puts together in BooksAgree.             *)
WalkedLedger == IF At("manifest") THEN disk.ledger ELSE <<>>

(* A trade's path rises in time and its first and last marks differ by     *)
(* exactly what the trade made (backtest.py:562-610).                      *)
PathsEndAtFill(rows) ==
    \A r \in {x \in ToSet(rows) : x.trade.qty > 0} :
        LET path == r.trade.path
        IN /\ \A i \in 1 .. Len(path) - 1 : path[i].at < path[i + 1].at
           /\ GrossPnl(r.side, r.trade.qty, path[1].price, Last(path).price) = r.trade.gross

(* The worst fall that is reported is the worst there is between any two   *)
(* moments, the opening included, and it is over at the first moment that  *)
(* is as high again (portfolio.py:391-442, 508-529, 653-684).              *)
IsWorstFall(curve, fall) ==
    LET pairs == {p \in (DOMAIN curve) \X (DOMAIN curve) : p[1] <= p[2]}
    IN /\ fall.amount = Max({curve[p[1]] - curve[p[2]] : p \in pairs})
       /\ fall.amount = curve[fall.from] - curve[fall.to]
       /\ fall.amount > 0 =>
            \A j \in fall.to + 1 .. Max(DOMAIN curve) :
                (fall.back = NoRow \/ (fall.back # NoRow /\ j < fall.back)) => curve[j] < curve[fall.from]

FallsAreWorst(rows) ==
    LET days == EquityCurve(DailyPnl(rows))
        path == PathCurve(IntradayPath(rows))
    IN /\ IsWorstFall(days, WorstFall(days)) /\ IsWorstFall(path, WorstFall(path))
       /\ WorstFall(days).amount <= WorstFall(path).amount
       /\ BestRise(days).amount <= BestRise(path).amount

(* The candle-by-candle path meets the curve of days at every close: with  *)
(* the last mark of a day nothing is open, and nothing is left that the    *)
(* day's net profit does not already hold (portfolio.py:567-650).          *)
PathMeetsCloses(rows) ==
    LET points == IntradayPath(rows)
    IN \A i \in 1 .. Len(points) - 1 :
           (points[i].at # NoRow /\ points[i + 1].at = NoRow) =>
               points[i].open = 0 /\ points[i].equity = points[i + 1].equity

(* The positions and the money that are disclosed are the most that were   *)
(* in the market at one moment, a position counted from the candle of its  *)
(* entry to the candle of its exit (portfolio.py:854-905).                 *)
HeldAt(trades, d, t) ==
    SelectSeq(trades, LAMBDA r : r.day = d /\ r.trade.path[1].at <= t /\ t <= Last(r.trade.path).at)

DisclosedIsPeak(rows) ==
    LET trades == Executed(rows)
        held == {HeldAt(trades, r.day, r.trade.path[1].at) : r \in ToSet(trades)}
    IN /\ Disclosures(rows).positions = Max({0} \cup {Len(h) : h \in held})
       /\ Disclosures(rows).notional = Max({0} \cup {SumOf(h, Notional) : h \in held})
=============================================================================
