------------------------------- MODULE Report -------------------------------
(***************************************************************************)
(* The report of a run, report_9b.py: it reads a run directory, counts     *)
(* every row of the ledger again, compares with the manifest, and splits   *)
(* the trades by side and by year.                                         *)
(***************************************************************************)
EXTENDS Backtest

CONSTANT DaysPerYear     \* days are numbers, years start at its multiples

ASSUME ReportAssumption == DaysPerYear \in Nat \ {0}

YearOf(d) == d \div DaysPerYear

(***************************************************************************)
(* The recount, over the indices of the rows.                              *)
(***************************************************************************)
Count(rows, test(_)) == Cardinality({i \in DOMAIN rows : test(rows[i])})

Tally(rows, keep(_), f(_)) ==
    [k \in {f(r) : r \in {x \in ToSet(rows) : keep(x)}} |->
        Count(rows, LAMBDA r : keep(r) /\ f(r) = k)]

Entries(tally) == FoldLeft(LAMBDA n, k : n + tally[k], 0, SetToSeq(DOMAIN tally))

WasExecuted(r) == r.trade.qty > 0

Recount(rows) ==
    LET refused(r) == r.status = "refused"
        executed == SelectSeq(rows, WasExecuted)
    IN [walked    |-> Len(rows),
        refused   |-> Count(rows, refused),
        usable    |-> Count(rows, LAMBDA r : ~refused(r)),
        signalled |-> Count(rows, LAMBDA r : r.trade.entry # NoRow),
        executed  |-> Len(executed),
        shares    |-> SumOf(executed, LAMBDA r : r.trade.qty),
        gross     |-> SumOf(executed, LAMBDA r : r.trade.gross),
        net       |-> SumOf(executed, LAMBDA r : r.trade.net),
        reasons   |-> Tally(rows, refused, LAMBDA r : r.reason),
        outcomes  |-> Tally(rows, LAMBDA r : TRUE, OutcomeOf),
        exits     |-> Tally(rows, WasExecuted, LAMBDA r : r.exit),
        symbols   |-> {r.symbol : r \in ToSet(rows)},
        days      |-> WalkedDays(rows),
        keys      |-> {<<r.symbol, r.day>> : r \in ToSet(rows)}]

(* The checks of the report by name, those that a run does not pass. *)
Checks(run, totals) ==
    [walked     |-> run.walked = totals.walked,
     usable     |-> run.usable = totals.usable,
     signalled  |-> run.signalled = totals.signalled,
     executed   |-> run.executed = totals.executed,
     shares     |-> run.shares = totals.shares,
     gross      |-> run.gross = totals.gross,
     net        |-> run.net = totals.net,
     reasons    |-> run.reasons = totals.refused,
     outcomes   |-> run.outcomes = totals.outcomes,
     exits      |-> run.exits = totals.exits,
     universe   |-> run.symbols = ToSet(SymbolOrder),
     statuses   |-> run.usable + run.refused = run.walked,
     refusals   |-> Entries(run.reasons) = run.refused,
     partition  |-> Entries(run.outcomes) = run.walked,
     grid       |-> Cardinality(run.symbols) * Cardinality(run.days) = run.walked,
     duplicates |-> Cardinality(run.keys) = run.walked,
     costs      |-> run.gross - run.net = run.executed * Cost]

(* The rare shapes again.  A gap entry is only counted when it was traded. *)
RecountShape(rows, shape) ==
    Count(rows, LAMBDA r : shape \in ShapesOf(r) /\ (shape = "gap" => WasExecuted(r)))

FailedChecks(rows, totals) ==
    LET checks == Checks(Recount(rows), totals)
    IN {c \in DOMAIN checks : ~checks[c]}
         \cup {shape \in RareShapes : RecountShape(rows, shape) # totals.shapes[shape]}

-----------------------------------------------------------------------------
(* The years of the run, each opening with what the last one left. *)
PerYear(rows) ==
    LET years == InOrder({YearOf(d) : d \in WalkedDays(rows)})
        metrics[n \in DOMAIN years] ==
            Metrics(rows, {i \in Trades(rows) : YearOf(rows[i].day) = years[n]},
                    IF n = 1 THEN Capital ELSE metrics[n - 1].final,
                    {d \in WalkedDays(rows) : YearOf(d) = years[n]})
    IN metrics

(***************************************************************************)
(* The second reading of concurrency: at one moment positions are closed   *)
(* before others are opened.                                               *)
(***************************************************************************)
ClosedSooner(e, f) ==
    \/ e.day < f.day
    \/ e.day = f.day /\ e.at < f.at
    \/ e.day = f.day /\ e.at = f.at /\ Opens(e) > Opens(f)

ConcurrencyClosingFirst(rows) ==
    LET trades == Executed(rows)
        events == SortSeq([i \in DOMAIN trades |-> Event(trades[i], TRUE)]
                            \o [i \in DOMAIN trades |-> Event(trades[i], FALSE)], ClosedSooner)
        step(acc, e) ==
            LET n == acc.n + IF e.opens THEN 1 ELSE -1
                worth == acc.worth + IF e.opens THEN e.worth ELSE -e.worth
                peak == [positions |-> n, notional |-> worth]
            IN [n |-> n, worth |-> worth,
                best |-> IF e.opens /\ n > acc.best.positions THEN peak ELSE acc.best]
    IN FoldLeft(step, [n |-> 0, worth |-> 0, best |-> [positions |-> 0, notional |-> 0]], events).best

-----------------------------------------------------------------------------
(* The columns of the report belong to one run: the sides' profits add up  *)
(* to the whole, over the same days, the whole never falls further than    *)
(* the sides together, and the years hand the equity on from the capital   *)
(* to the end (portfolio.py:1277-1313, report_9b.py:789-822).              *)
SidesAddUp(side) ==
    /\ side.all.net = side.long.net + side.short.net
    /\ side.all.trades = side.long.trades + side.short.trades
    /\ side.all.days = side.long.days /\ side.all.days = side.short.days
    /\ side.all.fall <= side.long.fall + side.short.fall
    /\ side.all.rise <= side.long.rise + side.short.rise

YearsChain(years, all) ==
    /\ years[Len(years)].final = all.final
    /\ all.final = Capital + SumTo([i \in DOMAIN years |-> years[i].net], Len(years))
    /\ \A i \in DOMAIN years : years[i].fall <= all.fall

ColumnsAddUp(rows) ==
    /\ SidesAddUp(SideSplit(rows))
    /\ YearsChain(PerYear(rows), Metrics(rows, Trades(rows), Capital, WalkedDays(rows)))

(* Quartiles cut a quarter of the trades off at either end, whatever their *)
(* number, and an outlier is beyond every trade that is not one            *)
(* (portfolio.py:191-282).                                                 *)
OutliersAreOutside(rows) ==
    LET nets == SortedNets(rows)
        out == Outliers(rows)
        inside == ToSet(Executed(rows)) \ ToSet(out.above \o out.below)
        q1 == Quartile(nets, 1)
        q3 == Quartile(nets, 3)
        apart == Len(nets) - 1
    IN nets # <<>> =>
         /\ 4 * Count(nets, LAMBDA v : 4 * v <= q1) >= apart
         /\ 4 * Count(nets, LAMBDA v : 4 * v >= q1) >= 3 * apart
         /\ 4 * Count(nets, LAMBDA v : 4 * v >= q3) >= apart
         /\ 4 * Count(nets, LAMBDA v : 4 * v <= q3) >= 3 * apart
         /\ \A r \in inside : /\ \A x \in ToSet(out.above) : Net(x) > Net(r)
                              /\ \A x \in ToSet(out.below) : Net(x) < Net(r)
         /\ 2 * Len(out.above \o out.below) <= Len(nets)

(* The second reading is the most positions that were open right after a   *)
(* moment, one closed at the moment no longer counted                      *)
(* (report_9b.py:952-996).                                                 *)
HeldAfter(trades, d, t) ==
    SelectSeq(trades, LAMBDA r : r.day = d /\ r.trade.path[1].at <= t /\ t < Last(r.trade.path).at)

HalfOpenIsPeak(rows) ==
    LET trades == Executed(rows)
        peak == ConcurrencyClosingFirst(rows)
        held == {HeldAfter(trades, r.day, r.trade.path[1].at) : r \in ToSet(trades)}
    IN /\ peak.positions = Max({0} \cup {Len(h) : h \in held})
       /\ peak.notional \in {0} \cup {SumOf(h, Notional) : h \in held}

(* One ledger, read as a curve of days, as a path of candles, by side, by  *)
(* year, as falls, as outliers and as positions at one moment, two ways:   *)
(* every reading is the one its definition promises, and they agree where  *)
(* they meet.                                                              *)
BooksAgree ==
    WalkedLedger # <<>> =>
        /\ PathsEndAtFill(WalkedLedger) /\ PathMeetsCloses(WalkedLedger)
        /\ FallsAreWorst(WalkedLedger)
        /\ ColumnsAddUp(WalkedLedger) /\ OutliersAreOutside(WalkedLedger)
        /\ DisclosedIsPeak(WalkedLedger) /\ HalfOpenIsPeak(WalkedLedger)

(* What the report counts in a finished ledger is what the manifest        *)
(* claims, every symbol has one row on every walked day, refusals and      *)
(* outcomes partition the rows, costs are those of the trades; the two     *)
(* differ over gap entries too large to be sized, and over nothing else    *)
(* (report_9b.py:311-321, 387-429, backtest.py:1429).                      *)
UnsizedGap(r) == {"gap", "qtyzero"} \subseteq r.shapes

ReportReconciles ==
    At("off") /\ disk.manifest # NoRow =>
        FailedChecks(disk.ledger, disk.manifest.totals) =
            IF \E r \in ToSet(disk.ledger) : UnsizedGap(r) THEN {"gap"} ELSE {}
=============================================================================
