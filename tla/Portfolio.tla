----------------------------- MODULE Portfolio -----------------------------
(***************************************************************************)
(* What portfolio.py makes of a ledger: the profit of every day that was   *)
(* walked, the equity after it, the equity at every candle while positions *)
(* were open, the worst fall and the best rise of either, and how many     *)
(* positions were open at once.  Percentages are left out.                 *)
(*                                                                         *)
(* The moments of a ledger are pairs <<day, candle>>.                      *)
(***************************************************************************)
EXTENDS Pipeline

CONSTANT Capital      \* the equity before the first day

ASSUME CapitalAssumption == Capital \in Nat

Executed(rows) == SelectSeq(rows, LAMBDA r : r.trade.qty > 0)

(* Where the trades are among the rows. *)
Trades(rows) == {i \in DOMAIN rows : rows[i].trade.qty > 0}

OnDay(rows, at, d) == {i \in at : rows[i].day = d}

WalkedDays(rows) == {rows[i].day : i \in DOMAIN rows}

SumOf(rows, f(_)) == FoldLeft(LAMBDA n, r : n + f(r), 0, rows)

(* The sum of the numbers at some positions. *)
SumAt(f, at) == SumTo([i \in DOMAIN f |-> IF i \in at THEN f[i] ELSE 0], Len(f))

Nets(rows) == [i \in DOMAIN rows |-> rows[i].trade.net]

(* A day without a trade stays in the series, and a trade on a day that    *)
(* was not asked for joins it.                                             *)
DailyPnlOver(rows, at, index) ==
    LET days == InOrder(index \cup {rows[i].day : i \in at})
    IN [n \in DOMAIN days |->
          [day |-> days[n], trades |-> Cardinality(OnDay(rows, at, days[n])),
           net |-> SumAt(Nets(rows), OnDay(rows, at, days[n]))]]

DailyPnl(rows) == DailyPnlOver(rows, Trades(rows), WalkedDays(rows))

(* The equity after the first n days; entry 0 is what the days open with.  *)
EquityFrom(daily, opening) ==
    LET equity[n \in 0 .. Len(daily)] ==
            IF n = 0 THEN opening ELSE equity[n - 1] + daily[n].net
    IN equity

EquityCurve(daily) == EquityFrom(daily, Capital)

(***************************************************************************)
(* The worst fall of a curve on 0 .. n: the first of the greatest falls    *)
(* from a peak, the peak the first of its height, and where the curve is   *)
(* back.  The best rise is the worst fall of the curve turned over.        *)
(***************************************************************************)
NoFall == [amount |-> 0, from |-> 0, to |-> 0, back |-> NoRow]

Fallen(curve, peak, i, best) ==
    IF curve[peak] - curve[i] > best.amount
    THEN [best EXCEPT !.amount = curve[peak] - curve[i], !.from = peak, !.to = i]
    ELSE best

PeakAfter(curve, peak, i) == IF curve[i] > curve[peak] THEN i ELSE peak

Look(curve, seen, i) ==
    [peak |-> PeakAfter(curve, seen.peak, i), best |-> Fallen(curve, seen.peak, i, seen.best)]

WorstFall(curve) ==
    LET n == Max(DOMAIN curve)
        walk[i \in 0 .. n] ==
            IF i = 0 THEN [peak |-> 0, best |-> NoFall] ELSE Look(curve, walk[i - 1], i)
        best == walk[n].best
        again == {j \in best.to + 1 .. n : curve[j] >= curve[best.from]}
    IN IF best.amount = 0 \/ again = {} THEN best ELSE [best EXCEPT !.back = Min(again)]

BestRise(curve) == WorstFall([i \in DOMAIN curve |-> -curve[i]])

(***************************************************************************)
(* The equity while positions are open: at every mark of some trade of the *)
(* day the trades so far are worth what they would make there, and after   *)
(* the day the curve of days takes over.                                   *)
(***************************************************************************)
MarkPnl(r, price) == GrossPnl(r.side, r.trade.qty, r.trade.path[1].price, price) - Cost

Contribution(r, t) ==
    LET path == r.trade.path
        seen == {i \in DOMAIN path : path[i].at <= t}
    IN IF seen = {} THEN [pnl |-> 0, live |-> 0]
       ELSE [pnl |-> MarkPnl(r, path[Max(seen)].price), live |-> IF t >= Last(path).at THEN 0 ELSE 1]

Stamps(rows, at) ==
    InOrder(UNION {{rows[i].trade.path[k].at : k \in DOMAIN rows[i].trade.path} : i \in at})

PointsOfDay(rows, at, d, opening, closing) ==
    LET stamps == Stamps(rows, at)
        point(t) ==
            [day |-> d, at |-> t,
             equity |-> opening + SumAt([i \in DOMAIN rows |-> Contribution(rows[i], t).pnl], at),
             open   |-> SumAt([i \in DOMAIN rows |-> Contribution(rows[i], t).live], at)]
    IN [k \in DOMAIN stamps |-> point(stamps[k])]
         \o <<[day |-> d, at |-> NoRow, equity |-> closing, open |-> 0]>>

IntradayPath(rows) ==
    LET daily == DailyPnl(rows)
        equity == EquityCurve(daily)
    IN FlattenSeq([n \in DOMAIN daily |->
           PointsOfDay(rows, OnDay(rows, Trades(rows), daily[n].day), daily[n].day, equity[n - 1], equity[n])])

PathCurve(points) ==
    [n \in 0 .. Len(points) |-> IF n = 0 THEN Capital ELSE points[n].equity]

(***************************************************************************)
(* Open positions and their worth at once.  At one moment positions are    *)
(* opened before others are closed.                                        *)
(***************************************************************************)
Notional(r) == r.trade.qty * r.trade.entry

Event(r, opens) ==
    [day |-> r.day, at |-> IF opens THEN r.trade.path[1].at ELSE Last(r.trade.path).at,
     opens |-> opens, worth |-> Notional(r)]

Opens(e) == IF e.opens THEN 0 ELSE 1

(* Slip: positions are closed before others are opened. *)
ClosesFirst(e, f) ==
    \/ e.day < f.day
    \/ e.day = f.day /\ e.at < f.at
    \/ e.day = f.day /\ e.at = f.at /\ Opens(e) > Opens(f)

Earlier(e, f) ==
    \/ e.day < f.day
    \/ e.day = f.day /\ e.at < f.at
    \/ e.day = f.day /\ e.at = f.at /\ Opens(e) < Opens(f)

Disclosures(rows) ==
    LET trades == Executed(rows)
        events == SortSeq([i \in DOMAIN trades |-> Event(trades[i], TRUE)]
                            \o [i \in DOMAIN trades |-> Event(trades[i], FALSE)], Earlier)
        step(acc, e) ==
            LET n == acc.n + IF e.opens THEN 1 ELSE -1
                worth == acc.worth + IF e.opens THEN e.worth ELSE -e.worth
            IN [n |-> n, worth |-> worth,
                positions |-> IF e.opens THEN Larger(acc.positions, n) ELSE acc.positions,
                notional |-> IF e.opens THEN Larger(acc.notional, worth) ELSE acc.notional]
        walked == FoldLeft(step, [n |-> 0, worth |-> 0, positions |-> 0, notional |-> 0], events)
    IN [positions |-> walked.positions, notional |-> walked.notional]

(***************************************************************************)
(* The figures of a column: all trades, one side, or one year, over the    *)
(* same index of days, opening with an equity of its own.                  *)
(***************************************************************************)
ForSide(rows, side) == {i \in Trades(rows) : rows[i].side = side}

Net(r) == r.trade.net

Won(rows, at)  == {i \in at : Net(rows[i]) > 0}
Lost(rows, at) == {i \in at : Net(rows[i]) < 0}

Metrics(rows, at, opening, index) ==
    LET daily  == DailyPnlOver(rows, at, index)
        equity == EquityFrom(daily, opening)
        net(some) == SumAt(Nets(rows), some)
        nets(some) == {Net(rows[i]) : i \in some}
    IN [trades  |-> Cardinality(at),
        winners |-> Cardinality(Won(rows, at)),  profit |-> net(Won(rows, at)),
        losers  |-> Cardinality(Lost(rows, at)), loss   |-> net(Lost(rows, at)),
        net     |-> net(at),
        best    |-> Max({0} \cup nets(Won(rows, at))),
        worst   |-> Min({0} \cup nets(Lost(rows, at))),
        final   |-> equity[Len(daily)],
        fall    |-> WorstFall(equity).amount,
        rise    |-> BestRise(equity).amount,
        days    |-> Len(daily)]

SideSplit(rows) ==
    LET over(at) == Metrics(rows, at, Capital, WalkedDays(rows))
    IN [all |-> over(Trades(rows)), long |-> over(ForSide(rows, "long")),
        short |-> over(ForSide(rows, "short"))]

(***************************************************************************)
(* Outliers by Tukey's fences.  A quartile lies between two of the sorted  *)
(* values and is carried four times as large, a fence eight times.         *)
(***************************************************************************)
Quartile(values, k) ==
    LET low  == ((Len(values) - 1) * k) \div 4
        rest == ((Len(values) - 1) * k) % 4
    IN IF low >= Len(values) - 1 THEN 4 * values[Len(values)]
       ELSE 4 * values[low + 1] + rest * (values[low + 2] - values[low + 1])

SortedNets(rows) ==
    SortSeq([i \in DOMAIN Executed(rows) |-> Net(Executed(rows)[i])], <)

Fences(values) ==
    LET q1 == Quartile(values, 1)
        q3 == Quartile(values, 3)
    IN [lower |-> 2 * q1 - 3 * (q3 - q1), upper |-> 2 * q3 + 3 * (q3 - q1)]

Outliers(rows) ==
    LET fences == Fences(SortedNets(rows))
    IN IF Executed(rows) = <<>> THEN [above |-> <<>>, below |-> <<>>]
       ELSE [above |-> SelectSeq(Executed(rows), LAMBDA r : 8 * Net(r) > fences.upper),
             below |-> SelectSeq(Executed(rows), LAMBDA r : 8 * Net(r) < fences.lower)]
=============================================================================
