------------------------------ MODULE Evidence ------------------------------
(***************************************************************************)
(* The invariants that the evidence packs assert over a finished run, in   *)
(* pilot_evidence.py and trade_evidence.py: every statement by its name,   *)
(* over the ledger and the paths of its trades, as the packs compute it.   *)
(***************************************************************************)
EXTENDS Benchmark

PerShareRisk(r) == Risk(r.trade.entry, r.trade.stop, r.side)

CandlesOf(r) == Aggregate(InSessionBars(Minutes(world.symbols[r.symbol], r.day)))

ExitCandle(r) == Last(r.trade.path).at

PathReconciles(r) == MarkPnl(r, Last(r.trade.path).price) = r.trade.net

(* What is stated of a row: it costs what it must, has as many shares as   *)
(* the budget allows, was worth what it made at some time between its best *)
(* and its worst, was paid what its exit pays, and its path ends at its    *)
(* money, inside the session.                                              *)
RowHolds(r, candles) ==
    LET traded       == r.trade.qty > 0
        signalled    == r.trade.entry # NoRow
        exitedBy(kind) == traded /\ r.exit = kind
    IN [refusals |-> r.status = "refused" => r.reason # "none" /\ r.trade.qty = 0 /\ r.trade.net = 0,
        idle     |-> r.trade.qty = 0 => r.trade.gross = 0 /\ r.trade.net = 0,
        costs    |-> traded => r.trade.net = r.trade.gross - Cost,
        budget   |-> signalled => r.trade.qty * PerShareRisk(r) <= RiskPerTrade,
        tight    |-> signalled => (r.trade.qty + 1) * PerShareRisk(r) > RiskPerTrade,
        extremes |-> traded => r.trade.mae <= 0 /\ 0 <= r.trade.mfe,
        inside   |-> traded => r.trade.mae <= r.trade.gross /\ r.trade.gross <= r.trade.mfe,
        targets  |-> exitedBy("target") =>
                         r.trade.gross = r.trade.qty * TargetRiskMultiple * PerShareRisk(r),
        stops    |-> exitedBy("stop") => r.trade.gross = -r.trade.qty * PerShareRisk(r),
        marked   |-> exitedBy("square-off") => r.trade.fill = candles[ExitCandle(r)].close,
        grid     |-> exitedBy("square-off") => ExitCandle(r) = SquareOffBar,
        paths    |-> traded => PathReconciles(r),
        session  |-> traded => \A m \in ToSet(r.trade.path) : m.at \in Ordinals]

(* Of the ledger: its keys, its sums and its path of candles, which is at  *)
(* every day's end where the curve of days is.                             *)
LedgerHolds(rows) ==
    LET curve  == EquityCurve(DailyPnl(rows))
        closes == SelectSeq(IntradayPath(rows), LAMBDA p : p.at = NoRow)
    IN [keys     |-> \A i, j \in DOMAIN rows :
                         i # j => <<rows[i].symbol, rows[i].day>> # <<rows[j].symbol, rows[j].day>>,
        outcomes |-> Entries(Manifest(rows).outcomes) = Len(rows),
        curve    |-> curve[Max(DOMAIN curve)] - Capital = SumAt(Nets(rows), Trades(rows)),
        closes   |-> [i \in DOMAIN closes |-> closes[i].equity] = [i \in DOMAIN DailyPnl(rows) |-> curve[i]]]

Fails(checks) == {n \in DOMAIN checks : ~checks[n]}

-----------------------------------------------------------------------------
(* A square-off whose candle nobody traded in. *)
NobodyTraded(r, candles) ==
    r.trade.qty > 0 /\ r.exit = "square-off" /\ SquareOffBar \notin DOMAIN candles

(* Every statement of the packs about a row is true, but that a square-off *)
(* stands at the candle that closes at 15:15: it does when somebody traded *)
(* in that candle (pilot_evidence.py:1405-1586, trade_evidence.py:567-673, *)
(* signals.py:719-730).                                                    *)
IsAsStated(r, candles) ==
    Fails(RowHolds(r, candles)) = IF NobodyTraded(r, candles) THEN {"grid"} ELSE {}

RowsAreAsStated == \A r \in ToSet(WalkedLedger) : IsAsStated(r, CandlesOf(r))

(* The checks the project makes of a finished run pass, but for two, and   *)
(* those fail exactly where they must: the report's recount agrees with    *)
(* the manifest unless a gap entry was too large to size, and rows are as  *)
(* stated (report_9b.py:387-429).                                          *)
ChecksPass ==
    /\ ReportReconciles
    /\ WalkedLedger # <<>> => Fails(LedgerHolds(WalkedLedger)) = {}
    /\ RowsAreAsStated
=============================================================================
