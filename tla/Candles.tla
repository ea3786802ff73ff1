------------------------------ MODULE Candles ------------------------------
(***************************************************************************)
(* From the minutes of a day to its candles (aggregate.py) and its point   *)
(* of control (poc.py).                                                    *)
(*                                                                         *)
(* Row volumes are fractions in the code.  Here they carry a common        *)
(* multiple of the bars' ranges as their denominator, so every comparison  *)
(* is exact.                                                               *)
(***************************************************************************)
EXTENDS CorpActions

CONSTANTS
    CandleMinutes,    \* minutes of a candle (15)
    ProfileCandles,   \* candles of the profile window (8)
    RowSize           \* rows the profile aims at (config row_size)

ASSUME CandlesAssumption ==
    /\ CandleMinutes \in Nat \ {0}
    /\ ProfileCandles \in Nat \ {0} /\ RowSize \in Nat \ {0}

High(bars) == Max({bars[i].h : i \in DOMAIN bars})
Low(bars) == Min({bars[i].l : i \in DOMAIN bars})

Volume(bars) == SumTo([i \in DOMAIN bars |-> bars[i].v], Len(bars))

(* The bars that bear one of these stamps, in their order. *)
Stamped(bars, stamps) ==
    LET kept[i \in 0 .. Len(bars)] ==
            IF i = 0 THEN <<>>
            ELSE IF bars[i].t \in stamps THEN Append(kept[i - 1], bars[i]) ELSE kept[i - 1]
    IN kept[Len(bars)]

InSessionBars(bars) == Stamped(bars, 0 .. SessionMinutes - 1)
DroppedBars(bars) == Len(bars) - Len(InSessionBars(bars))

HasDuplicate(bars) == \E i, j \in DOMAIN bars : i # j /\ bars[i].t = bars[j].t

(* The 15-minute candles, by ordinal; a candle without a minute is absent. *)
(* Minutes come sorted by their stamps.                                    *)
Ordinal(b) == b.t \div CandleMinutes + 1

Aggregate(bars) ==
    LET members(n) == Stamped(bars, CandleMinutes * (n - 1) .. CandleMinutes * n - 1)
        candle(m) == [open |-> m[1].o, high |-> High(m), low |-> Low(m),
                      close |-> m[Len(m)].c, volume |-> Volume(m)]
    IN [n \in {Ordinal(bars[i]) : i \in DOMAIN bars} |-> candle(members(n))]

(***************************************************************************)
(* The profile of the window: its rows, its volumes, its highest row.      *)
(***************************************************************************)
WindowBars(bars) == Stamped(bars, 0 .. CandleMinutes * ProfileCandles - 1)

Absolute(n) == IF n < 0 THEN -n ELSE n
CeilDiv(n, d) == (n + d - 1) \div d

TotalTicks(top, bottom, tick) == Larger(1, HalfEven(top - bottom, tick))

(* The row height whose number of rows is nearer to RowSize; ties go to    *)
(* the finer one.                                                          *)
TicksPerRow(ticks) ==
    LET fine   == Larger(1, ticks \div RowSize)
        coarse == CeilDiv(ticks, RowSize)
        off(n) == Absolute(CeilDiv(ticks, n) - RowSize)
    IN IF off(fine) <= off(coarse) THEN fine ELSE coarse

(* Slip: the last row ends at its own upper edge. *)
RowsNoTop(top, bottom, tick, ticks, per) ==
    LET n == CeilDiv(ticks, per)
        hi(i) == bottom + Min({i * per, ticks}) * tick
    IN [i \in 1 .. n |-> [lo |-> bottom + (i - 1) * per * tick, hi |-> hi(i), alloc |-> hi(i)]]

(* alloc is the level up to which a row takes volume: the last row takes   *)
(* everything up to the top of the window.                                 *)
RowsOf(top, bottom, tick, ticks, per) ==
    LET n == CeilDiv(ticks, per)
        hi(i) == bottom + Min({i * per, ticks}) * tick
    IN [i \in 1 .. n |->
          [lo |-> bottom + (i - 1) * per * tick, hi |-> hi(i),
           alloc |-> IF i = n THEN Larger(hi(i), top) ELSE hi(i)]]

BuildRows(top, bottom, tick) ==
    LET ticks == TotalTicks(top, bottom, tick)
    IN RowsOf(top, bottom, tick, ticks, TicksPerRow(ticks))

ContainingRow(rows, price) ==
    LET at == (price - rows[1].lo) \div (rows[1].hi - rows[1].lo) + 1
    IN Min({at, Len(rows)})

(* A number that the range of every bar divides. *)
Multiple(d, range) == IF range <= 0 THEN d ELSE IF d % range = 0 THEN d ELSE d * range

Denominator(bars) ==
    LET multiple[i \in 0 .. Len(bars)] ==
            IF i = 0 THEN 1 ELSE Multiple(multiple[i - 1], bars[i].h - bars[i].l)
    IN multiple[Len(bars)]

Overlap(b, row) == Larger(0, Min({b.h, row.alloc}) - Larger(b.l, row.lo))

(* What one bar adds to row i, times the denominator d. *)
Share(b, rows, i, d) ==
    IF b.h = b.l
    THEN IF ContainingRow(rows, b.l) = i THEN b.v * d ELSE 0
    ELSE b.v * Overlap(b, rows[i]) * (d \div (b.h - b.l))

SpreadVolume(bars, rows, d) ==
    [i \in DOMAIN rows |-> SumTo([k \in DOMAIN bars |-> Share(bars[k], rows, i, d)], Len(bars))]

(* The highest of the rows that hold the most. *)
PocRow(volumes) ==
    Max({i \in DOMAIN volumes : \A j \in DOMAIN volumes : volumes[j] <= volumes[i]})

(* The middle of that row, doubled, or NoRow: the day's gates give no      *)
(* licence to compute it, or nothing traded in the window.  A bar the      *)
(* gates should have refused raises instead.                               *)
ProfileRaises(bars) ==
    HasDuplicate(bars) \/ \E i \in DOMAIN bars : bars[i].v < 0 \/ bars[i].h < bars[i].l

Profile(bars, tick, licence) ==
    LET window == WindowBars(bars)
        rows   == BuildRows(High(window), Low(window), tick)
        row    == PocRow(SpreadVolume(window, rows, Denominator(window)))
    IN IF licence # TRUE \/ window = <<>> THEN NoRow
       ELSE rows[row].lo + rows[row].hi
=============================================================================
