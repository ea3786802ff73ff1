-------------------------------- MODULE Bias --------------------------------
(***************************************************************************)
(* The daily bias: evaluate_pair of bias.py on two daily candles, and the  *)
(* series bias_engine.py folds it into.  A daily candle is [o, h, l, c].   *)
(***************************************************************************)
EXTENDS Candles

BodyMax(p) == Larger(p.o, p.c)
BodyMin(p) == Min({p.o, p.c})

Decided(bias, rule) == [bias |-> bias, rule |-> rule, carried |-> FALSE]
Carried(bias, rule) == [bias |-> bias, rule |-> rule, carried |-> TRUE]

IsInside(p, c) == c.h <= p.h /\ c.l >= p.l
IsOutside(p, c) == c.h > p.h /\ c.l < p.l

BreaksOut(p, c) == c.c > BodyMax(p) \/ c.c < BodyMin(p)
SweepsLow(p, c) == c.l < p.l /\ c.h <= p.h /\ c.c >= BodyMin(p)
SweepsHigh(p, c) == c.h > p.h /\ c.l >= p.l /\ c.c <= BodyMax(p)

(* The minutes are only asked for when this holds. *)
NeedsMinutes(p, c) == ~IsInside(p, c) /\ ~BreaksOut(p, c) /\ IsOutside(p, c)

(* Rule 3: which extreme of the day before did the minutes break first?    *)
FirstBreak(minutes, p) ==
    LET breaks == {i \in DOMAIN minutes : minutes[i].h > p.h \/ minutes[i].l < p.l}
        first  == minutes[Min(breaks)]
    IN IF breaks = {} THEN "none"
       ELSE IF first.h > p.h /\ first.l < p.l THEN "tie"
       ELSE IF first.h > p.h THEN "high-first" ELSE "low-first"

RuleThree(p, c, minutes, last) ==
    LET first == FirstBreak(minutes, p)
    IN IF minutes = <<>> THEN Carried(last, "rule-3-no-1min-carry")
       ELSE IF first = "none" THEN Carried(last, "rule-3-no-break-carry")
       ELSE IF first = "tie"
         THEN Decided(IF c.c >= BodyMin(p) THEN "bullish" ELSE "bearish", "rule-3-tie")
       ELSE IF first = "high-first" /\ c.c >= BodyMin(p) THEN Decided("bullish", "rule-3-outside-bar")
       ELSE IF first = "low-first" /\ c.c <= BodyMax(p) THEN Decided("bearish", "rule-3-outside-bar")
       ELSE Carried(last, "rule-3-outside-bar")

EvaluatePair(p, c, minutes, last) ==
    IF IsInside(p, c) THEN Carried(last, "inside-bar-carry")
    ELSE IF c.c > BodyMax(p) THEN Decided("bullish", "rule-1-breakout")
    ELSE IF c.c < BodyMin(p) THEN Decided("bearish", "rule-1-breakout")
    ELSE IF SweepsLow(p, c) THEN Decided("bullish", "rule-2-sweep")
    ELSE IF SweepsHigh(p, c) THEN Decided("bearish", "rule-2-sweep")
    ELSE IF IsOutside(p, c) THEN RuleThree(p, c, minutes, last)
    ELSE Carried(last, "no-rule-carry")

(* The other end of the tape: highs become lows and up becomes down. *)
MirrorBar(b) == [b EXCEPT !.o = -b.o, !.h = -b.l, !.l = -b.h, !.c = -b.c]
MirrorBias(bias) ==
    IF bias = "bullish" THEN "bearish" ELSE IF bias = "bearish" THEN "bullish" ELSE bias
=============================================================================
