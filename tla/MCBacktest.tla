----------------------------- MODULE MCBacktest -----------------------------
(* Sessions of twelve minutes, candles of two, a profile over the first    *)
(* two candles.  Days 1 and 2 are history, days 3 to 5 are walked.         *)
EXTENDS Evidence

MCSymbolOrder == <<"a", "b">>
MCSymmetry == Permutations(Versions)

(* The closes of twelve minutes; a minute opens where the last one closed. *)
Bars(open, closes) ==
    LET o(i) == IF i = 1 THEN open ELSE closes[i - 1]
    IN [i \in DOMAIN closes |->
          [t |-> i - 1, o |-> o(i), c |-> closes[i], v |-> 10 + (i % 3),
           h |-> Larger(o(i), closes[i]), l |-> Min({o(i), closes[i]}) - 5 * (i % 2)]]

Quiet   == Bars(100, <<100, 100, 105, 100, 100, 100, 105, 100, 100, 95, 100, 100>>)
Rise    == Bars(100, <<100, 100, 100, 95, 95, 110, 110, 115, 130, 185, 150, 150>>)
Fall    == Bars(100, <<100, 100, 100, 105, 105, 90, 90, 85, 70, 30, 50, 50>>)
Stopped == Bars(100, <<100, 100, 100, 95, 95, 110, 110, 90, 85, 90, 100, 100>>)
Wide    == Bars(100, <<100, 100, 100, 95, 40, 110, 110, 115, 130, 120, 120, 120>>)
Drift   == Bars(110, <<110, 115, 110, 100, 95, 120, 125, 120, 125, 130, 125, 120>>)
Swing   == Bars(100, <<100, 120, 100, 100, 95, 95, 100, 105, 105, 70, 80, 100>>)
Swung   == Bars(100, <<100, 70, 100, 100, 105, 105, 100, 95, 95, 130, 120, 100>>)
Spike   == [Quiet EXCEPT ![3].h = 170, ![3].l = 40]

(* A minute that opens away from the last close. *)
Leap(bars, i, open) ==
    [bars EXCEPT ![i].o = open, ![i].h = Larger(open, bars[i].c), ![i].l = Min({open, bars[i].c})]

Jumped  == Leap(Bars(100, <<100, 100, 100, 95, 110, 110, 110, 115, 130, 185, 150, 150>>), 5, 105)
LeaptFar == Leap(Bars(100, <<100, 100, 100, 95, 205, 205, 205, 205, 215, 210, 200, 200>>), 5, 200)
Lately  == Bars(100, <<100, 100, 100, 95, 95, 95, 110, 110, 115, 115, 110, 105>>)
Both    == [Rise EXCEPT ![8].h = 300, ![8].l = 50]

Row(bars, extra) ==
    [o |-> bars[1].o, h |-> High(bars), l |-> Low(bars), c |-> Last(bars).c,
     v |-> Volume(bars) + extra]

(* What the stores hold of a day, out of what was traded on it. *)
Day(bars, fault) ==
    LET n == Len(bars)
        evening == [i \in DOMAIN bars |-> [bars[i] EXCEPT !.t = @ + 50]]
        stray == [bars[1] EXCEPT !.t = -1, !.o = 100, !.c = 100, !.h = 100, !.l = 100, !.v = 0]
        minutes ==
            CASE fault = "gap"         -> SubSeq(bars, 1, 7) \o SubSeq(bars, 11, n)
              [] fault = "duplicate"   -> SubSeq(bars, 1, 3) \o SubSeq(bars, 3, n)
              [] fault = "malformed"   -> [bars EXCEPT ![3].h = bars[3].l, ![3].l = bars[3].h]
              [] fault = "stray"       -> <<stray>> \o bars
              [] fault = "late"        -> SubSeq(bars, 5, n)
              [] fault = "only-stray"  -> <<stray>>
              [] fault = "evening"     -> evening
              [] fault = "no-minutes"  -> <<>>
              [] fault = "no-mark"     -> SubSeq(bars, 1, 8) \o SubSeq(bars, 11, n)
              [] fault = "no-reference" -> SubSeq(bars, 1, 2) \o SubSeq(bars, 5, n)
              [] fault = "over-high"   -> [bars EXCEPT ![9].h = 300]
              [] OTHER                 -> bars
        extra == CASE fault = "short"  -> 20
                   [] fault = "empty"  -> 60
                   [] OTHER            -> 0
    IN [minutes |-> minutes, rows |-> IF fault = "no-row" THEN <<>> 
                                     ELSE IF fault \in {"late", "no-mark", "no-reference"} THEN Row(minutes, 0)
                                     ELSE Row(bars, extra)]

NoAction == [ex |-> 0, equity |-> TRUE, words |-> {}, new |-> NoRow, held |-> NoRow,
             from |-> NoRow, to |-> NoRow, premium |-> NoRow, price |-> NoRow,
             amounts |-> <<>>, face |-> NoRow]

Stored(days, actions, tick) ==
    [rows |-> [d \in {x \in DOMAIN days : days[x].rows # <<>>} |-> days[d].rows],
     minutes |-> [d \in {x \in DOMAIN days : days[x].minutes # <<>>} |-> days[d].minutes],
     actions |-> actions, overrides |-> <<>>, tick |-> tick]

Other == Stored(<<Day(Quiet, "none"), Day(Swing, "none"), Day(Rise, "none"),
                  Day(Drift, "none"), Day(Stopped, "none")>>, <<>>, 5)

World(days, actions, tick) ==
    [symbols |-> [x \in {"a", "b"} |-> IF x = "a" THEN Stored(days, actions, tick) ELSE Other],
     trading |-> 1 .. 5]

Firsts  == {Day(b, "none") : b \in {Quiet, Stopped}}
Faults  == {"gap", "duplicate", "malformed", "stray", "no-minutes", "over-high", "short",
            "empty", "no-row", "late"}
Seconds == {Day(b, "none") : b \in {Swing, Swung, Spike, Fall, Drift}} \cup {Day(Quiet, "auction")}
Thirds  == {Day(b, "none") : b \in {Quiet, Rise, Fall, Stopped, Drift, Wide}}
Fourths == {Day(b, "none") : b \in {Rise, Fall}}
Fifths  == {Day(b, "none") : b \in {Stopped}}

(* One fault, on the second day or on the third. *)
Pairs ==
    Seconds \X Thirds
    \cup {Day(Swing, f) : f \in Faults} \X Thirds
    \cup Seconds \X {Day(Rise, f) : f \in Faults \cup {"only-stray"}}

Plain ==
    {World(<<p, q[1], q[2], x, y>>, <<>>, 5) :
        p \in Firsts, q \in Pairs, x \in Fourths, y \in Fifths}

(* Announcements; prices halve on day 4 where shares do. *)
Halved(day) ==
    LET half(n) == n \div 2
        bar(b) == [b EXCEPT !.o = half(b.o), !.h = half(b.h), !.l = half(b.l), !.c = half(b.c)]
    IN [minutes |-> [i \in DOMAIN day.minutes |-> bar(day.minutes[i])], rows |-> bar(day.rows)]

Split == [NoAction EXCEPT !.ex = 4, !.words = {"split"}, !.from = 10, !.to = 5]
Bonus == [NoAction EXCEPT !.ex = 4, !.words = {"bonus", "dividend"}, !.new = 1, !.held = 1]
Dividends == {[NoAction EXCEPT !.ex = 3, !.words = {"dividend"}, !.amounts = x] :
                 x \in {<<1>>, <<3>>, <<NoRow>>, <<100, 100>>}}
Rights == {[NoAction EXCEPT !.ex = 3, !.words = {"rights"}, !.new = 1, !.held = 4,
                            !.premium = x, !.price = y, !.face = 10] :
              x \in {NoRow, 40, 300}, y \in {NoRow, 60}}
Others == {[NoAction EXCEPT !.ex = 3, !.words = {x}] : x \in {"demerger", "buyback", "meeting"}}

MCWorlds ==
    Plain
    \cup {World(<<Day(Quiet, "none"), Day(Swing, "none"), Day(Rise, "none"),
                  Halved(Day(x, "none")), Halved(Day(Stopped, "none"))>>, <<a>>, 10) :
              x \in {Rise, Swing}, a \in {Split, Bonus}}
    \cup {World(<<Day(Quiet, "none"), Day(Swing, "none"), Day(x, "none"), Day(Rise, "none"),
                  Day(Fall, "none")>>, <<a>> \o rest, 10) :
              x \in {Rise, Swung}, a \in Dividends \cup Rights \cup Others,
              rest \in {<<>>, <<[Split EXCEPT !.ex = 9]>>, <<[Bonus EXCEPT !.equity = FALSE]>>}}
    \cup {[World(<<Day(Quiet, "none"), Day(Swing, "none"), Day(Quiet, "only-stray"),
                   Day(Drift, "none"), Day(Rise, "none")>>, <<a>>, 5)
             EXCEPT !.symbols["b"].minutes[3] = Day(Quiet, "only-stray").minutes] :
              a \in {NoAction} \cup Others}
    \cup {[World(<<Day(Quiet, "none"), Day(Swing, "none"), Day(Rise, "evening"),
                   Day(Drift, "none"), Day(Rise, "none")>>, <<>>, 5)
             EXCEPT !.symbols["b"].minutes[3] = b.minutes, !.symbols["b"].rows[3] = b.rows] :
              b \in {Day(Rise, f) : f \in {"none", "evening", "only-stray"}}}
    \cup {World(<<Day(Quiet, "none"), Day(Swing, "none"), Day(Spike, f), Day(Quiet, "none"),
                  Day(Stopped, "none")>>, <<>>, 10) : f \in {"none", "gap", "malformed"}}
    \cup {[World(<<Day(Quiet, "none"), Day(Swing, "none"), Day(Rise, "none"),
                   Day(Rise, "none"), Day(Rise, "none")>>, <<>>, 5) EXCEPT !.trading = t] :
              t \in {{1, 2, 4, 5}, {2, 3, 4, 5}, {1, 5}}}
    \cup {World(<<Day(Quiet, "none"), Day(Swing, "none"), Day(x, f), Day(y, f),
                  Day(Stopped, "none")>>, <<>>, 5) :
              x \in {Jumped, LeaptFar, Both, Lately}, y \in {Rise, Lately},
              f \in {"none", "no-mark", "no-reference"}}
    \cup {[w EXCEPT !.symbols["a"].rows = [d \in 1 .. 4 |-> @[d]]] :
              w \in {World(<<Day(Quiet, "none"), Day(Swing, "none"), Day(Rise, "none"),
                             Day(Rise, "none"), Day(Quiet, "no-minutes")>>, <<[a EXCEPT !.ex = x]>>, 10) :
                        a \in {Split, Bonus} \cup Dividends, x \in {3, 4, 5}}}
    \cup {[w EXCEPT !.symbols["b"] = w.symbols["a"]] :
              w \in {World(<<Day(Quiet, "none"), Day(Swing, "none"), Day(Stopped, "none"),
                             Day(x, "none"), Day(y, "none")>>, <<>>, 5) :
                        x \in {Rise, Swing}, y \in {Stopped, Rise}}}
=============================================================================
