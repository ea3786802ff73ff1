----------------------------- MODULE MCUniverse -----------------------------
(* Six days, two fetch windows, two month files (the second window lies    *)
(* in both), runs that end on day 5 and later on day 6.                    *)
EXTENDS Reconcile

AllDays == 1 .. 6

F(ex, kind, p) == [ex |-> ex, kind |-> kind, p |-> p]
V(p, v, pfrom, vfrom) == [p |-> p, v |-> v, pfrom |-> pfrom, vfrom |-> vfrom]
S(factors, unknown, vendor) ==
    [factors |-> factors, unknown |-> unknown, vendor |-> vendor,
     rows |-> AllDays, candles |-> AllDays, listed |-> TRUE]

Split == F(4, "split", -3)
Dividend == F(4, "dividend", -1)

MCSymbols == {
    S(<<>>, {}, <<>>),                                      \* no event at all
    S(<<Split>>, {}, 4 :> V(-3, -3, 1, 1)),                 \* the vendor agrees
    S(<<Split>>, {}, 4 :> V(0, 0, 1, 1)),                   \* never applied it
    S(<<Split>>, {}, 4 :> V(-3, -3, 2, 2)),                 \* applied from day 2 on
    S(<<Split>>, {}, 4 :> V(-3, -3, 3, 2)),                 \* one side later
    S(<<Dividend>>, {}, 4 :> V(-1, 0, 1, 1)),
    S(<<Dividend>>, {}, 4 :> V(0, 0, 1, 1)),
    S(<<Dividend>>, {}, 4 :> V(-1, -1, 3, 3)),
    S(<<F(6, "dividend", -1)>>, {}, 6 :> V(-1, 0, 3, 3)),   \* news for the second end
    S(<<>>, {4}, 4 :> V(-2, 0, 1, 1)),                      \* nobody parsed it
    S(<<F(3, "dividend", -1), F(5, "split", -3)>>, {},
      (3 :> V(-1, 0, 1, 1)) @@ (5 :> V(-3, -3, 2, 2))),     \* two events
    S(<<F(3, "split", -3), F(6, "split", -3)>>, {},
      (3 :> V(-3, -3, 1, 1)) @@ (6 :> V(-3, -3, 5, 5))),
    S(<<>>, {}, 4 :> V(-3, -3, 1, 1)),                      \* we know of no event
    S(<<F(4, "bonus", -2), Split>>, {}, 4 :> V(-5, -5, 1, 1)),
    [S(<<Dividend>>, {}, 4 :> V(-1, 0, 1, 1)) EXCEPT !.rows = AllDays \ {3}],
    [S(<<Dividend>>, {}, 4 :> V(-1, 0, 1, 1)) EXCEPT !.candles = {}],
    [S(<<Split>>, {}, 4 :> V(-3, -3, 1, 1)) EXCEPT !.candles = {1, 2, 3}],
    [S(<<>>, {}, <<>>) EXCEPT !.rows = {}],
    [S(<<>>, {}, <<>>) EXCEPT !.listed = FALSE]}

MCRunDates == {<<5, 5>>, <<6, 6>>}
MCVersions == {"gates", "rebuild", "floors", "map"}
=============================================================================
