------------------------------ MODULE MCMorning ------------------------------
(* Mornings over eight days, Wednesday 1 to Wednesday 8: days 4 and 5 are a *)
(* weekend, the first morning is Monday 6.                                  *)
EXTENDS Morning

MCSymbols == {"stock"}

PlainKind == [d \in Days |-> IF IsWeekend(d) THEN "weekend" ELSE "trading"]

Plain ==
    [kind |-> PlainKind, late |-> {}, otherFormat |-> {}, misdated |-> {}, quirks |-> {},
     unannounced |-> {}, thin |-> {}, unlisted |-> {}, actionsCached |-> TRUE,
     stray |-> FALSE, dirSync |-> TRUE]

\* A Saturday session and a Friday with few rows; Friday's file has the known
\* malformed year, Monday's an unknown one; Tuesday is a scheduled holiday.
Special ==
    [Plain EXCEPT !.kind[4] = "special", !.kind[7] = "holiday", !.thin = {3, 4},
                  !.misdated = {3, 6}, !.quirks = {3}]

\* Monday's file comes late and leaves the symbol out, Friday's has the other
\* name, and nobody had announced Tuesday's holiday.
Late ==
    [Plain EXCEPT !.kind[7] = "holiday", !.unannounced = {7}, !.late = {6},
                  !.unlisted = {<<"stock", 6>>}, !.otherFormat = {3},
                  !.actionsCached = FALSE]

\* Three holidays and a directory made by hand, on a machine that does not sync
\* directories.
Strayed ==
    [Plain EXCEPT !.kind[3] = "holiday", !.kind[6] = "holiday", !.kind[7] = "holiday",
                  !.stray = TRUE, !.dirSync = FALSE]

MCWorlds == {Special, Late, Strayed}

\* The settled universe is two tickers here and one is quarantined.
Sound ==
    [keys |-> {"token", "chat"}, stores |-> {<<"data">>, <<"cache">>}, legible |-> TRUE,
     register |-> [t \in {"stock", "other", "barred"} |->
                     IF t = "barred" THEN "quarantined" ELSE "settled"],
     suite |-> "green", arrives |-> TRUE, wrongKeys |-> {}, actions |-> TRUE,
     pinned |-> TRUE,
     candles |-> [t \in {"stock", "other"} |-> IF t = "stock" THEN {3, 6, 7, 8} ELSE {6}]]

MCMachines ==
    {Sound, [Sound EXCEPT !.keys = {"token"}], [Sound EXCEPT !.legible = FALSE],
     [Sound EXCEPT !.register["other"] = "residual"], [Sound EXCEPT !.suite = "absent"],
     [Sound EXCEPT !.arrives = FALSE],
     [Sound EXCEPT !.suite = "red", !.candles["stock"] = {3, 6}],
     [Sound EXCEPT !.wrongKeys = {"risk"}, !.pinned = FALSE],
     [Sound EXCEPT !.suite = "red", !.candles["other"] = {}]}

MCQuarantined == {"barred"}
=============================================================================
