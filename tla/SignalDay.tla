------------------------------- MODULE SignalDay -------------------------------
(***************************************************************************)
(* A stock-day as the live screener meets it: candles close one at a time  *)
(* and at every boundary the whole day so far is evaluated again from      *)
(* scratch, with the same evaluate_day a backtest applies to the whole day.*)
(* Nothing is carried from one evaluation to the next; that the answers    *)
(* nevertheless form one trade is what this module shows.                  *)
(*                                                                         *)
(* The vendor only adds candles here; module Screener also lets it revise. *)
(***************************************************************************)
EXTENDS SignalRules

CONSTANTS
  Candle,   \* the candles a day is made of
  Poc2      \* the doubled POCs

ASSUME CandleAssumption == \A c \in Candle : IsCandle(c)
ASSUME PocAssumption == Poc2 \subseteq Int

VARIABLES
  side, poc2,   \* fixed for the day
  now,          \* the ordinal of the candle that closed last
  bars,         \* the candles that traded so far
  today         \* the answer of this boundary's evaluation

vars == <<side, poc2, now, bars, today>>

Prefixes(n) == UNION {[D -> Candle] : D \in SUBSET (1..n)}

Init ==
  /\ side \in Sides
  /\ poc2 \in Poc2
  /\ now = ReferenceBar
  /\ bars \in Prefixes(ReferenceBar)
  /\ today = EvaluateDay(bars, side, poc2)

WithBar(n, c) == [m \in DOMAIN bars \cup {n} |-> IF m = n THEN c ELSE bars[m]]

(* Slip: the answer of the boundary before. *)
CloseCandleLate ==
  /\ now < SessionBars
  /\ now' = now + 1
  /\ \E longer \in {bars} \cup {WithBar(now + 1, c) : c \in Candle} :
       /\ bars' = longer
       /\ today' = EvaluateDay(bars, side, poc2)
  /\ UNCHANGED <<side, poc2>>

(* The candle that closes, if anybody traded in it, and the evaluation. *)
CloseCandle ==
  /\ now < SessionBars
  /\ now' = now + 1
  /\ \E longer \in {bars} \cup {WithBar(now + 1, c) : c \in Candle} :
       /\ bars' = longer
       /\ today' = EvaluateDay(longer, side, poc2)
  /\ UNCHANGED <<side, poc2>>

Next == CloseCandle

Spec == Init /\ [][Next]_vars

-----------------------------------------------------------------------------
(* What the boundary shows: _state_from believes a touch at once, and the   *)
(* square-off mark only when the 15:00 candle has closed.                   *)

ExitBelieved(day) ==
  \/ day.exit.kind \in {"stop", "target"}
  \/ day.exit.kind = "square-off" /\ now >= SquareOffBar

Phase(day) ==
  IF day.outcome = "entered"
    THEN IF ExitBelieved(day) THEN "over" ELSE "in-trade"
    ELSE IF day.state = "armed" THEN "armed" ELSE "watching"

ExitShown(day) == IF ExitBelieved(day) THEN day.exit.kind ELSE "none"

TradeNumbers == [at : Nat, price : Int, stop : Int, target : Int]

Trader == INSTANCE OneTrade WITH
  Trade <- TradeNumbers, NoTrade <- NoEntry, Exits <- {"stop", "target", "square-off"},
  phase <- Phase(today), trade <- today.entry, exit <- ExitShown(today)

-----------------------------------------------------------------------------
(* The variables have their types. *)
TypeOK ==
  /\ side \in Sides /\ poc2 \in Poc2
  /\ now \in ReferenceBar..SessionBars
  /\ DOMAIN bars \subseteq 1..now
  /\ bars \in [DOMAIN bars -> Candle]
  /\ today = EvaluateDay(bars, side, poc2)

(* Re-deriving the day from scratch at every boundary gives one trade with  *)
(* fixed numbers, left once (CONTEXT 3.4; the one-engine law).              *)
OneTradeADay == Trader!Spec

(* An answer is only added to: the live day shows what the backtest of the  *)
(* whole day will (Screener's Extends, for a vendor that never revises).    *)
AnswersOnlyGrow ==
  [][/\ today.state = "armed" => today'.state = "armed"
     /\ today.outcome = "entered"
          => today'.outcome = "entered" /\ today'.entry = today.entry
     /\ today.exit.kind \in {"stop", "target"} => today'.exit = today.exit]_vars

(* A trigger is seen at the boundary its candle closes, a touch at the one  *)
(* where the candle that touched closes, never later.                       *)
SeenOnTime ==
  [][/\ today.outcome # "entered" /\ today'.outcome = "entered" => today'.entry.at = now'
     /\ /\ today.exit.kind \notin {"stop", "target"}
        /\ today'.exit.kind \in {"stop", "target"}
        => today'.exit.at = now']_vars
=============================================================================
