----------------------------- MODULE SignalRules -----------------------------
(***************************************************************************)
(* The rules of one stock-day, src/src/acumen/signals.py: what a sequence  *)
(* of 15-minute candles, a POC and a side say about the day.               *)
(*                                                                         *)
(* A day is a function `bars' from the ordinals of the candles that traded *)
(* (a candle nobody traded in does not exist) to candles.  Prices are      *)
(* whole paise; the POC may sit half a paisa off the grid and is compared  *)
(* exactly, so the modules carry it doubled, as `poc2'.                    *)
(*                                                                         *)
(* The definitions are declarative: they say which candle triggers and     *)
(* which one exits without saying in which order the code looks.  Module   *)
(* SignalLoop has the code's two loops, and SignalLoopProofs proves that   *)
(* they compute exactly EvaluateDay.                                       *)
(***************************************************************************)
EXTENDS Integers, Sequences

CONSTANTS
  ReferenceBar,         \* signals.py:84, the 11:00 candle (8)
  FirstTriggerBar,      \* signals.py:88, the 11:15 candle (9)
  LastTriggerBar,       \* signals.py:91, the 14:45 candle (23)
  SquareOffBar,         \* signals.py:95, the 15:00 candle (24)
  SessionBars,          \* signals.py:79, candles in a session (25)
  TargetRiskMultiple    \* signals.py:139, target distance in risks (3)

ASSUME GridAssumption ==
  /\ ReferenceBar \in Nat /\ FirstTriggerBar \in Nat /\ LastTriggerBar \in Nat
  /\ SquareOffBar \in Nat /\ SessionBars \in Nat
  /\ 1 <= ReferenceBar
  /\ FirstTriggerBar = ReferenceBar + 1
  /\ FirstTriggerBar <= LastTriggerBar
  /\ LastTriggerBar < SquareOffBar
  /\ SquareOffBar <= SessionBars

ASSUME MultipleAssumption == TargetRiskMultiple \in Nat \ {0}

Ordinals == 1..SessionBars
Sides == {"long", "short"}

(* What gate 2 (quality_gates.py) lets through: the close inside the range. *)
IsCandle(c) ==
  /\ c.low \in Int /\ c.high \in Int /\ c.close \in Int
  /\ c.low <= c.close
  /\ c.close <= c.high

Latest(T) == CHOOSE x \in T : \A y \in T : y <= x
Earliest(T) == CHOOSE x \in T : \A y \in T : x <= y

-----------------------------------------------------------------------------
(* Sides of the POC, and the state machine's states. *)

PocSide(close, poc2) ==
  CASE 2 * close > poc2 -> "above"
    [] 2 * close < poc2 -> "below"
    [] OTHER            -> "at"

TriggerSide(side) == IF side = "long" THEN "above" ELSE "below"
ArmingSide(side)  == IF side = "long" THEN "below" ELSE "above"
WaitState(side)   == IF side = "long" THEN "wait-below" ELSE "wait-above"

-----------------------------------------------------------------------------
(* The reference is the 11:00 candle's close or, when that candle is        *)
(* missing, the last 1-minute close before 11:15.  The rules take the day   *)
(* from its candles alone: they assume that the minutes agree with the      *)
(* candles, so that this minute is the close of the latest candle that did  *)
(* trade.  So it is of every day signal_engine.py:371 evaluates, live and   *)
(* in the backtest: the candles are aggregated from the minutes it passes.  *)

EarlyBars(bars) == {n \in DOMAIN bars : n <= ReferenceBar}
HasReference(bars) == EarlyBars(bars) # {}
Reference(bars) == bars[Latest(EarlyBars(bars))].close

(* evaluate_day itself takes the minutes beside the candles, and they may   *)
(* say something else: `early' are the closes of the minutes before 11:15,  *)
(* oldest first.                                                            *)
TakesReference(bars, early) == ReferenceBar \in DOMAIN bars \/ early # <<>>
TakenReference(bars, early) ==
  IF ReferenceBar \in DOMAIN bars THEN bars[ReferenceBar].close ELSE early[Len(early)]

MinutesAgree(bars, early) ==
  /\ TakesReference(bars, early) <=> HasReference(bars)
  /\ HasReference(bars) => TakenReference(bars, early) = Reference(bars)

InitialState(reference, side, poc2) ==
  LET where == PocSide(reference, poc2)
  IN  CASE where = "at"             -> "side-unset"
        [] where = ArmingSide(side) -> "armed"
        [] OTHER                    -> WaitState(side)

-----------------------------------------------------------------------------
(* The walk: armed by a close on the arming side, triggered by the first    *)
(* close on the trigger side after that.                                    *)

Window(bars) == {n \in DOMAIN bars : FirstTriggerBar <= n /\ n <= LastTriggerBar}

ClosesOn(bars, n, poc2, where) == PocSide(bars[n].close, poc2) = where

(* Slip: armed by a close at any time of the day. *)
ArmedSometime(bars, side, poc2, n) ==
  \/ InitialState(Reference(bars), side, poc2) = "armed"
  \/ \E m \in Window(bars) : m # n /\ ClosesOn(bars, m, poc2, ArmingSide(side))

ArmedBefore(bars, side, poc2, n) ==
  \/ InitialState(Reference(bars), side, poc2) = "armed"
  \/ \E m \in Window(bars) : m < n /\ ClosesOn(bars, m, poc2, ArmingSide(side))

Crosses(bars, side, poc2, n) ==
  /\ n \in Window(bars)
  /\ ClosesOn(bars, n, poc2, TriggerSide(side))
  /\ ArmedBefore(bars, side, poc2, n)

CrossBars(bars, side, poc2) ==
  {n \in DOMAIN bars : Crosses(bars, side, poc2, n)}

(* The state the walk ends in when it meets no cross. *)
UncrossedState(bars, side, poc2) ==
  CASE ArmedBefore(bars, side, poc2, LastTriggerBar + 1) -> "armed"
    [] /\ InitialState(Reference(bars), side, poc2) = "side-unset"
       /\ \A m \in Window(bars) : ClosesOn(bars, m, poc2, "at")
                                                         -> "side-unset"
    [] OTHER                                             -> WaitState(side)

NoCrossOutcome(state) ==
  CASE state = "side-unset" -> "side-never-set"
    [] state = "armed"      -> "armed-no-cross"
    [] OTHER                -> "never-armed"

-----------------------------------------------------------------------------
(* The trade a cross opens. *)

IsGap(c, side, poc2) ==
  IF side = "long" THEN 2 * c.low > poc2 ELSE 2 * c.high < poc2

(* Slip: the candle counts as its own predecessor. *)
EarlierOrSame(bars, n) == {m \in DOMAIN bars : m <= n}

EarlierBars(bars, n) == {m \in DOMAIN bars : m < n}

(* Slip: the stop of a gap entry is the candle's own far end. *)
StopOfCandle(bars, n, side, poc2) == IF side = "long" THEN bars[n].low ELSE bars[n].high

Stop(bars, n, side, poc2) ==
  IF IsGap(bars[n], side, poc2)
    THEN bars[Latest(EarlierBars(bars, n))].close
    ELSE IF side = "long" THEN bars[n].low ELSE bars[n].high

Risk(price, stop, side) == IF side = "long" THEN price - stop ELSE stop - price

Sizable(bars, n, side, poc2) ==
  /\ IsGap(bars[n], side, poc2) => EarlierBars(bars, n) # {}
  /\ Risk(bars[n].close, Stop(bars, n, side, poc2), side) > 0

Entry(bars, n, side, poc2) ==
  LET price == bars[n].close
      stop  == Stop(bars, n, side, poc2)
      reach == TargetRiskMultiple * Risk(price, stop, side)
  IN  [at     |-> n,
       price  |-> price,
       stop   |-> stop,
       target |-> IF side = "long" THEN price + reach ELSE price - reach]

NoEntry == [at |-> 0, price |-> 0, stop |-> 0, target |-> 0]

-----------------------------------------------------------------------------
(* The exit: the first later candle that touches a level, the stop winning  *)
(* a candle that touches both; else the square-off mark.                    *)

HitStop(c, entry, side) ==
  IF side = "long" THEN c.low <= entry.stop ELSE c.high >= entry.stop

HitTarget(c, entry, side) ==
  IF side = "long" THEN c.high >= entry.target ELSE c.low <= entry.target

Watched(bars, entry) ==
  {m \in DOMAIN bars : entry.at < m /\ m <= SquareOffBar}

TouchBars(bars, entry, side) ==
  {m \in Watched(bars, entry) :
     HitStop(bars[m], entry, side) \/ HitTarget(bars[m], entry, side)}

TouchExit(bars, m, entry, side) ==
  [kind |-> IF HitStop(bars[m], entry, side) THEN "stop" ELSE "target", at |-> m]

SquareOff(bars, entry) ==
  [kind |-> "square-off",
   at   |-> IF Watched(bars, entry) = {} THEN entry.at
                                         ELSE Latest(Watched(bars, entry))]

(* Slip: the last candle that touches, as a loop without a break finds it. *)
ExitAtLast(bars, entry, side) ==
  LET touched == TouchBars(bars, entry, side)
  IN  IF touched # {} THEN TouchExit(bars, Latest(touched), entry, side)
                      ELSE SquareOff(bars, entry)

Exit(bars, entry, side) ==
  LET touched == TouchBars(bars, entry, side)
  IN  IF touched # {} THEN TouchExit(bars, Earliest(touched), entry, side)
                      ELSE SquareOff(bars, entry)

NoExit == [kind |-> "none", at |-> 0]

-----------------------------------------------------------------------------
(* evaluate_day: the whole answer. *)

Answer(outcome, state, entry, exit) ==
  [outcome |-> outcome, state |-> state, entry |-> entry, exit |-> exit]

NoReferenceAnswer(bars) ==
  Answer(IF DOMAIN bars = {} THEN "no-bars" ELSE "no-reference",
         "no-reference", NoEntry, NoExit)

CrossAnswer(bars, n, side, poc2) ==
  IF Sizable(bars, n, side, poc2)
    THEN LET entry == Entry(bars, n, side, poc2)
         IN  Answer("entered", "armed", entry, Exit(bars, entry, side))
    ELSE Answer("consumed-unsizable", "armed", NoEntry, NoExit)

(* Slip: the last cross of the day, as if a trade could be entered again. *)
EvaluateLastCross(bars, side, poc2) ==
  LET crosses == CrossBars(bars, side, poc2)
      state   == UncrossedState(bars, side, poc2)
  IN  IF ~HasReference(bars) THEN NoReferenceAnswer(bars)
      ELSE IF crosses # {}   THEN CrossAnswer(bars, Latest(crosses), side, poc2)
      ELSE Answer(NoCrossOutcome(state), state, NoEntry, NoExit)

EvaluateDay(bars, side, poc2) ==
  LET crosses == CrossBars(bars, side, poc2)
      state   == UncrossedState(bars, side, poc2)
  IN  IF ~HasReference(bars) THEN NoReferenceAnswer(bars)
      ELSE IF crosses # {}   THEN CrossAnswer(bars, Earliest(crosses), side, poc2)
      ELSE Answer(NoCrossOutcome(state), state, NoEntry, NoExit)
=============================================================================
