------------------------------ MODULE SignalLoop ------------------------------
(***************************************************************************)
(* evaluate_day as the code runs it: one loop over the candles to find the *)
(* trigger (_walk), the trade it opens (_open_trade), and a second loop    *)
(* over the later candles to find the exit (_exit_event).  One action is   *)
(* one iteration.  The candles, the side, the POC and the early minutes    *)
(* are the arguments and never change.  Nothing ties the minutes to the    *)
(* candles here: the function does not check that they are of one day, and *)
(* what follows when they are not is stated beside what follows when they  *)
(* agree.                                                                  *)
(***************************************************************************)
EXTENDS SignalRules

CONSTANTS
  Candle,        \* the candles a day is made of
  Poc2,          \* the doubled POCs
  MinuteCloses   \* what the last minute before 11:15 may close at

ASSUME CandleAssumption == \A c \in Candle : IsCandle(c)
ASSUME PocAssumption == Poc2 \subseteq Int
ASSUME MinuteAssumption == MinuteCloses \subseteq Int

VARIABLES
  side, poc2, bars,   \* the arguments, with
  early,              \* the closes of the minutes before 11:15
  pc,                 \* "walk", "open", "exit" or "done"
  i,                  \* the ordinal the loop looks at next
  state,              \* the walk's state
  answer              \* the SignalDay being built

arguments == <<side, poc2, bars, early>>
vars == <<side, poc2, bars, early, pc, i, state, answer>>

Days == UNION {[D -> Candle] : D \in SUBSET Ordinals}

(* Only the last of the minutes is ever looked at, and none of them when    *)
(* the 11:00 candle traded.                                                 *)
Minutes(candles) ==
  IF ReferenceBar \in DOMAIN candles
    THEN {<<>>}
    ELSE {<<>>} \cup {<<close>> : close \in MinuteCloses}

NoAnswer == Answer("none", "none", NoEntry, NoExit)

Init ==
  /\ side \in Sides
  /\ poc2 \in Poc2
  /\ bars \in Days
  /\ early \in Minutes(bars)
  /\ i = 1
  /\ IF TakesReference(bars, early)
       THEN /\ pc = "walk"
            /\ state = InitialState(TakenReference(bars, early), side, poc2)
            /\ answer = NoAnswer
       ELSE /\ pc = "done"
            /\ state = "no-reference"
            /\ answer = NoReferenceAnswer(bars)

-----------------------------------------------------------------------------
(* _walk *)

(* Slip: a close exactly on the POC takes the side away again. *)
StateAfterOnPoc(current, where) ==
  CASE where = ArmingSide(side)                              -> "armed"
    [] where = TriggerSide(side) /\ current = "side-unset"   -> WaitState(side)
    [] where = "at"                                          -> "side-unset"
    [] OTHER                                                 -> current

(* One candle's effect on the state, when it is not the trigger. *)
StateAfter(current, where) ==
  CASE where = ArmingSide(side)                              -> "armed"
    [] where = TriggerSide(side) /\ current = "side-unset"   -> WaitState(side)
    [] OTHER                                                 -> current

Triggers(n) ==
  /\ state = "armed"
  /\ ClosesOn(bars, n, poc2, TriggerSide(side))

SkipBar ==
  /\ pc = "walk" /\ i \in Ordinals \ Window(bars)
  /\ i' = i + 1
  /\ UNCHANGED <<arguments, pc, state, answer>>

WalkBar ==
  /\ pc = "walk" /\ i \in Window(bars)
  /\ ~Triggers(i)
  /\ state' = StateAfter(state, PocSide(bars[i].close, poc2))
  /\ i' = i + 1
  /\ UNCHANGED <<arguments, pc, answer>>

TriggerBar ==
  /\ pc = "walk" /\ i \in Window(bars)
  /\ Triggers(i)
  /\ pc' = "open"
  /\ UNCHANGED <<arguments, i, state, answer>>

NoCross ==
  /\ pc = "walk" /\ i > SessionBars
  /\ answer' = Answer(NoCrossOutcome(state), state, NoEntry, NoExit)
  /\ pc' = "done"
  /\ UNCHANGED <<arguments, i, state>>

-----------------------------------------------------------------------------
(* _open_trade *)

OpenTrade ==
  /\ pc = "open"
  /\ IF Sizable(bars, i, side, poc2)
       THEN /\ pc' = "exit"
            /\ i' = i + 1
            /\ answer' = Answer("entered", state, Entry(bars, i, side, poc2), NoExit)
       ELSE /\ pc' = "done"
            /\ i' = i
            /\ answer' = Answer("consumed-unsizable", state, NoEntry, NoExit)
  /\ UNCHANGED <<arguments, state>>

-----------------------------------------------------------------------------
(* _exit_event *)

Touches(n) ==
  \/ HitStop(bars[n], answer.entry, side)
  \/ HitTarget(bars[n], answer.entry, side)

(* Slip: no end to the candles. *)
PassBarOnwards ==
  /\ pc = "exit"
  /\ i \in Watched(bars, answer.entry) => ~Touches(i)
  /\ i' = i + 1
  /\ UNCHANGED <<arguments, pc, state, answer>>

PassBar ==
  /\ pc = "exit" /\ i \in Ordinals
  /\ i \in Watched(bars, answer.entry) => ~Touches(i)
  /\ i' = i + 1
  /\ UNCHANGED <<arguments, pc, state, answer>>

TouchBar ==
  /\ pc = "exit" /\ i \in Watched(bars, answer.entry)
  /\ Touches(i)
  /\ answer' = [answer EXCEPT !.exit = TouchExit(bars, i, answer.entry, side)]
  /\ pc' = "done"
  /\ UNCHANGED <<arguments, i, state>>

MarkSquareOff ==
  /\ pc = "exit" /\ i > SessionBars
  /\ answer' = [answer EXCEPT !.exit = SquareOff(bars, answer.entry)]
  /\ pc' = "done"
  /\ UNCHANGED <<arguments, i, state>>

Next ==
  \/ SkipBar \/ WalkBar \/ TriggerBar \/ NoCross
  \/ OpenTrade
  \/ PassBar \/ TouchBar \/ MarkSquareOff

Spec == Init /\ [][Next]_vars

-----------------------------------------------------------------------------
WalkStates == {"side-unset", "wait-below", "wait-above", "armed", "no-reference"}
Outcomes == {"none", "no-bars", "no-reference", "side-never-set", "never-armed",
             "armed-no-cross", "entered", "consumed-unsizable"}
ExitKinds == {"none", "stop", "target", "square-off"}

(* The variables have their types; a price is a whole number of paise. *)
TypeOK ==
  /\ side \in Sides /\ poc2 \in Poc2 /\ bars \in Days /\ early \in Minutes(bars)
  /\ pc \in {"walk", "open", "exit", "done"}
  /\ i \in 1..(SessionBars + 1)
  /\ state \in WalkStates
  /\ answer.outcome \in Outcomes
  /\ answer.entry \in [at : Nat, price : Int, stop : Int, target : Int]
  /\ answer.exit \in [kind : ExitKinds, at : Nat]

Agreed == MinutesAgree(bars, early)

(* On a day whose minutes agree with its candles, the loops, with their     *)
(* early break and their running state, give the answer the rules describe: *)
(* the first close beyond the POC that some earlier close or the reference  *)
(* armed, and the first candle that touches a level after it (signals.py    *)
(* _walk, _open_trade, _exit_event).                                        *)
LoopIsRule == pc = "done" /\ Agreed => answer = EvaluateDay(bars, side, poc2)

(* A cross that cannot be sized (the refusals of _open_trade, signals.py    *)
(* 558 and 575) is a gap candle of a day without its 11:00 candle, as the   *)
(* comment at 578 says, and only of one whose minutes contradict its        *)
(* candles: with minutes that agree, the reference or a later close was on  *)
(* the arming side, and so was the close a gap entry takes as its stop.     *)
UnsizableContradicts ==
  answer.outcome = "consumed-unsizable" =>
    /\ IsGap(bars[i], side, poc2)
    /\ ReferenceBar \notin DOMAIN bars
    /\ ~Agreed

(* The stop lies before the entry, the target beyond it and the entry       *)
(* beyond the POC, on both sides of the market; when the minutes agree with *)
(* the candles the POC separates the entry from its stop too.               *)
PocSplitsTheTrade ==
  answer.outcome = "entered" =>
    IF side = "long"
      THEN /\ answer.entry.stop < answer.entry.price
           /\ poc2 < 2 * answer.entry.price
           /\ answer.entry.price < answer.entry.target
           /\ Agreed => 2 * answer.entry.stop <= poc2
      ELSE /\ answer.entry.stop > answer.entry.price
           /\ poc2 > 2 * answer.entry.price
           /\ answer.entry.price > answer.entry.target
           /\ Agreed => 2 * answer.entry.stop >= poc2
=============================================================================
