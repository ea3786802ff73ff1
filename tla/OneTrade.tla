------------------------------- MODULE OneTrade -------------------------------
(***************************************************************************)
(* What a stock-day promises its trader (CONTEXT 3.4): at most one trade,  *)
(* opened only from the armed state, with numbers that never change, left  *)
(* once and never re-entered.                                              *)
(***************************************************************************)
CONSTANTS
  Trade,     \* the numbers of a trade
  NoTrade,   \* before there is one
  Exits      \* the ways to leave one

VARIABLES
  phase,     \* "watching", "armed", "in-trade", "over"
  trade,     \* its numbers, once there is one
  exit       \* how it was left

vars == <<phase, trade, exit>>

Init ==
  /\ phase \in {"watching", "armed"}
  /\ trade = NoTrade
  /\ exit = "none"

Arm ==
  /\ phase = "watching"
  /\ phase' = "armed"
  /\ UNCHANGED <<trade, exit>>

Enter ==
  /\ phase = "armed"
  /\ phase' = "in-trade"
  /\ trade' \in Trade
  /\ UNCHANGED exit

Leave ==
  /\ phase = "in-trade"
  /\ phase' = "over"
  /\ exit' \in Exits
  /\ UNCHANGED trade

Next == Arm \/ Enter \/ Leave

Spec == Init /\ [][Next]_vars
=============================================================================
