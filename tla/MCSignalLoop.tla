---------------------------- MODULE MCSignalLoop ----------------------------
(* One day of six candles around a POC of 10.00 or 10.50 (doubled: 20, 21). *)
EXTENDS SignalLoop

C(low, high, close) == [low |-> low, high |-> high, close |-> close]

MCCandle == {
  C(9, 9, 9),      \* below the POC
  C(10, 10, 10),   \* on the lower POC
  C(11, 18, 12),   \* above: a gap for a long entry, and a long target
  C(9, 11, 11),    \* through the POC, closing above
  C(9, 11, 9),     \* through the POC, closing below
  C(3, 17, 10)}    \* wide enough to touch a stop and a target

MCPoc2 == {20, 21}

(* Below and on the lower POC, above both, and at the closes of candles. *)
MCMinuteCloses == {9, 10, 12}
=============================================================================
