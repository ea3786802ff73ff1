------------------------------- MODULE Sizing -------------------------------
(* The money of a trade, src/src/acumen/simulate.py: how many shares the    *)
(* risk budget buys and the price an exit fills at.                         *)
EXTENDS Integers

CONSTANT RiskPerTrade   \* paise risked per trade (config)

ASSUME RiskAssumption == RiskPerTrade \in Nat \ {0}

PositionSize(risk) == RiskPerTrade \div risk

ExitPrice(entry, exit, bars) ==
    IF exit.kind = "target" THEN entry.target
    ELSE IF exit.kind = "stop" THEN entry.stop
    ELSE bars[exit.at].close
=============================================================================
