------------------------------ MODULE Preflight ------------------------------
(* What a full-history run asks of the stores before it starts              *)
(* (run_backtest.preflight): nine checks over the daily store's ledger, the *)
(* 1-minute store, the residual register, the corporate-action cache and    *)
(* the pinned instrument master.  A machine also says which of its config   *)
(* keys are wrong and on which days it holds candles of each ticker.        *)
EXTENDS Readiness

CONSTANT CalendarLead   \* days the calendar reaches back before the span (code: 30)

ASSUME CalendarLeadAssumption == CalendarLead \in Nat

\* settled_symbols.
Universe(machine) == IF machine.legible THEN Screened(machine.register) ELSE {}

\* symbol_era: the days between a ticker's first and last candle.
HasEra(machine, t) == t \in DOMAIN machine.candles /\ machine.candles[t] # {}

\* era_span.
EraDays(machine) == UNION {machine.candles[t] : t \in {u \in Universe(machine) : HasEra(machine, u)}}

\* _daily_ledger_end: the last date of the era the ledger has an outcome for,
\* whatever the outcome.
LedgerDates(disk, from, to) == {d \in Days \cap (from .. to) : disk.ledger[d] # "none"}

\* The span: the era, clamped to the ledger.
SpanStart(machine) == Min(EraDays(machine))

SpanEnd(machine, disk) ==
    LET dates == LedgerDates(disk, SpanStart(machine), Max(EraDays(machine)))
    IN  IF dates = {} THEN Max(EraDays(machine))
        ELSE Min({Max(EraDays(machine)), Max(dates)})

SpanRange(machine, disk) == (SpanStart(machine) - CalendarLead) .. SpanEnd(machine, disk)

\* Every settled ticker has a directory in the 1-minute store, and an era.
UniverseIsStored(machine) ==
    /\ Universe(machine) # {}
    /\ \A t \in Universe(machine) : HasEra(machine, t)

\* Slip: a calendar is derived over a range with unsettled dates.
CalendarIsDerivedLoosely(disk, range) == range \subseteq Days /\ disk.legible

\* The calendar derives over the span and its lead; a ledger nobody can read
\* raises.
CalendarIsDerived(disk, range) == range \subseteq Days /\ ~DeriveRefuses(disk, range)

\* preflight: GO only if every check passes, on a span that holds a trading day.
Go(machine, disk) ==
    /\ machine.wrongKeys = {} /\ machine.actions /\ machine.pinned
    /\ UniverseIsStored(machine) /\ \E d \in Days : disk.rows[d] = "whole"
    /\ LET range == SpanRange(machine, disk)
       IN  /\ CalendarIsDerived(disk, range)
           /\ \E d \in DerivedTrading(disk, range) : d >= SpanStart(machine)
=============================================================================
