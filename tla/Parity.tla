------------------------------- MODULE Parity -------------------------------
(***************************************************************************)
(* The parity harness, src/src/acumen/parity.py: the growing day of module *)
(* SignalDay is shown by the live screener at every boundary, and what it  *)
(* showed is compared with the backtester's answer to the whole day,       *)
(* walked onto the same boundaries.                                        *)
(*                                                                         *)
(* Boundary n is the close of candle n: 11:15 is ReferenceBar, and the     *)
(* last one, SessionBars, is the post-session poll, which announces        *)
(* nothing.  The day passes its gates and every fetch succeeds; module     *)
(* Screener has the mornings where they do not.  A number a state does not *)
(* have is an empty set.                                                   *)
(***************************************************************************)
EXTENDS SignalDay, Sizing, Sequences

Seqs == INSTANCE SequencesExt

(* The poll after the session has nothing new to say: the day's last        *)
(* decision, the square-off, is taken at a boundary before it.              *)
ASSUME PollAssumption == SquareOffBar < SessionBars

VARIABLES
  shown,      \* the symbol's state on the dashboard
  captured,   \* what run_live saw after each sweep
  delivered   \* the alerts sent, by identity

parityVars == <<side, poc2, now, bars, today, shown, captured, delivered>>

Boundaries == ReferenceBar..SessionBars

Qty(entry) == PositionSize(Risk(entry.price, entry.stop, side))

-----------------------------------------------------------------------------
(* The live half: _state_from over the candles in hand.                     *)

Shown(phase, entry, qty, exit, fill) ==
  [phase |-> phase, entry |-> entry, qty |-> qty, exit |-> exit, fill |-> fill]

NoNumbers(phase) == Shown(phase, NoEntry, {}, "none", {})
QtyZero == Shown("refused", NoEntry, {0}, "none", {})

(* The POC's window and the reference's end together, at 11:15: a day       *)
(* without candles in it has neither, and is not evaluated.                 *)
Evaluated(candles) == HasReference(candles)

Position(n, candles, day) ==
  LET out   == day.exit.kind # "square-off" \/ n >= SquareOffBar
      phase == IF out THEN "exited"
               ELSE IF day.entry.at = n THEN "triggered" ELSE "in-trade"
  IN  Shown(phase, day.entry, {Qty(day.entry)},
            IF out THEN day.exit.kind ELSE "none",
            IF out THEN {ExitPrice(day.entry, day.exit, candles)} ELSE {})

Read(n, candles, day) ==
  IF day.outcome # "entered"
    THEN NoNumbers(IF day.state = "armed" THEN "armed" ELSE "waiting")
  ELSE IF Qty(day.entry) = 0 THEN QtyZero
  ELSE Position(n, candles, day)

(* _reached_rank, and _monotonic, which takes no state that walks back. *)
Reached(st) ==
  IF st.exit # "none"                                THEN 3
  ELSE IF st.entry # NoEntry                         THEN 2
  ELSE IF st.qty = {0} \/ st.phase = "armed"         THEN 1
  ELSE 0

Kept(after, previous) ==
  IF Reached(after) >= Reached(previous) THEN after ELSE previous

(* A refusal other than a gate's is for the rest of the day. *)
Evaluate(previous, n, candles, day) ==
  IF previous.phase = "refused"      THEN previous
  ELSE IF DOMAIN candles = {}        THEN NoNumbers("waiting")
  ELSE IF ~Evaluated(candles)        THEN NoNumbers("refused")
  ELSE Kept(Read(n, candles, day), previous)

(* An alert that is due is sent unless the very same was sent before. *)
Once(due, alert, sent) == IF due /\ ~Seqs!Contains(sent, alert) THEN <<alert>> ELSE <<>>

Alert(kind, entry, exit) == [kind |-> kind, entry |-> entry, exit |-> exit]

(* What a state announces, derived from the state alone. *)
Announced(st, sent) ==
  Once(st.phase = "armed", Alert("armed", NoEntry, "none"), sent)
  \o Once(st.phase # "armed" /\ st.entry # NoEntry, Alert("trigger", st.entry, "none"), sent)
  \o Once(st.phase = "exited",
          Alert(IF st.exit = "square-off" THEN "square-off" ELSE "exit", st.entry, st.exit), sent)

(* The first sweep, at 11:15, and the sweep of every later boundary: what   *)
(* run_live notes of it, and what the sinks are given.                      *)
ParityInit ==
  /\ Init
  /\ shown = Evaluate(NoNumbers("waiting"), now, bars, today)
  /\ captured = <<shown>>
  /\ delivered = Announced(shown, <<>>)

Sweep ==
  /\ CloseCandle
  /\ shown' = Evaluate(shown, now', bars', today')
  /\ captured' = Append(captured, shown')
  /\ delivered' = IF now' = SessionBars THEN delivered
                  ELSE delivered \o Announced(shown', delivered)

ParitySpec == ParityInit /\ [][Sweep]_parityVars

-----------------------------------------------------------------------------
(* The backtest half: the whole day's answer, walked onto the boundaries.   *)

(* The transition trail stops at the candle that triggers. *)
Trail(candles) ==
  LET crosses == CrossBars(candles, side, poc2)
  IN  {m \in Window(candles) : crosses # {} => m <= Earliest(crosses)}

StateAfter(candles, m) ==
  UncrossedState([k \in {x \in DOMAIN candles : x <= m} |-> candles[k]], side, poc2)

(* The state after the last transition whose candle has closed by n. *)
StateBy(candles, n) ==
  LET seen == {m \in Trail(candles) : m <= n}
  IN  IF seen # {} THEN StateAfter(candles, Latest(seen))
                   ELSE InitialState(Reference(candles), side, poc2)

(* Slip: a square-off mark shows where the day's last candle left it. *)
ProjectMark(candles, day, n) ==
  LET entered == day.outcome = "entered" /\ day.entry.at <= n
      qty     == Qty(day.entry)
      exited  == entered /\ day.exit.at <= n
  IN  IF ~Evaluated(candles)      THEN NoNumbers("refused")
      ELSE IF entered /\ qty = 0  THEN QtyZero
      ELSE IF exited
        THEN Shown("exited", day.entry, {qty}, day.exit.kind,
                   {ExitPrice(day.entry, day.exit, candles)})
      ELSE IF entered
        THEN Shown(IF day.entry.at = n THEN "triggered" ELSE "in-trade",
                   day.entry, {qty}, "none", {})
      ELSE NoNumbers(IF StateBy(candles, n) = "armed" THEN "armed" ELSE "waiting")

Project(candles, day, n) ==
  LET entered == day.outcome = "entered" /\ day.entry.at <= n
      qty     == Qty(day.entry)
      exited  == /\ entered /\ day.exit.at <= n
                 /\ day.exit.kind = "square-off" => n >= SquareOffBar
  IN  IF ~Evaluated(candles)      THEN NoNumbers("refused")
      ELSE IF entered /\ qty = 0  THEN QtyZero
      ELSE IF exited
        THEN Shown("exited", day.entry, {qty}, day.exit.kind,
                   {ExitPrice(day.entry, day.exit, candles)})
      ELSE IF entered
        THEN Shown(IF day.entry.at = n THEN "triggered" ELSE "in-trade",
                   day.entry, {qty}, "none", {})
      ELSE NoNumbers(IF StateBy(candles, n) = "armed" THEN "armed" ELSE "waiting")

Projected(candles, day) ==
  [i \in 1..SessionBars - ReferenceBar + 1 |-> Project(candles, day, ReferenceBar + i - 1)]

(* The alerts a correct morning owes, each kind once, from its decisions. *)
WithOwed(kinds, decision) ==
  kinds \o Once(decision.phase = "armed", "armed", kinds)
        \o Once(decision.entry # NoEntry, "trigger", kinds)
        \o Once(decision.exit # "none",
                IF decision.exit = "square-off" THEN "square-off" ELSE "exit", kinds)

ExpectedAlerts(decisions) ==
  LET kinds[i \in 0 .. Len(decisions)] ==
        IF i = 0 THEN <<>> ELSE WithOwed(kinds[i - 1], decisions[i])
  IN  kinds[Len(decisions)]

-----------------------------------------------------------------------------
(* compare: what the two halves disagree on, by name.  The trails agree     *)
(* only when both halves have one.                                          *)

Differing(got, want) == {f \in DOMAIN got : got[f] # want[f]}

BoundaryMismatches(wanted) ==
  UNION {{i} \X Differing(captured[i], wanted[i]) : i \in DOMAIN captured}

AlertMismatch(wanted) ==
  IF [i \in DOMAIN delivered |-> delivered[i].kind] = ExpectedAlerts(wanted)
    THEN {} ELSE {<<0, "alerts">>}

TrailMismatch == IF Evaluated(bars) THEN {} ELSE {<<0, "trail">>}

Mismatches ==
  LET wanted == Projected(bars, today)
  IN  BoundaryMismatches(wanted) \cup AlertMismatch(wanted) \cup TrailMismatch

(* A day without a single candle gives the backtest half nothing to answer. *)
Judged == DOMAIN bars # {}

(* The boundaries, counted from the first, before the day's first candle. *)
BeforeFirst == {i \in DOMAIN captured : \A m \in DOMAIN bars : ReferenceBar + i - 1 < m}

(* The live half shows at every boundary what the whole day's answer says   *)
(* it should have, number for number, and sends the alerts it owes: no      *)
(* drift between the two modes (CONTEXT 6).  The harness itself names a     *)
(* difference on one kind of day, whose first candle comes after 11:15: it  *)
(* has no POC, the live half waits where the backtest refuses, and two      *)
(* halves without a trail are reported as differing in it.                  *)
LiveIsBacktest ==
  now = SessionBars /\ Judged =>
    Mismatches = IF Evaluated(bars) THEN {}
                 ELSE {<<0, "trail">>} \cup (BeforeFirst \X {"phase"})
=============================================================================
