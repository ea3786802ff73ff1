------------------------------- MODULE Gates -------------------------------
(***************************************************************************)
(* The three data-quality gates of quality_gates.py, as operators on       *)
(* integers.  Prices are paise and volumes are shares, as in the code; a   *)
(* percentage test is cross-multiplied, so nothing is rounded.  A bar is a *)
(* record [t, o, h, l, c, v] whose stamp t counts minutes from the open.   *)
(***************************************************************************)
EXTENDS Integers, FiniteSets, Sequences

CONSTANTS
    SessionMinutes,   \* stamps of one session (375)
    MaxMissing,       \* absent stamps gate 2 tolerates without an oracle (15)
    NoRow             \* the value of a raw daily figure that is not on file

ASSUME GatesAssumption ==
    /\ SessionMinutes \in Nat \ {0}
    /\ MaxMissing \in 0 .. SessionMinutes
    /\ NoRow \notin Int

StoredBars == [t : Int, o : Int, h : Int, l : Int, c : Int, v : Int]
StoredRows == [o : Int, h : Int, l : Int, c : Int, v : Int]

Larger(a, b) == IF a >= b THEN a ELSE b

(* Gate 1: the gap (daily - minutes) / daily must lie in [-0.1%, 5.0%];    *)
(* a zero daily volume leaves the ratio undefined and fails.               *)
VolumeGate(daily, minutes) ==
    LET gap == 1000 * (daily - minutes)
    IN [defined |-> daily # 0,
        passed  |-> daily # 0 /\ -daily <= gap /\ gap <= 50 * daily,
        above   |-> daily # 0 /\ gap > 50 * daily,
        capped  |-> daily # 0 /\ gap <= 200 * daily]

(* Relief of a gate-1 failure: short by more than 5% but at most 20%, with *)
(* the day's opening print and both extremes equal to the daily record's.  *)
AuctionRelief(gate1, fold, raw) ==
    /\ ~gate1.passed /\ gate1.above /\ gate1.capped
    /\ fold.h = raw.h /\ fold.l = raw.l /\ raw.h > 0 /\ raw.l > 0
    /\ fold.o = raw.o /\ raw.o > 0

(* Gate 1P: the minutes' extremes stay inside the raw daily interval, with *)
(* a tolerance of two paise or a tenth of a percent.  In thousandths.      *)
ContainmentLimit(raw) == Larger(2000, raw)

PriceContainment(fold, rawHigh, rawLow) ==
    LET unproven == rawHigh = NoRow \/ rawLow = NoRow
        high == 1000 * (fold.h - rawHigh) - ContainmentLimit(rawHigh)
        low  == 1000 * (rawLow - fold.l) - ContainmentLimit(rawLow)
    IN IF unproven THEN "no-raw-daily-row"
       ELSE IF rawHigh <= 0 \/ rawLow <= 0 THEN "no-raw-daily-row"
       ELSE IF high > 0 THEN "fold-high-above-daily-high"
       ELSE IF low > 0 THEN "fold-low-below-daily-low"
       ELSE "contained"

(* Gate 2.  reconciled is gate 1's answer, or NoRow when it could not run; *)
(* measurable is FALSE only for a session that has not ended.  Bars that   *)
(* are stamped outside the session are counted and otherwise skipped.      *)
Sane(b) == b.l <= b.h /\ b.o \in b.l .. b.h /\ b.c \in b.l .. b.h
Negative(b) == b.o < 0 \/ b.h < 0 \/ b.l < 0 \/ b.c < 0 \/ b.v < 0

InSession(t) == t \in 0 .. SessionMinutes - 1

IntegrityGate(bars, reconciled, measurable) ==
    LET inside  == {i \in DOMAIN bars : InSession(bars[i].t)}
        present == {bars[i].t : i \in inside}
        missing == SessionMinutes - Cardinality(present)
        causes  ==
            {r \in {"missing", "duplicate", "ohlc", "negative"} :
                \/ r = "missing" /\ measurable /\ missing > MaxMissing
                                 /\ reconciled # TRUE
                \/ r = "duplicate" /\ Cardinality(inside) > Cardinality(present)
                \/ r = "ohlc" /\ \E i \in inside : ~Sane(bars[i])
                \/ r = "negative" /\ \E i \in inside : Negative(bars[i])}
    IN [passed |-> causes = {}, causes |-> causes, missing |-> missing,
        present |-> Cardinality(present)]

(* Gate 3: every compared price of a day within 2% of the raw daily store  *)
(* (RAW) or of the factor kn/kd (ADJUSTED); both or neither says nothing.  *)
Near(a, raw, kn, kd) ==
    LET off == 50 * (a * kd - raw * kn)
    IN off <= raw * kd /\ -off <= raw * kd

AdjustmentGate(minute, raw, kn, kd) ==
    LET allRaw == \A f \in DOMAIN raw : Near(minute[f], raw[f], 1, 1)
        allAdj == \A f \in DOMAIN raw : Near(minute[f], raw[f], kn, kd)
    IN IF allRaw /\ ~allAdj THEN "RAW"
       ELSE IF allAdj /\ ~allRaw THEN "ADJUSTED"
       ELSE "INDETERMINATE"

CombineVerdicts(verdicts) ==
    LET decided == verdicts \cap {"RAW", "ADJUSTED"}
    IN IF decided = {"RAW"} THEN "RAW"
       ELSE IF decided = {"ADJUSTED"} THEN "ADJUSTED"
       ELSE "INDETERMINATE"

(* Continuity across an ex-date: the ex-day's close is within 20% of the   *)
(* previous close times the factor kn/kd.                                  *)
ContinuityGate(before, after, kn, kd) ==
    LET off == 5 * (after * kd - before * kn)
    IN off < before * kn /\ -off < before * kn
=============================================================================
