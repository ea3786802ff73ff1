----------------------------- MODULE DailyStore -----------------------------
(* The daily store: bhavcopy downloads (bhavcopy.py), the month files and   *)
(* the outcome ledger (daily_store.py), the dates a top-up asks             *)
(* (backfill_daily.py) and the trading calendars read from the ledger and   *)
(* from the published holiday master (calendar.py).  Day 1 is a Wednesday.  *)
(* A world says what the market did: kind of day, the holidays nobody had   *)
(* announced, the files published late, the files under the other format's  *)
(* name, the file with a malformed year, the files with too few rows, the symbols *)
(* a file does not list.                                                    *)
EXTENDS NseHttp, FiniteSets, FiniteSetsExt

CONSTANTS
    Horizon,        \* the last day of the model
    SealAge,        \* a 404 is final only past this age in days (code: 7)
    Lookback,       \* days a top-up looks back from its ceiling (code: 10)
    PublicationLag, \* most days a file may be late
    Symbols         \* the symbols the screener watches

ASSUME StoreAssumption ==
    /\ Horizon \in Nat \ {0} /\ SealAge \in Nat /\ Lookback \in Nat \ {0}
    /\ PublicationLag \in 0 .. SealAge
    /\ IsFiniteSet(Symbols) /\ Symbols # {}

Days == 1 .. Horizon
IsWeekend(d) == d % 7 \in {4, 5}
Terminal == {"present", "404"}
Outcomes == Terminal \cup {"pending", "error", "none"}

\* The market held a session on d and NSE publishes a file for it.
HasFile(world, d) == world.kind[d] \in {"trading", "special"}

-----------------------------------------------------------------------------
(* bhavcopy.py *)

\* seals_as_non_trading_day.
Seals(d, run) == run - d > SealAge

\* What one format's name answers: no file, a request that failed, or a file
\* that is sound, does not parse or carries another date.
FormatAnswers(world, d, run, format) ==
    LET here == HasFile(world, d) /\ (format = 2) = (d \in world.otherFormat)
        late == d \in world.late /\ run - d <= PublicationLag
        file == IF d \in world.misdated THEN {"misdated"} ELSE {"sound", "corrupt"}
    IN  (IF here THEN UNION {IF got = "body" THEN file ELSE {got} : got \in PublishedFetch} ELSE {})
        \cup (IF ~here \/ late THEN UnpublishedFetch ELSE {})

\* download_bhavcopy: the formats in order; only a 404 moves on to the next, a
\* file that is not the date asked for is an error unless its quirk is known.
Download(world, d, run, answers) ==
    LET asked == SelectInSeq(answers, LAMBDA a : a # "absent")
    IN  CASE asked = 0 /\ Seals(d, run)  -> "404"
          [] asked = 0 /\ ~Seals(d, run) -> "pending"
          [] OTHER -> IF \/ answers[asked] = "sound"
                         \/ answers[asked] = "misdated" /\ d \in world.quirks
                      THEN "present" ELSE "error"

DownloadOutcomes(world, d, run) ==
    {Download(world, d, run, answers) :
        answers \in FormatAnswers(world, d, run, 1) \X FormatAnswers(world, d, run, 2)}

-----------------------------------------------------------------------------
(* daily_store.py: rows by date ("none", "whole", "torn"), outcomes by date *)

\* write_rows: the month file with this date's rows replaced.
WithRows(disk, d) == [disk EXCEPT !.rows[d] = "whole"]

\* record_outcome: the ledger with this date's outcome replaced.
WithOutcome(disk, d, outcome) == [disk EXCEPT !.ledger[d] = outcome]

\* Slip: the outcome is recorded first.
FirstWriteOutcome(disk, d, outcome) ==
    IF outcome = "present" THEN WithOutcome(disk, d, outcome) ELSE disk

\* ingest is two writes: the rows of a present date, then its outcome.
FirstWrite(disk, d, outcome) ==
    IF outcome = "present" THEN WithRows(disk, d) ELSE disk

SecondWrite(disk, d, outcome) ==
    IF outcome = "present"
    THEN WithOutcome(WithRows(disk, d), d, outcome)
    ELSE WithOutcome(disk, d, outcome)

\* Slip: a top-up asks every date of its range.
PendingDatesAll(disk, from, to) == Days \cap (from .. to)

\* pending_dates: every date of the range without a terminal outcome.
PendingDates(disk, from, to) ==
    {d \in Days \cap (from .. to) : disk.ledger[d] \notin Terminal}

\* resolve_dates: --no-retry-errors leaves out errors and nothing else.
ResolveDates(disk, from, to, retryErrors) ==
    {d \in PendingDates(disk, from, to) : retryErrors \/ disk.ledger[d] # "error"}

\* rebuild_ledger_from_monthlies: what the month files show and nothing else.
RebuiltLedger(disk) ==
    [disk EXCEPT !.legible = TRUE,
                 !.ledger = [d \in Days |-> IF disk.rows[d] = "whole" THEN "present" ELSE "none"]]

\* verify, the dates it reports: present without rows, too few rows on a
\* weekday, rows without a present outcome.  A weekend session's few rows are
\* a note.
Anomalies(world, disk, from, to) ==
    LET range   == Days \cap (from .. to)
        present == {d \in range : disk.ledger[d] = "present"}
        held    == {d \in range : disk.rows[d] = "whole"}
    IN  (present \ held)
        \cup {d \in present \cap held : d \in world.thin /\ ~IsWeekend(d)}
        \cup (held \ present)

\* daily: the store's row of a symbol-day; a file may not list the symbol.
HasRow(world, disk, s, d) == disk.rows[d] = "whole" /\ <<s, d>> \notin world.unlisted

-----------------------------------------------------------------------------
(* calendar.py *)

\* The holiday master as NSE serves it on a day: an unannounced holiday is in
\* it only afterwards.
PublishedHolidays(world, fetchedOn) ==
    {d \in Days : world.kind[d] = "holiday" /\ (d \notin world.unannounced \/ d < fetchedOn)}

\* is_trading_day of the published calendar: the weekday rule.
PublishedTrading(world, fetchedOn) ==
    {d \in Days : ~IsWeekend(d)} \ PublishedHolidays(world, fetchedOn)

\* prev_trading_day.
PrevTradingDay(trading, d) == Max({x \in trading : x < d} \cup {0})

\* Slip: the weekend session stays a trading day.
DerivedWithWeekends(disk, range) == {d \in range : disk.ledger[d] = "present"}

\* _derive: the days of a settled range on which the store holds a session; a
\* weekend session is counted and excluded.
DerivedTrading(disk, range) ==
    {d \in range : disk.ledger[d] = "present" /\ ~IsWeekend(d)}

\* _derive refuses a range with a date that is not settled, or with no session.
DeriveRefuses(disk, range) ==
    \/ ~disk.legible
    \/ \E d \in range : disk.ledger[d] \notin Terminal
    \/ DerivedTrading(disk, range) = {}

\* live_trading_calendar: how far the ledger is settled without a hole.
SettledThrough(disk, day) ==
    Max({d \in 0 .. day - 1 : \A x \in 1 .. d : disk.ledger[x] \in Terminal})

\* ...it refuses a settled date after the hole, and what _derive refuses.
LiveCalendarRefuses(disk, day) ==
    LET settled == SettledThrough(disk, day)
    IN  \/ ~disk.legible
        \/ \E d \in 1 .. day - 1 : d > settled /\ disk.ledger[d] \in Terminal
        \/ settled >= 1 /\ DeriveRefuses(disk, 1 .. settled)

\* ...and composes the store's settled history with the published rest.
LiveTrading(world, disk, fetchedOn, day) ==
    LET settled == SettledThrough(disk, day)
    IN  DerivedTrading(disk, 1 .. settled)
        \cup {d \in PublishedTrading(world, fetchedOn) : d > settled /\ d <= day}

\* bias_pair: the two trading days before a trading day.
BiasPair(trading, day) ==
    <<PrevTradingDay(trading, day), PrevTradingDay(trading, PrevTradingDay(trading, day))>>
=============================================================================
