----------------------------- MODULE Recordings -----------------------------
(* The recordings of live mornings (live_recording.py) and the pre-open     *)
(* job that judges them (live_refresh.py).  A recording is named by its     *)
(* day; Stray is a directory whose name is no date.                         *)
EXTENDS DailyStore

Stray == 0

\* What a recording holds of a symbol, in the order a day adds it: nothing, an
\* alert without candles (the data failed), candles.
Contents == <<"nothing", "alert", "candles">>

NoVerdict == [s \in Symbols |-> "unread"]

NoRecording ==
    [dir |-> FALSE, manifest |-> "none", mode |-> "live", master |-> 0,
     contents |-> [s \in Symbols |-> "nothing"], verdict |-> NoVerdict]

\* The manifest of a live session: its mode, and the dump it runs on, which is
\* the day's own.
WithManifest(rec, day) == [rec EXCEPT !.manifest = "ok", !.mode = "live", !.master = day]

\* recording_day: the manifest's trade_date, or nothing.
RecordingDay(rec, d) == IF rec.manifest = "ok" THEN {d} ELSE {}

\* recording_day_or_name: failing that, the date the directory is named after.
RecordingDayOrName(rec, d) ==
    IF rec.manifest = "ok" \/ d # Stray THEN {d} ELSE {}

\* unverified_recordings, the directories nobody can read: no manifest, or one
\* that does not parse.
UnreadableRecordings(recs) ==
    {d \in DOMAIN recs : recs[d].dir /\ recs[d].manifest # "ok"}

\* ...and the live recordings of a day before this one with no verdict on disk.
PendingRecordings(recs, before) ==
    {d \in DOMAIN recs : /\ recs[d].manifest = "ok"
                         /\ recs[d].mode = "live"
                         /\ RecordingDay(recs[d], d) # {} /\ d < before
                         /\ recs[d].verdict = NoVerdict}

\* oracle_spoke: the published bhavcopy has a row for the symbol-day.
OracleSpoke(world, disk, s, d) == HasRow(world, disk, s, d)

\* verify_prior_recording: every symbol with candles or an alert; without
\* candles it is blind, without the exchange's row silent, and otherwise the
\* battery has judged it (for or against).  A symbol the recording does not hold
\* is absent from the verdict, which is written all the same.
Verdict(world, disk, d) ==
    [s \in Symbols |->
       CASE disk.recs[d].contents[s] = "nothing" -> "absent"
         [] disk.recs[d].contents[s] = "alert"   -> "blind"
         [] disk.recs[d].contents[s] = "candles" ->
              IF OracleSpoke(world, disk, s, d) THEN "judged" ELSE "silent"]

\* The step raises on a recording whose instrument master is gone; it is named
\* and left without a verdict.
NamedMaster(disk, named) == named \in disk.masters

CanBeJudged(disk, d) == NamedMaster(disk, disk.recs[d].master)

\* Slip: the blocking test asks the manifest alone (REVIEW_15 Q2).
MayBePriorByManifest(rec, d, prior) == prior \in RecordingDay(rec, d)

\* The step stops the morning for a recording that cannot be judged and is, or
\* may be, the previous trading day's.
MayBePrior(rec, d, prior) ==
    RecordingDayOrName(rec, d) = {} \/ prior \in RecordingDayOrName(rec, d)
=============================================================================
