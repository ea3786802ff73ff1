------------------------------- MODULE Morning -------------------------------
(* The operator's mornings: the pre-open refresh (live_refresh.py, driven   *)
(* by run_screener.main), the live calendar and the session it opens        *)
(* (live_screener.build_live_screener), and the manual backfill and ledger  *)
(* rebuild (backfill_daily.py), over one set of files.  A process may die   *)
(* between any two writes and the machine may lose power.                   *)
EXTENDS Recordings, Preflight

CONSTANTS
    Machines,     \* the computers a readiness check may meet
    Worlds,       \* what the market and NSE's files may turn out to be
    FirstMorning, \* the first morning of the model
    SettledAtStart, \* the store is settled through this day at first
    MaxRuns,      \* commands the operator starts
    MaxEvents,    \* commands, errors and deaths before the last command
    MaxErrors,    \* bhavcopy requests that fail
    MaxDeaths     \* deaths, losses of power and damaged files together

ASSUME MorningAssumption ==
    /\ FirstMorning \in Days /\ SettledAtStart \in 0 .. FirstMorning - 1
    /\ MaxRuns \in Nat /\ MaxEvents \in Nat /\ MaxErrors \in Nat /\ MaxDeaths \in Nat

\* NSE trades on weekdays; a session on a weekend is a special one.
ASSUME WorldAssumption ==
    \A world \in Worlds :
        /\ world.kind \in [Days -> {"trading", "special", "holiday", "weekend"}]
        /\ \A d \in Days : /\ world.kind[d] = "trading" => ~IsWeekend(d)
                           /\ world.kind[d] = "special" => IsWeekend(d)
        /\ world.dirSync \in BOOLEAN

VARIABLES
    world,     \* chosen once
    today,
    runs,      \* commands started
    pc,        \* where the running command is
    network,   \* --allow-network
    queue,     \* dates the top-up has still to ask
    reply,     \* outcome of the date whose rows are written and ledger is not
    disk,      \* the files
    survivors, \* the disks a loss of power may leave
    calendar,  \* the day the published calendar in hand was fetched on
    report,    \* steps failed so far, recordings named, verdicts made
    session,   \* the live session of the day, once its calendar is built
    certified, \* READY was said today, and nothing has happened to the files since
    errors, deaths

vars == <<world, today, runs, pc, network, queue, reply, disk, survivors,
          calendar, report, session, certified, errors, deaths>>
run == <<world, today, runs, certified>>
faults == <<errors, deaths>>
hand == <<network, calendar, report, session>>  \* what a command has in hand

RecordingDays == {Stray} \cup Days
NoReply == [day |-> 0, outcome |-> "none"]
NoReport == [failed |-> FALSE, named |-> {}]
NoSession == [day |-> 0, pair |-> <<0, 0>>, biased |-> {}, fetchedOn |-> 0]

\* Every variable has its type; the disk is one of those a loss of power may leave.
TypeOK ==
    /\ world \in Worlds /\ today \in Days /\ runs \in 0 .. MaxRuns
    /\ pc \in {"idle", "calendar", "universe", "plan", "ask", "record", "actions",
               "master", "queue", "judge", "build", "manifest", "market"}
    /\ network \in BOOLEAN /\ queue \subseteq RecordingDays
    /\ reply \in [day : 0 .. Horizon, outcome : Outcomes]
    /\ disk \in survivors
    /\ \A d \in Days : disk.rows[d] \in {"none", "whole"}
                       /\ disk.ledger[d] \in Outcomes
    /\ disk.masters \subseteq Days
    /\ DOMAIN disk.recs = RecordingDays
    /\ calendar \in 0 .. Horizon /\ session.day \in 0 .. Horizon
    /\ certified \in BOOLEAN
    /\ errors \in 0 .. MaxErrors /\ deaths \in 0 .. MaxDeaths

\* A first morning: a store settled by an earlier backfill, the recording of a
\* replay, and in some worlds a directory somebody made by hand.
Init ==
    /\ world \in Worlds
    /\ today = FirstMorning /\ runs = 0 /\ pc = "idle" /\ network = FALSE
    /\ queue = {} /\ reply = NoReply
    /\ disk = [rows |-> [d \in Days |-> IF d <= SettledAtStart /\ HasFile(world, d)
                                        THEN "whole" ELSE "none"],
               ledger |-> [d \in Days |-> IF d > SettledAtStart THEN "none"
                                          ELSE IF HasFile(world, d) THEN "present" ELSE "404"],
               legible |-> TRUE, holidays |-> NoCache, masters |-> {},
               recs |-> [d \in RecordingDays |->
                   IF d = 1 THEN [NoRecording EXCEPT !.dir = TRUE, !.manifest = "ok", !.mode = "replay"]
                   ELSE IF d = Stray /\ world.stray THEN [NoRecording EXCEPT !.dir = TRUE]
                   ELSE NoRecording]]
    /\ survivors = {disk}
    /\ calendar = 0 /\ report = NoReport /\ session = NoSession /\ certified = FALSE
    /\ errors = 0 /\ deaths = 0

-----------------------------------------------------------------------------
(* Files *)

\* A crash-safe write; whether the rename reaches the disk at once depends on
\* the machine.
Write(new) ==
    /\ disk' = new
    /\ survivors' = Survivors(survivors, new, world.dirSync)

Keep == UNCHANGED <<disk, survivors>>

Fail(step) == [report EXCEPT !.failed = @ \/ step]

\* A command ends: what it had in hand is gone.
End ==
    /\ pc' = "idle" /\ queue' = {} /\ reply' = NoReply
    /\ network' = FALSE /\ calendar' = 0 /\ report' = NoReport /\ session' = NoSession

-----------------------------------------------------------------------------
(* The refresh, step by step *)

\* The bound: another command is still to come.  After the last one nothing is
\* modelled but the end of that command and a rebuild.
CanStart == runs < MaxRuns /\ runs + errors + deaths < MaxEvents

\* `run_screener --mode live --refresh`, on a weekday, with or without the network.
StartMorning ==
    /\ pc = "idle" /\ CanStart /\ ~IsWeekend(today)
    /\ network' \in BOOLEAN
    /\ runs' = runs + 1 /\ pc' = "calendar"
    /\ Keep /\ UNCHANGED <<world, today, certified, queue, reply, calendar, report, session, faults>>

\* refresh_calendar: the published master or nothing; the store's own reading is
\* a cross-check that only informs.
RefreshCalendar ==
    /\ pc = "calendar"
    /\ \E got \in CachedJson(disk.holidays, today, network) :
         /\ IF got.on = disk.holidays THEN Keep ELSE Write([disk EXCEPT !.holidays = got.on])
         /\ calendar' = IF got.served THEN got.on ELSE 0
         /\ report' = Fail(~got.served)
    /\ pc' = "universe"
    /\ UNCHANGED <<run, network, queue, reply, session, faults>>

\* refresh_universe: a list of names, or a failed step.
RefreshUniverse ==
    /\ pc = "universe"
    /\ \E served \in BOOLEAN : report' = Fail(~served)
    /\ pc' = "plan"
    /\ Keep /\ UNCHANGED <<run, network, queue, reply, calendar, session, faults>>

\* last_completed_trading_day.
Ceiling == PrevTradingDay(PublishedTrading(world, calendar), today)

\* refresh_daily_store, its plan: the dates up to the last completed trading day
\* that are not settled; without a calendar the step does not run, without a
\* readable ledger it fails, without the network it asks nothing.
PlanTopUp ==
    /\ pc = "plan"
    /\ IF calendar = 0 \/ ~disk.legible
       THEN /\ report' = Fail(TRUE) /\ queue' = {} /\ pc' = "actions"
       ELSE /\ queue' = IF network
                        THEN ResolveDates(disk, Ceiling - Lookback, Ceiling, TRUE)
                        ELSE {}
            /\ report' = report
            /\ pc' = IF queue' = {} THEN "actions" ELSE "ask"
    /\ Keep /\ UNCHANGED <<run, network, reply, calendar, session, faults>>

\* The loop's next date: download it and write the rows it came with.
AskDate ==
    /\ pc = "ask"
    /\ LET d == Min(queue)
       IN  \E outcome \in DownloadOutcomes(world, d, today) :
             /\ outcome = "error" => errors < MaxErrors
             /\ errors' = IF outcome = "error" THEN errors + 1 ELSE errors
             /\ reply' = [day |-> d, outcome |-> outcome]
             /\ IF outcome = "present" THEN Write(FirstWrite(disk, d, outcome)) ELSE Keep
    /\ pc' = "record"
    /\ UNCHANGED <<run, queue, hand, deaths>>

\* ...and record its outcome.  A top-up goes on with the morning; a backfill is
\* a command of its own.
RecordDate ==
    /\ pc = "record"
    /\ Write(SecondWrite(disk, reply.day, reply.outcome))
    /\ IF queue = {reply.day} /\ calendar = 0
       THEN End
       ELSE /\ queue' = queue \ {reply.day} /\ reply' = NoReply
            /\ pc' = IF queue' = {} THEN "actions" ELSE "ask"
            /\ UNCHANGED hand
    /\ UNCHANGED <<run, faults>>

\* Ctrl-C inside the top-up: the job returns 130, the step fails and the morning
\* goes on.
Interrupt ==
    /\ pc = "ask" /\ calendar # 0
    /\ queue' = {} /\ report' = Fail(TRUE) /\ pc' = "actions"
    /\ Keep /\ UNCHANGED <<run, network, reply, calendar, session, faults>>

\* refresh_corporate_actions: the cache lies inside the stores, so with the
\* network it is fenced and a missing window only blinds the report; offline a
\* missing window fails the step.
RefreshCorporateActions ==
    /\ pc = "actions"
    /\ report' = Fail(~network /\ ~world.actionsCached)
    /\ pc' = "master"
    /\ Keep /\ UNCHANGED <<run, network, queue, reply, calendar, session, faults>>

\* refresh_instrument_master; without a calendar the verification cannot run and
\* the command ends NOT READY.
RefreshMaster ==
    /\ pc = "master"
    /\ \E got \in DayMaster(disk.masters, today, network) :
         /\ IF got.held = disk.masters THEN Keep ELSE Write([disk EXCEPT !.masters = got.held])
         /\ IF calendar = 0
            THEN End
            ELSE /\ report' = Fail(~got.served) /\ pc' = "queue"
                 /\ UNCHANGED <<network, queue, reply, calendar, session>>
    /\ UNCHANGED <<run, faults>>

-----------------------------------------------------------------------------
(* verify_prior_recordings *)

\* The queue of recordings nobody has judged, and the directories nobody can
\* read: each is named, and one that may be the previous trading day's fails
\* the step.
QueueRecordings ==
    /\ pc = "queue"
    /\ queue' = PendingRecordings(disk.recs, today)
    /\ report' = [report EXCEPT
         !.named = UnreadableRecordings(disk.recs),
         !.failed = @ \/ \E d \in UnreadableRecordings(disk.recs) :
                           MayBePrior(disk.recs[d], d, Ceiling)]
    /\ pc' = IF queue' = {} THEN "build" ELSE "judge"
    /\ Keep /\ UNCHANGED <<run, network, reply, calendar, session, faults>>

\* The oldest recording of the queue: its verdict is written into it, or it is
\* named and left.
JudgeRecording ==
    /\ pc = "judge"
    /\ LET d == Min(queue)
       IN  /\ IF CanBeJudged(disk, d)
              THEN /\ Write([disk EXCEPT !.recs[d].verdict = Verdict(world, disk, d)])
                   /\ report' = report
              ELSE /\ Keep
                   /\ report' = [report EXCEPT !.named = @ \cup {d},
                                               !.failed = @ \/ d = Ceiling]
           /\ queue' = queue \ {d}
    /\ pc' = IF queue' = {} THEN "build" ELSE "judge"
    /\ UNCHANGED <<run, network, reply, calendar, session, faults>>

-----------------------------------------------------------------------------
(* The session *)

\* NOT READY ends the command.
NotReady ==
    /\ pc = "build" /\ report.failed
    /\ End /\ Keep /\ UNCHANGED <<run, faults>>

\* _require_day_master: the day's own file, and no other day's.
DayMasterHeld == today \in disk.masters

\* READY, and "the screener cannot start": a live morning has no bar source
\* without the network or when the broker refuses the login, and no morning starts
\* without the day's master or a live calendar.
CannotStart ==
    /\ pc = "build" /\ ~report.failed
    /\ \E login \in BOOLEAN :
         ~(network /\ login) \/ ~DayMasterHeld \/ LiveCalendarRefuses(disk, today)
    /\ End /\ Keep /\ UNCHANGED <<run, faults>>

\* A symbol has a bias when the store holds its row for both days of the pair.
Biased(pair) ==
    {s \in Symbols : \A i \in 1 .. 2 : /\ pair[i] # 0
                                       /\ HasRow(world, disk, s, pair[i])}

\* READY: the live calendar, the bias pair and the recording's directory, for a
\* live morning with its bar source or for a --preflight-only command, which
\* needs none.
BuildScreener ==
    /\ pc = "build" /\ ~report.failed
    /\ DayMasterHeld /\ ~LiveCalendarRefuses(disk, today)
    /\ LET trading == LiveTrading(world, disk, calendar, today)
           pair == BiasPair(trading, today)
       IN  session' = [day |-> today, pair |-> pair, fetchedOn |-> calendar,
                       biased |-> IF today \in trading THEN Biased(pair) ELSE {}]
    /\ IF disk.recs[today].dir
       THEN Keep
       ELSE Write([disk EXCEPT !.recs[today].dir = TRUE])
    /\ pc' = "manifest"
    /\ UNCHANGED <<run, network, queue, reply, calendar, report, faults>>

\* open_session writes the manifest; one that is there and unreadable raises.
OpenManifest ==
    IF disk.recs[today].manifest = "none"
    THEN Write([disk EXCEPT !.recs[today] = WithManifest(@, today)])
    ELSE Keep

\* A preflight ends here, and so does a morning that cannot read its manifest or
\* has drifted from it; only one with the network goes on to the bell.
OpenSession ==
    /\ pc = "manifest"
    /\ OpenManifest
    /\ \/ /\ network /\ disk.recs[today].manifest # "damaged"
          /\ pc' = "market" /\ UNCHANGED <<queue, reply, hand>>
       \/ End
    /\ UNCHANGED <<run, faults>>

\* The market's day through the screener: the recording gains what the day gives
\* of each symbol.
TradeDay ==
    /\ pc = "market"
    /\ \E more \in [Symbols -> 1 .. Len(Contents)] :
         /\ \A s \in Symbols : \E i \in 1 .. more[s] : disk.recs[today].contents[s] = Contents[i]
         /\ Write([disk EXCEPT !.recs[today].contents = [s \in Symbols |-> Contents[more[s]]]])
    /\ End
    /\ UNCHANGED <<run, faults>>

-----------------------------------------------------------------------------
(* The operator's other commands *)

\* `acumen-backfill --from --to --allow-network [--no-retry-errors]`.
Backfill ==
    /\ pc = "idle" /\ CanStart /\ disk.legible
    /\ \E retryErrors \in BOOLEAN, to \in {today - 1, today} :
         queue' = ResolveDates(disk, 1, to, retryErrors)
    /\ queue' # {}
    /\ runs' = runs + 1 /\ network' = TRUE /\ pc' = "ask"
    /\ Keep /\ UNCHANGED <<world, today, certified, reply, calendar, report, session, faults>>

\* `acumen-backfill --rebuild-ledger`, after a damaged ledger.
RebuildLedger ==
    /\ pc = "idle" /\ ~disk.legible
    /\ Write(RebuiltLedger(disk))
    /\ UNCHANGED <<run, pc, queue, reply, hand, faults>>

\* `acumen-dry-run-readiness [--send-test-message]`: it writes nothing.
DryRunReadiness ==
    /\ pc = "idle" /\ CanStart
    /\ \E machine \in Machines, send \in BOOLEAN :
         certified' = Ready(Assess(machine, disk, today, send))
    /\ Keep /\ UNCHANGED <<world, today, runs, pc, queue, reply, hand, faults>>

NextDay ==
    /\ pc = "idle" /\ CanStart /\ today < Horizon
    /\ today' = today + 1 /\ certified' = FALSE
    /\ survivors' = {disk}
    /\ UNCHANGED <<world, runs, pc, queue, reply, disk, hand, faults>>

-----------------------------------------------------------------------------
(* Faults *)

\* The command dies.
Die ==
    /\ pc # "idle" /\ deaths < MaxDeaths
    /\ deaths' = deaths + 1
    /\ End /\ Keep /\ UNCHANGED <<run, errors>>

\* The machine loses power, in a command or not.
LosePower ==
    /\ deaths < MaxDeaths
    /\ deaths' = deaths + 1
    /\ disk' \in survivors /\ survivors' = {disk'} /\ certified' = FALSE
    /\ End /\ UNCHANGED <<world, today, runs, errors>>

\* A file is damaged or taken away from outside: the ledger, the holiday cache,
\* a recording's manifest, an instrument master.
Damage ==
    /\ pc = "idle" /\ CanStart /\ deaths < MaxDeaths
    /\ deaths' = deaths + 1
    /\ \/ disk' = [disk EXCEPT !.legible = FALSE]
       \/ disk.holidays # NoCache /\ disk' = [disk EXCEPT !.holidays = Unreadable]
       \/ \E d \in Days : /\ disk.recs[d].manifest = "ok"
                          /\ disk' = [disk EXCEPT !.recs[d].manifest = "damaged"]
       \/ \E d \in disk.masters : disk' = [disk EXCEPT !.masters = @ \ {d}]
    /\ survivors' = {disk'} /\ certified' = FALSE
    /\ UNCHANGED <<world, today, runs, pc, queue, reply, hand, errors>>

Next ==
    \/ StartMorning \/ RefreshCalendar \/ RefreshUniverse
    \/ PlanTopUp \/ AskDate \/ RecordDate \/ Interrupt
    \/ RefreshCorporateActions \/ RefreshMaster
    \/ QueueRecordings \/ JudgeRecording
    \/ NotReady \/ CannotStart \/ BuildScreener \/ OpenSession \/ TradeDay
    \/ Backfill \/ RebuildLedger \/ DryRunReadiness \/ NextDay
    \/ Die \/ LosePower \/ Damage

Spec == Init /\ [][Next]_vars

-----------------------------------------------------------------------------
(* Safety *)

\* The ledger is a true calendar of what NSE published: whatever a loss of power
\* brings back, a date it calls present has its rows in the month file
\* (daily_store.ingest over atomic_io); a date sealed as a non-trading day is one
\* nothing was published for, neither a late file nor any run of failed attempts
\* seals a session (bhavcopy.seals_as_non_trading_day, nse_http._fetch); and
\* between commands everything the audit reports, thin weekday files apart, is a
\* date the next top-up asks again (daily_store.verify).
LedgerIsSound ==
    /\ \A old \in survivors :
         old.legible => \A d \in Days : old.ledger[d] = "present" => old.rows[d] = "whole"
    /\ \A d \in Days : disk.ledger[d] = "404" => ~HasFile(world, d)
    /\ pc = "idle" /\ disk.legible =>
         Anomalies(world, disk, 1, Horizon)
            \ {d \in world.thin : ~IsWeekend(d)} \subseteq PendingDates(disk, 1, Horizon)

\* What the ledger has settled stays settled: only a rebuild after damage or a
\* loss of power takes an outcome back (daily_store.pending_dates).
NeverUnlearned ==
    [][\A d \in Days : disk.ledger[d] \in Terminal /\ disk'.ledger[d] # disk.ledger[d]
          => ~disk.legible \/ deaths' # deaths]_vars

\* A symbol is traded live on a bias of the market's last two weekday sessions,
\* however stale the calendar in hand and however the store came by its history
\* (calendar.live_trading_calendar, bias_pair).
PairIsReal ==
    session.day # 0 /\ session.biased # {} =>
        LET sessions == {d \in Days : world.kind[d] = "trading" /\ d < session.day}
        IN  /\ session.pair[1] = Max(sessions)
            /\ session.pair[2] = Max(sessions \ {session.pair[1]})

\* The symbols of a recording that hold something to judge.
Judgeable(d) == {s \in Symbols : disk.recs[d].contents[s] # "nothing"}

\* A verdict of the oracle on a recorded symbol-day rests on a row the exchange
\* published for it (live_refresh.oracle_spoke).
VerdictHasRow(d) ==
    \A s \in Symbols :
        disk.recs[d].verdict[s] = "judged" => HasFile(world, d) /\ <<s, d>> \notin world.unlisted

\* The previous trading day's recording, if there is one, can be read and has a
\* verdict on every symbol it holds (live_refresh.verify_prior_recordings).
PriorIsJudged(prior) ==
    prior # 0 /\ disk.recs[prior].dir /\ disk.recs[prior].mode = "live" =>
        /\ disk.recs[prior].manifest = "ok"
        /\ \A s \in Judgeable(prior) : disk.recs[prior].verdict[s] # "unread"

\* An earlier morning that has no verdict is named in the morning's report
\* (live_refresh.unverified_recordings).
UnjudgedIsNamed(d) ==
    /\ d < today /\ disk.recs[d].dir /\ disk.recs[d].mode = "live"
    /\ disk.recs[d].verdict = NoVerdict
    => d \in report.named

\* No recording goes unjudged unnoticed: verdicts rest on published rows, and the
\* bell is rung only over a previous trading day that is judged and with every
\* earlier morning either judged or named.
RecordingsAreJudged ==
    /\ \A d \in Days : VerdictHasRow(d)
    /\ pc = "market" =>
         /\ PriorIsJudged(PrevTradingDay(PublishedTrading(world, calendar), today))
         /\ \A d \in RecordingDays : UnjudgedIsNamed(d)

\* READY keeps its word to a command of that day without the network: as long as
\* nothing happens to the files its calendar and master steps do not fail,
\* whatever other commands ran in between, and the session it asks for is not
\* refused for want of the day's master (dry_run_readiness.assess against
\* live_refresh.refresh_calendar and refresh_instrument_master and
\* live_screener._require_day_master).  It promises no more: READY asks neither
\* for the actions' window nor for a ledger without gaps, and without the network
\* the session can only be a preflight.
ReadyIsServed ==
    [][certified /\ ~network =>
          /\ pc = "calendar" /\ pc' = "universe" => calendar' # 0
          /\ pc = "master" /\ pc' = "queue" => report'.failed = report.failed
          /\ pc = "build" => DayMasterHeld]_vars

\* A run that may go ahead walks the market's own calendar: over its span and
\* lead the calendar derived from the ledger is the weekday sessions the market
\* held, however the ledger came to be (run_backtest.preflight over
\* calendar.from_daily_store_range).
GoIsTheMarket ==
    pc = "idle" =>
        \A machine \in Machines : Go(machine, disk) =>
            DerivedTrading(disk, SpanRange(machine, disk))
                = {d \in SpanRange(machine, disk) : world.kind[d] = "trading"}

-----------------------------------------------------------------------------
(* What the source says of itself *)

\* live_refresh.py:966: a recording that cannot be judged "is always named, always
\* loud and always left UNVERIFIED, so it stays on this queue".
UnjudgedStaysQueued ==
    pc = "build" =>
        \A d \in Days :
            /\ d < today /\ disk.recs[d].manifest = "ok" /\ disk.recs[d].mode = "live"
            /\ Judgeable(d) # {}
            /\ \A s \in Judgeable(d) : disk.recs[d].verdict[s] # "judged"
            => d \in PendingRecordings(disk.recs, today)

\* bhavcopy.py:223: a date too young to seal "simply seals a week later, at no
\* cost": a morning whose store has asked every date up to its ceiling, without
\* one failure, can start.
PendingCostsNothing ==
    pc = "build" /\ ~report.failed
    /\ (\A d \in 1 .. Ceiling : disk.ledger[d] \in {"present", "404", "pending"})
        => ~LiveCalendarRefuses(disk, today)
=============================================================================
