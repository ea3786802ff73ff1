-------------------------- MODULE UniverseBackfill --------------------------
(***************************************************************************)
(* universe_backfill.py and price_recovery.py: one symbol of the universe  *)
(* taken through the backfill, run after run, with the process dying at    *)
(* any write and the vendor failing at any call; the other symbols appear  *)
(* as the number of them already quarantined.                              *)
(*                                                                         *)
(* On disk: the month files (bars), the window ledger, the adjustment map, *)
(* and this symbol's row of the run ledger.  A step is one such write, so  *)
(* a death between two steps is a death between two writes.                *)
(***************************************************************************)
EXTENDS MinuteStore, SmartApi

CONSTANTS
    Symbols,            \* the symbols the runs may be about (records, MinuteStore)
    RunDates,           \* <<end, today>> of a run: its last day, the day it is made
    QuarantinePercent, HuntPercent, MinFailurePercent,
    HuntRounds,         \* rounds of one floor hunt
    QuarantineCeiling,  \* quarantined symbols a run tolerates
    Versions,           \* rulings that may move: subset of the four stamped ones
    MaxRuns, MaxDeaths

ASSUME UniverseAssumption ==
    /\ QuarantinePercent \in 0 .. 100 /\ HuntPercent \in QuarantinePercent .. 100
    /\ HuntRounds \in Nat \ {0} /\ QuarantineCeiling \in Nat
    /\ RunDates # {} /\ \A r \in RunDates : r[1] \in Nat \ {0} /\ r[2] \in Nat /\ r[1] <= r[2]
    /\ \A s \in Symbols :
         /\ s.rows \subseteq Nat \ {0}
         /\ s.candles \subseteq Nat \ {0} /\ IsFiniteSet(s.candles)
         /\ IsFiniteSet(DOMAIN s.factors)
         /\ \A f \in Range(s.factors) : f.ex \in Nat /\ f.p \in Int
         /\ s.unknown \subseteq Nat /\ IsFiniteSet(s.unknown)
         /\ IsFiniteSet(DOMAIN s.vendor)
         /\ \A v \in Range(s.vendor) : v.p \in Int /\ v.v \in Int
    /\ None \notin [start : Nat, end : Nat]

VARIABLES
    sym,       \* which symbol this is
    ruling,    \* versions of the rulings the code now carries
    bars, ledger, amap, rec,     \* the disk
    peers,     \* other in-scope symbols quarantined in the run ledger
    halted,    \* the last run stopped at the quarantine ceiling
    now,       \* <<end, today>> of the run under way or of the last one
    pc,        \* what the process does next; "idle" between runs
    job,       \* its memory: working record, map, what is left to do
    count      \* runs, deaths, vendor errors so far; what the last run met and did

disk == <<bars, ledger, amap, rec>>
vars == <<sym, ruling, bars, ledger, amap, rec, peers, halted, now, pc, job, count>>

End == now[1]
Today == now[2]
Clamp == Min(sym.rows)

(***************************************************************************)
(* The ledger row of a symbol.                                             *)
(***************************************************************************)
NewRecord ==
    [status |-> "pending", route |-> "", byRecovery |-> FALSE, rerouted |-> FALSE,
     hunted |-> FALSE, floorEvents |-> {}, tally |-> None, errors |-> 0,
     gates |-> 0, rebuilt |-> 0, floors |-> 0, end |-> 0]

(* carry_prior_from: what a row keeps from the one before.                 *)
Carried(r) ==
    IF rec = None THEN r
    ELSE [r EXCEPT !.rerouted = rec.rerouted, !.byRecovery = rec.byRecovery,
                   !.hunted = rec.hunted, !.floorEvents = rec.floorEvents,
                   !.floors = rec.floors,
                   !.route = IF rec.byRecovery THEN "map-required" ELSE @]

BelowRate(t, pct) == 100 * t.g1 < pct * t.g1tot

ApplyTallyUnstamped(r, t) ==
    [r EXCEPT !.tally = t, !.gates = ruling.gates,
              !.status = IF t.g1tot > 0 /\ BelowRate(t, QuarantinePercent)
                         THEN "quarantined" ELSE "settled"]

(* apply_tally, and _settle on it.                                         *)
ApplyTally(r, t) ==
    [r EXCEPT !.tally = t, !.gates = ruling.gates, !.rebuilt = ruling.rebuild,
              !.status = IF t.g1tot > 0 /\ BelowRate(t, QuarantinePercent)
                         THEN "quarantined" ELSE "settled"]

Settled(r) == ApplyTally(r, Tally(sym, Today, bars))

ClaimFloors(r, m) == [r EXCEPT !.floorEvents = {f.ex : f \in {g \in m.floors : InForce(g)}}]

RerouteOwed(r) ==
    /\ r.route = "table-path" /\ ~r.rerouted
    /\ r.tally # None /\ r.tally.g1tot > 0
    /\ (r.status = "quarantined" \/ BelowRate(r.tally, HuntPercent))

HuntInScope(r) ==
    /\ r.tally # None
    /\ \/ r.tally.days > 0 /\ (r.status = "quarantined" \/ r.tally.g3 # {})
       \/ 100 * r.tally.g1p < HuntPercent * r.tally.days
       \/ r.tally.g1tot > 0 /\ BelowRate(r.tally, HuntPercent)

HuntOwed(r) == HuntInScope(r) /\ (~r.hunted \/ r.floors # ruling.floors)

Unlisted == {"no-instrument-token", "no-daily-equity-history"}
Terminal == {"settled", "quarantined"} \cup Unlisted

MapCurrent(m) == m.model = ruling.map

NeedsReprocessing(r, end) ==
    /\ r.status \notin Unlisted
    /\ \/ r.gates # ruling.gates
       \/ r.rebuilt # ruling.rebuild
       \/ /\ r.route = "map-required"
          /\ \/ amap = None
             \/ amap # None /\ (~MapCurrent(amap) \/ amap.fetch # end
                                \/ (r.floorEvents # {} /\ amap.floors = {}))
       \/ RerouteOwed(r)
       \/ HuntOwed(r)

(***************************************************************************)
(* The run.                                                                *)
(***************************************************************************)
NoJob == [work |-> NewRecord, map |-> None, left |-> {}, table |-> FALSE, then |-> "idle",
          window |-> None, hunt |-> None]

Init ==
    /\ sym \in Symbols
    /\ ruling = [gates |-> 1, rebuild |-> 1, floors |-> 1, map |-> 1]
    /\ bars = <<>> /\ ledger = <<>> /\ amap = None /\ rec = None
    /\ peers \in 0 .. QuarantineCeiling + 1 /\ halted = FALSE
    /\ now = CHOOSE r \in RunDates : \A q \in RunDates : r[1] <= q[1]
    /\ pc = "idle" /\ job = NoJob
    /\ count = [runs |-> 0, deaths |-> 0, cut |-> {}, torn |-> FALSE,
                erred |-> FALSE, done |-> "no"]

Quarantined(r) == peers + (IF r # None THEN IF r.status = "quarantined" THEN 1 ELSE 0 ELSE 0)

(* run_universe up to the first symbol: halts before anything is fetched,  *)
(* skips a terminal symbol that is current, plans one that is not.         *)
StartRun ==
    /\ pc = "idle" /\ count.runs < MaxRuns
    /\ \E r \in RunDates :
        /\ r[1] >= now[1] /\ r[2] >= now[2]
        /\ now' = r
        /\ count' = [count EXCEPT !.runs = @ + 1, !.erred = FALSE, !.done = "no"]
        /\ halted' = (Quarantined(rec) > QuarantineCeiling)
        /\ job' = NoJob
        /\ pc' = IF halted' THEN "idle"
                 ELSE IF rec # None /\ rec.status \in Terminal /\ ~NeedsReprocessing(rec, r[1])
                      THEN "peers"
                 ELSE "plan"
    /\ UNCHANGED <<sym, ruling, disk, peers>>

Working(r) == [job EXCEPT !.work = r]

Plan ==
    /\ pc = "plan"
    /\ IF ~sym.listed \/ sym.rows = {}
       THEN /\ job' = Working(Carried([NewRecord EXCEPT !.status =
                    IF ~sym.listed THEN "no-instrument-token" ELSE "no-daily-equity-history"]))
            /\ pc' = "record"
       ELSE LET w == Carried([NewRecord EXCEPT !.route = ClassifyRoute(sym, Clamp, End)])
                loaded == IF amap # None THEN IF MapCurrent(amap) THEN amap ELSE None ELSE None
            IN IF w.route # "map-required"
               THEN /\ job' = Working(w)
                    /\ pc' = "fetch"
               ELSE /\ job' = [Working(w) EXCEPT !.map = loaded]
                    /\ pc' = IF loaded # None THEN IF loaded.fetch = End THEN "mapped" ELSE "map"
                             ELSE "map"
    /\ UNCHANGED <<sym, ruling, disk, peers, halted, now, count>>

VendorFails ==
    count' = [count EXCEPT !.erred = TRUE]

(* build_map_for: probe every era, arbitrate, carry floors, persist.       *)
UsedFloors(given) ==
    IF given # {} \/ amap = None THEN given
    ELSE {f \in amap.floors : f.resolved \/ f.vresolved}

Probes == Measured(sym, Clamp, End, Today)

BuiltMap(given) ==
    IF Probes = {} THEN None
    ELSE CarryFloors(amap, BuildMap(End, ruling.map, EventsOf(sym, Today), Probes,
                                    UsedFloors(given)))

(* A floor that could not be carried re-opens the hunt.                    *)
Reopened(r, m) ==
    IF amap = None THEN r
    ELSE IF \A f \in amap.floors : HasFloor(m.floors, f.ex) THEN r
    ELSE [r EXCEPT !.hunted = FALSE]

BuildMapForIngest ==
    /\ pc = "map"
    /\ \/ \E m \in {BuiltMap({})} :
             /\ IF m = None
                THEN /\ job' = Working([job.work EXCEPT !.status = "map-required-but-unbuildable"])
                     /\ pc' = "record" /\ UNCHANGED amap
                ELSE /\ job' = [Working(Reopened(job.work, m)) EXCEPT !.map = m]
                     /\ pc' = "mapped" /\ amap' = m
             /\ UNCHANGED count
       \/ /\ VendorFails
          /\ job' = Working([job.work EXCEPT !.status = "map-required-but-unbuildable"])
          /\ pc' = "record"
          /\ UNCHANGED amap
    /\ UNCHANGED <<sym, ruling, bars, ledger, rec, peers, halted, now>>

Rebuild(w, m, table, then) ==
    [job EXCEPT !.work = w, !.map = m, !.table = table, !.left = DOMAIN bars, !.then = then]

(* A row that claims floors its map does not hold re-opens the hunt; the   *)
(* map is then applied to what is already stored, before fetching more.    *)
UseMap ==
    /\ pc = "mapped"
    /\ job' = Rebuild(IF job.work.hunted /\ job.work.floorEvents # {} /\ job.map.floors = {}
                      THEN [job.work EXCEPT !.hunted = FALSE] ELSE job.work,
                      job.map, FALSE, "fetch")
    /\ pc' = "rebuild"
    /\ UNCHANGED <<sym, ruling, disk, peers, halted, now, count>>

(* rebuild_symbol_raw_with_map, one stored day per write, oldest first.    *)
TableOf(d) ==
    IF job.table /\ FetchDateForDay(ledger, d) # None
    THEN TableFactors(sym, Today, d, FetchDateForDay(ledger, d)) ELSE None

Corrected(d) == RebuiltDay(sym, job.map, TableOf(d), d, bars[d])

RebuildDay ==
    /\ pc = "rebuild"
    /\ \E moved \in {{d \in job.left : Corrected(d) # bars[d]}} :
          IF moved = {}
          THEN /\ job' = [job EXCEPT !.left = {}]
               /\ pc' = job.then
               /\ UNCHANGED bars
          ELSE /\ bars' = [bars EXCEPT ![Min(moved)] = Corrected(Min(moved))]
               /\ job' = [job EXCEPT !.left = {d \in @ : d > Min(moved)}]
               /\ UNCHANGED pc
    /\ UNCHANGED <<sym, ruling, ledger, amap, rec, peers, halted, now, count>>

(* backfill_symbol: the oldest window still owed.  Its candles are written *)
(* month file by month file and only then is the window recorded.          *)
Owed == Pending(ledger, PlanWindows(Clamp, End)) \ job.left

Raw(d) ==
    LET k == IF job.map = None THEN TableFactors(sym, Today, d, Today)
             ELSE FactorsForDay(job.map, d)
    IN IF k = None THEN Fetched(sym, d, Today) ELSE Unadjust(Fetched(sym, d, Today), k)

Resolve(w, outcome) ==
    ledger' = Override(ledger, [x \in {w.start} |->
                  [end |-> w.end, outcome |-> outcome, fetch |-> Today]])

WindowDaysOf(w) == (w.start .. w.end) \cap sym.candles

FetchWindow ==
    /\ pc = "fetch"
    /\ IF Owed = {} THEN pc' = "gate" /\ UNCHANGED <<ledger, bars, job, count>>
       ELSE LET w == CHOOSE x \in Owed : \A y \in Owed : x.start <= y.start
                next == [job EXCEPT !.left = @ \cup {w}]
            IN \E got \in IF WindowDaysOf(w) = {} THEN UnlistedCandles ELSE ListedCandles :
                \/ /\ got = "error" /\ VendorFails
                   /\ Resolve(w, "error") /\ job' = next
                   /\ UNCHANGED <<pc, bars>>
                \/ /\ got = "empty"
                   /\ Resolve(w, "empty") /\ job' = next
                   /\ UNCHANGED <<pc, bars, count>>
                \/ /\ got = "present"
                   /\ pc' = "write"
                   /\ job' = [job EXCEPT !.window = w]
                   /\ UNCHANGED <<ledger, bars, count>>
    /\ UNCHANGED <<sym, ruling, amap, rec, peers, halted, now>>

(* write_bars replaces the days it is given, one month file at a time.     *)
Unwritten ==
    {d \in WindowDaysOf(job.window) : d \notin DOMAIN bars \/ bars[d] # Raw(d)}

RecordThenWrite ==
    /\ pc = "write"
    /\ IF Unwritten = {}
       THEN /\ job' = [job EXCEPT !.left = @ \cup {job.window}, !.window = None]
            /\ pc' = "fetch"
            /\ UNCHANGED <<bars, ledger>>
       ELSE LET month == {d \in WindowDaysOf(job.window) : MonthOf(d) = MonthOf(Min(Unwritten))}
            IN /\ bars' = Override(bars, [d \in month |-> Raw(d)])
               /\ Resolve(job.window, "present")
               /\ UNCHANGED <<job, pc>>
    /\ UNCHANGED <<sym, ruling, amap, rec, peers, halted, now, count>>

WriteMonth ==
    /\ pc = "write"
    /\ IF Unwritten = {}
       THEN /\ Resolve(job.window, "present")
            /\ job' = [job EXCEPT !.left = @ \cup {job.window}, !.window = None]
            /\ pc' = "fetch"
            /\ UNCHANGED bars
       ELSE LET month == {d \in WindowDaysOf(job.window) : MonthOf(d) = MonthOf(Min(Unwritten))}
            IN /\ bars' = Override(bars, [d \in month |-> Raw(d)])
               /\ UNCHANGED <<ledger, job, pc>>
    /\ UNCHANGED <<sym, ruling, amap, rec, peers, halted, now, count>>

(* The gates, the verdict, and whether a recovery pass is owed.            *)
AfterSettling(w) ==
    IF RerouteOwed(w) THEN "reroute" ELSE IF HuntOwed(w) THEN "hunt" ELSE "record"

Errors == Cardinality({w \in DOMAIN ledger : ledger[w].outcome = "error"})

GateSymbol ==
    /\ pc = "gate"
    /\ \E w \in {[Settled(job.work) EXCEPT !.errors = Errors]} :
          /\ job' = [Working(w) EXCEPT !.left = {}]
          /\ pc' = AfterSettling(w)
    /\ UNCHANGED <<sym, ruling, disk, peers, halted, now, count>>

(* reroute_quarantined_to_map: one attempt, whatever comes of it.          *)
Reroute ==
    /\ pc = "reroute"
    /\ LET tried == [job.work EXCEPT !.rerouted = TRUE]
           routed(m) ==
               [Reopened(tried, m) EXCEPT !.route = "map-required", !.byRecovery = TRUE]
           passOver == pc' = (IF HuntOwed(tried) THEN "hunt" ELSE "record")
       IN \/ /\ VendorFails
             /\ job' = Working(tried) /\ passOver
             /\ UNCHANGED amap
          \/ \E m \in {BuiltMap({})} :
                /\ IF m = None
                   THEN job' = Working(tried) /\ passOver /\ UNCHANGED amap
                   ELSE /\ job' = Rebuild(routed(m), m, TRUE, "regate")
                        /\ pc' = "rebuild" /\ amap' = m
                /\ UNCHANGED count
    /\ UNCHANGED <<sym, ruling, bars, ledger, rec, peers, halted, now>>

GateNoMore ==
    /\ pc = "regate"
    /\ pc' = IF HuntOwed(job.work) THEN "hunt" ELSE "record"
    /\ UNCHANGED <<sym, ruling, disk, peers, halted, now, job, count>>

GateAgain ==
    /\ pc = "regate"
    /\ \E w \in {Settled(job.work)} :
          /\ job' = Working(w)
          /\ pc' = IF HuntOwed(w) THEN "hunt" ELSE "record"
    /\ UNCHANGED <<sym, ruling, disk, peers, halted, now, count>>

(***************************************************************************)
(* run_floor_pass.                                                         *)
(***************************************************************************)
Failing(days) == {d \in days : ~Gate1(sym, bars, d)}

Carries(m, hypotheses, ex, d) ==
    LET era == EraFor(m, d)
        choices == IF era.provable THEN era.choices ELSE hypotheses[era.key]
    IN /\ d < ex
       /\ era # None
       /\ (era.provable \/ era.key \in DOMAIN hypotheses)
       /\ ex \in DOMAIN choices
       /\ choices[ex].p # 0

CandidateDays(m, hypotheses, ex) ==
    Sorted({d \in DOMAIN bars \cap sym.rows : Carries(m, hypotheses, ex, d)})

Hypotheses(m, ex) ==
    LET open == {r.key : r \in {q \in m.eras : ~q.provable}}
        chain(key) == EraHypothesis(m, key, EventsOf(sym, Today), ex)
    IN [key \in {k \in open : chain(k) # None} |-> chain(key)]

(* One event of one round: searched when it is forced, or when enough of   *)
(* its days fail; only a signature lets unproved eras take part.           *)
SearchAmong(m, ex, hyp, days, signed, forced) ==
    LET verdicts == [i \in DOMAIN days |->
            LiveVerdict(m, hyp, ex, days[i], ProbeOneDay(sym, days[i], Today))]
        era == EraFor(m, days[Len(days)])
        choices == IF era.provable THEN era.choices ELSE hyp[era.key]
        floor(found) == NewFloor(ex, found.day, found.resolved, choices[ex].p)
    IN IF days = <<>> THEN None
       ELSE IF ~forced /\ ~Percent(Cardinality(Failing(Range(days))), Len(days), MinFailurePercent)
            THEN None
       ELSE floor(SearchFloor(days, verdicts, IF signed THEN ex ELSE None))

SearchUnder(m, ex, hyp, signed, forced) ==
    SearchAmong(m, ex, hyp, CandidateDays(m, hyp, ex), signed, forced)

SearchEvent(m, ex, signed, forced) ==
    SearchUnder(m, ex, IF signed THEN Hypotheses(m, ex) ELSE <<>>, signed, forced)

WithFloor(floors, f) == {g \in floors : g.ex # f.ex} \cup {f}

(* Newest event first; a floor just measured is in force for the next one, *)
(* and takes the place of every floor the map came with.                   *)
HuntRound(m, signed, forced, skip) ==
    LET due == {ex \in m.exs : ex <= m.fetch /\ ex \notin skip}
        put(acc, f) ==
            IF f = None THEN acc
            ELSE [found |-> acc.found \cup {f},
                  map |-> [acc.map EXCEPT !.floors = acc.found \cup {f}]]
        step(acc, ex) ==
            put(acc, SearchEvent(acc.map, ex, ex \in signed \cup forced, ex \in forced))
        hunted[some \in SUBSET due] ==
            IF some = {} THEN [found |-> {}, map |-> m]
            ELSE step(hunted[some \ {Min(some)}], Min(some))
    IN hunted[due].found

ResolvedIn(floors) == {f \in floors : f.resolved}
Splices(floors) == {f \in floors : f.resolved /\ f.day # None}

StartHunt ==
    /\ pc = "hunt"
    /\ IF amap = None
       THEN /\ job' = Working([job.work EXCEPT !.hunted = TRUE, !.floors = ruling.floors])
            /\ pc' = "record"
       ELSE /\ job' = [job EXCEPT !.map = amap, !.hunt =
                  [round |-> 1, start |-> amap, floors |-> {}, rebuilt |-> None, with |-> {},
                   forced |-> job.work.floorEvents, signed |-> Signatures(sym, Today, bars)]]
            /\ pc' = "round"
    /\ UNCHANGED <<sym, ruling, disk, peers, halted, now, count>>

(* A vendor error in the hunt is transient: the row stays owed.            *)
HuntStops ==
    /\ VendorFails
    /\ pc' = "record"
    /\ UNCHANGED <<disk, job>>

HuntOneRound ==
    /\ pc = "round"
    /\ LET h == job.hunt
           skip == {f.ex : f \in ResolvedIn(h.floors)}
           all(found) == {f \in h.floors : ~HasFloor(found, f.ex)} \cup found
       IN \/ HuntStops
          \/ \E found \in {HuntRound(job.map, h.signed, h.forced, skip)} :
                /\ job' = [job EXCEPT !.hunt.floors = all(found)]
                /\ pc' = IF Splices(found) = {} \/ h.round = HuntRounds
                         THEN "harvest" ELSE "promote"
                /\ UNCHANGED <<disk, count>>
    /\ UNCHANGED <<sym, ruling, peers, halted, now>>

Proved(m) == Cardinality({r \in m.eras : r.provable})

(* A round that measured a splice rebuilds the map under it; another round *)
(* follows as long as that proves more eras.                               *)
PromoteEras ==
    /\ pc = "promote"
    /\ LET known == ResolvedIn(job.hunt.floors)
       IN \/ HuntStops
          \/ \E built \in {BuiltMap(known)} :
                /\ IF built = None THEN pc' = "harvest" /\ UNCHANGED <<amap, job>>
                   ELSE /\ amap' = built
                        /\ job' = [job EXCEPT !.map = built, !.hunt =
                             [@ EXCEPT !.round = @ + 1, !.rebuilt = built,
                                       !.with = {f.ex : f \in known}]]
                        /\ pc' = IF Proved(built) <= Proved(job.map) THEN "harvest" ELSE "round"
                /\ UNCHANGED <<bars, ledger, rec, count>>
    /\ UNCHANGED <<sym, ruling, peers, halted, now>>

(* What the hunt found goes into the map in force, or nothing changes.     *)
Harvest ==
    /\ pc = "harvest"
    /\ LET h == job.hunt
           done == ClaimFloors([job.work EXCEPT !.hunted = TRUE, !.floors = ruling.floors], h.start)
           ready == IF h.with = {f.ex : f \in ResolvedIn(h.floors)} THEN h.rebuilt ELSE None
           kept == [h.start EXCEPT !.floors = h.floors]
           commit(m) == job' = Rebuild(ClaimFloors(done, m), m, FALSE, "verdict")
       IN IF Splices(h.floors) = {}
          THEN /\ job' = Working(done) /\ pc' = "record"
               /\ UNCHANGED <<amap, count>>
          ELSE /\ pc' = "rebuild"
               /\ \/ /\ ready # None /\ commit(ready)
                     /\ UNCHANGED <<amap, count>>
                  \/ /\ ready = None /\ UNCHANGED count
                     /\ \E m \in {BuiltMap(h.floors)} :
                          LET put == IF m = None THEN kept ELSE m
                          IN amap' = put /\ commit(put)
                  \/ /\ ready = None /\ VendorFails
                     /\ amap' = kept /\ commit(kept)
    /\ UNCHANGED <<sym, ruling, bars, ledger, rec, peers, halted, now>>

JudgeHunt ==
    /\ pc = "verdict"
    /\ job' = Working(Settled(job.work))
    /\ pc' = "record"
    /\ UNCHANGED <<sym, ruling, disk, peers, halted, now, count>>

(***************************************************************************)
(* The row is written when the symbol is done; the rest of the universe    *)
(* follows, and too many quarantines halt the run.                         *)
(***************************************************************************)
RecordSymbol ==
    /\ pc = "record"
    /\ rec' = [job.work EXCEPT !.end = End]
    /\ job' = NoJob
    /\ halted' = (Quarantined(rec') > QuarantineCeiling)
    /\ pc' = IF halted' THEN "idle" ELSE "peers"
    /\ count' = [count EXCEPT !.done = IF halted' THEN "run" ELSE @]
    /\ UNCHANGED <<sym, ruling, bars, ledger, amap, peers, now>>

FinishPeers ==
    /\ pc = "peers"
    /\ peers' \in {peers, Min({peers + 1, QuarantineCeiling + 1})}
    /\ halted' = (peers' # peers /\ peers' + Quarantined(rec) - peers > QuarantineCeiling)
    /\ pc' = "idle"
    /\ count' = [count EXCEPT !.done = "run"]
    /\ UNCHANGED <<sym, ruling, disk, now, job>>

Regating == pc = "resettle" \/ (pc = "rebuild" /\ job.then = "resettle")

(* Ctrl-C, a crash, a power cut: the memory goes, the disk stays.          *)
Die ==
    /\ pc # "idle" /\ count.deaths < MaxDeaths
    /\ count' = [count EXCEPT !.deaths = @ + 1,
                              !.cut = IF pc = "peers" \/ Regating THEN @ ELSE @ \cup {End},
                              !.torn = @ \/ Regating]
    /\ pc' = "idle" /\ job' = NoJob
    /\ UNCHANGED <<sym, ruling, disk, peers, halted, now>>

(* A new release of the program carries a moved ruling.                    *)
RulingMoves ==
    /\ pc = "idle" /\ rec # None
    /\ \E v \in Versions :
         /\ \A u \in DOMAIN ruling : ruling[u] = 1
         /\ ruling' = [ruling EXCEPT ![v] = 2]
    /\ count' = [count EXCEPT !.done = "no"]
    /\ UNCHANGED <<sym, disk, peers, halted, now, pc, job>>

(***************************************************************************)
(* regate_universe with recovery: gates the store as it is, and may commit *)
(* floors measured per side on the stored days themselves.                 *)
(***************************************************************************)
StoredFor(m, f) == IF f \in m.floors THEN m ELSE [m EXCEPT !.floors = WithFloor(@, f)]

SideDays(m, ex, side) ==
    Sorted({d \in DOMAIN bars \cap sym.rows :
        LET era == EraFor(m, d)
        IN /\ d < ex /\ era # None
           /\ era.provable /\ ex \in era.key
           /\ (IF side = "price" THEN era.choices[ex].p ELSE era.choices[ex].v) # 0})

SearchSide(m, ex, side, days) ==
    SearchFloor(days, [i \in DOMAIN days |->
        StoredVerdict(m, ex, days[i], bars[days[i]], side)], ex)

SideSearch(m, ex, side) == SearchSide(m, ex, side, SideDays(m, ex, side))

TwoSided(m, ex, price, volume) ==
    LET splice(x) == x.resolved /\ x.day # None
        was == CanonicalFactors(m)
    IN IF ~splice(price) /\ ~splice(volume) THEN None
       ELSE [ex |-> ex, day |-> price.day, resolved |-> splice(price), p |-> was[ex].p,
             vday |-> volume.day, vresolved |-> splice(volume), vmeasured |-> volume.resolved]

MeasuredFloor(m, ex) ==
    TwoSided(m, ex, SideSearch(m, ex, "price"), SideSearch(m, ex, "volume"))

(* What a day would hold once the chain moved from the one to the other.   *)
Rescaled(d, before, after) ==
    LET kb == FactorsForDay(before, d)
        ka == FactorsForDay(after, d)
        from == IF kb = None THEN [p |-> 0, v |-> 0] ELSE kb
    IN IF ka = None THEN bars[d]
       ELSE [p |-> bars[d].p + from.p - ka.p, v |-> bars[d].v + ka.v - from.v]

Predicted(before, after) ==
    LET moved == [d \in DOMAIN bars \cap sym.rows |-> Rescaled(d, before, after)]
    IN [g1   |-> Cardinality({d \in DOMAIN moved : Gate1(sym, moved, d)}),
        both |-> Cardinality({d \in DOMAIN moved : Gate1(sym, moved, d) /\ Gate1P(sym, moved, d)})]

(* Newest admitted event first: a floor is kept when more days pass both   *)
(* gates under it and no fewer pass gate 1.                                *)
Better(acc, trial, counts) ==
    IF counts.both > acc.best.both /\ counts.g1 >= acc.best.g1
    THEN [map |-> trial, best |-> counts] ELSE acc

TryFloor(m, acc, f) ==
    IF f = None THEN acc
    ELSE LET trial == StoredFor(acc.map, f) IN Better(acc, trial, Predicted(m, trial))

\* The map of a recovery once the admitted events of the newest days are tried.
Accepted(m) ==
    LET due == RecoveryEvents(sym, bars, m)
        tried[n \in 0 .. m.fetch] ==
            IF n = 0 THEN [map |-> m, best |-> Predicted(m, m)]
            ELSE LET acc == tried[n - 1]
                     ex  == m.fetch + 1 - n
                 IN IF ex \notin due THEN acc ELSE TryFloor(m, acc, MeasuredFloor(acc.map, ex))
    IN tried[m.fetch].map

SyncFromMap(r) == IF amap = None THEN r ELSE ClaimFloors(r, amap)

\* _recover_one: what the record keeps of a recovery it ran, applied or not.
RecoverOne(r, events) == [r EXCEPT !.floors = ruling.floors, !.hunted = @ \/ events # {}]

StartRegate ==
    /\ pc = "idle" /\ count.runs < MaxRuns
    /\ rec # None
    /\ rec.status \notin Unlisted
    /\ count' = [count EXCEPT !.runs = @ + 1, !.done = "no", !.erred = FALSE]
    /\ LET t == Tally(sym, Today, bars)
           tries == amap # None /\ t.days - t.g1p >= MinCliffDays
           worked == IF tries THEN RecoverOne(rec, RecoveryEvents(sym, bars, amap)) ELSE rec
       IN \E map \in {IF tries THEN Accepted(amap) ELSE amap} :
            IF map # amap
            THEN /\ amap' = map
                 /\ job' = Rebuild(ClaimFloors(worked, map), map, FALSE, "resettle")
                 /\ pc' = "rebuild"
            ELSE /\ job' = Working(worked)
                 /\ pc' = "resettle"
                 /\ UNCHANGED amap
    /\ UNCHANGED <<sym, ruling, bars, ledger, rec, peers, halted, now>>

Resettle ==
    /\ pc = "resettle"
    /\ rec' = Settled(SyncFromMap(job.work))
    /\ job' = NoJob /\ pc' = "idle"
    /\ count' = [count EXCEPT !.done = "regate"]
    /\ UNCHANGED <<sym, ruling, bars, ledger, amap, peers, halted, now>>

Step ==
    \/ Plan \/ BuildMapForIngest \/ UseMap \/ RebuildDay \/ FetchWindow \/ WriteMonth
    \/ GateSymbol \/ Reroute \/ GateAgain \/ StartHunt \/ HuntOneRound \/ PromoteEras
    \/ Harvest \/ JudgeHunt \/ RecordSymbol \/ FinishPeers \/ Resettle

Next == StartRun \/ StartRegate \/ Step \/ Die \/ RulingMoves

Spec == Init /\ [][Next]_vars

(***************************************************************************)
(* Properties.                                                             *)
(***************************************************************************)
Statuses == Unlisted \cup {"settled", "quarantined", "map-required-but-unbuildable"}

TypeOK ==
    /\ DOMAIN bars \subseteq sym.candles
    /\ \A d \in DOMAIN bars : bars[d].p \in Int /\ bars[d].v \in Int
    /\ \A w \in DOMAIN ledger :
         /\ ledger[w].outcome \in {"present", "empty", "error"}
         /\ w <= ledger[w].end /\ ledger[w].end <= ledger[w].fetch
    /\ amap # None => /\ \A r \in amap.eras : r.key \subseteq amap.exs
                      /\ \A f, g \in amap.floors : f.ex = g.ex => f = g
    /\ rec # None => rec.status \in Statuses
    /\ (job.window # None) = (pc = "write")

(* What the ledger calls present is in the store, whatever was interrupted *)
(* between the candles' files and the ledger's; and a window it calls      *)
(* empty is one the vendor has nothing for: no failure, however often      *)
(* retried, is ever put down as an absence of candles                      *)
(* (smartapi_client._call_with_retry).                                     *)
LedgerIsTrue ==
    \A w \in DOMAIN ledger :
        LET days == (w .. ledger[w].end) \cap sym.candles
        IN /\ ledger[w].outcome = "present" => days \subseteq DOMAIN bars
           /\ ledger[w].outcome = "empty" => days = {}

\* What both per-day gates pass.
Usable(d) == Gate1(sym, bars, d) /\ Gate1P(sym, bars, d)

(* Applying the map to the stored days of a symbol a second time changes   *)
(* nothing, so a rebuild that was cut off may simply be run again; and no  *)
(* rebuild, under whatever map, table or half-rebuilt store, takes a day   *)
(* that passes both per-day gates out of them.                             *)
RebuildIsSafe ==
    [][pc = "rebuild" =>
        \A d \in DOMAIN bars :
            /\ RebuiltDay(sym, job.map, TableOf(d), d, Corrected(d)) = Corrected(d)
            /\ Usable(d) => Usable(d)']_vars

\* The last command ran to its end and left a row.
Finished == pc = "idle" /\ count.done = "run" /\ ~halted /\ rec # None

\* After runs that nobody killed a row counts what is stored: no pass has
\* rewritten a day after the gates were last run.
RowCountsItsStore ==
    Finished /\ count.deaths = 0 /\ rec.tally # None => rec.tally = Tally(sym, Today, bars)

\* A floor the row claims is in force in the map on disk, or the symbol is due
\* to be processed again.
ClaimsAreInForce ==
    Finished /\ rec.floorEvents # {} =>
        \/ amap # None /\ rec.floorEvents \subseteq {f.ex : f \in {g \in amap.floors : InForce(g)}}
        \/ NeedsReprocessing(rec, End)

(* The row of a symbol describes its store and its map, also when the last *)
(* run found the symbol done and skipped it.                               *)
RecordMatchesStore == RowCountsItsStore /\ ClaimsAreInForce

(* What un-skips a terminal symbol clears itself: a run that met no vendor *)
(* error leaves nothing owed, also after earlier runs were killed.         *)
SelfClearing ==
    Finished /\ ~count.erred => ~NeedsReprocessing(rec, End) \/ rec.status \notin Terminal

(***************************************************************************)
(* What the code's texts say and a run of it can break.                    *)
(***************************************************************************)
(* "interrupted -- ledger saved; the same command resumes at window        *)
(* granularity": the same end day run again leaves no window unfetched.    *)
SameCommandResumes ==
    Finished /\ End \in count.cut /\ rec.status \in {"settled", "quarantined"}
        => Pending(ledger, PlanWindows(Clamp, End)) = {}
=============================================================================
