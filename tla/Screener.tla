------------------------------- MODULE Screener -------------------------------
(***************************************************************************)
(* LiveScreener (src/src/acumen/live_screener.py): one trading day of the  *)
(* live loop.  At each quarter-hour boundary every symbol is polled, the   *)
(* day so far is evaluated from scratch, the alerts its state warrants are *)
(* recorded, remembered on disk and only then delivered.  The process may  *)
(* die between any two steps and be started again by the operator; what it *)
(* kept is state.json (`saved') and the append-only recording.             *)
(*                                                                         *)
(* Time is the number of sweep deadlines that have passed: the deadline of *)
(* boundary b lies before boundary b+1, so sweep b opens when b-1 deadlines*)
(* have passed and polls nobody once b have.  Boundary 1 is 11:15,         *)
(* SquareOffBoundary is 15:15 and the one after it the 15:30 poll that     *)
(* closes the day.                                                         *)
(*                                                                         *)
(* A symbol's candles are represented by what the pipeline reads off them: *)
(* a `reading'.  Module SignalDay shows how readings grow on a tape the    *)
(* vendor does not revise; a revision may change everything.               *)
(***************************************************************************)
EXTENDS Integers, Sequences, FiniteSets

CONSTANTS
  Symbols,            \* the universe
  Pocs,               \* the POCs a window can give
  Terms,              \* entry, stop, target and quantity of a trade
  ZeroQty,            \* the terms whose quantity rounds to zero
  None,               \* no POC, no terms
  SquareOffBoundary,  \* the boundary of 15:15
  MaxCrashes,         \* bound: deaths of the process
  MaxRevisions,       \* bound: candles the vendor changes, twin stamps
  MaxFaults           \* bound: failing writes, raising evaluations, raising sinks

ASSUME NoneAssumption == None \notin Pocs \cup Terms
ASSUME ZeroQtyAssumption == ZeroQty \subseteq Terms
ASSUME BoundaryAssumption == SquareOffBoundary \in Nat /\ SquareOffBoundary >= 3
ASSUME BoundAssumption ==
  MaxCrashes \in Nat /\ MaxRevisions \in Nat /\ MaxFaults \in Nat

PostSession == SquareOffBoundary + 1
Boundaries == 1..PostSession

VARIABLES
  pc,         \* where the loop is
  b,          \* the boundary being swept, or to be swept next
  todo,       \* symbols this pass of the sweep has still to handle
  missed,     \* symbols deferred by the first pass, then given up by the second
  unwatched,  \* symbols whose reply or evaluation raised
  outbox,     \* alerts of the symbol in hand, not yet through _deliver
  stage,      \* how far _deliver is with the first of them
  states, pins, alerted, sweepsDone, banner,   \* in memory, and in state.json
  tape, twins,                                 \* in memory: candles, duplicates
  saved,      \* state.json
  recorded,   \* the recording's candle files
  log,        \* the recording's alerts.jsonl
  sent,       \* what the sinks received
  clock, crashes, revisions, faults

sweep == <<todo, missed, unwatched, outbox, stage>>
persisted == <<states, pins, alerted, sweepsDone, banner>>
memory == <<persisted, tape, twins>>
disk == <<saved, recorded, log>>
budget == <<clock, crashes, revisions, faults>>
vars == <<pc, b, sweep, memory, disk, sent, budget>>

-----------------------------------------------------------------------------
(* Readings: what the pipeline sees in the candles in hand. *)

Reading(poc, sound, armed, at, terms, hit) ==
  [poc |-> poc,       \* the POC of the 09:15-11:14 window, None without candles
   sound |-> sound,   \* gate 2 finds no malformed candle
   armed |-> armed,   \* the walk ends armed
   at |-> at,         \* the boundary the trigger candle closes at, 0 if none
   terms |-> terms,   \* the trade's numbers
   hit |-> hit]       \* the level a later candle touched

NoCandles == Reading(None, TRUE, FALSE, 0, None, "none")

EntryBoundaries == 2..(SquareOffBoundary - 1)

Readings ==
  [poc : Pocs \cup {None}, sound : BOOLEAN, armed : BOOLEAN,
   at : {0} \cup EntryBoundaries, terms : Terms \cup {None},
   hit : {"none", "stop", "target"}]

(* The readings candles up to boundary n can give. *)
ReadingsAt(n) ==
  {r \in Readings :
     /\ r.at <= n
     /\ r.at = 0 <=> r.terms = None
     /\ r.at # 0 => r.armed
     /\ r.armed => r.poc # None
     /\ r.hit # "none" => r.at # 0 /\ r.at < n /\ r.terms \notin ZeroQty}

(* How a reading grows while the vendor only adds candles (SignalDay). *)
Extends(old, new) ==
  \/ old.poc = None /\ old.sound /\ new.sound
  \/ /\ new.poc = old.poc
     /\ new.sound = old.sound
     /\ old.armed => new.armed
     /\ old.at # 0 => new.at = old.at /\ new.terms = old.terms
     /\ old.hit # "none" => new.hit = old.hit

-----------------------------------------------------------------------------
(* Symbol states and alerts. *)

SymbolState(phase, refusal, poc, terms, exit) ==
  [phase |-> phase, refusal |-> refusal, poc |-> poc, terms |-> terms, exit |-> exit]

Waiting == SymbolState("waiting", "none", None, None, "none")
RefusedFor(reason) == SymbolState("refused", reason, None, None, "none")

(* PHASE_RANK, read off the label. *)
LabelRank(phase) ==
  CASE phase = "armed"                      -> 1
    [] phase \in {"triggered", "in-trade"}  -> 2
    [] phase = "exited"                     -> 3
    [] OTHER                                -> 0

(* _reached_rank, read off the content. *)
ReachedRank(st) ==
  IF st.exit # "none"        THEN 3
  ELSE IF st.terms # None    THEN 2
  ELSE IF st.refusal = "qty-zero" \/ st.phase = "armed" THEN 1
  ELSE 0

Key(sym, kind, stamp, terms, poc, exit) ==
  [sym |-> sym, kind |-> kind, stamp |-> stamp, terms |-> terms, poc |-> poc, exit |-> exit]

Alert(key, poc) == [key |-> key, poc |-> poc, correction |-> FALSE]

ArmedAlert(s, st) == Alert(Key(s, "armed", 0, None, st.poc, "none"), st.poc)

(* The trigger's identity takes its stamp from the fresh evaluation, the    *)
(* numbers from the state.                                                  *)
TriggerAlert(s, st, r) == Alert(Key(s, "trigger", r.at, st.terms, None, "none"), st.poc)

ExitAlert(s, st) ==
  Alert(Key(s, IF st.exit = "square-off" THEN "square-off" ELSE "exit",
            0, st.terms, None, st.exit), None)

UnmanagedAlert(s) == Alert(Key(s, "failure", 0, None, None, "none"), None)

BannerAlert(n) == Alert(Key("-", "failure", n, None, None, "none"), None)

(* Slip: alerts of the transition into a phase, which a missed sweep skips. *)
AlertsForChange(s, st, r) ==
  CASE st.phase = "armed"     -> <<ArmedAlert(s, st)>>
    [] st.phase = "triggered" -> <<TriggerAlert(s, st, r)>>
    [] st.phase = "exited"    -> <<ExitAlert(s, st)>>
    [] OTHER                  -> <<>>

(* _alerts_for: derived from the state, never from the transition. *)
AlertsFor(s, st, r) ==
  IF st.phase = "refused" /\ st.terms # None THEN <<UnmanagedAlert(s)>>
  ELSE (IF st.phase = "armed" THEN <<ArmedAlert(s, st)>>
        ELSE IF st.terms # None THEN <<TriggerAlert(s, st, r)>> ELSE <<>>)
       \o (IF st.phase = "exited" THEN <<ExitAlert(s, st)>> ELSE <<>>)

-----------------------------------------------------------------------------
(* What one evaluation makes of a symbol. *)

GateRefuses(s) == twins[s] \/ ~tape[s].sound

(* Slip: the POC of the candles in hand, pinned or not. *)
PocInHand(s) == IF GateRefuses(s) THEN None ELSE tape[s].poc

(* _profile: the pinned POC, else the window's, which a gate withholds. *)
PocInForce(s) ==
  IF pins[s] # None THEN pins[s]
  ELSE IF GateRefuses(s) THEN None ELSE tape[s].poc

Refusal(s) ==
  IF GateRefuses(s)              THEN "gate"
  ELSE IF PocInForce(s) = None   THEN "no-poc"
  ELSE "none"

(* A refused day keeps the numbers of a symbol whose LABEL says in trade. *)
AfterRefusal(s) ==
  IF LabelRank(states[s].phase) >= LabelRank("triggered")
    THEN [states[s] EXCEPT !.phase = "refused", !.refusal = Refusal(s)]
    ELSE RefusedFor(Refusal(s))

ExitOf(r) ==
  IF r.hit # "none"                THEN r.hit
  ELSE IF b >= SquareOffBoundary   THEN "square-off"
  ELSE "none"

Proposed(s) ==
  LET r == tape[s]
      phase == IF ExitOf(r) # "none" THEN "exited"
               ELSE IF r.at = b THEN "triggered" ELSE "in-trade"
      armed == IF r.armed THEN "armed" ELSE "waiting"
  IN  IF r.at = 0
        THEN SymbolState(armed, "none", PocInForce(s), None, "none")
      ELSE IF r.terms \in ZeroQty
        THEN SymbolState("refused", "qty-zero", PocInForce(s), None, "none")
      ELSE SymbolState(phase, "none", PocInForce(s), r.terms, ExitOf(r))

(* Slip: whatever the last evaluation says. *)
LatestWins(after, previous) == after

(* _monotonic: a state that walks backwards is not taken. *)
Monotonic(after, previous) ==
  IF ReachedRank(after) >= ReachedRank(previous) THEN after ELSE previous

StateFrom(s) ==
  IF Refusal(s) # "none" THEN AfterRefusal(s) ELSE Monotonic(Proposed(s), states[s])

(* A symbol refused for anything but a gate is not evaluated again. *)
IsTerminal(s) == states[s].phase = "refused" /\ states[s].refusal # "gate"

(* _mark_skipped, _intake_failed and _evaluation_failed relabel alike. *)
Skipped(st) ==
  IF st.phase \in {"refused", "exited"} THEN st ELSE [st EXCEPT !.phase = "skipped"]

SkipAll(S) == [s \in Symbols |-> IF s \in S THEN Skipped(states[s]) ELSE states[s]]

-----------------------------------------------------------------------------
(* Starting, resuming, dying. *)

Snapshot == [written |-> TRUE, states |-> states, pins |-> pins, alerted |-> alerted,
             sweepsDone |-> sweepsDone, banner |-> banner]

ForgetAll ==
  /\ states' = [s \in Symbols |-> Waiting]
  /\ pins' = [s \in Symbols |-> None]
  /\ alerted' = {} /\ sweepsDone' = {} /\ banner' = FALSE
  /\ tape' = [s \in Symbols |-> NoCandles]
  /\ twins' = [s \in Symbols |-> FALSE]

EmptySweep ==
  /\ todo' = {} /\ missed' = {} /\ unwatched' = {}
  /\ outbox' = <<>> /\ stage' = "check"

Init ==
  /\ pc = "down" /\ b = 1
  /\ todo = {} /\ missed = {} /\ unwatched = {}
  /\ outbox = <<>> /\ stage = "check"
  /\ states = [s \in Symbols |-> Waiting]
  /\ pins = [s \in Symbols |-> None]
  /\ alerted = {} /\ sweepsDone = {} /\ banner = FALSE
  /\ tape = [s \in Symbols |-> NoCandles]
  /\ twins = [s \in Symbols |-> FALSE]
  /\ saved = [Snapshot EXCEPT !.written = FALSE]
  /\ recorded = [s \in Symbols |->
                   [tape |-> NoCandles, sweeps |-> {}, again |-> FALSE, served |-> FALSE]]
  /\ log = <<>> /\ sent = <<>>
  /\ clock = 0 /\ crashes = 0 /\ revisions = 0 /\ faults = 0

(* A duplicate is a stamp recorded twice under one sweep label. *)
RecordedTwins(s) == recorded[s].again \/ recorded[s].served

(* run_screener.main: restore() when state.json exists, then run_day from   *)
(* the first boundary.                                                      *)
Start ==
  /\ pc = "down"
  /\ pc' = "ready"
  /\ IF saved.written
       THEN /\ states' = saved.states /\ pins' = saved.pins
            /\ alerted' = saved.alerted /\ sweepsDone' = saved.sweepsDone
            /\ banner' = saved.banner
            /\ tape' = [s \in Symbols |-> recorded[s].tape]
            /\ twins' = [s \in Symbols |-> RecordedTwins(s)]
       ELSE UNCHANGED memory
  /\ UNCHANGED <<b, sweep, disk, sent, budget>>

Polling == pc \in {"first", "second"}
DeadlinePassed == clock >= b

Die ==
  /\ pc' = "down" /\ b' = 1
  /\ EmptySweep
  /\ ForgetAll

Crash ==
  /\ pc \notin {"down", "closed"}
  /\ crashes < MaxCrashes
  /\ crashes' = crashes + 1
  /\ Die
  /\ UNCHANGED <<disk, sent, clock, revisions, faults>>

(* A sweep polls nobody after its deadline, so it does not run into the     *)
(* next one; only a dead process lets several deadlines pass.               *)
Tick ==
  /\ clock < PostSession
  /\ \/ pc = "down"
     \/ pc = "ready" /\ clock < b - 1
     \/ Polling /\ clock < b
  /\ clock' = clock + 1
  /\ UNCHANGED <<pc, b, sweep, memory, disk, sent, crashes, revisions, faults>>

-----------------------------------------------------------------------------
(* The polls of one sweep. *)

OpenSweep ==
  /\ pc = "ready" /\ clock >= b - 1
  /\ pc' = "first"
  /\ todo' = Symbols
  /\ UNCHANGED <<b, missed, unwatched, outbox, stage, memory, disk, sent, budget>>

(* The recording with one more reply under this sweep's label. *)
Taken(s, r, twin) ==
  [recorded EXCEPT ![s] =
     [tape |-> r, sweeps |-> @.sweeps \cup {b},
      again |-> @.again \/ b \in @.sweeps, served |-> @.served \/ twin]]

(* A reply is merged, then appended under the sweep's label. *)
PollAnswered(s) ==
  /\ Polling /\ ~DeadlinePassed /\ s \in todo
  /\ \E r \in ReadingsAt(b), twin \in BOOLEAN :
       LET revised == ~Extends(tape[s], r) \/ twin
       IN  /\ revised => revisions < MaxRevisions
           /\ revisions' = IF revised THEN revisions + 1 ELSE revisions
           /\ tape' = [tape EXCEPT ![s] = r]
           /\ twins' = [twins EXCEPT ![s] = @ \/ twin]
           /\ recorded' = Taken(s, r, twin)
  /\ todo' = todo \ {s}
  /\ UNCHANGED <<pc, b, missed, unwatched, outbox, stage, persisted, saved, log, sent,
                 clock, crashes, faults>>

(* No reply, or an empty one, after the short retries. *)
PollUnanswered(s) ==
  /\ Polling /\ ~DeadlinePassed /\ s \in todo
  /\ todo' = todo \ {s}
  /\ missed' = missed \cup {s}
  /\ UNCHANGED <<pc, b, unwatched, outbox, stage, memory, disk, sent, budget>>

(* The reply came, and taking it in raised before or after it was recorded: *)
(* its twins are remembered last, so they may be on the disk alone.         *)
PollUnreadable(s) ==
  /\ Polling /\ ~DeadlinePassed /\ s \in todo
  /\ faults < MaxFaults
  /\ faults' = faults + 1
  /\ \E r \in ReadingsAt(b) :
       /\ Extends(tape[s], r)
       /\ tape' = [tape EXCEPT ![s] = r]
       /\ recorded' \in {recorded} \cup {Taken(s, r, twin) : twin \in BOOLEAN}
  /\ todo' = todo \ {s}
  /\ unwatched' = unwatched \cup {s}
  /\ states' = SkipAll({s})
  /\ UNCHANGED <<pc, b, missed, outbox, stage, pins, alerted, sweepsDone, banner, twins,
                 saved, log, sent, clock, crashes, revisions>>

HitDeadline ==
  /\ Polling /\ DeadlinePassed /\ todo # {}
  /\ missed' = missed \cup todo
  /\ todo' = {}
  /\ UNCHANGED <<pc, b, unwatched, outbox, stage, memory, disk, sent, budget>>

(* The deferred symbols are polled once more at the end of the sweep. *)
SecondPass ==
  /\ pc = "first" /\ todo = {}
  /\ pc' = "second"
  /\ todo' = missed
  /\ missed' = {}
  /\ UNCHANGED <<b, unwatched, outbox, stage, memory, disk, sent, budget>>

(* Slip: wait until everybody has answered. *)
EndOfPollsWhenAll ==
  /\ pc = "second" /\ todo = {} /\ missed = {}
  /\ pc' = "evaluate"
  /\ todo' = Symbols \ unwatched
  /\ UNCHANGED <<b, missed, unwatched, outbox, stage, memory, disk, sent, budget>>

EndOfPolls ==
  /\ pc = "second" /\ todo = {}
  /\ pc' = "evaluate"
  /\ todo' = Symbols \ (missed \cup unwatched)
  /\ UNCHANGED <<b, missed, unwatched, outbox, stage, memory, disk, sent, budget>>

-----------------------------------------------------------------------------
(* The evaluations of one sweep. *)

EvaluateTerminal(s) ==
  /\ pc = "evaluate" /\ outbox = <<>> /\ s \in todo
  /\ IsTerminal(s)
  /\ todo' = todo \ {s}
  /\ UNCHANGED <<pc, b, missed, unwatched, outbox, stage, memory, disk, sent, budget>>

Evaluate(s) ==
  /\ pc = "evaluate" /\ outbox = <<>> /\ s \in todo
  /\ ~IsTerminal(s)
  /\ todo' = todo \ {s}
  /\ pins' = [pins EXCEPT ![s] = PocInForce(s)]
  /\ states' = [states EXCEPT ![s] = StateFrom(s)]
  /\ outbox' = AlertsFor(s, StateFrom(s), tape[s])
  /\ UNCHANGED <<pc, b, missed, unwatched, stage, alerted, sweepsDone, banner, tape, twins,
                 disk, sent, budget>>

(* It may raise before the POC is pinned or after. *)
EvaluationRaises(s) ==
  /\ pc = "evaluate" /\ outbox = <<>> /\ s \in todo
  /\ ~IsTerminal(s)
  /\ faults < MaxFaults
  /\ faults' = faults + 1
  /\ todo' = todo \ {s}
  /\ unwatched' = unwatched \cup {s}
  /\ states' = SkipAll({s})
  /\ pins' \in {pins, [pins EXCEPT ![s] = PocInForce(s)]}
  /\ UNCHANGED <<pc, b, missed, outbox, stage, alerted, sweepsDone, banner, tape, twins,
                 disk, sent, clock, crashes, revisions>>

-----------------------------------------------------------------------------
(* _deliver, one alert at a time: dedup, record, remember on disk, deliver. *)

Alert1 == Head(outbox)
InHand(where) == outbox # <<>> /\ stage = where

(* Slip: only an alert with the same identity is superseded. *)
SupersededBySame(key) == key \in alerted

Superseded(key) == \E prior \in alerted : prior.sym = key.sym /\ prior.kind = key.kind

(* Slip: the identity of the answer without the symbol's. *)
IsNewsToAnyone(key) ==
  /\ ~\E prior \in alerted : [prior EXCEPT !.sym = key.sym] = key
  /\ b # PostSession

IsNews(key) == key \notin alerted /\ b # PostSession

(* Nothing new, or too late to act on: neither recorded nor delivered. *)
Withhold ==
  /\ InHand("check") /\ ~IsNews(Alert1.key)
  /\ outbox' = Tail(outbox)
  /\ UNCHANGED <<pc, b, todo, missed, unwatched, stage, memory, disk, sent, budget>>

(* Slip: recorded first, then marked as a correction. *)
RecordUnmarked ==
  /\ InHand("check") /\ IsNews(Alert1.key)
  /\ log' = Append(log, Alert1)
  /\ outbox' = <<[Alert1 EXCEPT !.correction = Superseded(Alert1.key)]>> \o Tail(outbox)
  /\ stage' = "remember"
  /\ UNCHANGED <<pc, b, todo, missed, unwatched, memory, saved, recorded, sent, budget>>

RecordAlert ==
  /\ InHand("check") /\ IsNews(Alert1.key)
  /\ LET alert == [Alert1 EXCEPT !.correction = Superseded(Alert1.key)]
     IN  /\ log' = Append(log, alert)
         /\ outbox' = <<alert>> \o Tail(outbox)
  /\ stage' = "remember"
  /\ UNCHANGED <<pc, b, todo, missed, unwatched, memory, saved, recorded, sent, budget>>

(* Slip: remembered in memory, on disk at the end of the sweep. *)
RememberInMemory ==
  /\ InHand("remember")
  /\ alerted' = alerted \cup {Alert1.key}
  /\ stage' = "deliver"
  /\ UNCHANGED <<pc, b, todo, missed, unwatched, outbox, states, pins, sweepsDone,
                 banner, tape, twins, disk, sent, budget>>

RememberAlert ==
  /\ InHand("remember")
  /\ alerted' = alerted \cup {Alert1.key}
  /\ saved' = [Snapshot EXCEPT !.alerted = alerted']
  /\ stage' = "deliver"
  /\ UNCHANGED <<pc, b, todo, missed, unwatched, outbox, states, pins, sweepsDone,
                 banner, tape, twins, recorded, log, sent, budget>>

DeliverAlert ==
  /\ InHand("deliver")
  /\ sent' = Append(sent, Alert1)
  /\ outbox' = Tail(outbox)
  /\ stage' = "check"
  /\ UNCHANGED <<pc, b, todo, missed, unwatched, memory, disk, budget>>

(* A sink that raises is an event in the recording and no more. *)
SinkRaises ==
  /\ InHand("deliver")
  /\ faults < MaxFaults /\ faults' = faults + 1
  /\ outbox' = Tail(outbox)
  /\ stage' = "check"
  /\ UNCHANGED <<pc, b, todo, missed, unwatched, memory, disk, sent, clock, crashes,
                 revisions>>

(* A write that fails ends the symbol's evaluation; under the banner's alert *)
(* nothing catches it and it ends the process.                               *)
WriteFails ==
  /\ \/ InHand("check") /\ IsNews(Alert1.key)
     \/ InHand("remember")
  /\ faults < MaxFaults /\ faults' = faults + 1
  /\ IF pc = "evaluate"
       THEN /\ alerted' = IF stage = "remember" THEN alerted \cup {Alert1.key} ELSE alerted
            /\ states' = SkipAll({Alert1.key.sym})
            /\ unwatched' = unwatched \cup {Alert1.key.sym}
            /\ outbox' = <<>> /\ stage' = "check"
            /\ UNCHANGED <<pc, b, todo, missed, pins, sweepsDone, banner, tape, twins>>
       ELSE Die
  /\ UNCHANGED <<disk, sent, clock, crashes, revisions>>

-----------------------------------------------------------------------------
(* The end of one sweep. *)

Complete == missed = {} /\ unwatched = {}

SettleBanner ==
  /\ pc = "evaluate" /\ todo = {} /\ outbox = <<>>
  /\ pc' = "closing"
  /\ states' = SkipAll(missed)
  /\ banner' = ~Complete
  /\ outbox' = IF Complete THEN <<>> ELSE <<BannerAlert(b)>>
  /\ UNCHANGED <<b, todo, missed, unwatched, stage, pins, alerted, sweepsDone, tape,
                 twins, disk, sent, budget>>

(* Slip: no last boundary. *)
CloseSweepOnwards ==
  /\ pc = "closing" /\ outbox = <<>>
  /\ sweepsDone' = sweepsDone \cup {b}
  /\ saved' = [Snapshot EXCEPT !.sweepsDone = sweepsDone']
  /\ pc' = "ready" /\ b' = b + 1
  /\ todo' = {} /\ missed' = {} /\ unwatched' = {}
  /\ UNCHANGED <<outbox, stage, states, pins, alerted, banner, tape, twins, recorded,
                 log, sent, budget>>

CloseSweep ==
  /\ pc = "closing" /\ outbox = <<>>
  /\ sweepsDone' = sweepsDone \cup {b}
  /\ saved' = [Snapshot EXCEPT !.sweepsDone = sweepsDone']
  /\ IF b = PostSession THEN pc' = "closed" /\ UNCHANGED b
                        ELSE pc' = "ready" /\ b' = b + 1
  /\ todo' = {} /\ missed' = {} /\ unwatched' = {}
  /\ UNCHANGED <<outbox, stage, states, pins, alerted, banner, tape, twins, recorded,
                 log, sent, budget>>

-----------------------------------------------------------------------------
Poll(s) == PollAnswered(s) \/ PollUnanswered(s) \/ PollUnreadable(s)

EvaluateOne(s) == EvaluateTerminal(s) \/ Evaluate(s) \/ EvaluationRaises(s)

Deliver ==
  \/ Withhold \/ RecordAlert \/ RememberAlert \/ DeliverAlert
  \/ SinkRaises \/ WriteFails

Step ==
  \/ Start \/ OpenSweep
  \/ \E s \in Symbols : Poll(s) \/ EvaluateOne(s)
  \/ HitDeadline \/ SecondPass \/ EndOfPolls
  \/ Deliver
  \/ SettleBanner \/ CloseSweep

Next == Step \/ Tick \/ Crash

Spec == Init /\ [][Next]_vars

(* The loop runs on, time passes, and the operator restarts a dead process. *)
FairSpec == Spec /\ WF_vars(Step) /\ WF_vars(Tick)

-----------------------------------------------------------------------------
(* Properties. *)

Phases == {"waiting", "armed", "triggered", "in-trade", "exited", "refused", "skipped"}
Refusals == {"none", "gate", "no-poc", "qty-zero"}
ExitKinds == {"none", "stop", "target", "square-off"}
SymbolStates ==
  [phase : Phases, refusal : Refusals, poc : Pocs \cup {None},
   terms : Terms \cup {None}, exit : ExitKinds]
Keys ==
  [sym : Symbols \cup {"-"},
   kind : {"armed", "trigger", "exit", "square-off", "failure"},
   stamp : 0..PostSession, terms : Terms \cup {None}, poc : Pocs \cup {None},
   exit : ExitKinds]
Alerts == [key : Keys, poc : Pocs \cup {None}, correction : BOOLEAN]

ControlOK ==
  /\ pc \in {"down", "ready", "first", "second", "evaluate", "closing", "closed"}
  /\ b \in Boundaries
  /\ todo \subseteq Symbols /\ missed \subseteq Symbols /\ unwatched \subseteq Symbols
  /\ stage \in {"check", "remember", "deliver"}

MemoryOK ==
  /\ states \in [Symbols -> SymbolStates]
  /\ pins \in [Symbols -> Pocs \cup {None}]
  /\ alerted \subseteq Keys /\ sweepsDone \subseteq Boundaries /\ banner \in BOOLEAN

TapeOK ==
  /\ tape \in [Symbols -> Readings]
  /\ twins \in [Symbols -> BOOLEAN]

Snapshots ==
  [written : BOOLEAN, states : [Symbols -> SymbolStates],
   pins : [Symbols -> Pocs \cup {None}], alerted : SUBSET Keys,
   sweepsDone : SUBSET Boundaries, banner : BOOLEAN]

Recordings ==
  [tape : Readings, sweeps : SUBSET Boundaries, again : BOOLEAN, served : BOOLEAN]

DiskOK == saved \in Snapshots /\ recorded \in [Symbols -> Recordings]

AlertsOK == outbox \in Seq(Alerts) /\ log \in Seq(Alerts) /\ sent \in Seq(Alerts)

BudgetOK ==
  /\ clock \in 0..PostSession
  /\ crashes \in 0..MaxCrashes /\ revisions \in 0..MaxRevisions
  /\ faults \in 0..MaxFaults

(* The variables have their types. *)
TypeOK == ControlOK /\ MemoryOK /\ TapeOK /\ DiskOK /\ AlertsOK /\ BudgetOK

Indices(seq) == 1..Len(seq)

(* No alert reaches the phone twice, whatever dies and is restarted in      *)
(* between: _deliver remembers the key on disk before it calls a sink.      *)
SentOnce ==
  \A m, n \in Indices(sent) : sent[m].key = sent[n].key => m = n

(* What reached the phone is in alerts.jsonl, correction mark included.     *)
SentIsRecorded ==
  \A n \in Indices(sent) : \E m \in Indices(log) : log[m] = sent[n]

(* All alerts a symbol's trader receives quote one POC, although a crash    *)
(* between pinning and saving may pin another one: CONTEXT 3.3 fixes the    *)
(* POC for the day.                                                         *)
OnePocQuoted ==
  \A m, n \in Indices(sent) :
    /\ sent[m].key.sym = sent[n].key.sym
    /\ sent[m].poc # None /\ sent[n].poc # None
    => sent[m].poc = sent[n].poc

(* Of two alerts of a symbol and kind the later says it is a correction,    *)
(* also when the earlier went out before a restart.                         *)
SecondThoughtsAreMarked ==
  \A m, n \in Indices(sent) :
    /\ m < n
    /\ sent[m].key.sym = sent[n].key.sym
    /\ sent[m].key.kind = sent[n].key.kind
    => sent[n].correction

(* An exit is recorded only after the trigger whose numbers it closes.      *)
ExitFollowsTrigger ==
  \A n \in Indices(log) :
    log[n].key.kind \in {"exit", "square-off"} =>
      \E m \in 1..(n - 1) : /\ log[m].key.kind = "trigger"
                            /\ log[m].key.sym = log[n].key.sym
                            /\ log[m].key.terms = log[n].key.terms

(* Between sweeps every open position the screener shows has been announced *)
(* with its numbers, and every exit as the exit it is, or the failure       *)
(* banner stands: alerts derived from the state heal whatever a missed      *)
(* poll, a deadline, a failed write or a restart lost.  Of exits this is    *)
(* promised once a sweep has closed: what a dead process saved in the       *)
(* middle of one may show an exit whose record failed.                      *)
ShownIsAnnounced ==
  \A s \in Symbols :
    LET opened == \E n \in Indices(log) : /\ log[n].key.kind = "trigger"
                                         /\ log[n].key.sym = s
                                         /\ log[n].key.terms = states[s].terms
        ended  == \E n \in Indices(log) : log[n].key = ExitAlert(s, states[s]).key
    IN  pc = "ready" =>
          /\ states[s].phase \in {"triggered", "in-trade"} => opened
          /\ states[s].phase = "exited" /\ ~banner /\ b > 1 => opened /\ ended

(* A position or an exit is only lost to a refusal (or with the process):   *)
(* no revision of the feed and no missed sweep walks it backwards.          *)
OnlyRefusalsWalkBack ==
  [][\A s \in Symbols :
       /\ ReachedRank(states[s]) >= LabelRank("triggered")
       /\ ReachedRank(states'[s]) < ReachedRank(states[s])
       => pc' = "down" \/ states'[s].phase = "refused"]_vars

(* The day is swept to its end, whatever the vendor answers or fails to.    *)
DayCloses == <>(pc = "closed")
=============================================================================
